SPECIFICATION Spec
CONSTANTS
  Processes = {p1, p2}
  Creates <- MCCreates
  Upgrades <- MCUpgrades
  Rerunnable <- MCRerunnable
  Standalone <- MCStandalone
  MaxScripts = 5
  None = None
SYMMETRY Symmetry
PROPERTIES WholeMigrations ForcedFresh
CHECK_DEADLOCK FALSE

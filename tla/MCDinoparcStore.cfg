SPECIFICATION Spec
SYMMETRY Symmetry
CONSTANTS
  Calls = {c1, c2, c3}
  MaxNow = 2
  None = None
  a = a
  b = b
  x = x
  y = y
  v = v
  w = w
  MAX_SIDEBAR_DINOZ_COUNT = 2
  DinoparcResponses <- MCResponses
  Programs <- MCPrograms
  Ids <- DinoparcIds
  Datas <- DinoparcDatas
  Watched = {"dinoparc_users", "dinoparc_user_dinoz_counts", "dinoparc_user_dinoz", "dinoparc_dinoz_owners", "dinoparc_item_count_maps", "dinoparc_dinoz"}
INVARIANTS OneValueAtATime RetrievedInPeriod ListsAsSeen ListedIsOwned
PROPERTIES HistoryKept Serializable
CHECK_DEADLOCK FALSE

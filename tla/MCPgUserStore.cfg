\* Two users, two concurrent calls, three instants.
CONSTANTS
  Users = {u1, u2}
  Names = {a, b}
  Usernames = {n1}
  Calls = {c1, c2}
  MaxNow = 2
  NameLock = 2
  UsernameLock = 2
  None = None
  Forever = Forever
SPECIFICATION Spec
SYMMETRY Symmetry
INVARIANTS UsernamesExclusive GaplessHistory ChangesApart

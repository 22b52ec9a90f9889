SPECIFICATION FairSpec
CONSTANTS
  Calls = {c1, c2}
  MaxNow = 2
  None = None
  a = a
  b = b
  g = g
  x = x
  y = y
  v = v
  HammerfestResponses <- MCResponses
  Programs <- MCPrograms
  Ids <- HammerfestIds
  Datas <- HammerfestDatas
  Watched = {"hammerfest_users", "hammerfest_godchild_lists", "hammerfest_godchildren", "hammerfest_forum_theme_threads", "hammerfest_forum_roles", "hammerfest_emails"}
INVARIANTS GodchildrenLeave RowsAreChanges
PROPERTY EveryCallEnds
CHECK_DEADLOCK FALSE

SPECIFICATION Spec
CONSTANTS
  Calls = {c1, c2}
  MaxNow = 2
  None = None
  a = a
  b = b
  g = g
  x = x
  y = y
  v = v
  HammerfestResponses <- MCResponses
  Programs <- MCPrograms
  Ids <- HammerfestIds
  Datas <- HammerfestDatas
  Watched = {"hammerfest_forum_theme_threads"}
INVARIANT ThreadsInvalidated
CHECK_DEADLOCK FALSE

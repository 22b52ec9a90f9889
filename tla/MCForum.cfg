SPECIFICATION Spec
CONSTANTS
  Calls = {c1, c2}
  admin = admin
  member = member
  main = main
  n1 = n1
  n2 = n2
  hello = hello
  bye = bye
  Users = {admin, member}
  Admins = {admin}
  Keys = {main}
  Names = {n1, n2}
  Texts = {hello, bye}
  Requests <- MCRequests
  PageSize = 1
  MaxNow = 1
  MaxThreads = 2
  MaxPosts = 2
  MaxRevisions = 3
  None = None
  Same = Same
SYMMETRY Symmetry
INVARIANTS SectionsAnswered PagesSkipNothing TracedModeration
PROPERTY ModerationStands
CHECK_DEADLOCK FALSE

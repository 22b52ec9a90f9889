SPECIFICATION MCSpec
SYMMETRY Symmetry
CONSTANTS
  Users = {l1, l2}
  Servers = {fr}
  RemoteIds = {r1, r2}
  MaxTime = 2
  MaxOld = 1
  NoLink = NoLink
  Nobody = Nobody
  SessionKeys = {k1, k2, k3}
  GameUsers = {u1, u2, u3}
  TwinoidTokens = {k1, k2, k3}
  TwinoidPlayers = {u1, u2}
  Absent = Absent
  None = None
  MaxNow = 2
  alice = alice
  bob = bob
  rex = rex
  zed = zed
  n1 = n1
  a1 = a1
  a2 = a2
  t1 = t1
  t2 = t2
  t3 = t3
  th = th
  UserIds = {i1, i2}
  Usernames = {n1, n2}
  Emails = {e1}
  DisplayNames = {a1, a2}
  USERNAME_LOCK_DURATION = 1
  USER_DISPLAY_NAME_LOCK_DURATION = 2
  Players = {alice, bob}
  Dinoz = {rex, zed}
  Sidebar = 2
  Pages <- MCPages
  Accounts = {alice, bob}
  Keys = {k1}
  GameDinoz = {rex, zed}
  DinozNames = {"Rex"}
  Server = "fr"
  Facts <- MCFacts
  Belongings <- MCBelongings
  NoAccount = NoAccount
  RewardCells = 2
  NoLogin = NoLogin
  NoReply = NoReply
  Lang = "fr"
  HfUsers = {alice, bob}
  Account <- MCAccount
  ForumTheme <- MCForumTheme
  PublicThemes = {th}
  ThreadIds = {t1, t2, t3}
  StickyThreads = {t1}
  Starters <- MCStarters
  MaxReplies = 1
  MaxDay = 2
  Guest = Guest
  NoAnswer = NoAnswer
  HfIds = {alice, bob}
  HfNames = {n1}
  HfPasswords = {p1}
  HfKeys = {k1, k2}
  ThemeIds = {th}
  HfThreads = {t1, t2}
  MaxMessages = 2
  DpIds = {alice, bob}
  DpNames = {n1, n2}
  DpPasswords = {p1, p2}
  DpKeys = {k1, k2}
  ClientIds = {i1, i2}
  ClientKeys = {k1, k2}
  Callbacks = {u1, u2}
  ClientSecrets = {s1, s2}
  TokenKeys = {t1}
  SessionIds = {i1}
  Owners = {alice}
INVARIANT TokensFound
CHECK_DEADLOCK FALSE

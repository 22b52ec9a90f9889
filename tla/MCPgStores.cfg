\* Two concurrent calls about two users and two remote users or keys; two
\* instants for the links and for the tokens of Twinoid, three for the sessions
\* of the game.
CONSTANTS
  Etwins = {u1, u2}
  Servers = {s1}
  RemoteIds = {k1, k2}
  LinkCalls = {c1, c2}
  MaxTime = 1
  NoUser = NoUser
  Forever = Forever
  NoRequest = NoRequest
  t1 = t1
  t2 = t2
  p1 = p1
  p2 = p2
  Keys = {k1, k2}
  Users = {u1, u2}
  Calls = {c1, c2}
  MaxNow = 2
  None = None
  Grants <- MCGrants
  OauthCalls = {c1, c2}
  Validity = 1
  LastInstant = 1
SPECIFICATION MCSpec
SYMMETRY Symmetry
INVARIANT TokensAgree
PROPERTIES ImplementsLinkSpec HistoryImmutable

\* Two concurrent requests, two accounts, one game user, one username,
\* no email address, in memory: no foreign keys; two requesters, two clients and two
\* addresses for the tokens.
SPECIFICATION MCSpec
CONSTANTS
  Users = {a1, a2}
  Remotes = {r1}
  Usernames = {n1}
  Emails = {}
  Calls = {c1, c2}
  ForeignKeys = FALSE
  None = None
  Requesters = {c1, c2}
  Addresses = {m1, m2}
  k1 = k1
  k2 = k2
  u1 = u1
  u2 = u2
  s1 = s1
  s2 = s2
  Keys = {k1, k2}
  Uris = {u1, u2}
  Secrets = {s1, s2}
  Configs <- MCConfigs
  MailValidity = 1
  CodeValidity = 1
  MaxNow = 2
  MaxMails = 2
  MaxUsers = 2
  MaxCodes = 2
  MaxTokens = 1
  NoUri = NoUri
SYMMETRY Symmetry
INVARIANT ProfilesResolve
CHECK_DEADLOCK FALSE

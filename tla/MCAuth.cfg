\* Two concurrent requests, three accounts, one game user, one username and
\* one email address, in PostgreSQL; two requesters, two clients and two
\* addresses for the tokens.
SPECIFICATION MCSpec
CONSTANTS
  Users = {a1, a2, a3}
  Remotes = {r1}
  Usernames = {n1}
  Emails = {e1}
  Calls = {c1, c2}
  ForeignKeys = TRUE
  None = None
  Requesters = {c1, c2}
  Addresses = {m1, m2}
  k1 = k1
  k2 = k2
  u1 = u1
  u2 = u2
  s1 = s1
  s2 = s2
  Keys = {k1, k2}
  Uris = {u1, u2}
  Secrets = {s1, s2}
  Configs <- MCConfigs
  MailValidity = 1
  CodeValidity = 1
  MaxNow = 2
  MaxMails = 2
  MaxUsers = 2
  MaxCodes = 2
  MaxTokens = 1
  NoUri = NoUri
SYMMETRY Symmetry
INVARIANTS RightfulSession AdministratorExists ClientsAnswered AccessGranted
CHECK_DEADLOCK FALSE

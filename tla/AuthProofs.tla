----------------------------- MODULE AuthProofs -----------------------------
(***************************************************************************)
(* What the interleaving of the requests of the auth service cannot break, *)
(* for any number of users, clients and requests.  Sessions go to the      *)
(* rightful users, whose names are unique, and an administrator is there;  *)
(* every access token goes back to a registered user who let its client    *)
(* in, and every running server has the client of its configuration.       *)
(***************************************************************************)
EXTENDS AuthService, AuthTokens, TLAPS

(* Where a request stands, and what it may rely on from its earlier calls. *)
WithUser  == {"touchRemote", "touchLink", "getUser", "openSession", "answered"}
WithLogin == {"openSession", "answered"}
AboutGame == {"getLink", "touchRemote", "touchLink", "deleteLink"}
Entering  == {"getUser", "openSession", "answered"}

RequestOK(c) ==
  /\ req[c].pc # "idle" => req[c].login # None
  /\ req[c].pc \in AboutGame => req[c].login \in Remotes
  /\ req[c].pc \in WithUser => req[c].user \in Users
  /\ \/ req[c].pc \in WithLogin
     \/ req[c].pc \in Entering /\ req[c].login \notin Remotes
     => req[c].user \in created
  /\ req[c].pc # "idle" => Holders(req[c].login) \subseteq held[c]
  /\ req[c].pc \in Entering =>
       IF req[c].login \in Remotes THEN req[c].user \in held[c]
                                   ELSE name[req[c].user] = req[c].login
  /\ req[c].pc = "commit" /\ ~req[c].admin => admins # {}

SessionUsersExist == sessions \subseteq created

Inv == /\ TypeOK
       /\ \A c \in Calls : RequestOK(c)
       /\ SessionUsersExist
       /\ UniqueNames
       /\ AdministratorExists

-----------------------------------------------------------------------------
(* The request records the actions write.                                  *)
LEMMA Requests ==
  /\ \A pc \in PC, r \in Remotes \cup Names, u, a \in Users \cup {None} :
       NewRequest(pc, r, u, a) \in Request
  /\ IdleRequest \in Request /\ IdleRequest.pc = "idle"
  /\ \A pc, r, u, a : /\ NewRequest(pc, r, u, a).pc = pc
                      /\ NewRequest(pc, r, u, a).login = r
                      /\ NewRequest(pc, r, u, a).user = u
BY DEF NewRequest, IdleRequest, Request, PC

LEMMA ContinueFacts ==
  ASSUME TypeOK, NEW c \in Calls, NEW pc \in PC, Continue(c, pc)
  PROVE  /\ req' \in [Calls -> Request]
         /\ \A d \in Calls \ {c} : req'[d] = req[d]
         /\ req'[c].pc = pc /\ req'[c].login = req[c].login
         /\ req'[c].user = req[c].user /\ req'[c].admin = req[c].admin
         /\ held' = held
<1> DEFINE q == [req[c] EXCEPT !.pc = pc]
<1>1. /\ q \in Request
      /\ q.pc = pc /\ q.login = req[c].login /\ q.user = req[c].user
      /\ q.admin = req[c].admin
  BY DEF TypeOK, Request
<1>2. req' = [req EXCEPT ![c] = q] /\ held' = held
  BY DEF Continue, Become
<1> HIDE DEF q
<1>3. req'[c] = q
  BY <1>2 DEF TypeOK
<1>4. QED
  BY <1>1, <1>2, <1>3 DEF TypeOK

LEMMA ContinueAsFacts ==
  ASSUME TypeOK, NEW c \in Calls, NEW pc \in PC, NEW u \in Users,
         ContinueAs(c, pc, u)
  PROVE  /\ req' \in [Calls -> Request]
         /\ \A d \in Calls \ {c} : req'[d] = req[d]
         /\ req'[c].pc = pc /\ req'[c].login = req[c].login
         /\ req'[c].user = u
         /\ held' = held
<1> DEFINE q == [req[c] EXCEPT !.pc = pc, !.user = u]
<1>1. q \in Request /\ q.pc = pc /\ q.login = req[c].login /\ q.user = u
  BY DEF TypeOK, Request
<1>2. req' = [req EXCEPT ![c] = q] /\ held' = held
  BY DEF ContinueAs, Become
<1> HIDE DEF q
<1>3. req'[c] = q
  BY <1>2 DEF TypeOK
<1>4. QED
  BY <1>1, <1>2, <1>3 DEF TypeOK

LEMMA FinishFacts ==
  ASSUME TypeOK, NEW c \in Calls, Finish(c)
  PROVE  /\ req' \in [Calls -> Request]
         /\ \A d \in Calls \ {c} : req'[d] = req[d]
         /\ req'[c].pc = "idle"
         /\ held' \in [Calls -> SUBSET Users]
         /\ \A d \in Calls \ {c} : held'[d] = held[d]
<1>1. req' = [req EXCEPT ![c] = IdleRequest] /\ held' = [held EXCEPT ![c] = {}]
  BY DEF Finish, Become
<1>2. req'[c] = IdleRequest
  BY <1>1 DEF TypeOK
<1>3. QED
  BY <1>1, <1>2, Requests DEF TypeOK

LEMMA StartFacts ==
  ASSUME TypeOK, NEW c \in Calls, NEW pc \in PC, NEW r \in Remotes \cup Names,
         NEW u \in Users \cup {None}, NEW a \in Users \cup {None},
         Start(c, pc, r, u, a)
  PROVE  /\ req' \in [Calls -> Request]
         /\ \A d \in Calls \ {c} : req'[d] = req[d]
         /\ req'[c].pc = pc /\ req'[c].login = r /\ req'[c].user = u
         /\ held' \in [Calls -> SUBSET Users]
         /\ held'[c] = Holders(r)
         /\ \A d \in Calls \ {c} : held'[d] = held[d]
<1> DEFINE q == NewRequest(pc, r, u, a)
<1>1. q \in Request /\ q.pc = pc /\ q.login = r /\ q.user = u
  BY Requests
<1>2. req' = [req EXCEPT ![c] = q] /\ held' = [held EXCEPT ![c] = Holders(r)]
  BY DEF Start, Become
<1> HIDE DEF q
<1>3. Holders(r) \subseteq Users
  BY DEF Holders, TypeOK, Link
<1>4. req'[c] = q /\ held'[c] = Holders(r)
  BY <1>2 DEF TypeOK
<1>5. QED
  BY <1>1, <1>2, <1>3, <1>4 DEF TypeOK

-----------------------------------------------------------------------------
(* What a request relies on survives the steps of the others.              *)
LEMMA Undisturbed ==
  ASSUME NEW d \in Calls, RequestOK(d),
         req'[d] = req[d],
         created \subseteq created', admins \subseteq admins',
         \A u \in created : name'[u] = name[u],
         held[d] \subseteq held'[d],
         \A l \in links' : l.remote = req[d].login => l.etwin \in held'[d]
  PROVE  RequestOK(d)'
<1>1. req[d].pc \in Entering /\ req[d].login \notin Remotes =>
        req[d].user \in created
  BY DEF RequestOK
<1>2. Holders(req[d].login)' \subseteq held'[d]
  BY DEF Holders
<1>3. QED
  BY <1>1, <1>2 DEF RequestOK, Holders

LEMMA IdleOK ==
  ASSUME NEW c \in Calls, req'[c].pc = "idle"
  PROVE  RequestOK(c)'
BY DEF RequestOK, AboutGame, WithUser, WithLogin, Entering

LEMMA Others ==
  ASSUME Inv, NEW c \in Calls,
         \A d \in Calls \ {c} : req'[d] = req[d] /\ held'[d] = held[d],
         created \subseteq created', admins \subseteq admins',
         \A u \in created : name'[u] = name[u],
         links' \subseteq links
  PROVE  \A d \in Calls \ {c} : RequestOK(d)'
<1> SUFFICES ASSUME NEW d \in Calls \ {c} PROVE RequestOK(d)'
  OBVIOUS
<1>1. RequestOK(d)
  BY DEF Inv
<1>2. CASE req[d].pc = "idle"
  BY <1>2, IdleOK
<1>3. CASE req[d].pc # "idle"
  <2>1. \A l \in links' : l.remote = req[d].login => l.etwin \in held'[d]
    BY <1>1, <1>3 DEF RequestOK, Holders
  <2>2. QED
    BY <1>1, <2>1, Undisturbed
<1>4. QED
  BY <1>2, <1>3

(* A step that only moves one request.                                     *)
LEMMA OneRequest ==
  ASSUME Inv, NEW c \in Calls, UNCHANGED Stores,
         req' \in [Calls -> Request], held' \in [Calls -> SUBSET Users],
         \A d \in Calls \ {c} : req'[d] = req[d] /\ held'[d] = held[d],
         RequestOK(c)'
  PROVE  Inv'
<1>1. TypeOK'
  BY DEF Inv, TypeOK, Stores
<1>2. \A d \in Calls \ {c} : RequestOK(d)'
  BY Others DEF Stores
<1>3. /\ SessionUsersExist' /\ UniqueNames'
      /\ AdministratorExists'
  BY DEF Inv, Stores, SessionUsersExist, UniqueNames,
         AdministratorExists
<1>4. QED
  BY <1>1, <1>2, <1>3 DEF Inv

-----------------------------------------------------------------------------
(* The steps that only move their request.                                 *)
LEMMA Moves ==
  ASSUME Inv, NEW c \in Calls,
         \/ GetLink(c) \/ CheckName(c) \/ CheckPassword(c)
         \/ BeginCreate(c) \/ GetUser(c) \/ Answer(c) \/ Fail(c)
  PROVE  Inv'
<1>1. TypeOK /\ RequestOK(c)
  BY DEF Inv
<1>2. CASE Finish(c) /\ UNCHANGED Stores
  BY <1>1, <1>2, FinishFacts, IdleOK, OneRequest, Zenon DEF TypeOK
<1>3. ASSUME NEW u \in Users, ContinueAs(c, "getUser", u), UNCHANGED Stores,
             req[c].login \in Remotes \cup Names,
             req[c].login \notin Remotes => u \in created,
             Holders(req[c].login) \subseteq held[c],
             IF req[c].login \in Remotes THEN u \in held[c]
                                         ELSE name[u] = req[c].login
      PROVE  Inv'
  <2>1. "getUser" \in PC
    BY DEF PC
  <2>2. /\ req' \in [Calls -> Request]
        /\ \A d \in Calls \ {c} : req'[d] = req[d]
        /\ req'[c].pc = "getUser" /\ req'[c].login = req[c].login
        /\ req'[c].user = u
        /\ held' = held
    BY <1>1, <1>3, <2>1, ContinueAsFacts
  <2>3. RequestOK(c)'
    BY <1>3, <2>2, NoneAssumption
    DEF RequestOK, AboutGame, WithUser, WithLogin, Entering, Stores, Holders
  <2>4. held' \in [Calls -> SUBSET Users]
    BY <1>1, <2>2 DEF TypeOK
  <2>5. QED
    BY <1>3, <2>2, <2>3, <2>4, OneRequest
<1>4. ASSUME NEW pc \in PC, Continue(c, pc), UNCHANGED Stores,
             pc \in {"create", "openSession"},
             req[c].pc # "idle",
             pc = "openSession" =>
               req[c].pc = "getUser" /\ req[c].user \in created
      PROVE  Inv'
  <2>1. /\ req' \in [Calls -> Request]
        /\ \A d \in Calls \ {c} : req'[d] = req[d]
        /\ req'[c].pc = pc /\ req'[c].login = req[c].login
        /\ req'[c].user = req[c].user
        /\ held' = held
    BY <1>1, <1>4, ContinueFacts
  <2>2. RequestOK(c)'
    BY <1>1, <1>4, <2>1
    DEF RequestOK, AboutGame, WithUser, WithLogin, Entering, Stores, Holders
  <2>3. held' \in [Calls -> SUBSET Users]
    BY <1>1, <2>1 DEF TypeOK
  <2>4. QED
    BY <1>4, <2>1, <2>2, <2>3, OneRequest
<1>5. CASE GetLink(c)
  <2>1. At(c, "getLink") /\ UNCHANGED Stores
    BY <1>5 DEF GetLink
  <2>2. req[c].login \in Remotes /\ Holders(req[c].login) \subseteq held[c]
    BY <1>1, <2>1 DEF RequestOK, At, AboutGame
  <2>3. ASSUME NEW u \in Holders(req[c].login), ContinueAs(c, "getUser", u)
        PROVE  Inv'
    <3>1. u \in Users
      BY <1>1 DEF Holders, TypeOK, Link
    <3>2. QED
      BY <1>3, <2>1, <2>2, <2>3, <3>1
  <2>4. ASSUME Continue(c, "create") PROVE Inv'
    BY <1>4, <2>1, <2>4 DEF At, PC
  <2>5. QED
    BY <1>5, <2>3, <2>4 DEF GetLink
<1>6. CASE CheckName(c)
  <2>1. At(c, "checkName") /\ UNCHANGED Stores
    BY <1>6 DEF CheckName
  <2>2. ASSUME Continue(c, "create") PROVE Inv'
    BY <1>4, <2>1, <2>2 DEF At, PC
  <2>3. QED
    BY <1>2, <1>6, <2>1, <2>2 DEF CheckName
<1>7. CASE CheckPassword(c)
  <2>1. At(c, "password") /\ UNCHANGED Stores
    BY <1>7 DEF CheckPassword
  <2>2. ASSUME NEW u \in Found(req[c].login), ContinueAs(c, "getUser", u)
        PROVE  Inv'
    <3>1. u \in created /\ name[u] = req[c].login
      BY DEF Found, Named
    <3>2. u \in Users
      BY <1>1, <3>1 DEF TypeOK
    <3>3. req[c].login \in Names /\ req[c].login \notin Remotes
      BY <1>1, <2>1, <3>1, <3>2, LoginsAssumption
      DEF TypeOK, RequestOK, At
    <3>4. QED
      BY <1>1, <1>3, <2>1, <2>2, <3>1, <3>2, <3>3 DEF RequestOK, At
  <2>3. QED
    BY <1>2, <1>7, <2>1, <2>2 DEF CheckPassword
<1>8. CASE BeginCreate(c)
  <2> DEFINE q == [req[c] EXCEPT !.pc = "commit", !.admin = (admins = {})]
  <2>1. At(c, "create") /\ UNCHANGED Stores /\ held' = held
        /\ req' = [req EXCEPT ![c] = q]
    BY <1>8 DEF BeginCreate, Become
  <2>2. /\ q \in Request
        /\ q.pc = "commit" /\ q.login = req[c].login /\ q.user = req[c].user
        /\ ~q.admin => admins # {}
    BY <1>1 DEF TypeOK, Request, PC
  <2> HIDE DEF q
  <2>3. /\ req'[c] = q /\ req' \in [Calls -> Request]
        /\ \A d \in Calls \ {c} : req'[d] = req[d]
    BY <1>1, <2>1, <2>2 DEF TypeOK
  <2>4. RequestOK(c)'
    BY <1>1, <2>1, <2>2, <2>3
    DEF RequestOK, AboutGame, WithUser, WithLogin, Entering, Stores, Holders, At
  <2>5. held' \in [Calls -> SUBSET Users]
    BY <1>1, <2>1 DEF TypeOK
  <2>6. QED
    BY <2>1, <2>3, <2>4, <2>5, OneRequest
<1>9. CASE GetUser(c)
  BY <1>4, <1>9 DEF GetUser, At, PC
<1>10. CASE Answer(c) \/ Fail(c)
  BY <1>2, <1>10 DEF Answer, Fail
<1>11. QED
  BY <1>5, <1>6, <1>7, <1>8, <1>9, <1>10

(* The requests that arrive.                                               *)
LEMMA Arrivals == ASSUME Inv, NEW c \in Calls, Receive(c) PROVE Inv'
<1>1. TypeOK /\ SessionUsersExist
  BY DEF Inv
<1>2. ASSUME NEW pc \in PC, NEW login \in Remotes \cup Names,
             NEW u \in Users \cup {None}, NEW a \in Users \cup {None},
             Start(c, pc, login, u, a), UNCHANGED Stores,
             pc \in AboutGame => login \in Remotes,
             pc \in WithUser => u \in Users,
             pc \notin Entering \cup {"commit"}
      PROVE  Inv'
  <2>1. /\ req' \in [Calls -> Request]
        /\ \A d \in Calls \ {c} : req'[d] = req[d]
        /\ req'[c].pc = pc /\ req'[c].login = login /\ req'[c].user = u
        /\ held' \in [Calls -> SUBSET Users]
        /\ held'[c] = Holders(login)
        /\ \A d \in Calls \ {c} : held'[d] = held[d]
    BY <1>1, <1>2, StartFacts
  <2>2. RequestOK(c)'
    BY <1>2, <2>1, NoneAssumption
    DEF RequestOK, WithLogin, Entering, Stores, Holders
  <2>3. QED
    BY <1>2, <2>1, <2>2, OneRequest
<1>3. ASSUME NEW r \in Remotes, LoginRemote(c, r) PROVE Inv'
  BY <1>2, <1>3 DEF LoginRemote, PC, AboutGame, WithUser, WithLogin, Entering
<1>4. ASSUME NEW n \in Names, Register(c, n) \/ LoginPassword(c, n)
      PROVE  Inv'
  BY <1>2, <1>4 DEF Register, LoginPassword, PC, AboutGame, WithUser, WithLogin, Entering
<1>5. ASSUME NEW u \in Users, NEW r \in Remotes, LinkWithCredentials(c, u, r)
      PROVE  Inv'
  BY <1>1, <1>2, <1>5
  DEF LinkWithCredentials, authenticate_session, SessionUsersExist, PC, AboutGame, WithUser, WithLogin, Entering
<1>6. ASSUME NEW a \in Users, NEW u \in Users, NEW r \in Remotes,
             LinkWithRef(c, a, u, r)
      PROVE  Inv'
  BY <1>2, <1>6 DEF LinkWithRef, PC, AboutGame, WithUser, WithLogin, Entering
<1>7. ASSUME NEW a \in Users, NEW u \in Users, NEW r \in Remotes,
             Unlink(c, a, u, r)
      PROVE  Inv'
  BY <1>2, <1>7 DEF Unlink, PC, AboutGame, WithUser, WithLogin, Entering
<1>8. QED
  BY <1>3, <1>4, <1>5, <1>6, <1>7 DEF Receive

-----------------------------------------------------------------------------
(* The steps that write to the stores.                                     *)
LEMMA Creates == ASSUME Inv, NEW c \in Calls, CommitCreate(c) PROVE Inv'
<1> DEFINE n == IF req[c].login \in Names THEN req[c].login ELSE None
<1>1. TypeOK /\ RequestOK(c) /\ At(c, "commit")
  BY DEF Inv, CommitCreate
<1>2. UNCHANGED <<links, known, sessions>>
  BY DEF CommitCreate
<1>3. CASE Taken(n) /\ Finish(c) /\ UNCHANGED <<created, admins, name>>
  BY <1>1, <1>2, <1>3, FinishFacts, IdleOK, OneRequest, Zenon DEF Stores
<1>4. ASSUME ~Taken(n), NEW u \in Users \ created,
             created' = created \cup {u},
             admins' = IF req[c].admin THEN admins \cup {u} ELSE admins,
             name' = [name EXCEPT ![u] = n],
             IF n = None THEN ContinueAs(c, "touchRemote", u)
                         ELSE ContinueAs(c, "openSession", u)
      PROVE  Inv'
  <2>1. n \in Names \cup {None} /\ (n # None => n = req[c].login)
        /\ (n = None => req[c].login \notin Names)
    BY NoneAssumption DEF Names
  <2> HIDE DEF n
  <2>2. PICK pc \in {"touchRemote", "openSession"} :
          /\ ContinueAs(c, pc, u)
          /\ pc = "touchRemote" <=> n = None
    BY <1>4
  <2>3. /\ req' \in [Calls -> Request]
        /\ \A d \in Calls \ {c} : req'[d] = req[d]
        /\ req'[c].pc = pc /\ req'[c].login = req[c].login
        /\ req'[c].user = u
        /\ held' = held
    BY <1>1, <2>2, ContinueAsFacts DEF PC
  <2>4. /\ name'[u] = n
        /\ \A v \in Users \ {u} : name'[v] = name[v]
        /\ name' \in [Users -> Names \cup {None}]
    BY <1>1, <1>4, <2>1 DEF TypeOK
  <2>5. TypeOK'
    BY <1>1, <1>2, <1>4, <2>3, <2>4 DEF TypeOK
  <2>6. req[c].login \in Remotes \cup Names
    BY <1>1 DEF TypeOK, Request, RequestOK, At
  <2>7. RequestOK(c)'
    BY <1>1, <1>2, <1>4, <2>1, <2>2, <2>3, <2>4, <2>6, LoginsAssumption
    DEF RequestOK, AboutGame, WithUser, WithLogin, Entering, Holders, At
  <2>8. \A d \in Calls \ {c} : RequestOK(d)'
    <3>1. \A v \in created : name'[v] = name[v]
      BY <1>1, <1>4, <2>4 DEF TypeOK
    <3>2. created \subseteq created' /\ admins \subseteq admins'
          /\ links' \subseteq links
      BY <1>2, <1>4
    <3>3. QED
      BY <2>3, <3>1, <3>2, Others
  <2>9. SessionUsersExist'
    BY <1>2, <1>4 DEF Inv, SessionUsersExist
  <2>10. UniqueNames'
    BY <1>1, <1>4, <2>4 DEF Inv, UniqueNames, Taken, Named, TypeOK
  <2>11. AdministratorExists'
    BY <1>1, <1>4 DEF RequestOK, At, AdministratorExists
  <2>12. QED
    BY <2>5, <2>7, <2>8, <2>9, <2>10, <2>11 DEF Inv
<1>5. QED
  BY <1>3, <1>4 DEF CommitCreate

LEMMA TouchesRemote == ASSUME Inv, NEW c \in Calls, TouchRemote(c) PROVE Inv'
<1>1. TypeOK /\ RequestOK(c) /\ At(c, "touchRemote")
  BY DEF Inv, TouchRemote
<1>2. /\ UNCHANGED <<created, admins, name, links, sessions>>
      /\ known' = known \cup {req[c].login}
      /\ Continue(c, "touchLink")
  BY DEF TouchRemote
<1>3. /\ req' \in [Calls -> Request]
      /\ \A d \in Calls \ {c} : req'[d] = req[d]
      /\ req'[c].pc = "touchLink" /\ req'[c].login = req[c].login
      /\ req'[c].user = req[c].user
      /\ held' = held
  BY <1>1, <1>2, ContinueFacts DEF PC
<1>4. req[c].login \in Remotes
  BY <1>1 DEF RequestOK, At, AboutGame
<1>5. TypeOK'
  BY <1>1, <1>2, <1>3, <1>4 DEF TypeOK
<1>6. RequestOK(c)'
  BY <1>1, <1>2, <1>3, <1>4
  DEF RequestOK, AboutGame, WithUser, WithLogin, Entering, Holders, At
<1>7. \A d \in Calls \ {c} : RequestOK(d)'
  BY <1>2, <1>3, Others
<1>8. SessionUsersExist' /\ UniqueNames' /\ AdministratorExists'
  BY <1>2 DEF Inv, SessionUsersExist, UniqueNames, AdministratorExists
<1>9. QED
  BY <1>5, <1>6, <1>7, <1>8 DEF Inv

LEMMA DeletesLink == ASSUME Inv, NEW c \in Calls, DeleteLink(c) PROVE Inv'
<1>1. /\ UNCHANGED <<created, admins, name, known, sessions>>
      /\ links' \subseteq links
      /\ Finish(c)
      /\ TypeOK
  BY DEF DeleteLink, Inv
<1>2. /\ req' \in [Calls -> Request]
      /\ \A d \in Calls \ {c} : req'[d] = req[d]
      /\ req'[c].pc = "idle"
      /\ held' \in [Calls -> SUBSET Users]
      /\ \A d \in Calls \ {c} : held'[d] = held[d]
  BY <1>1, FinishFacts
<1>3. TypeOK'
  BY <1>1, <1>2 DEF TypeOK
<1>4. \A d \in Calls : RequestOK(d)'
  BY <1>1, <1>2, IdleOK, Others
<1>5. SessionUsersExist' /\ UniqueNames' /\ AdministratorExists'
  BY <1>1 DEF Inv, SessionUsersExist, UniqueNames, AdministratorExists
<1>6. QED
  BY <1>3, <1>4, <1>5 DEF Inv

LEMMA OpensSession == ASSUME Inv, NEW c \in Calls, OpenSession(c) PROVE Inv'
<1>1. TypeOK /\ RequestOK(c) /\ At(c, "openSession")
  BY DEF Inv, OpenSession
<1>2. /\ UNCHANGED <<created, admins, name, links, known>>
      /\ sessions' = sessions \cup {req[c].user}
      /\ Continue(c, "answered")
  BY DEF OpenSession
<1>3. /\ req' \in [Calls -> Request]
      /\ \A d \in Calls \ {c} : req'[d] = req[d]
      /\ req'[c].pc = "answered" /\ req'[c].login = req[c].login
      /\ req'[c].user = req[c].user
      /\ held' = held
  BY <1>1, <1>2, ContinueFacts DEF PC
<1>4. req[c].user \in created
  BY <1>1 DEF RequestOK, At, WithLogin
<1>5. TypeOK'
  BY <1>1, <1>2, <1>3, <1>4 DEF TypeOK
<1>6. RequestOK(c)'
  BY <1>1, <1>2, <1>3
  DEF RequestOK, AboutGame, WithUser, WithLogin, Entering, Holders, At
<1>7. \A d \in Calls \ {c} : RequestOK(d)'
  BY <1>2, <1>3, Others
<1>8. SessionUsersExist' /\ UniqueNames' /\ AdministratorExists'
  BY <1>2, <1>4
  DEF Inv, SessionUsersExist, UniqueNames, AdministratorExists
<1>9. QED
  BY <1>5, <1>6, <1>7, <1>8 DEF Inv

LEMMA LinksUser == ASSUME Inv, NEW c \in Calls, TouchLink(c) PROVE Inv'
<1> DEFINE u == req[c].user
           r == req[c].login
           q == IF req[c].actor = None
                THEN [req[c] EXCEPT !.pc = "getUser"] ELSE IdleRequest
<1>1. TypeOK /\ RequestOK(c) /\ At(c, "touchLink")
  BY DEF Inv, TouchLink
<1>2. UNCHANGED <<created, admins, name, known, sessions>>
  BY DEF TouchLink
<1>3. u \in Users /\ r \in Remotes
  BY <1>1 DEF RequestOK, At, AboutGame, WithUser, TypeOK
<1>4. q \in Request /\ \/ q.pc = "idle"
                       \/ q.pc = "getUser" /\ q.login = r /\ q.user = u
  <2>1. CASE req[c].actor = None
    <3>1. [req[c] EXCEPT !.pc = "getUser"] \in Request
      BY <1>1 DEF TypeOK, Request, PC
    <3>2. [req[c] EXCEPT !.pc = "getUser"].pc = "getUser"
          /\ [req[c] EXCEPT !.pc = "getUser"].login = r
          /\ [req[c] EXCEPT !.pc = "getUser"].user = u
      BY <1>1 DEF TypeOK, Request
    <3>3. QED
      BY <2>1, <3>1, <3>2
  <2>2. CASE req[c].actor # None
    BY <2>2, Requests
  <2>3. QED
    BY <2>1, <2>2
<1>5. CASE /\ Accepted(u, r)
           /\ links' = links \cup {[etwin |-> u, remote |-> r]}
           /\ Become(c, q)
           /\ Witness(u, r)
  <2> HIDE DEF q
  <2>1. /\ req' \in [Calls -> Request]
        /\ req'[c] = q
        /\ \A d \in Calls \ {c} : req'[d] = req[d]
    BY <1>1, <1>4, <1>5 DEF Become, TypeOK
  <2>2. held' \in [Calls -> SUBSET Users]
    BY <1>1, <1>3, <1>5 DEF Witness, TypeOK
  <2>3. \A d \in Calls : req'[d].login = r => held'[d] = held[d] \cup {u}
    BY <1>5 DEF Witness
  <2>4. \A d \in Calls : req'[d].login # r /\ req'[d].pc # "idle" =>
          held'[d] = held[d]
    BY <1>5 DEF Witness
  <2>5. [etwin |-> u, remote |-> r] \in Link
    BY <1>3 DEF Link
  <2>6. TypeOK'
    BY <1>1, <1>2, <1>5, <2>1, <2>2, <2>5 DEF TypeOK
  <2>7. \A l \in links' : l \in links \/ (l.etwin = u /\ l.remote = r)
    BY <1>5
  <2>8. RequestOK(c)'
    <3>1. CASE q.pc = "idle"
      BY <2>1, <3>1, IdleOK
    <3>2. CASE q.pc = "getUser" /\ q.login = r /\ q.user = u
      <4>1. held'[c] = held[c] \cup {u}
        BY <2>1, <2>3, <3>2
      <4>2. Holders(r) \subseteq held[c]
        BY <1>1 DEF RequestOK, At
      <4>3. ASSUME NEW l \in links', l.remote = r PROVE l.etwin \in held'[c]
        BY <2>7, <4>1, <4>2, <4>3 DEF Holders
      <4>4. req'[c].login = r /\ req'[c].pc = "getUser" /\ req'[c].user = u
        BY <2>1, <3>2
      <4>5. QED
        BY <1>2, <1>3, <4>1, <4>3, <4>4, NoneAssumption
        DEF RequestOK, AboutGame, WithUser, WithLogin, Entering, Holders
    <3>3. QED
      BY <1>4, <3>1, <3>2
  <2>9. ASSUME NEW d \in Calls \ {c} PROVE RequestOK(d)'
    <3>1. RequestOK(d) /\ req'[d] = req[d]
      BY <2>1 DEF Inv
    <3>2. CASE req[d].pc = "idle"
      BY <3>1, <3>2, IdleOK
    <3>3. CASE req[d].pc # "idle"
      <4>1. Holders(req[d].login) \subseteq held[d]
        BY <3>1, <3>3 DEF RequestOK
      <4>2. held[d] \subseteq held'[d]
        BY <2>3, <2>4, <3>1, <3>3
      <4>3. ASSUME NEW l \in links', l.remote = req[d].login
            PROVE  l.etwin \in held'[d]
        <5>1. CASE l \in links
          BY <4>1, <4>2, <4>3, <5>1 DEF Holders
        <5>2. CASE l.etwin = u /\ l.remote = r
          BY <2>3, <3>1, <4>3, <5>2
        <5>3. QED
          BY <2>7, <5>1, <5>2
      <4>4. QED
        BY <1>2, <3>1, <4>2, <4>3, Undisturbed
    <3>4. QED
      BY <3>2, <3>3
  <2>10. SessionUsersExist'
    BY <1>2, <1>3, <2>7 DEF Inv, SessionUsersExist
  <2>12. UniqueNames' /\ AdministratorExists'
    BY <1>2 DEF Inv, UniqueNames, AdministratorExists
  <2>13. QED
    BY <2>6, <2>8, <2>9, <2>10, <2>12 DEF Inv
<1>6. CASE Finish(c) /\ UNCHANGED links
  BY <1>1, <1>2, <1>6, FinishFacts, IdleOK, OneRequest, Zenon DEF TypeOK, Stores
<1>7. QED
  BY <1>5, <1>6 DEF TouchLink

-----------------------------------------------------------------------------
LEMMA Initially == Init => Inv
<1> SUFFICES ASSUME Init PROVE Inv
  OBVIOUS
<1>1. \A c \in Calls : req[c].pc = "idle" /\ req[c] \in Request
  BY Requests DEF Init
<1>2. TypeOK
  BY <1>1 DEF Init, TypeOK
<1>3. \A c \in Calls : RequestOK(c)
  BY <1>1 DEF RequestOK, AboutGame, WithUser, WithLogin, Entering
<1>4. SessionUsersExist /\ UniqueNames /\ AdministratorExists
  BY DEF Init, SessionUsersExist, UniqueNames, AdministratorExists
<1>5. QED
  BY <1>2, <1>3, <1>4 DEF Inv

LEMMA Inductive == Inv /\ [Next]_vars => Inv'
<1> SUFFICES ASSUME Inv, [Next]_vars PROVE Inv'
  OBVIOUS
<1>1. ASSUME NEW c \in Calls, Receive(c) \/ Step(c) \/ Fail(c) PROVE Inv'
  BY <1>1, Arrivals, Moves, Creates, TouchesRemote, LinksUser, DeletesLink,
     OpensSession
  DEF Step
<1>2. CASE UNCHANGED vars
  BY <1>2
  DEF vars, Inv, TypeOK, RequestOK, SessionUsersExist, UniqueNames,
      AdministratorExists, Holders
<1>3. QED
  BY <1>1, <1>2 DEF Next

LEMMA Always == Spec => []Inv
BY Initially, Inductive, PTL DEF Spec

(* Every reachable state is well typed.                                    *)
THEOREM Typing == Spec => []TypeOK
<1>1. Inv => TypeOK
  BY DEF Inv
<1>2. QED
  BY <1>1, Always, PTL

(* However the calls of concurrent logins, sign-ups, links and unlinks     *)
(* interleave and fail, a login is only ever given the session of a user   *)
(* who held the game user at some instant of that login, or who bears the  *)
(* username it was asked for.                                              *)
THEOREM SessionsAreRightful == Spec => []RightfulSession
<1>1. Inv => RightfulSession
  BY DEF Inv, RequestOK, RightfulSession, At, Entering
<1>2. QED
  BY <1>1, Always, PTL

(* Among the users who exist, one is an administrator, whatever the order  *)
(* in which concurrent sign-ups read and commit.                           *)
THEOREM SomeoneAdministers == Spec => []AdministratorExists
<1>1. Inv => AdministratorExists
  BY DEF Inv
<1>2. QED
  BY <1>1, Always, PTL

(* No two users share a username or an email address.                      *)
THEOREM NamesStayUnique == Spec => []UniqueNames
<1>1. Inv => UniqueNames
  BY DEF Inv
<1>2. QED
  BY <1>1, Always, PTL

-----------------------------------------------------------------------------
(* The tokens (AuthTokens).                                                *)

(* What a request remembers between two awaits, which nothing takes back:  *)
(* rows and signed tokens are never deleted.                               *)
Justified(c) ==
  /\ call[c].pc = "insert" => call[c] \in [pc : {"insert"}, config : Configs]
  /\ call[c].pc = "started" => call[c].config \in clients
  /\ call[c].pc = "register" =>
       \E m \in mails : /\ m.email = call[c].email
                        /\ m.iat <= call[c].at /\ call[c].at < m.iat + MailValidity
  /\ IsUser(c) => call[c].context.user \in UserIds
  /\ call[c].pc = "grant" => call[c].client \in clients /\ call[c].user \in UserIds
  /\ call[c].pc = "token" =>
       Granted(call[c].client, call[c].user, call[c].at) /\ call[c].user \in UserIds
  /\ call[c].pc = "access" => call[c].token \in tokens
  /\ call[c].pc = "answered" =>
       \E t \in tokens : t.client = call[c].client /\ t.user = call[c].user

OneClientByKey == \A x, y \in clients : x.key = y.key => x = y

(* A code is for a registered user, and was sent to a callback of its      *)
(* audience.                                                               *)
CodesSent == \A code \in codes :
               /\ code.sub \in UserIds
               /\ \E x \in clients : x.key = code.aud /\ x.callback = code.to

TokensGranted == \A t \in tokens : Granted(t.client, t.user, t.ctime) /\ t.user \in UserIds

CallsJustified == /\ call = [c \in Requesters |-> call[c]]
            /\ \A c \in Requesters : Justified(c)

OauthInv == OneClientByKey /\ CodesSent /\ TokensGranted /\ AddressesVerified /\ CallsJustified

(* What no step takes back.                                                *)
Grows == /\ clients \subseteq clients' /\ users \subseteq users' /\ mails \subseteq mails'
         /\ codes \subseteq codes' /\ tokens \subseteq tokens'

-----------------------------------------------------------------------------
LEMMA GrantedStays ==
  ASSUME Grows, NEW client, NEW user, NEW at, Granted(client, user, at)
  PROVE  Granted(client, user, at)'
BY DEF Grows, Granted

LEMMA JustifiedStays ==
  ASSUME Grows, NEW c \in Requesters, Justified(c), call'[c] = call[c]
  PROVE  Justified(c)'
<1>1. UserIds \subseteq UserIds'
  BY DEF Grows, UserIds
<1>2. call[c].pc = "token" => Granted(call[c].client, call[c].user, call[c].at)'
  BY DEF Grows, Granted, Justified
<1>3. QED
  BY <1>1, <1>2 DEF Grows, Justified, IsUser

(* A step of one request.                                                  *)
LEMMA RequestsStay ==
  ASSUME CallsJustified, Grows, NEW c \in Requesters, NEW s, call' = [call EXCEPT ![c] = s],
         call'[c] = s => Justified(c)'
  PROVE  CallsJustified'
<1>1. call' = [d \in Requesters |-> call'[d]] /\ call'[c] = s
      /\ \A d \in Requesters \ {c} : call'[d] = call[d]
  BY DEF CallsJustified
<1>2. \A d \in Requesters \ {c} : Justified(d)'
  BY <1>1, JustifiedStays DEF CallsJustified
<1>3. QED
  BY <1>1, <1>2 DEF CallsJustified

(* A step that changes no table but the clients and the mails.             *)
LEMMA TablesStay ==
  ASSUME OauthInv, Grows, UNCHANGED <<codes, tokens, users>>
  PROVE  (CodesSent /\ TokensGranted /\ AddressesVerified)'
<1>1. UserIds' = UserIds
  BY DEF UserIds
<1>2. CodesSent'
  BY <1>1 DEF OauthInv, Grows, CodesSent
<1>3. TokensGranted'
  BY <1>1, GrantedStays DEF OauthInv, TokensGranted
<1>4. AddressesVerified'
  BY DEF OauthInv, Grows, AddressesVerified
<1>5. QED
  BY <1>2, <1>3, <1>4

(* A step of one request that changes no table.                            *)
LEMMA ReadStep ==
  ASSUME OauthInv, NEW c \in Requesters, NEW s, call' = [call EXCEPT ![c] = s],
         UNCHANGED <<stores, mails, codes>>, call'[c] = s => Justified(c)'
  PROVE  OauthInv'
<1>1. Grows
  BY DEF Grows, stores
<1>2. CallsJustified'
  BY <1>1, RequestsStay DEF OauthInv
<1>3. QED
  BY <1>1, <1>2, TablesStay DEF OauthInv, stores, OneClientByKey

-----------------------------------------------------------------------------
LEMMA StartStep ==
  ASSUME OauthInv, NEW c \in Requesters, NEW config \in Configs, StartServer(c, config)
  PROVE  OauthInv'
<1>1. CASE call' = [call EXCEPT ![c] = [pc |-> "insert", config |-> config]]
  <2>1. call'[c] = [pc |-> "insert", config |-> config] => Justified(c)'
    BY DEF Justified, IsUser
  <2>2. QED
    BY <1>1, <2>1, ReadStep DEF StartServer
<1>2. CASE config \in clients /\ call' = [call EXCEPT ![c] = [pc |-> "started", config |-> config]]
  <2>1. call'[c] = [pc |-> "started", config |-> config] => Justified(c)'
    BY <1>2 DEF Justified, IsUser, StartServer, stores
  <2>2. QED
    BY <1>2, <2>1, ReadStep DEF StartServer
<1>3. QED
  BY <1>1, <1>2 DEF StartServer

LEMMA InsertStep ==
  ASSUME OauthInv, NEW c \in Requesters, InsertClient(c)
  PROVE  OauthInv'
<1> DEFINE s == [call[c] EXCEPT !.pc = "started"]
<1>1. call[c] \in [pc : {"insert"}, config : Configs]
  BY DEF OauthInv, CallsJustified, Justified, InsertClient
<1>2. s.pc = "started" /\ s.config = call[c].config
  BY <1>1
<1>3. Grows /\ UNCHANGED <<codes, tokens, users>> /\ clients' = clients \cup {call[c].config}
  BY DEF InsertClient, Grows
<1>4. call' = [call EXCEPT ![c] = s]
  BY DEF InsertClient
<1>5. call'[c] = s => Justified(c)'
  BY <1>2, <1>3 DEF Justified, IsUser
<1> HIDE DEF s
<1>6. CallsJustified'
  BY <1>3, <1>4, <1>5, RequestsStay DEF OauthInv
<1>7. OneClientByKey'
  BY <1>3 DEF OauthInv, OneClientByKey, InsertClient, ClientsOf
<1>8. QED
  BY <1>3, <1>6, <1>7, TablesStay DEF OauthInv

LEMMA SendStep ==
  ASSUME OauthInv, NEW email \in Addresses, SendMail(email)
  PROVE  OauthInv'
<1>1. Grows /\ UNCHANGED <<codes, tokens, users, clients, call>>
  BY DEF SendMail, Grows, stores
<1>2. CallsJustified'
  BY <1>1, JustifiedStays DEF OauthInv, CallsJustified
<1>3. QED
  BY <1>1, <1>2, TablesStay DEF OauthInv, OneClientByKey

LEMMA CreateStep ==
  ASSUME OauthInv, NEW c \in Requesters, CreateUser(c)
  PROVE  OauthInv'
<1>1. PICK password \in Secrets :
        users' = users \cup {[id |-> Fresh(users), email |-> call[c].email,
                              password |-> password, at |-> call[c].at]}
  BY DEF CreateUser
<1> DEFINE u == [id |-> Fresh(users), email |-> call[c].email,
                 password |-> password, at |-> call[c].at]
<1>2. u.email = call[c].email /\ u.at = call[c].at
  OBVIOUS
<1> HIDE DEF u
<1>3. Grows /\ UNCHANGED <<clients, tokens, mails, codes>> /\ users' = users \cup {u}
  BY <1>1 DEF CreateUser, Grows, u
<1>4. UserIds \subseteq UserIds'
  BY <1>3 DEF Grows, UserIds
<1>5. AddressesVerified'
  <2>1. \E m \in mails : m.email = u.email /\ m.iat <= u.at /\ u.at < m.iat + MailValidity
    BY <1>2 DEF OauthInv, CallsJustified, Justified, CreateUser
  <2>2. \A v \in users : v.email # u.email
    BY <1>2 DEF CreateUser
  <2>3. QED
    BY <1>3, <2>1, <2>2 DEF OauthInv, AddressesVerified
<1>6. CodesSent' /\ TokensGranted' /\ OneClientByKey'
  BY <1>3, <1>4 DEF OauthInv, CodesSent, TokensGranted, OneClientByKey, Granted
<1>7. call'[c] = Idle => Justified(c)'
  BY DEF Justified, IsUser, Idle
<1>8. CallsJustified'
  BY <1>3, <1>7, RequestsStay DEF OauthInv, CreateUser, Leave
<1>9. QED
  BY <1>5, <1>6, <1>8 DEF OauthInv

LEMMA AuthenticateStep ==
  ASSUME OauthInv, NEW c \in Requesters, NEW login \in Logins, NEW password \in Secrets,
         AuthenticateCredentials(c, login, password)
  PROVE  OauthInv'
<1>1. PICK context \in authenticate_credentials(login, password) :
        call' = [call EXCEPT ![c] = [pc |-> "authenticated", context |-> context]]
  BY DEF AuthenticateCredentials
<1>2. context.type = "User" => context.user \in UserIds
  BY DEF authenticate_credentials, authenticate_user_with_password,
         authenticate_oauth_client, UserIds
<1>3. UNCHANGED <<stores, mails, codes>>
  BY DEF AuthenticateCredentials
<1>4. call'[c] = [pc |-> "authenticated", context |-> context] => Justified(c)'
  BY <1>2, <1>3 DEF Justified, IsUser, UserIds, stores
<1>5. QED
  BY <1>1, <1>3, <1>4, ReadStep

LEMMA SessionStep ==
  ASSUME OauthInv, NEW c \in Requesters, NEW u \in users, AuthenticateSession(c, u)
  PROVE  OauthInv'
<1> DEFINE s == [pc |-> "authenticated", context |-> [type |-> "User", user |-> u.id]]
<1>1. UNCHANGED <<stores, mails, codes>> /\ call' = [call EXCEPT ![c] = s]
  BY DEF AuthenticateSession
<1>2. s.pc = "authenticated" /\ s.context.user = u.id
  OBVIOUS
<1> HIDE DEF s
<1>3. call'[c] = s => Justified(c)'
  BY <1>1, <1>2 DEF Justified, IsUser, UserIds, stores
<1>4. QED
  BY <1>1, <1>3, ReadStep

LEMMA ReadClientStep ==
  ASSUME OauthInv, NEW c \in Requesters, NEW key, NEW uri, ReadClient(c, key, uri)
  PROVE  OauthInv'
<1>1. PICK x \in ClientsOf(key) :
        call' = [call EXCEPT ![c] = [pc |-> "grant", user |-> call[c].context.user, client |-> x]]
  BY DEF ReadClient
<1> DEFINE s == [pc |-> "grant", user |-> call[c].context.user, client |-> x]
<1>2. s.pc = "grant" /\ s.client \in clients /\ s.user \in UserIds
  BY DEF ClientsOf, ReadClient, OauthInv, CallsJustified, Justified
<1>3. UNCHANGED <<stores, mails, codes>> /\ call' = [call EXCEPT ![c] = s]
  BY <1>1 DEF ReadClient
<1> HIDE DEF s
<1>4. call'[c] = s => Justified(c)'
  BY <1>2, <1>3 DEF Justified, IsUser, UserIds, stores
<1>5. QED
  BY <1>3, <1>4, ReadStep

LEMMA IssueStep ==
  ASSUME OauthInv, NEW c \in Requesters, IssueCode(c)
  PROVE  OauthInv'
<1> DEFINE code == [aud |-> call[c].client.key, sub |-> call[c].user,
                    iat |-> now, to |-> call[c].client.callback]
<1>1. /\ code.sub \in UserIds
      /\ \E x \in clients : x.key = code.aud /\ x.callback = code.to
  BY DEF OauthInv, CallsJustified, Justified, IssueCode
<1>2. codes' = codes \cup {code} /\ UNCHANGED <<stores, mails>>
  BY DEF IssueCode
<1> HIDE DEF code
<1>3. Grows /\ UNCHANGED UserIds
  BY <1>2 DEF Grows, UserIds, stores
<1>4. CodesSent'
  BY <1>1, <1>2, <1>3 DEF OauthInv, CodesSent, stores
<1>5. TokensGranted'
  BY <1>2, <1>3 DEF OauthInv, TokensGranted, Granted, stores
<1>6. call'[c] = Idle => Justified(c)'
  BY DEF Justified, IsUser, Idle
<1>7. CallsJustified'
  BY <1>3, <1>6, RequestsStay DEF OauthInv, IssueCode, Leave
<1>8. (OneClientByKey /\ AddressesVerified)'
  BY <1>2 DEF OauthInv, OneClientByKey, AddressesVerified, stores
<1>9. QED
  BY <1>4, <1>5, <1>7, <1>8 DEF OauthInv

(* ReadCode: the code names the user, its audience is the client that      *)
(* asks, and its callback is one of that client's.                         *)
LEMMA ReadCodeStep ==
  ASSUME OauthInv, NEW c \in Requesters, NEW code \in codes, ReadCode(c, code)
  PROVE  OauthInv'
<1> DEFINE s == [pc |-> "token", client |-> call[c].context.client,
                 user |-> code.sub, at |-> now]
<1>1. s.pc = "token" /\ s.client = code.aud /\ s.user = code.sub /\ s.at = now
  BY DEF ReadCode
<1>2. UNCHANGED <<stores, mails, codes>> /\ call' = [call EXCEPT ![c] = s]
  BY DEF ReadCode
<1> HIDE DEF s
<1>3. Granted(s.client, s.user, s.at) /\ s.user \in UserIds
  BY <1>1 DEF Granted, ReadCode, ValidAt, OauthInv, CodesSent
<1>4. call'[c] = s => Justified(c)'
  BY <1>1, <1>2, <1>3 DEF Justified, IsUser, UserIds, Granted, stores
<1>5. QED
  BY <1>2, <1>4, ReadStep

LEMMA CreateTokenStep ==
  ASSUME OauthInv, NEW c \in Requesters, CreateAccessToken(c)
  PROVE  OauthInv'
<1> DEFINE t == [id |-> Fresh(tokens), client |-> call[c].client,
                 user |-> call[c].user, ctime |-> call[c].at]
<1>1. t.client = call[c].client /\ t.user = call[c].user /\ t.ctime = call[c].at
  OBVIOUS
<1>2. tokens' = tokens \cup {t} /\ UNCHANGED <<clients, users, mails, codes>>
  BY DEF CreateAccessToken
<1> HIDE DEF t
<1>3. Granted(t.client, t.user, t.ctime) /\ t.user \in UserIds
  BY <1>1 DEF OauthInv, CallsJustified, Justified, CreateAccessToken
<1>4. Grows /\ UNCHANGED UserIds
  BY <1>2 DEF Grows, UserIds
<1>5. TokensGranted'
  BY <1>2, <1>3, <1>4 DEF OauthInv, TokensGranted, Granted
<1>6. call'[c] = Idle => Justified(c)'
  BY DEF Justified, IsUser, Idle
<1>7. CallsJustified'
  BY <1>4, <1>6, RequestsStay DEF OauthInv, CreateAccessToken, Leave
<1>8. (OneClientByKey /\ CodesSent /\ AddressesVerified)'
  BY <1>2, <1>4 DEF OauthInv, OneClientByKey, CodesSent, AddressesVerified
<1>9. QED
  BY <1>5, <1>7, <1>8 DEF OauthInv

LEMMA AccessStep ==
  ASSUME OauthInv, NEW c \in Requesters, Authenticate(c)
  PROVE  OauthInv'
<1> DEFINE s == [pc |-> "answered", client |-> call[c].token.client, user |-> call[c].token.user]
<1>1. \E t \in tokens : t.client = s.client /\ t.user = s.user
  BY DEF OauthInv, CallsJustified, Justified, Authenticate
<1>2. s.pc = "answered" /\ UNCHANGED <<stores, mails, codes>> /\ call' = [call EXCEPT ![c] = s]
  BY DEF Authenticate
<1> HIDE DEF s
<1>3. call'[c] = s => Justified(c)'
  BY <1>1, <1>2 DEF Justified, IsUser, stores
<1>4. QED
  BY <1>2, <1>3, ReadStep

LEMMA OauthStep == OauthInv /\ [NextOauth]_oauthVars => OauthInv'
<1> SUFFICES ASSUME OauthInv, [NextOauth]_oauthVars
             PROVE  OauthInv'
  OBVIOUS
<1>1. ASSUME UNCHANGED <<stores, mails, codes, call>>
      PROVE  OauthInv'
  <2>1. Grows
    BY <1>1 DEF Grows, stores
  <2>2. CallsJustified'
    BY <1>1, <2>1, JustifiedStays DEF OauthInv, CallsJustified
  <2>3. QED
    BY <1>1, <2>1, <2>2, TablesStay DEF OauthInv, OneClientByKey, stores
<1>2. ASSUME NEW c \in Requesters, FailCall(c)
      PROVE  OauthInv'
  <2>1. call'[c] = Idle => Justified(c)'
    BY DEF Justified, IsUser, Idle
  <2>2. QED
    BY <1>2, <2>1, ReadStep DEF FailCall, Leave
<1>3. ASSUME NEW c \in Requesters, NEW m \in mails, ReadMail(c, m)
      PROVE  OauthInv'
  <2> DEFINE s == [pc |-> "register", email |-> m.email, at |-> now]
  <2>1. s.pc = "register" /\ s.email = m.email /\ s.at = now
    OBVIOUS
  <2>2. UNCHANGED <<stores, mails, codes>> /\ call' = [call EXCEPT ![c] = s]
    BY <1>3 DEF ReadMail
  <2> HIDE DEF s
  <2>3. call'[c] = s => Justified(c)'
    BY <1>3, <2>1, <2>2 DEF Justified, IsUser, ReadMail, ValidAt
  <2>4. QED
    BY <2>2, <2>3, ReadStep
<1>4. ASSUME NEW c \in Requesters, NEW t \in tokens, ReadToken(c, t)
      PROVE  OauthInv'
  <2>1. call'[c] = [pc |-> "access", token |-> t] => Justified(c)'
    BY <1>4 DEF Justified, IsUser, ReadToken, stores
  <2>2. QED
    BY <1>4, <2>1, ReadStep DEF ReadToken
<1>5. CASE NextOauth
  BY <1>1, <1>2, <1>3, <1>4, <1>5, StartStep, InsertStep, SendStep, CreateStep,
     AuthenticateStep, SessionStep, ReadClientStep, IssueStep, ReadCodeStep,
     CreateTokenStep, AccessStep DEF NextOauth, Tick
<1>6. QED
  BY <1>1, <1>5 DEF oauthVars

LEMMA OauthStart == InitOauth => OauthInv
<1> SUFFICES ASSUME InitOauth
             PROVE  OauthInv
  OBVIOUS
<1>1. CallsJustified
  BY DEF InitOauth, CallsJustified, Justified, IsUser, Idle
<1>2. QED
  BY <1>1 DEF InitOauth, OauthInv, OneClientByKey, CodesSent, TokensGranted, AddressesVerified

-----------------------------------------------------------------------------
(* ClientsAnswered: upsert_system_client leaves every server that started  *)
(* the client it was configured with, however many servers start at once.  *)
THEOREM ServersHaveTheirClients == OauthSpec => []ClientsAnswered
<1>1. OauthInv => ClientsAnswered
  BY DEF OauthInv, CallsJustified, Justified, OneClientByKey, ClientsAnswered
<1>2. QED
  BY <1>1, OauthStart, OauthStep, PTL DEF OauthSpec

(* AccessGranted: whoever sends which token to which request, and as often *)
(* as they like, create_access_token and authenticate_access_token let a   *)
(* client in for users who let it in, in time, at its own callback.        *)
THEOREM AccessIsGranted == OauthSpec => []AccessGranted
<1>1. OauthInv => AccessGranted
  BY DEF OauthInv, CallsJustified, Justified, TokensGranted, UserIds, AccessGranted
<1>2. QED
  BY <1>1, OauthStart, OauthStep, PTL DEF OauthSpec
=============================================================================

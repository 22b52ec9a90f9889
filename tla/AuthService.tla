---------------------------- MODULE AuthService -----------------------------
(***************************************************************************)
(* Sign-up, login and linking: AuthService (crates/services/src/auth.rs)   *)
(* and UserService (packages/core/src/lib/user/service.mts) on top of the  *)
(* user, link and session stores.                                          *)
(*                                                                         *)
(* A request is a sequence of store calls, each awaited, with no           *)
(* transaction around them: other requests run between any two of them,    *)
(* and a request that fails (or a server that stops) leaves what its first *)
(* calls wrote.  A store call is atomic, except create_user, which reads   *)
(* whether an administrator exists before it commits.  The link store is   *)
(* taken at its word: it keeps links exclusive (LinkSpec).  Calls that     *)
(* write nothing the properties speak of (create_validated_email_          *)
(* verification is a stub, touchDinoparc keeps a game session) are left    *)
(* out; their failure is a Fail.                                           *)
(***************************************************************************)
EXTENDS Naturals, FiniteSets

CONSTANTS Users,       \* the UUIDs that may be drawn
          Remotes,     \* the users of one game server
          Usernames,   \* logins by which get_user finds an account
          Emails,      \* logins that only the EXCLUDE constraint sees
          Calls,       \* the requests that may be in progress together
          ForeignKeys, \* TRUE in PostgreSQL, FALSE in memory
          None

Names == Usernames \cup Emails

ASSUME ForeignKeysAssumption == ForeignKeys \in BOOLEAN
ASSUME NoneAssumption   == None \notin Users \cup Remotes \cup Names
ASSUME LoginsAssumption == Remotes \cap Names = {}
ASSUME EmailsAssumption == Usernames \cap Emails = {}

VARIABLES created,   \* users that exist
          admins,    \* users with is_administrator
          name,      \* username or email address of each user
          links,     \* current links
          known,     \* remote users in the remote stores
          sessions,  \* users who have an open session
          req,       \* the requests in progress
          held       \* for each request, the users who held its remote user
                     \* at some instant since it started (history variable)

vars == <<created, admins, name, links, known, sessions, req, held>>

PC == {"idle", "getLink", "checkName", "password", "create", "commit",
       "touchRemote", "touchLink", "deleteLink", "getUser", "openSession",
       "answered"}

Request == [pc : PC, login : Remotes \cup Names \cup {None},
            user : Users \cup {None}, actor : Users \cup {None},
            admin : BOOLEAN]

Link == [etwin : Users, remote : Remotes]

TypeOK == /\ created \subseteq Users
          /\ admins \subseteq created
          /\ name \in [Users -> Names \cup {None}]
          /\ links \subseteq Link
          /\ known \subseteq Remotes
          /\ sessions \subseteq Users
          /\ req \in [Calls -> Request]
          /\ held \in [Calls -> SUBSET Users]

-----------------------------------------------------------------------------
NewRequest(pc, login, user, actor) ==
  [pc |-> pc, login |-> login, user |-> user, actor |-> actor, admin |-> FALSE]

IdleRequest == NewRequest("idle", None, None, None)

Init == /\ created = {}
        /\ admins = {}
        /\ name = [u \in Users |-> None]
        /\ links = {}
        /\ known = {}
        /\ sessions = {}
        /\ req = [c \in Calls |-> IdleRequest]
        /\ held = [c \in Calls |-> {}]

At(c, pc) == req[c].pc = pc

Become(c, r) == req' = [req EXCEPT ![c] = r]

Continue(c, pc) == /\ Become(c, [req[c] EXCEPT !.pc = pc])
                   /\ UNCHANGED held

ContinueAs(c, pc, u) == /\ Become(c, [req[c] EXCEPT !.pc = pc, !.user = u])
                        /\ UNCHANGED held

\* The request is over: answered, or failed with nothing undone
Finish(c) == /\ Become(c, IdleRequest)
             /\ held' = [held EXCEPT ![c] = {}]

Holders(r) == {l.etwin : l \in {m \in links : m.remote = r}}

Start(c, pc, login, user, actor) ==
  /\ At(c, "idle")
  /\ Become(c, NewRequest(pc, login, user, actor))
  /\ held' = [held EXCEPT ![c] = Holders(login)]

Stores == <<created, admins, name, links, known, sessions>>

-----------------------------------------------------------------------------
(* The requests.  The game server has already accepted the credentials.    *)

\* Users whose key authenticate_session accepts: it unwraps the user of the session
authenticate_session == sessions \cap created

\* register_or_login_with_dinoparc, ..._hammerfest, ..._twinoid_oauth
LoginRemote(c, r) ==
  /\ Start(c, "getLink", r, None, None)
  /\ UNCHANGED Stores

\* register_with_username, register_with_verified_email
Register(c, n) ==
  /\ Start(c, "checkName", n, None, None)
  /\ UNCHANGED Stores

\* login_with_credentials
LoginPassword(c, n) ==
  /\ Start(c, "password", n, None, None)
  /\ UNCHANGED Stores

\* linkToDinoparcWithCredentials and the like: a user links to himself
LinkWithCredentials(c, u, r) ==
  /\ u \in authenticate_session
  /\ Start(c, "touchRemote", r, u, u)
  /\ UNCHANGED Stores

\* An administrator links anyone: linkToHammerfestWithRef touches the remote
\* user first, linkToDinoparcWithRef and linkToTwinoidWithRef do not
LinkWithRef(c, a, u, r) ==
  /\ a \in authenticate_session \cap admins
  /\ \E pc \in {"touchRemote", "touchLink"} : Start(c, pc, r, u, a)
  /\ UNCHANGED Stores

\* unlinkFromDinoparc and the like
Unlink(c, a, u, r) ==
  /\ a \in authenticate_session
  /\ a = u \/ a \in admins
  /\ Start(c, "deleteLink", r, u, a)
  /\ UNCHANGED Stores

-----------------------------------------------------------------------------
(* The store calls.                                                        *)

\* get_link_from_dinoparc: an account is created when no link is found
GetLink(c) ==
  /\ At(c, "getLink")
  /\ \/ \E u \in Holders(req[c].login) : ContinueAs(c, "getUser", u)
     \/ Holders(req[c].login) = {} /\ Continue(c, "create")
  /\ UNCHANGED Stores

Named(n) == {u \in created : name[u] = n}

\* get_short_user: never finds an email address in PostgreSQL
Found(n) == IF n \in Emails THEN {} ELSE Named(n)

CheckName(c) ==
  /\ At(c, "checkName")
  /\ IF Found(req[c].login) = {} THEN Continue(c, "create") ELSE Finish(c)
  /\ UNCHANGED Stores

\* authenticate_user_with_password: the client sent the right password
CheckPassword(c) ==
  /\ At(c, "password")
  /\ \/ \E u \in Found(req[c].login) : ContinueAs(c, "getUser", u)
     \/ Found(req[c].login) = {} /\ Finish(c)
  /\ UNCHANGED Stores

\* Mutant: not an administrator if another sign-up is about to be one
BeginCreateShy(c) ==
  /\ At(c, "create")
  /\ Become(c, [req[c] EXCEPT
       !.pc = "commit",
       !.admin = admins = {} /\ \A d \in Calls : ~At(d, "commit")])
  /\ UNCHANGED held /\ UNCHANGED Stores

\* create_user, INSERT INTO users: administrator unless one is committed
BeginCreate(c) ==
  /\ At(c, "create")
  /\ Become(c, [req[c] EXCEPT !.pc = "commit", !.admin = (admins = {})])
  /\ UNCHANGED held /\ UNCHANGED Stores

\* EXCLUDE USING gist (username ...), (email ...) of users_history
Taken(n) == n # None /\ Named(n) # {}

\* create_user, the history row and the commit; the constraints wait for the
\* transactions in progress
CommitCreate(c) ==
  /\ At(c, "commit")
  /\ LET n == IF req[c].login \in Names THEN req[c].login ELSE None
     IN  \/ /\ ~Taken(n)
            /\ \E u \in Users \ created :
                 /\ created' = created \cup {u}
                 /\ admins' = IF req[c].admin THEN admins \cup {u} ELSE admins
                 /\ name' = [name EXCEPT ![u] = n]
                 /\ IF n = None THEN ContinueAs(c, "touchRemote", u)
                                ELSE ContinueAs(c, "openSession", u)
         \/ /\ Taken(n)
            /\ Finish(c)
            /\ UNCHANGED <<created, admins, name>>
  /\ UNCHANGED <<links, known, sessions>>

\* touch_short_user
TouchRemote(c) ==
  /\ At(c, "touchRemote")
  /\ known' = known \cup {req[c].login}
  /\ Continue(c, "touchLink")
  /\ UNCHANGED <<created, admins, name, links, sessions>>

Free(u, r) == Holders(r) = {} /\ \A l \in links : l.etwin # u

\* The EXCLUDE constraints and the foreign keys of the link table
Accepted(u, r) == /\ Free(u, r)
                  /\ ForeignKeys => u \in created /\ r \in known

\* The requests in progress about r witness that u holds it
Witness(u, r) ==
  held' = [c \in Calls |-> IF req'[c].login = r THEN held[c] \cup {u}
                           ELSE IF req'[c].pc = "idle" THEN {} ELSE held[c]]

\* Mutant: a login ignores that its link was refused
TouchLinkAnyway(c) ==
  LET u == req[c].user
      r == req[c].login
  IN /\ At(c, "touchLink")
     /\ req[c].actor = None
     /\ links' = IF Accepted(u, r)
                 THEN links \cup {[etwin |-> u, remote |-> r]} ELSE links
     /\ Become(c, [req[c] EXCEPT !.pc = "getUser"])
     /\ IF Accepted(u, r) THEN Witness(u, r) ELSE UNCHANGED held
     /\ UNCHANGED <<created, admins, name, known, sessions>>

\* touch_dinoparc_link: a login goes on, a link request is over
TouchLink(c) ==
  LET u == req[c].user
      r == req[c].login
  IN /\ At(c, "touchLink")
     /\ \/ /\ Accepted(u, r)
           /\ links' = links \cup {[etwin |-> u, remote |-> r]}
           /\ Become(c, IF req[c].actor = None
                        THEN [req[c] EXCEPT !.pc = "getUser"] ELSE IdleRequest)
           /\ Witness(u, r)
        \/ /\ ~Accepted(u, r)
           /\ Finish(c)
           /\ UNCHANGED links
     /\ UNCHANGED <<created, admins, name, known, sessions>>

\* delete_dinoparc_link
DeleteLink(c) ==
  /\ At(c, "deleteLink")
  /\ links' = links \ {[etwin |-> req[c].user, remote |-> req[c].login]}
  /\ Finish(c)
  /\ UNCHANGED <<created, admins, name, known, sessions>>

\* get_user, unwrapped: a missing user would be a panic, hence a Fail
GetUser(c) ==
  /\ At(c, "getUser")
  /\ req[c].user \in created
  /\ Continue(c, "openSession")
  /\ UNCHANGED Stores

\* create_session
OpenSession(c) ==
  /\ At(c, "openSession")
  /\ sessions' = sessions \cup {req[c].user}
  /\ Continue(c, "answered")
  /\ UNCHANGED <<created, admins, name, links, known>>

\* The client has its session
Answer(c) == At(c, "answered") /\ Finish(c) /\ UNCHANGED Stores

\* A store call fails, the client is gone or the server stops
Fail(c) == /\ ~At(c, "idle")
           /\ Finish(c)
           /\ UNCHANGED Stores

Receive(c) ==
  \/ \E r \in Remotes : LoginRemote(c, r)
  \/ \E n \in Names : Register(c, n) \/ LoginPassword(c, n)
  \/ \E u \in Users, r \in Remotes : LinkWithCredentials(c, u, r)
  \/ \E a, u \in Users, r \in Remotes :
       LinkWithRef(c, a, u, r) \/ Unlink(c, a, u, r)

Step(c) == \/ GetLink(c) \/ CheckName(c) \/ CheckPassword(c)
           \/ BeginCreate(c) \/ CommitCreate(c)
           \/ TouchRemote(c) \/ TouchLink(c) \/ DeleteLink(c)
           \/ GetUser(c) \/ OpenSession(c) \/ Answer(c)

Next == \E c \in Calls : Receive(c) \/ Step(c) \/ Fail(c)

Spec == Init /\ [][Next]_vars

-----------------------------------------------------------------------------
(* RightfulSession: a session opened for a game login belongs to a user    *)
(* who held that game user at some instant of the request; a session       *)
(* opened with a username belongs to the user of that name.  The account   *)
(* created by a login that lost the race for the link is never entered.    *)
RightfulSession ==
  \A c \in Calls : At(c, "answered") =>
    IF req[c].login \in Remotes THEN req[c].user \in held[c]
                                ELSE name[req[c].user] = req[c].login

(* AdministratorExists: as soon as one user exists, one is an              *)
(* administrator, in whatever order the concurrent sign-ups commit.        *)
AdministratorExists == created # {} => admins # {}

(* UniqueNames: two users never have the same username or address,         *)
(* although the check and the creation are two calls, and the check does   *)
(* not see addresses.                                                      *)
UniqueNames ==
  \A u, v \in created : name[u] = name[v] /\ name[u] # None => u = v

(* ProfilesResolve: the page of a linked user can be shown: resolveDinoparc*)
(* and its siblings (packages/core/src/lib/link/service.mts) find the      *)
(* remote user of every link, so "AssertionError:                          *)
(* ExpectedDinoparcUserToExist" is never thrown.  It does not hold in      *)
(* memory, where a link by reference needs no remote user.                 *)
ProfilesResolve == \A l \in links : l.remote \in known
=============================================================================

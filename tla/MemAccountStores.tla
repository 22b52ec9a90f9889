-------------------------- MODULE MemAccountStores --------------------------
(***************************************************************************)
(* The in-memory stores of accounts: of users (crates/user_store/src/      *)
(* mem.rs), OAuth clients (crates/oauth_provider_store/src/mem.rs) and     *)
(* sessions (crates/auth_store/src/mem.rs).  Each call holds the lock of   *)
(* its store; a panic under the write lock poisons it, and every later     *)
(* call panics too.  The callback of a client stands for its name and its  *)
(* addresses, and the secret for its hash.                                 *)
(***************************************************************************)
EXTENDS Temporal

CONSTANTS UserIds, Usernames, Emails, DisplayNames,
          USERNAME_LOCK_DURATION, USER_DISPLAY_NAME_LOCK_DURATION,
          ClientIds, ClientKeys, Callbacks, ClientSecrets, TokenKeys, SessionIds, Owners

ASSUME LockAssumption == USERNAME_LOCK_DURATION \in Nat \ {0}
ASSUME NotAUser == None \notin UserIds

VARIABLES users,             \* the users, by id
          users_by_username, users_by_email, \* Temporals of an id or None
          poisoned,
          drawn,             \* the ids that were drawn
          oauth_clients, client_keys, \* clients by id, ids by key
          access_tokens, auth_sessions,
          configured, \* what each key was configured with last (history variable)
          granted     \* the key whose client each token was for (history variable)

userVars == <<users, users_by_username, users_by_email, poisoned, drawn>>
authVars == <<oauth_clients, client_keys, access_tokens, auth_sessions, configured, granted>>

NoEntries == [k \in {} |-> None]

InitUsers == /\ users = NoEntries
             /\ users_by_username = NoEntries
             /\ users_by_email = NoEntries
             /\ poisoned = FALSE
             /\ drawn = {}

Panic == /\ poisoned' = TRUE
         /\ UNCHANGED <<users_by_username, users_by_email>>

\* create: the user is inserted first; a name that was ever used panics
create(id, display_name, username, email) ==
  /\ ~poisoned /\ id \notin drawn
  /\ drawn' = drawn \cup {id}
  /\ users' = Insert(users, id, [created_at |-> now,
                                 display_name |-> New(now, display_name),
                                 username |-> New(now, username),
                                 email_address |-> New(now, email),
                                 is_administrator |-> users = NoEntries])
  /\ IF username \in DOMAIN users_by_username \/ email \in DOMAIN users_by_email
     THEN Panic
     ELSE /\ users_by_username' = IF username = None THEN users_by_username
                                  ELSE Insert(users_by_username, username, New(now, id))
          /\ users_by_email' = IF email = None THEN users_by_email
                               ELSE Insert(users_by_email, email, New(now, id))
          /\ UNCHANGED poisoned

Locked(T, duration) == T.start <= now /\ now < T.start + duration

\* update: the patch leaves out a field with None; the index keeps the old name
DisplayNameLocked(user) ==
  /\ user.display_name.start # user.created_at
  /\ Locked(user.display_name, USER_DISPLAY_NAME_LOCK_DURATION)

update(id, display_name, username) ==
  LET user == users[id]
      named == IF display_name = None THEN user
               ELSE [user EXCEPT !.display_name = Set(@, now, display_name)]
      dated == display_name = None \/ CanSet(user.display_name, now)
      renamed == IF username = None THEN named
                 ELSE [named EXCEPT !.username = Set(@, now, username)]
  IN  /\ ~poisoned /\ id \in DOMAIN users
      /\ display_name # None => ~DisplayNameLocked(user)
      /\ username # None => ~Locked(user.username, USERNAME_LOCK_DURATION)
      /\ IF dated THEN users' = Insert(users, id, renamed) /\ UNCHANGED poisoned
         ELSE poisoned' = TRUE /\ UNCHANGED users
      /\ UNCHANGED <<users_by_username, users_by_email, drawn>>

\* hard_delete: the index forgets the user under each of their names, and
\* panics on a name it never had; the addresses stay
\* Mutant: the index keeps the user
DeleteUnindexed(id) ==
  /\ ~poisoned /\ id \in DOMAIN users
  /\ users' = [u \in DOMAIN users \ {id} |-> users[u]]
  /\ UNCHANGED <<users_by_username, users_by_email, poisoned, drawn>>

hard_delete(id) ==
  LET names == Values(users[id].username) \ {None}
      without == [uid \in UserIds \cup {None} |-> IF uid = id THEN None ELSE uid]
  IN  /\ ~poisoned /\ id \in DOMAIN users
      /\ users' = [u \in DOMAIN users \ {id} |-> users[u]]
      /\ IF names \subseteq DOMAIN users_by_username
         THEN /\ users_by_username' = [n \in DOMAIN users_by_username |->
                   IF n \in names THEN MapValues(users_by_username[n], without)
                   ELSE users_by_username[n]]
              /\ UNCHANGED <<users_by_email, poisoned>>
         ELSE Panic
      /\ UNCHANGED drawn

-----------------------------------------------------------------------------
(* What the calls read, at an instant or, with None, now                   *)

\* The user that a name designates, None if it designates nobody
ref_to_id(index, key, time) ==
  IF key \in DOMAIN index THEN ValueAt(index[key], time) ELSE None

\* From<MemUserSnapshot> for CompleteSimpleUser
Snapshot(user, time) == [display_name |-> ValueAt(user.display_name, time),
                         username |-> ValueAt(user.username, time),
                         email_address |-> ValueAt(user.email_address, time)]

\* get, then at: no result for a panic, for they assert that a user found by
\* name exists, and that a user was created before the instant that is asked
get_user(id, time) ==
  {Snapshot(users[u], time) :
     u \in {v \in DOMAIN users \cap {id} : time = None \/ users[v].created_at <= time}}

NextUsers ==
  \E id \in UserIds :
    \/ \E d \in DisplayNames, n \in Usernames \cup {None}, e \in Emails \cup {None} :
         create(id, d, n, e)
    \/ \E d \in DisplayNames \cup {None}, n \in Usernames \cup {None} : update(id, d, n)
    \/ hard_delete(id)

-----------------------------------------------------------------------------
(* OAuth clients, their access tokens, and sessions                        *)

InitAuth == /\ oauth_clients = NoHistory /\ client_keys = NoHistory
            /\ access_tokens = NoHistory /\ auth_sessions = NoHistory
            /\ configured = NoHistory /\ granted = NoHistory

\* What a reference finds: nothing, or one client
IdsOf(ref) == IF ref.by = "id" THEN {ref.id}
              ELSE {client_keys[k] : k \in {ref.key} \cap DOMAIN client_keys}

get_client(ref) == {oauth_clients[id] : id \in IdsOf(ref) \cap DOMAIN oauth_clients}

\* A client that is found by its key takes what differs, and keeps its id; id is
\* a fresh UUID for one that is not
upsert_system_client(id, options) ==
  LET known == IdsOf([by |-> "key", key |-> options.key]) \cap DOMAIN oauth_clients
  IN  /\ id \notin DOMAIN oauth_clients \/ id \in known
      /\ configured' = Insert(configured, options.key, options)
      /\ IF known = {}
         THEN /\ client_keys' = Insert(client_keys, options.key, id)
              /\ oauth_clients' = Insert(oauth_clients, id,
                   [id |-> id, key |-> options.key, callback |-> options.callback,
                    secret |-> options.secret, created_at |-> now])
         ELSE /\ oauth_clients' = [old \in DOMAIN oauth_clients |->
                   IF old \notin known THEN oauth_clients[old]
                   ELSE [oauth_clients[old] EXCEPT !.callback = options.callback,
                                                   !.secret = options.secret]]
              /\ UNCHANGED client_keys
      /\ UNCHANGED <<access_tokens, auth_sessions, granted>>

\* For a client that was authenticated by its key; the store does not look
create_access_token(t, key, user) ==
  /\ t \notin DOMAIN access_tokens
  /\ \E x \in get_client([by |-> "key", key |-> key]) :
       access_tokens' = Insert(access_tokens, t,
         [client |-> x.id, user |-> user, created_at |-> now, accessed_at |-> now])
  /\ granted' = Insert(granted, t, key)
  /\ UNCHANGED <<oauth_clients, client_keys, auth_sessions, configured>>

get_access_token(t, touch) ==
  /\ t \in DOMAIN access_tokens
  /\ access_tokens' = IF touch THEN [access_tokens EXCEPT ![t].accessed_at = now]
                      ELSE access_tokens
  /\ UNCHANGED <<oauth_clients, client_keys, auth_sessions, configured, granted>>

create_session(id, user) ==
  /\ id \notin DOMAIN auth_sessions
  /\ auth_sessions' = Insert(auth_sessions, id,
       [user |-> user, ctime |-> now, atime |-> now])
  /\ UNCHANGED <<oauth_clients, client_keys, access_tokens, configured, granted>>

get_and_touch_session(id) ==
  /\ id \in DOMAIN auth_sessions
  /\ auth_sessions' = [auth_sessions EXCEPT ![id].atime = now]
  /\ UNCHANGED <<oauth_clients, client_keys, access_tokens, configured, granted>>

NextAuth ==
  \/ \E id \in ClientIds,
        o \in [key : ClientKeys, callback : Callbacks, secret : ClientSecrets] :
       upsert_system_client(id, o)
  \/ \E t \in TokenKeys, k \in ClientKeys, u \in Owners : create_access_token(t, k, u)
  \/ \E t \in TokenKeys, touch \in BOOLEAN : get_access_token(t, touch)
  \/ \E id \in SessionIds, u \in Owners : create_session(id, u)
  \/ \E id \in SessionIds : get_and_touch_session(id)

-----------------------------------------------------------------------------
\* A user found by name, at any instant of the past, is answered and not a
\* panic: they exist, existed then, and were created under that name.  One found
\* by address has it, if they were not deleted.
UsersResolve ==
  ~poisoned => \A time \in (0 .. now) \cup {None} :
    /\ \A n \in Usernames :
         LET id == ref_to_id(users_by_username, n, time)
         IN  id # None =>
               /\ get_user(id, time) # {}
               /\ \A first \in get_user(id, users[id].created_at) : first.username = n
    /\ \A e \in Emails :
         LET id == ref_to_id(users_by_email, e, time)
         IN  id \in DOMAIN users =>
               /\ get_user(id, time) # {}
               /\ \A user \in get_user(id, time) : user.email_address = e

\* A key finds the client as it was configured last, under the id it always had:
\* the client that a token was given to is the one its key still designates.
\* Nothing was accessed before it was created, or later than now.
ClientsKeepTokens ==
  /\ \A k \in DOMAIN configured : \E x \in get_client([by |-> "key", key |-> k]) :
       [key |-> x.key, callback |-> x.callback, secret |-> x.secret] = configured[k]
  /\ \A t \in DOMAIN access_tokens :
       \E x \in get_client([by |-> "id", id |-> access_tokens[t].client]) :
         x.key = granted[t] /\ client_keys[granted[t]] = x.id
  /\ \A t \in DOMAIN access_tokens :
       access_tokens[t].created_at <= access_tokens[t].accessed_at
         /\ access_tokens[t].accessed_at <= now
  /\ \A s \in DOMAIN auth_sessions :
       auth_sessions[s].ctime <= auth_sessions[s].atime /\ auth_sessions[s].atime <= now

\* The in-memory stores of accounts lead from every key they still index to what
\* it designates: a user, or the client that tokens were given to.
IndexResolves == UsersResolve /\ ClientsKeepTokens
=============================================================================

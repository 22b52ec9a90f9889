----------------------------- MODULE AuthTokens -----------------------------
(***************************************************************************)
(* What the server signs or hands out and takes back later: verification   *)
(* mails, OAuth authorization codes and access tokens (AuthService in      *)
(* crates/services/src/auth.rs), on the clients of the OAuth provider      *)
(* store (crates/oauth_provider_store/src/pg.rs).                          *)
(*                                                                         *)
(* A signed token is its claims: without the key nobody makes another, and *)
(* nobody takes one back.  Whoever was handed a token may send it as often *)
(* as they like, to any request.  Each call reads, awaits, then writes.    *)
(***************************************************************************)
EXTENDS Naturals, FiniteSets

CONSTANTS Requesters, Addresses, Keys, Uris, Secrets,
          Configs,      \* the clients that servers are configured with
          MailValidity, CodeValidity,
          MaxNow, MaxMails, MaxUsers, MaxCodes, MaxTokens, \* bounds
          NoUri         \* of a request that leaves the redirection to the client

Config == [key : Keys, callback : Uris, secret : Secrets]

ASSUME TokensAssumption == /\ Configs \subseteq Config
                           /\ {MailValidity, CodeValidity} \subseteq Nat \ {0}
                           /\ {MaxNow, MaxMails, MaxUsers, MaxCodes, MaxTokens} \subseteq Nat
                           /\ NoUri \notin Uris

VARIABLES now,
          clients,  \* rows of oauth_clients, by their key: system clients
          mails,    \* verification tokens that were mailed
          users,    \* registered users
          codes,    \* authorization codes that were handed out, and where to
          tokens,   \* rows of oauth_access_tokens
          call      \* the call each requester is making

stores == <<clients, users, tokens>>
oauthVars == <<now, stores, mails, codes, call>>

Client == Config
Mail == [email : Addresses, iat : Nat]
User == [id : Nat, email : Addresses, password : Secrets, at : Nat]
Code == [aud : Keys, sub : Nat, iat : Nat, to : Uris]
Token == [id : Nat, client : Keys, user : Nat, ctime : Nat]

Idle == [pc |-> "idle"]

InitOauth == /\ now = 0
        /\ clients = {} /\ mails = {} /\ users = {} /\ codes = {} /\ tokens = {}
        /\ call = [c \in Requesters |-> Idle]

Leave(c) == call' = [call EXCEPT ![c] = Idle]
Fresh(S) == Cardinality(S) + 1 \* a UUID: rows are never deleted
ClientsOf(key) == {x \in clients : x.key = key}

\* iat <= now < exp, as both readers of signed tokens compare them
\* Mutant: the expiration is not compared
IssuedAt(iat, validity) == iat <= now
ValidAt(iat, validity) == iat <= now /\ now < iat + validity

Tick == now < MaxNow /\ now' = now + 1 /\ UNCHANGED <<stores, mails, codes, call>>

\* An error, a panic, or a server that stops; what is stored stays
FailCall(c) == /\ call[c].pc # "idle"
           /\ Leave(c)
           /\ UNCHANGED <<now, stores, mails, codes>>

-----------------------------------------------------------------------------
(* Clients                                                                 *)

\* upsert_system_client, at the start of a server: a row that differs ends in
\* todo!()
\* Mutant: the row is updated, as the store in memory does
StartServerOverwriting(c, config) ==
  LET old == ClientsOf(config.key)
  IN  /\ call[c].pc = "idle"
      /\ IF old = {} THEN call' = [call EXCEPT ![c] = [pc |-> "insert", config |-> config]]
                          /\ UNCHANGED clients
         ELSE /\ clients' = (clients \ old) \cup {config}
              /\ call' = [call EXCEPT ![c] = [pc |-> "started", config |-> config]]
      /\ UNCHANGED <<now, users, tokens, mails, codes>>

StartServer(c, config) ==
  /\ call[c].pc = "idle"
  /\ \/ /\ ClientsOf(config.key) = {}
        /\ call' = [call EXCEPT ![c] = [pc |-> "insert", config |-> config]]
     \/ /\ config \in clients
        /\ call' = [call EXCEPT ![c] = [pc |-> "started", config |-> config]]
  /\ UNCHANGED <<now, stores, mails, codes>>

\* One statement; UNIQUE (key) refuses a key that was taken meanwhile
InsertClient(c) ==
  /\ call[c].pc = "insert"
  /\ ClientsOf(call[c].config.key) = {}
  /\ clients' = clients \cup {call[c].config}
  /\ call' = [call EXCEPT ![c].pc = "started"]
  /\ UNCHANGED <<now, users, tokens, mails, codes>>

-----------------------------------------------------------------------------
(* Registration with an email address                                      *)

\* register_or_login_with_email; whoever reads the mail has the token
SendMail(email) ==
  /\ Cardinality(mails) < MaxMails
  /\ mails' = mails \cup {[email |-> email, iat |-> now]}
  /\ UNCHANGED <<now, stores, codes, call>>

\* register_with_verified_email reads the token; get_short_user by address,
\* which it asks whether the address is taken, always answers None
ReadMail(c, m) ==
  /\ call[c].pc = "idle"
  /\ ValidAt(m.iat, MailValidity)
  /\ call' = [call EXCEPT ![c] = [pc |-> "register", email |-> m.email, at |-> now]]
  /\ UNCHANGED <<now, stores, mails, codes>>

\* create_user: the EXCLUDE constraint refuses an address that was taken
\* meanwhile
CreateUser(c) ==
  /\ call[c].pc = "register"
  /\ Fresh(users) <= MaxUsers
  /\ \A u \in users : u.email # call[c].email
  /\ \E password \in Secrets :
       users' = users \cup {[id |-> Fresh(users), email |-> call[c].email,
                             password |-> password, at |-> call[c].at]}
  /\ Leave(c)
  /\ UNCHANGED <<now, clients, tokens, mails, codes>>

-----------------------------------------------------------------------------
(* Who makes a request: an Authorization header of a login and a password. *)
(* No row of a user is found by address, and no user has a username here.  *)

\* get_client_with_secret; a client of the server has a key beside its id
get_client_with_secret(login) ==
  {x \in clients : login.type \in {"OauthClientId", "OauthClientKey", "UntypedUuid"} /\ x.key = login.of}

authenticate_oauth_client(login, secret) ==
  {[type |-> "OauthClient", client |-> x.key] :
     x \in {y \in get_client_with_secret(login) : y.secret = secret}}

authenticate_user_with_password(login, password) ==
  {[type |-> "User", user |-> u.id] :
     u \in {v \in users : /\ login.type \in {"UserId", "UntypedUuid"}
                          /\ v.id = login.of /\ v.password = password}}

\* An identifier without a type is a user's, or else a client's
authenticate_credentials(login, password) ==
  LET user == authenticate_user_with_password(login, password)
  IN  IF user # {} THEN user ELSE authenticate_oauth_client(login, password)

UserIds == {u.id : u \in users}
Logins == [type : {"OauthClientId", "OauthClientKey"}, of : Keys]
            \cup [type : {"UserId"}, of : UserIds]
            \cup [type : {"UntypedUuid"}, of : Keys \cup UserIds]

\* Both read the client or the user once more, whom nothing deletes
AuthenticateCredentials(c, login, password) ==
  /\ call[c].pc = "idle"
  /\ \E context \in authenticate_credentials(login, password) :
       call' = [call EXCEPT ![c] = [pc |-> "authenticated", context |-> context]]
  /\ UNCHANGED <<now, stores, mails, codes>>

\* authenticate_session, for a user who holds the key of a session
AuthenticateSession(c, u) ==
  /\ call[c].pc = "idle"
  /\ call' = [call EXCEPT ![c] = [pc |-> "authenticated",
                                  context |-> [type |-> "User", user |-> u.id]]]
  /\ UNCHANGED <<now, stores, mails, codes>>

IsUser(c) == call[c].pc = "authenticated" /\ call[c].context.type = "User"
IsClient(c) == call[c].pc = "authenticated" /\ call[c].context.type = "OauthClient"

-----------------------------------------------------------------------------
(* The OAuth flow                                                          *)

\* grant_oauth_authorization, for a user: the client is read, and the
\* redirection compared with it when the request has one
ReadClient(c, key, uri) ==
  /\ IsUser(c)
  /\ \E x \in ClientsOf(key) :
       /\ uri \in {x.callback, NoUri}
       /\ call' = [call EXCEPT ![c] =
            [pc |-> "grant", user |-> call[c].context.user, client |-> x]]
  /\ UNCHANGED <<now, stores, mails, codes>>

\* create_code_token; the browser is sent to the callback that was read
IssueCode(c) ==
  /\ call[c].pc = "grant"
  /\ Cardinality(codes) < MaxCodes
  /\ codes' = codes \cup {[aud |-> call[c].client.key, sub |-> call[c].user,
                           iat |-> now, to |-> call[c].client.callback]}
  /\ Leave(c)
  /\ UNCHANGED <<now, stores, mails>>

\* create_access_token reads the clock and the code, then inserts the row
\* Mutant: the audience is not compared
ReadAnyCode(c, code) ==
  /\ IsClient(c)
  /\ ValidAt(code.iat, CodeValidity)
  /\ call' = [call EXCEPT ![c] = [pc |-> "token", client |-> call[c].context.client,
                                  user |-> code.sub, at |-> now]]
  /\ UNCHANGED <<now, stores, mails, codes>>

ReadCode(c, code) ==
  /\ IsClient(c)
  /\ ValidAt(code.iat, CodeValidity)
  /\ code.aud = call[c].context.client
  /\ call' = [call EXCEPT ![c] = [pc |-> "token", client |-> call[c].context.client,
                                  user |-> code.sub, at |-> now]]
  /\ UNCHANGED <<now, stores, mails, codes>>

CreateAccessToken(c) ==
  /\ call[c].pc = "token"
  /\ Fresh(tokens) <= MaxTokens
  /\ tokens' = tokens \cup
       {[id |-> Fresh(tokens), client |-> call[c].client,
         user |-> call[c].user, ctime |-> call[c].at]}
  /\ Leave(c)
  /\ UNCHANGED <<now, clients, users, mails, codes>>

\* authenticate_access_token: get_access_token writes an access time that
\* nothing compares (expires_at is never looked at), then the client and the
\* user are read
ReadToken(c, t) ==
  /\ call[c].pc = "idle"
  /\ call' = [call EXCEPT ![c] = [pc |-> "access", token |-> t]]
  /\ UNCHANGED <<now, stores, mails, codes>>

Authenticate(c) ==
  /\ call[c].pc = "access"
  /\ ClientsOf(call[c].token.client) # {}
  /\ \E u \in users : u.id = call[c].token.user
  /\ call' = [call EXCEPT ![c] =
       [pc |-> "answered", client |-> call[c].token.client, user |-> call[c].token.user]]
  /\ UNCHANGED <<now, stores, mails, codes>>

NextOauth == \/ Tick
        \/ \E e \in Addresses : SendMail(e)
        \/ \E c \in Requesters :
             \/ FailCall(c)
             \/ \E x \in Configs : StartServer(c, x)
             \/ InsertClient(c)
             \/ \E m \in mails : ReadMail(c, m)
             \/ CreateUser(c)
             \/ \E u \in users : AuthenticateSession(c, u)
             \/ \E l \in Logins, p \in Secrets : AuthenticateCredentials(c, l, p)
             \/ \E k \in Keys, uri \in Uris \cup {NoUri} : ReadClient(c, k, uri)
             \/ IssueCode(c)
             \/ \E code \in codes : ReadCode(c, code)
             \/ CreateAccessToken(c)
             \/ \E t \in tokens : ReadToken(c, t)
             \/ Authenticate(c)

OauthSpec == InitOauth /\ [][NextOauth]_oauthVars

-----------------------------------------------------------------------------
\* A server that started serves the client it was configured with, for as
\* long as it runs, however many servers start together.
ClientsAnswered ==
  /\ \A x, y \in clients : x.key = y.key => x = y
  /\ \A c \in Requesters : call[c].pc = "started" => call[c].config \in clients

Granted(client, user, at) ==
  \E code \in codes : /\ code.aud = client /\ code.sub = user
                      /\ code.iat <= at /\ at < code.iat + CodeValidity
                      /\ \E x \in clients : x.key = client /\ x.callback = code.to

\* A user has an address that was mailed a token, which was still valid when
\* they sent it; no two users have one address.
AddressesVerified ==
  /\ \A u \in users : \E m \in mails :
       m.email = u.email /\ m.iat <= u.at /\ u.at < m.iat + MailValidity
  /\ \A u, v \in users : u.email = v.email => u = v

\* A client that holds an access token, or was let in with one, had been sent a
\* code at its own callback with which that user let it in, and used it in time;
\* that user is registered, and users are the owners of their addresses.
AccessGranted ==
  /\ \A t \in tokens : /\ Granted(t.client, t.user, t.ctime)
                       /\ \E u \in users : u.id = t.user
  /\ \A c \in Requesters : call[c].pc = "answered" =>
       \E t \in tokens : t.client = call[c].client /\ t.user = call[c].user
  /\ AddressesVerified
=============================================================================

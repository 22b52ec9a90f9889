--------------------------- MODULE MemTokenStore ----------------------------
(***************************************************************************)
(* The in-memory token store (crates/token_store/src/mem.rs): the sessions *)
(* of one game server (Dinoparc, Hammerfest) and the Twinoid OAuth tokens. *)
(*                                                                         *)
(* Every operation holds the write lock from end to end and is one action. *)
(* Each map of keys has a second map from the user back to the key; the    *)
(* two are updated by hand.  Times are left out: they are only stored.     *)
(***************************************************************************)
CONSTANTS SessionKeys,    \* session keys of the game server
          GameUsers,      \* users of the game server
          TwinoidTokens,  \* access and refresh token keys
          TwinoidPlayers, \* Twinoid users
          Absent          \* what a map holds for a key that it does not have

ASSUME AbsentAssumption ==
  Absent \notin SessionKeys \cup GameUsers \cup TwinoidTokens \cup TwinoidPlayers

TokenKinds == {"access", "refresh"}

VARIABLES user_by_session, \* user of each session key: the map sessions
          session_by_user, \* session key of each user
          token_to_user,   \* by kind, Twinoid user of each token
          user_to_token    \* by kind, token of each Twinoid user

tokenVars == <<user_by_session, session_by_user, token_to_user, user_to_token>>

MemTypeOK ==
  /\ user_by_session \in [SessionKeys -> GameUsers \cup {Absent}]
  /\ session_by_user \in [GameUsers -> SessionKeys \cup {Absent}]
  /\ token_to_user \in [TokenKinds -> [TwinoidTokens -> TwinoidPlayers \cup {Absent}]]
  /\ user_to_token \in [TokenKinds -> [TwinoidPlayers -> TwinoidTokens \cup {Absent}]]

InitMem ==
  /\ user_by_session = [k \in SessionKeys |-> Absent]
  /\ session_by_user = [u \in GameUsers |-> Absent]
  /\ token_to_user = [kind \in TokenKinds |-> [t \in TwinoidTokens |-> Absent]]
  /\ user_to_token = [kind \in TokenKinds |-> [p \in TwinoidPlayers |-> Absent]]

-----------------------------------------------------------------------------
\* Mutant: the index of the previous user keeps the key
TouchSessionKeepIndex(k, u) ==
  /\ user_by_session[k] # u
  /\ user_by_session' = [user_by_session EXCEPT ![k] = u]
  /\ session_by_user' = [session_by_user EXCEPT ![u] = k]
  /\ UNCHANGED <<token_to_user, user_to_token>>

(* touch_session: for the same user only the access time changes; a key    *)
(* that changes hands is taken from the index of its previous user.        *)
TouchSession(k, u) ==
  /\ user_by_session[k] # u
  /\ user_by_session' = [user_by_session EXCEPT ![k] = u]
  /\ session_by_user' =
       [v \in GameUsers |-> IF v = u THEN k
                            ELSE IF v = user_by_session[k] THEN Absent
                            ELSE session_by_user[v]]
  /\ UNCHANGED <<token_to_user, user_to_token>>

(* revoke_session: the index entry of the user goes, whatever it says.     *)
RevokeSession(k) ==
  /\ user_by_session[k] # Absent
  /\ session_by_user' = [session_by_user EXCEPT ![user_by_session[k]] = Absent]
  /\ user_by_session' = [user_by_session EXCEPT ![k] = Absent]
  /\ UNCHANGED <<token_to_user, user_to_token>>

\* Mutant: the previous token of the player stays
AssignedAlso(kind, t, p) ==
  [s \in TwinoidTokens |-> IF s = t THEN p ELSE token_to_user[kind][s]]

(* touch_twinoid_oauth, for one kind: the token is the player's, and the   *)
(* token his index named before, if another one, is removed.               *)
Assigned(kind, t, p) ==
  [s \in TwinoidTokens |-> IF s = t THEN p
                    ELSE IF s = user_to_token[kind][p] THEN Absent
                    ELSE token_to_user[kind][s]]

TouchOauth(at, rt, p) ==
  LET key == [kind \in TokenKinds |-> IF kind = "access" THEN at ELSE rt]
  IN  /\ token_to_user' = [kind \in TokenKinds |-> Assigned(kind, key[kind], p)]
      /\ user_to_token' =
           [kind \in TokenKinds |-> [user_to_token[kind] EXCEPT ![p] = key[kind]]]
      /\ UNCHANGED <<user_by_session, session_by_user>>

(* revoke_twinoid_access_token, revoke_twinoid_refresh_token               *)
RevokeTokenInMem(kind, t) ==
  /\ token_to_user[kind][t] # Absent
  /\ user_to_token' = [user_to_token EXCEPT ![kind][token_to_user[kind][t]] = Absent]
  /\ token_to_user' = [token_to_user EXCEPT ![kind][t] = Absent]
  /\ UNCHANGED <<user_by_session, session_by_user>>

SessionStep == \/ \E k \in SessionKeys, u \in GameUsers : TouchSession(k, u)
               \/ \E k \in SessionKeys : RevokeSession(k)

TokenStep ==
  \/ \E at, rt \in TwinoidTokens, p \in TwinoidPlayers : TouchOauth(at, rt, p)
  \/ \E kind \in TokenKinds, t \in TwinoidTokens : RevokeTokenInMem(kind, t)

NextMem == SessionStep \/ TokenStep

MemSpec == InitMem /\ [][NextMem]_tokenVars

-----------------------------------------------------------------------------
(* SessionsResolve: the key that the index holds for a user names a live   *)
(* session of that very user, so that the unwrap of get_session never      *)
(* panics and get_dinoparc never returns the session of somebody else,     *)
(* although the index forgets the older keys of a user.                    *)
SessionsResolve ==
  \A u \in GameUsers :
    session_by_user[u] # Absent => user_by_session[session_by_user[u]] = u

(* TokensFound: the token that the index names for a Twinoid user is       *)
(* there, which the unwraps of get_twinoid_oauth take for granted.  It does*)
(* not hold: a touch removes tokens that the index of another user names.  *)
TokensFound ==
  \A kind \in TokenKinds, p \in TwinoidPlayers :
    user_to_token[kind][p] # Absent =>
      token_to_user[kind][user_to_token[kind][p]] # Absent

(* TokensIndexed: the index of a Twinoid user names the only token that is *)
(* his, so that the debug_assert_eq of revoke_twinoid_access_token and of  *)
(* revoke_twinoid_refresh_token hold, although the index keeps the names   *)
(* of tokens that went to another user.                                    *)
TokensIndexed ==
  \A kind \in TokenKinds, t \in TwinoidTokens :
    token_to_user[kind][t] # Absent => user_to_token[kind][token_to_user[kind][t]] = t

=============================================================================

--------------------------- MODULE PgOauthTokens ---------------------------
(***************************************************************************)
(* The Twinoid half of the PostgreSQL token store (token_store's pg.rs):   *)
(* the access and the refresh token of each user, and the archives of both.*)
(* touch_twinoid_oauth runs two archiving DELETEs, then two upserts, in a  *)
(* READ COMMITTED transaction; get_twinoid_oauth runs two SELECTs in one.  *)
(* Access times are left out: their CHECKs can only fail a statement.      *)
(***************************************************************************)
EXTENDS Naturals, FiniteSets

CONSTANTS Grants,     \* what Twinoid gives: a user, an access and a refresh token
          OauthCalls,
          Validity,   \* of an access token, as Twinoid answers it
          LastInstant \* bound of the clock

ASSUME ValidityAssumption == {Validity, LastInstant} \subseteq Nat

VARIABLES clock,
          tokens,     \* rows of twinoid_access_tokens and twinoid_refresh_tokens
          old_tokens, \* their archives
          otx,        \* the calls in progress
          touched     \* the pairs that were given for a user (history variable)

oauthVars == <<clock, tokens, old_tokens, otx, touched>>

Kinds == {"access", "refresh"}
OfBoth(S) == [kind \in Kinds |-> S]
OauthIdle == [pc |-> "idle"]

InitOauth == /\ clock = 0
             /\ tokens = OfBoth({}) /\ old_tokens = OfBoth({})
             /\ otx = [c \in OauthCalls |-> OauthIdle]
             /\ touched = {}

Become(c, t) == otx' = [otx EXCEPT ![c] = t]
OthersThan(c) == OauthCalls \ {c}
Touching(c) == otx[c].pc \in {"delete", "wait", "upsert", "commit"}

\* Rows that the transaction of another call has deleted, inserted or updated
HeldBy(c, kind) == IF Touching(c) THEN otx[c].gone[kind] \cup otx[c].kept[kind] ELSE {}
HeldByOthers(c, kind) == UNION {HeldBy(d, kind) : d \in OthersThan(c)}

\* PRIMARY KEY and CHECK (ctime < dtime) of the archive
CanArchive(kind, row, dtime) ==
  /\ row.ctime < dtime
  /\ \A old \in old_tokens[kind] : ~(old.row.key = row.key /\ old.row.ctime = row.ctime)

Archive(rows, dtime) == {[row |-> row, dtime |-> dtime] : row \in rows}

-----------------------------------------------------------------------------
(* touch_twinoid_oauth                                                     *)

BeginTouch(c, grant) ==
  /\ otx[c].pc = "idle"
  /\ Become(c, [pc |-> "delete", kind |-> "access", user |-> grant.user, now |-> clock,
                key |-> [access |-> grant.access, refresh |-> grant.refresh],
                seen |-> {}, gone |-> OfBoth({}), kept |-> OfBoth({})])
  /\ UNCHANGED <<clock, tokens, old_tokens, touched>>

\* The key under another user, and the user under another key
Revoked(t) == {row \in tokens[t.kind] : (row.key = t.key[t.kind]) # (row.user = t.user)}

\* The access tokens first, then the refresh tokens; a statement after the other
Followed(t, pc) == IF t.kind = "access" THEN [t EXCEPT !.kind = "refresh"]
                   ELSE [t EXCEPT !.kind = "access", !.pc = pc]

\* A DELETE takes what it selects, or waits for those who hold it
DeleteTokens(c) ==
  LET t == otx[c]
      rows == IF t.pc = "wait" THEN t.seen \cap tokens[t.kind] ELSE Revoked(t)
      free == (IF t.pc = "wait" THEN t.seen ELSE rows) \cap HeldByOthers(c, t.kind) = {}
  IN  /\ t.pc \in {"delete", "wait"}
      /\ IF free
         THEN /\ \A row \in rows : CanArchive(t.kind, row, t.now)
              /\ Become(c, Followed([t EXCEPT !.pc = "delete", !.gone[t.kind] = rows], "upsert"))
         ELSE t.pc = "delete" /\ Become(c, [t EXCEPT !.pc = "wait", !.seen = rows])
      /\ UNCHANGED <<clock, tokens, old_tokens, touched>>

\* Mutant: the tables lack UNIQUE (twinoid_user_id)
UpsertTokenShared(c) ==
  LET t == otx[c]
      mine == tokens[t.kind] \ t.gone[t.kind]
      same == {row \in mine : row.key = t.key[t.kind]}
      new == [key |-> t.key[t.kind], user |-> t.user, ctime |-> t.now]
  IN  /\ t.pc = "upsert"
      /\ \A row \in HeldByOthers(c, t.kind) : row.key # new.key
      /\ Become(c, Followed([t EXCEPT !.kept[t.kind] = IF same = {} THEN {new} ELSE same],
                            "commit"))
      /\ UNCHANGED <<clock, tokens, old_tokens, touched>>

\* INSERT ... ON CONFLICT (hash) DO UPDATE SET atime: the row of the key stays
\* as it is, whoever its user; CHECK (atime <= expiration_time) refuses an access
\* token that expired, UNIQUE (twinoid_user_id) a second token
UpsertToken(c) ==
  LET t == otx[c]
      mine == tokens[t.kind] \ t.gone[t.kind]
      same == {row \in mine : row.key = t.key[t.kind]}
      new == [key |-> t.key[t.kind], user |-> t.user, ctime |-> t.now]
  IN  /\ t.pc = "upsert"
      /\ \A row \in HeldByOthers(c, t.kind) :
           row.key # new.key /\ (same = {} => row.user # t.user)
      /\ IF same = {} THEN \A row \in mine : row.user # t.user
         ELSE t.kind = "access" => \A row \in same : t.now <= row.ctime + Validity
      /\ Become(c, Followed([t EXCEPT !.kept[t.kind] = IF same = {} THEN {new} ELSE same],
                            "commit"))
      /\ UNCHANGED <<clock, tokens, old_tokens, touched>>

\* A read in progress that finds the tokens of another instant at its second SELECT
Torn(new) == [c \in OauthCalls |->
  IF otx[c].pc # "readAccess" THEN otx[c]
  ELSE [otx[c] EXCEPT !.torn = @ \/ \E kind \in Kinds :
          {r \in new[kind] : r.user = otx[c].user} # {r \in tokens[kind] : r.user = otx[c].user}]]

CommitTouch(c) ==
  LET t == otx[c]
      new == [kind \in Kinds |-> (tokens[kind] \ t.gone[kind]) \cup t.kept[kind]]
  IN  /\ t.pc = "commit"
      /\ tokens' = new
      /\ old_tokens' = [kind \in Kinds |-> old_tokens[kind] \cup Archive(t.gone[kind], t.now)]
      /\ touched' = touched \cup
           {[user |-> t.user, access |-> t.key["access"], refresh |-> t.key["refresh"]]}
      /\ otx' = [Torn(new) EXCEPT ![c] = OauthIdle]
      /\ UNCHANGED clock

\* A constraint fails, a deadlock is broken or the connection is lost
RollbackOauth(c) == /\ otx[c].pc # "idle" /\ Become(c, OauthIdle)
                    /\ UNCHANGED <<clock, tokens, old_tokens, touched>>

-----------------------------------------------------------------------------
(* revoke_twinoid_access_token, revoke_twinoid_refresh_token: one          *)
(* statement, which reads the clock before it waits                        *)

RevokeToken(kind, key, now) ==
  LET rows == {row \in tokens[kind] : row.key = key}
      new == [tokens EXCEPT ![kind] = @ \ rows]
  IN  /\ rows # {} /\ now <= clock
      /\ \A c \in OauthCalls : rows \cap HeldBy(c, kind) = {}
      /\ \A row \in rows : CanArchive(kind, row, now)
      /\ tokens' = new
      /\ old_tokens' = [old_tokens EXCEPT ![kind] = @ \cup Archive(rows, now)]
      /\ otx' = Torn(new)
      /\ UNCHANGED <<clock, touched>>

-----------------------------------------------------------------------------
(* get_twinoid_oauth: the clock, the refresh token, then the access token  *)
(* unless it expired                                                       *)

ReadRefresh(c, user) ==
  /\ otx[c].pc = "idle"
  /\ Become(c, [pc |-> "readAccess", user |-> user, now |-> clock, torn |-> FALSE,
                refresh |-> {row \in tokens["refresh"] : row.user = user}])
  /\ UNCHANGED <<clock, tokens, old_tokens, touched>>

ReadAccess(c) ==
  LET t == otx[c]
  IN  /\ t.pc = "readAccess"
      /\ Become(c, [pc |-> "answered", user |-> t.user, torn |-> t.torn, refresh |-> t.refresh,
                    access |-> {row \in tokens["access"] :
                                  row.user = t.user /\ t.now < row.ctime + Validity}])
      /\ UNCHANGED <<clock, tokens, old_tokens, touched>>

TickOauth == clock < LastInstant /\ clock' = clock + 1
             /\ UNCHANGED <<tokens, old_tokens, otx, touched>>

NextOauth ==
  \/ TickOauth
  \/ \E kind \in Kinds, g \in Grants, now \in 0 .. clock : RevokeToken(kind, g[kind], now)
  \/ \E c \in OauthCalls :
       \/ \E g \in Grants : BeginTouch(c, g) \/ ReadRefresh(c, g.user)
       \/ DeleteTokens(c) \/ UpsertToken(c) \/ CommitTouch(c) \/ RollbackOauth(c)
       \/ ReadAccess(c)

-----------------------------------------------------------------------------
Together(user, access, refresh) ==
  [user |-> user, access |-> access, refresh |-> refresh] \in touched

\* A token of the user was given for another user too, which Twinoid does not do
Contested(user) ==
  \E x, y \in touched : /\ x.user = user /\ y.user # user
                        /\ x.access = y.access \/ x.refresh = y.refresh

\* The two tokens that are stored for a user are of one grant, whatever touches
\* and revocations run at once, and so are the two that a call answers, unless
\* the tokens of the user changed between its two SELECTs.
GrantsTogether ==
  /\ \A a \in tokens["access"], r \in tokens["refresh"] :
       a.user = r.user => Together(a.user, a.key, r.key) \/ Contested(a.user)
  /\ \A c \in OauthCalls : otx[c].pc = "answered" /\ ~otx[c].torn =>
       \A a \in otx[c].access, r \in otx[c].refresh :
         Together(otx[c].user, a.key, r.key) \/ Contested(otx[c].user)
=============================================================================

---------------------------- MODULE PgTokenStore ----------------------------
(***************************************************************************)
(* The PostgreSQL token store (crates/token_store/src/pg.rs): the sessions *)
(* of one game server, dinoparc_sessions and old_dinoparc_sessions, their  *)
(* Hammerfest counterparts being the same.                                 *)
(*                                                                         *)
(* touch_dinoparc is a READ COMMITTED transaction of two statements: an    *)
(* archiving DELETE, then an upsert.  The DELETE selects its rows when it  *)
(* starts and takes them once the transactions that hold them are over.    *)
(* Access times, foreign keys and the CHECKs on them are left out: they    *)
(* can only make a statement fail, as Rollback does at any point.          *)
(***************************************************************************)
EXTENDS Naturals

CONSTANTS Keys,   \* session keys
          Users,  \* users of the game server
          Calls,  \* concurrent calls
          MaxNow, \* bound on the clock
          None

ASSUME NoneAssumption   == None \notin Keys \cup Users
ASSUME MaxNowAssumption == MaxNow \in Nat

Instants == 0 .. MaxNow
Row      == [key : Keys, user : Users, ctime : Instants]
OldRow   == [row : Row, dtime : Instants]

VARIABLES now,          \* the clock of the server
          sessions,     \* committed rows of dinoparc_sessions
          old_sessions, \* committed rows of old_dinoparc_sessions
          tx,           \* the transactions
          rivals        \* for each call, the calls that touched the same key
                        \* for another user while it ran (history variable)

vars == <<now, sessions, old_sessions, tx, rivals>>

Tx == [pc : {"idle", "delete", "take", "upsert", "commit"},
       key : Keys \cup {None}, user : Users \cup {None}, now : Instants,
       seen : SUBSET Row, \* rows the DELETE has selected
       gone : SUBSET Row, \* rows it has deleted, and locks
       kept : SUBSET Row] \* the row inserted or updated, and locked

TypeOK == /\ now \in Instants
          /\ sessions \subseteq Row
          /\ old_sessions \subseteq OldRow
          /\ tx \in [Calls -> Tx]
          /\ rivals \in [Calls -> SUBSET Calls]

Idle == [pc |-> "idle", key |-> None, user |-> None, now |-> 0,
         seen |-> {}, gone |-> {}, kept |-> {}]

Init == /\ now = 0
        /\ sessions = {}
        /\ old_sessions = {}
        /\ tx = [c \in Calls |-> Idle]
        /\ rivals = [c \in Calls |-> {}]

-----------------------------------------------------------------------------
Others(c) == Calls \ {c}

Running(c) == tx[c].pc # "idle"

Locked(c, r) == \E d \in Others(c) : r \in tx[d].gone \cup tx[d].kept

\* PRIMARY KEY and CHECK (dtime > ctime) of old_dinoparc_sessions
Archivable(r, t) ==
  /\ t > r.ctime
  /\ \A o \in old_sessions : ~(o.row.key = r.key /\ o.row.ctime = r.ctime)

Archived(rows, t) == {[row |-> r, dtime |-> t] : r \in rows}

Rivals(c, k, u) ==
  {d \in Others(c) : Running(d) /\ tx[d].key = k /\ tx[d].user # u}

-----------------------------------------------------------------------------
(* touch_dinoparc: the transaction starts and reads the clock.             *)
Begin(c, k, u) ==
  /\ ~Running(c)
  /\ tx' = [tx EXCEPT ![c] = [Idle EXCEPT !.pc = "delete", !.key = k,
                                         !.user = u, !.now = now]]
  /\ rivals' = [d \in Calls |->
                  IF d = c THEN Rivals(c, k, u)
                  ELSE IF d \in Rivals(c, k, u) THEN rivals[d] \cup {c}
                  ELSE rivals[d]]
  /\ UNCHANGED <<now, sessions, old_sessions>>

\* Mutant: the DELETE forgets the key under another user
SelectUserOnly(c) ==
  /\ tx[c].pc = "delete"
  /\ tx' = [tx EXCEPT ![c] = [@ EXCEPT
       !.pc = "take",
       !.seen = {r \in sessions : r.key # tx[c].key /\ r.user = tx[c].user}]]
  /\ UNCHANGED <<now, sessions, old_sessions, rivals>>

(* The DELETE selects the key under another user, the user under another   *)
(* key.                                                                    *)
Select(c) ==
  /\ tx[c].pc = "delete"
  /\ tx' = [tx EXCEPT ![c] = [@ EXCEPT
       !.pc = "take",
       !.seen = {r \in sessions : (r.key = tx[c].key) # (r.user = tx[c].user)}]]
  /\ UNCHANGED <<now, sessions, old_sessions, rivals>>

(* It deletes those that are still there once nobody else holds them.      *)
Take(c) ==
  LET rows == tx[c].seen \cap sessions
  IN  /\ tx[c].pc = "take"
      /\ \A r \in tx[c].seen : ~Locked(c, r)
      /\ \A r \in rows : Archivable(r, tx[c].now)
      /\ tx' = [tx EXCEPT ![c] = [@ EXCEPT !.pc = "upsert", !.gone = rows]]
      /\ UNCHANGED <<now, sessions, old_sessions, rivals>>

(* INSERT ... ON CONFLICT (key) DO UPDATE SET atime: waits for whoever has *)
(* a row of the same key or user in progress.  A row of the key is kept as *)
(* it is, whoever its user; without one, UNIQUE (user) must hold.          *)
Upsert(c) ==
  LET mine == sessions \ tx[c].gone
      same == {r \in mine : r.key = tx[c].key}
      new  == [key |-> tx[c].key, user |-> tx[c].user, ctime |-> tx[c].now]
  IN  /\ tx[c].pc = "upsert"
      /\ \A d \in Others(c) : \A r \in tx[d].gone \cup tx[d].kept :
           r.key # tx[c].key /\ (same = {} => r.user # tx[c].user)
      /\ \/ /\ same # {}
            /\ tx' = [tx EXCEPT ![c] = [@ EXCEPT !.pc = "commit", !.kept = same]]
         \/ /\ same = {}
            /\ \A r \in mine : r.user # tx[c].user
            /\ tx' = [tx EXCEPT ![c] = [@ EXCEPT !.pc = "commit", !.kept = {new}]]
      /\ UNCHANGED <<now, sessions, old_sessions, rivals>>

(* The caller is told that the key is a session of its user.               *)
Commit(c) ==
  /\ tx[c].pc = "commit"
  /\ sessions' = (sessions \ tx[c].gone) \cup tx[c].kept
  /\ old_sessions' = old_sessions \cup Archived(tx[c].gone, tx[c].now)
  /\ tx' = [tx EXCEPT ![c] = Idle]
  /\ rivals' = [rivals EXCEPT ![c] = {}]
  /\ UNCHANGED now

(* A constraint fails, a deadlock is broken or the connection is lost.     *)
Rollback(c) ==
  /\ Running(c)
  /\ tx' = [tx EXCEPT ![c] = Idle]
  /\ rivals' = [rivals EXCEPT ![c] = {}]
  /\ UNCHANGED <<now, sessions, old_sessions>>

(* revoke_dinoparc: one statement, which reads the clock before it waits.  *)
Revoke(c, k, t) ==
  LET rows == {r \in sessions : r.key = k}
  IN  /\ ~Running(c)
      /\ t <= now
      /\ rows # {}
      /\ \A r \in rows : Archivable(r, t) /\ ~Locked(c, r)
      /\ sessions' = sessions \ rows
      /\ old_sessions' = old_sessions \cup Archived(rows, t)
      /\ UNCHANGED <<now, tx, rivals>>

Tick == /\ now < MaxNow
        /\ now' = now + 1
        /\ UNCHANGED <<sessions, old_sessions, tx, rivals>>

Call(c) == \/ \E k \in Keys, u \in Users : Begin(c, k, u)
           \/ Select(c) \/ Take(c) \/ Upsert(c) \/ Commit(c) \/ Rollback(c)
           \/ \E k \in Keys, t \in Instants : Revoke(c, k, t)

Next == Tick \/ \E c \in Calls : Call(c)

Spec == Init /\ [][Next]_vars

-----------------------------------------------------------------------------
(* OneSession: "There can only be one session key per user", and a key has *)
(* one session, whatever the interleaving of the statements of concurrent  *)
(* touches.                                                                *)
OneSession ==
  \A r, s \in sessions : r.key = s.key \/ r.user = s.user => r = s

(* LocksHold: a row that a transaction has deleted or updated stays as it  *)
(* is until that transaction ends: nobody else has deleted it too, so a    *)
(* commit neither archives a session twice nor brings back a deleted one.  *)
LocksHold ==
  \A c \in Calls :
    /\ tx[c].gone \subseteq sessions
    /\ tx[c].gone \cap tx[c].kept = {}
    /\ \A d \in Others(c) : tx[c].gone \cap (tx[d].gone \cup tx[d].kept) = {}
    /\ \A r \in tx[c].kept : r \in sessions \/ r.user = tx[c].user

(* MisreportOnlyUnderRace: a touch whose caller is told of a session that  *)
(* is not the stored one ran together with a touch of the same key for     *)
(* another user.                                                           *)
MisreportOnlyUnderRace ==
  \A c \in Calls : \A r \in tx[c].kept :
    r.user # tx[c].user => rivals[c] # {}
=============================================================================

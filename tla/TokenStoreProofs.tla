-------------------------- MODULE TokenStoreProofs ---------------------------
(***************************************************************************)
(* The token stores, for any number of keys, users and concurrent calls.   *)
(* In PostgreSQL a key and a user have one session, locks keep the         *)
(* transactions from undoing one another, and the tokens of a user are of  *)
(* one grant; in memory the hand-kept indices lead to live entries.        *)
(***************************************************************************)
EXTENDS MCPgStores, MemTokenStore, TLAPS

Clash(r, s) == r.key = s.key \/ r.user = s.user

(* A row is what the caller asked for.                                     *)
Kin(t, r) == r.key = t.key /\ r.user = t.user

(* A transaction that runs has a key and a user.                           *)
Typed == /\ TypeOK
         /\ \A c \in Calls : Running(c) => tx[c].key \in Keys /\ tx[c].user \in Users

(* What a transaction holds at each of its steps.                          *)
Holds(c) ==
  /\ tx[c].pc \notin {"upsert", "commit"} => tx[c].gone = {}
  /\ tx[c].pc # "commit" => tx[c].kept = {}
  /\ tx[c].pc = "take" => \A r \in tx[c].seen : ~Kin(tx[c], r)
  /\ \A r \in tx[c].gone : r \in sessions /\ ~Kin(tx[c], r)
  /\ \A r \in tx[c].kept : r.key = tx[c].key
  /\ \A r \in tx[c].kept :
       \/ r \in sessions \ tx[c].gone
       \/ /\ r.user = tx[c].user
          /\ \A s \in sessions \ tx[c].gone : ~Clash(r, s)
  /\ \A r, s \in tx[c].kept : r = s

(* What two transactions hold together.                                    *)
Apart(c, d) ==
  /\ tx[c].gone \cap (tx[d].gone \cup tx[d].kept) = {}
  /\ \A r \in tx[c].kept, s \in tx[d].kept : ~Clash(r, s)

(* Rivals are recorded for as long as both run.                            *)
RivalsKnown ==
  \A c \in Calls : \A d \in Others(c) :
    (/\ Running(c) /\ Running(d)
     /\ tx[c].key = tx[d].key /\ tx[c].user # tx[d].user) => d \in rivals[c]

(* A session of the key for another user that no rival touched is one that *)
(* the DELETE has seen, then one that it has deleted.                      *)
Seen(c) ==
  rivals[c] = {} =>
    /\ \A r \in sessions :
         (r.key = tx[c].key /\ r.user # tx[c].user) =>
           /\ tx[c].pc = "take" => r \in tx[c].seen
           /\ tx[c].pc = "upsert" => r \in tx[c].gone
    /\ \A r \in tx[c].kept : r.user = tx[c].user

SeenInv == RivalsKnown /\ \A c \in Calls : Seen(c)

Locks == /\ \A c \in Calls : Holds(c)
         /\ \A c \in Calls : \A d \in Others(c) : Apart(c, d)

Inv == Typed /\ OneSession /\ Locks

-----------------------------------------------------------------------------
LEMMA InitInv == Init => Inv /\ SeenInv
<1> SUFFICES ASSUME Init
             PROVE  Inv /\ SeenInv
  OBVIOUS
<1>1. Idle \in Tx
  BY MaxNowAssumption DEF Idle, Tx, Instants
<1>2. TypeOK
  BY <1>1, MaxNowAssumption DEF TypeOK, Init, Instants
<1>3. \A c \in Calls : /\ tx[c].pc = "idle" /\ tx[c].gone = {} /\ tx[c].kept = {}
                       /\ rivals[c] = {}
  BY DEF Init, Idle
<1>4. OneSession /\ Locks
  BY <1>3 DEF Init, OneSession, Locks, Holds, Apart, Running
<1>5. SeenInv
  BY <1>3 DEF Init, SeenInv, RivalsKnown, Seen, Running, Others
<1>6. QED
  BY <1>2, <1>3, <1>4, <1>5 DEF Inv, Typed, Running

(* What the steps do to one transaction.                                   *)
LEMMA StepTyping ==
  ASSUME TypeOK, NEW c \in Calls, NEW t \in Tx, tx' = [tx EXCEPT ![c] = t]
  PROVE  tx' \in [Calls -> Tx] /\ tx'[c] = t /\ \A d \in Others(c) : tx'[d] = tx[d]
BY DEF TypeOK, Others

LEMMA IdleTyping == Idle \in Tx
BY MaxNowAssumption DEF Idle, Tx, Instants

LEMMA SelectEffect ==
  ASSUME TypeOK, NEW c \in Calls, Select(c)
  PROVE  \E t \in Tx :
           /\ tx' = [tx EXCEPT ![c] = t]
           /\ t.pc = "take" /\ t.key = tx[c].key /\ t.user = tx[c].user
           /\ t.gone = tx[c].gone /\ t.kept = tx[c].kept
           /\ t.seen = {r \in sessions : (r.key = tx[c].key) # (r.user = tx[c].user)}
<1> DEFINE t == [tx[c] EXCEPT !.pc = "take",
                   !.seen = {r \in sessions : (r.key = tx[c].key) # (r.user = tx[c].user)}]
<1>1. tx' = [tx EXCEPT ![c] = t]
  BY DEF Select, TypeOK
<1>2. tx[c] \in Tx
  BY DEF TypeOK
<1>3. t \in Tx /\ {r \in sessions : (r.key = tx[c].key) # (r.user = tx[c].user)} = t.seen
  BY <1>2 DEF Tx, TypeOK
<1>4. /\ t.pc = "take" /\ t.key = tx[c].key /\ t.user = tx[c].user
      /\ t.gone = tx[c].gone /\ t.kept = tx[c].kept
  BY <1>2 DEF Tx
<1> HIDE DEF t
<1>5. QED
  BY <1>1, <1>3, <1>4

LEMMA TakeEffect ==
  ASSUME TypeOK, NEW c \in Calls, Take(c)
  PROVE  \E t \in Tx :
           /\ tx' = [tx EXCEPT ![c] = t]
           /\ t.pc = "upsert" /\ t.key = tx[c].key /\ t.user = tx[c].user
           /\ t.gone = tx[c].seen \cap sessions /\ t.kept = tx[c].kept
<1> DEFINE t == [tx[c] EXCEPT !.pc = "upsert", !.gone = tx[c].seen \cap sessions]
<1>1. tx' = [tx EXCEPT ![c] = t]
  BY DEF Take, TypeOK
<1>2. tx[c] \in Tx
  BY DEF TypeOK
<1>3. t \in Tx
  BY <1>2 DEF Tx, TypeOK
<1>4. /\ t.pc = "upsert" /\ t.key = tx[c].key /\ t.user = tx[c].user
      /\ t.gone = tx[c].seen \cap sessions /\ t.kept = tx[c].kept
  BY <1>2 DEF Tx
<1> HIDE DEF t
<1>5. QED
  BY <1>1, <1>3, <1>4

(* An upsert keeps the row of the key, or a new row that clashes with none *)
(* of those it sees.                                                       *)
Kept(c, rows) ==
  LET mine == sessions \ tx[c].gone
  IN  \/ rows = {r \in mine : r.key = tx[c].key}
      \/ \E n \in Row : /\ rows = {n} /\ n.key = tx[c].key /\ n.user = tx[c].user
                        /\ \A s \in mine : ~Clash(n, s)
                        /\ \A d \in Others(c) : \A r \in tx[d].gone \cup tx[d].kept :
                             ~Clash(n, r)

LEMMA UpsertEffect ==
  ASSUME Typed, NEW c \in Calls, Upsert(c)
  PROVE  \E t \in Tx :
           /\ tx' = [tx EXCEPT ![c] = t]
           /\ t.pc = "commit" /\ t.key = tx[c].key /\ t.user = tx[c].user
           /\ t.gone = tx[c].gone /\ Kept(c, t.kept)
<1> DEFINE same == {r \in sessions \ tx[c].gone : r.key = tx[c].key}
           new  == [key |-> tx[c].key, user |-> tx[c].user, ctime |-> tx[c].now]
           t(rows) == [tx[c] EXCEPT !.pc = "commit", !.kept = rows]
<1>1. tx[c] \in Tx /\ tx[c].key \in Keys /\ tx[c].user \in Users
  BY DEF Typed, TypeOK, Upsert, Running
<1>2. same \in SUBSET Row /\ {new} \in SUBSET Row
  BY <1>1 DEF Typed, TypeOK, Tx, Row
<1>3. ASSUME NEW rows \in SUBSET Row
      PROVE  /\ t(rows) \in Tx
             /\ t(rows).pc = "commit" /\ t(rows).key = tx[c].key
             /\ t(rows).user = tx[c].user /\ t(rows).gone = tx[c].gone
             /\ t(rows).kept = rows
  BY <1>1 DEF Tx
<1>4. CASE tx' = [tx EXCEPT ![c] = t(same)]
  <2>1. Kept(c, t(same).kept)
    BY <1>2, <1>3 DEF Kept
  <2> HIDE DEF t
  <2>2. QED
    BY <1>2, <1>3, <1>4, <2>1
<1>5. CASE same = {} /\ (\A r \in sessions \ tx[c].gone : r.user # tx[c].user)
           /\ tx' = [tx EXCEPT ![c] = t({new})]
  <2>1. /\ new.key = tx[c].key /\ new.user = tx[c].user /\ new \in Row
        /\ \A s \in sessions \ tx[c].gone : ~Clash(new, s)
    BY <1>2, <1>5 DEF Clash
  <2>2. \A d \in Others(c) : \A r \in tx[d].gone \cup tx[d].kept :
          r.key # tx[c].key /\ r.user # tx[c].user
    BY <1>5 DEF Upsert
  <2>3. Kept(c, {new})
    BY <2>1, <2>2 DEF Kept, Clash
  <2> HIDE DEF t, new
  <2>4. QED
    BY <1>2, <1>3, <1>5, <2>3
<1>6. QED
  <2> HIDE DEF t
  <2>1. \/ tx' = [tx EXCEPT ![c] = t(same)]
        \/ /\ same = {} /\ (\A r \in sessions \ tx[c].gone : r.user # tx[c].user)
           /\ tx' = [tx EXCEPT ![c] = t({new})]
    BY DEF Upsert, t
  <2>2. QED
    BY <1>4, <1>5, <2>1

LEMMA BeginEffect ==
  ASSUME TypeOK, NEW c \in Calls, NEW k \in Keys, NEW u \in Users, Begin(c, k, u)
  PROVE  \E t \in Tx :
           /\ tx' = [tx EXCEPT ![c] = t]
           /\ t.pc = "delete" /\ t.key = k /\ t.user = u
           /\ t.gone = {} /\ t.kept = {}
<1> DEFINE t == [Idle EXCEPT !.pc = "delete", !.key = k, !.user = u, !.now = now]
<1>1. tx' = [tx EXCEPT ![c] = t]
  BY DEF Begin
<1>2. Idle.gone = {} /\ Idle.kept = {}
  BY DEF Idle
<1>3. t \in Tx
  BY IdleTyping DEF Tx, TypeOK
<1>4. /\ t.pc = "delete" /\ t.key = k /\ t.user = u
      /\ t.gone = Idle.gone /\ t.kept = Idle.kept
  BY IdleTyping DEF Tx
<1> HIDE DEF t
<1>5. QED
  BY <1>1, <1>2, <1>3, <1>4

-----------------------------------------------------------------------------
LEMMA Typing == ASSUME Typed, Next
                PROVE  Typed'
<1> USE IdleTyping
<1>0. TypeOK
  BY DEF Typed
<1>1. ASSUME NEW c \in Calls, NEW t \in Tx, tx' = [tx EXCEPT ![c] = t],
             t.pc # "idle" => t.key \in Keys /\ t.user \in Users,
             UNCHANGED <<now, sessions, old_sessions>>, rivals' \in [Calls -> SUBSET Calls]
      PROVE  Typed'
  BY <1>0, <1>1, StepTyping DEF Typed, TypeOK, Running, Others
<1>2. CASE Tick
  BY <1>2, MaxNowAssumption DEF Tick, Typed, TypeOK, Instants, Running
<1>3. ASSUME NEW c \in Calls, NEW k \in Keys, NEW u \in Users, Begin(c, k, u)
      PROVE  Typed'
  <2>1. rivals' \in [Calls -> SUBSET Calls]
    BY <1>0, <1>3 DEF Begin, Rivals, Others, TypeOK
  <2>2. PICK t \in Tx : /\ tx' = [tx EXCEPT ![c] = t]
                        /\ t.key = k /\ t.user = u
    BY <1>0, <1>3, BeginEffect
  <2>3. UNCHANGED <<now, sessions, old_sessions>>
    BY <1>3 DEF Begin
  <2>4. QED
    BY <1>1, <2>1, <2>2, <2>3
<1>4. ASSUME NEW c \in Calls, Select(c) \/ Take(c) \/ Upsert(c)
      PROVE  Typed'
  <2>1. PICK t \in Tx : /\ tx' = [tx EXCEPT ![c] = t]
                        /\ t.key = tx[c].key /\ t.user = tx[c].user
    BY <1>0, <1>4, SelectEffect, TakeEffect, UpsertEffect
  <2>2. tx[c].key \in Keys /\ tx[c].user \in Users
    BY <1>4 DEF Typed, Running, Select, Take, Upsert
  <2>3. UNCHANGED <<now, sessions, old_sessions, rivals>>
    BY <1>4 DEF Select, Take, Upsert
  <2>4. QED
    BY <1>0, <1>1, <2>1, <2>2, <2>3 DEF TypeOK
<1>5. ASSUME NEW c \in Calls, Rollback(c)
      PROVE  Typed'
  <2>1. rivals' \in [Calls -> SUBSET Calls]
    BY <1>0, <1>5 DEF Rollback, TypeOK
  <2>2. QED
    BY <1>1, <1>5, <2>1 DEF Rollback, Idle
<1>6. ASSUME NEW c \in Calls, Commit(c)
      PROVE  Typed'
  <2>1. Archived(tx[c].gone, tx[c].now) \subseteq OldRow /\ tx[c].kept \subseteq Row
    BY <1>0 DEF Archived, OldRow, Tx, TypeOK
  <2>2. TypeOK'
    BY <1>0, <1>6, <2>1 DEF Commit, TypeOK
  <2>3. tx'[c].pc = "idle" /\ \A d \in Others(c) : tx'[d] = tx[d]
    BY <1>0, <1>6, StepTyping DEF Commit, Idle
  <2>4. QED
    BY <2>2, <2>3 DEF Typed, Running, Others
<1>7. ASSUME NEW c \in Calls, NEW k \in Keys, NEW t \in Instants, Revoke(c, k, t)
      PROVE  Typed'
  <2>1. Archived({r \in sessions : r.key = k}, t) \subseteq OldRow
    BY <1>0 DEF Archived, OldRow, TypeOK
  <2>2. QED
    BY <1>0, <1>7, <2>1 DEF Revoke, Typed, TypeOK, Running
<1>8. QED
  BY <1>2, <1>3, <1>4, <1>5, <1>6, <1>7 DEF Next, Call

(* A step of one transaction that leaves the rows alone.                   *)
LEMMA LocksOfOne ==
  ASSUME Inv, NEW c \in Calls, UNCHANGED sessions, Holds(c)',
         \A d \in Others(c) : tx'[d] = tx[d] /\ (Apart(c, d) /\ Apart(d, c))'
  PROVE  (OneSession /\ Locks)'
<1>1. OneSession'
  BY DEF Inv, OneSession
<1>2. \A d \in Others(c) : Holds(d)'
  BY DEF Inv, Locks, Holds, Others, Running
<1>3. \A d \in Others(c) : \A e \in Others(d) : Apart(d, e)'
  BY DEF Inv, Locks, Apart, Others
<1>4. QED
  BY <1>1, <1>2, <1>3 DEF Locks, Others

(* A transaction that gives up what it holds.                              *)
LEMMA Releases ==
  ASSUME Inv, NEW c \in Calls, NEW t \in Tx, tx' = [tx EXCEPT ![c] = t],
         t.gone = {}, t.kept = {}, UNCHANGED sessions,
         t.pc = "take" => \A r \in t.seen : ~Kin(t, r)
  PROVE  (OneSession /\ Locks)'
<1>1. tx'[c] = t /\ \A d \in Others(c) : tx'[d] = tx[d]
  BY StepTyping DEF Inv, Typed
<1>2. Holds(c)'
  BY <1>1 DEF Holds
<1>3. \A d \in Others(c) : (Apart(c, d) /\ Apart(d, c))'
  BY <1>1 DEF Apart
<1>4. QED
  BY <1>1, <1>2, <1>3, LocksOfOne

LEMMA LocksTake ==
  ASSUME Inv, NEW c \in Calls, Take(c)
  PROVE  (OneSession /\ Locks)'
<1>1. PICK t \in Tx : /\ tx' = [tx EXCEPT ![c] = t]
                      /\ t.pc = "upsert" /\ t.key = tx[c].key /\ t.user = tx[c].user
                      /\ t.gone = tx[c].seen \cap sessions /\ t.kept = tx[c].kept
  BY TakeEffect DEF Inv, Typed
<1>2. tx'[c] = t /\ \A d \in Others(c) : tx'[d] = tx[d]
  BY <1>1, StepTyping DEF Inv, Typed
<1>3. t.kept = {}
  BY <1>1 DEF Take, Inv, Locks, Holds
<1>4. UNCHANGED sessions /\ \A d \in Others(c) : t.gone \cap (tx[d].gone \cup tx[d].kept) = {}
  BY <1>1 DEF Take, Locked
<1>5. Holds(c)'
  <2>1. tx[c].pc = "take" /\ Holds(c)
    BY DEF Take, Inv, Locks
  <2>2. QED
    BY <1>1, <1>2, <1>3, <1>4, <2>1 DEF Holds, Kin
<1>6. \A d \in Others(c) : (Apart(c, d) /\ Apart(d, c))'
  BY <1>2, <1>3, <1>4 DEF Apart
<1>7. QED
  BY <1>2, <1>4, <1>5, <1>6, LocksOfOne

LEMMA LocksUpsert ==
  ASSUME Inv, NEW c \in Calls, Upsert(c)
  PROVE  (OneSession /\ Locks)'
<1>1. PICK t \in Tx : /\ tx' = [tx EXCEPT ![c] = t]
                      /\ t.pc = "commit" /\ t.key = tx[c].key /\ t.user = tx[c].user
                      /\ t.gone = tx[c].gone /\ Kept(c, t.kept)
  BY UpsertEffect DEF Inv
<1>2. tx'[c] = t /\ \A d \in Others(c) : tx'[d] = tx[d]
  BY <1>1, StepTyping DEF Inv, Typed
<1>3. UNCHANGED sessions /\ \A d \in Others(c) : \A r \in tx[d].gone \cup tx[d].kept :
        r.key # tx[c].key
  BY DEF Upsert
<1>4. \A r \in t.kept : r.key = tx[c].key
  BY <1>1 DEF Kept
<1>5. CASE t.kept = {r \in sessions \ tx[c].gone : r.key = tx[c].key}
  <2>1. Holds(c)'
    <3>1. \A r, s \in t.kept : r = s
      BY <1>5 DEF Inv, OneSession
    <3>2. QED
      BY <1>1, <1>2, <1>3, <1>4, <1>5, <3>1 DEF Holds, Kin, Inv, Locks
  <2>2. ASSUME NEW d \in Others(c)
        PROVE  (Apart(c, d) /\ Apart(d, c))'
    <3>1. d \in Calls /\ c \in Others(d)
      BY DEF Others
    <3>2. Apart(c, d) /\ Apart(d, c) /\ Holds(d)
      BY <3>1 DEF Inv, Locks
    <3>3. \A r \in t.kept : r \in sessions /\ r \notin tx[d].gone \cup tx[d].kept
      BY <1>3, <1>5
    <3>4. \A r \in t.kept, s \in tx[d].kept : ~Clash(r, s) /\ ~Clash(s, r)
      BY <1>3, <1>4, <3>2, <3>3 DEF Holds, Clash, Inv, OneSession
    <3>5. QED
      BY <1>1, <1>2, <3>2, <3>3, <3>4 DEF Apart
  <2>3. QED
    BY <1>2, <1>3, <2>1, <2>2, LocksOfOne
<1>6. ASSUME NEW n \in Row, t.kept = {n}, n.key = tx[c].key, n.user = tx[c].user,
             \A s \in sessions \ tx[c].gone : ~Clash(n, s),
             \A d \in Others(c) : \A r \in tx[d].gone \cup tx[d].kept : ~Clash(n, r)
      PROVE  (OneSession /\ Locks)'
  <2>1. Holds(c)'
    BY <1>1, <1>2, <1>3, <1>6 DEF Holds, Kin, Inv, Locks
  <2>2. ASSUME NEW d \in Others(c)
        PROVE  (Apart(c, d) /\ Apart(d, c))'
    <3>1. d \in Calls /\ c \in Others(d)
      BY DEF Others
    <3>2. Apart(c, d) /\ Apart(d, c)
      BY <3>1 DEF Inv, Locks
    <3>3. n \notin tx[d].gone
      BY <1>6 DEF Clash
    <3>4. \A s \in tx[d].kept : ~Clash(n, s) /\ ~Clash(s, n)
      BY <1>6 DEF Clash
    <3>5. QED
      BY <1>1, <1>2, <1>6, <3>2, <3>3, <3>4 DEF Apart
  <2>3. QED
    BY <1>2, <1>3, <2>1, <2>2, LocksOfOne
<1>7. QED
  BY <1>1, <1>5, <1>6 DEF Kept

LEMMA LocksCommit ==
  ASSUME Inv, NEW c \in Calls, Commit(c)
  PROVE  (OneSession /\ Locks)'
<1>1. /\ tx'[c] = Idle /\ \A d \in Others(c) : tx'[d] = tx[d]
      /\ sessions' = (sessions \ tx[c].gone) \cup tx[c].kept
  BY IdleTyping, StepTyping DEF Commit, Inv, Typed
<1>2. Holds(c) /\ OneSession
  BY DEF Inv, Locks
<1>3. \A r \in tx[c].kept : \/ r \in sessions \ tx[c].gone
                           \/ \A s \in sessions \ tx[c].gone : ~Clash(r, s)
  BY <1>2 DEF Holds
<1>4. OneSession'
  BY <1>1, <1>2, <1>3 DEF Holds, OneSession, Clash
<1>5. Holds(c)'
  BY <1>1 DEF Holds, Idle, Running
<1>6. ASSUME NEW d \in Others(c)
      PROVE  Holds(d)' /\ (Apart(c, d) /\ Apart(d, c))'
  <2>1. d \in Calls /\ c \in Others(d)
    BY DEF Others
  <2>2. Apart(c, d) /\ Apart(d, c) /\ Holds(d)
    BY <2>1 DEF Inv, Locks
  <2>3. tx[d].gone \subseteq sessions'
    BY <1>1, <2>2 DEF Holds, Apart
  <2>4. ASSUME NEW r \in tx[d].kept
        PROVE  \/ r \in sessions' \ tx[d].gone
               \/ /\ r.user = tx[d].user
                  /\ \A s \in sessions' \ tx[d].gone : ~Clash(r, s)
    <3>1. CASE r \in sessions \ tx[d].gone
      BY <1>1, <2>2, <3>1 DEF Apart
    <3>2. CASE r.user = tx[d].user /\ \A s \in sessions \ tx[d].gone : ~Clash(r, s)
      BY <1>1, <2>2, <3>2 DEF Apart
    <3>3. QED
      BY <2>2, <3>1, <3>2 DEF Holds
  <2>5. Holds(d)'
    <3>1. tx'[d] = tx[d]
      BY <1>1
    <3>2. QED
      BY <2>2, <2>3, <2>4, <3>1 DEF Holds
  <2>6. QED
    BY <1>1, <2>5 DEF Apart, Idle
<1>7. \A d \in Others(c) : \A e \in Others(d) : Apart(d, e)'
  <2>1. ASSUME NEW d \in Others(c), NEW e \in Others(d), e # c
        PROVE  Apart(d, e)'
    BY <1>1, <2>1 DEF Inv, Locks, Apart, Others
  <2>2. QED
    BY <1>6, <2>1
<1>8. QED
  BY <1>4, <1>5, <1>6, <1>7 DEF Locks, Others

LEMMA LocksRevoke ==
  ASSUME Inv, NEW c \in Calls, NEW k \in Keys, NEW t \in Instants, Revoke(c, k, t)
  PROVE  (OneSession /\ Locks)'
<1>1. UNCHANGED tx /\ sessions' \subseteq sessions /\ OneSession'
  BY DEF Revoke, Inv, OneSession
<1>2. \A d \in Calls : tx[d].gone \cup tx[d].kept = {} \/ d \in Others(c)
  BY DEF Revoke, Inv, Locks, Holds, Running, Others
<1>3. \A d \in Calls : \A r \in tx[d].gone \cup tx[d].kept : r \in sessions => r \in sessions'
  BY <1>2 DEF Revoke, Locked
<1>4. ASSUME NEW d \in Calls
      PROVE  Holds(d)'
  <2>1. Holds(d)
    BY DEF Inv, Locks
  <2>2. QED
    BY <1>1, <1>3, <2>1 DEF Holds
<1>5. \A d \in Calls : \A e \in Others(d) : Apart(d, e)'
  BY <1>1 DEF Inv, Locks, Apart, Others
<1>6. QED
  BY <1>1, <1>4, <1>5 DEF Locks

LEMMA Step == Inv /\ [Next]_vars => Inv'
<1> SUFFICES ASSUME Inv, Next
             PROVE  (OneSession /\ Locks)'
  <2>1. CASE UNCHANGED vars
    BY <2>1 DEF vars, Inv, Typed, TypeOK, OneSession, Locks, Holds, Apart, Running, Others
  <2>2. QED
    BY <2>1, Typing DEF Inv
<1>1. CASE Tick
  BY <1>1 DEF Tick, Inv, OneSession, Locks, Holds, Apart, Running
<1>2. ASSUME NEW c \in Calls, NEW k \in Keys, NEW u \in Users, Begin(c, k, u)
      PROVE  (OneSession /\ Locks)'
  <2>1. PICK t \in Tx : /\ tx' = [tx EXCEPT ![c] = t]
                        /\ t.pc = "delete" /\ t.gone = {} /\ t.kept = {}
    BY <1>2, BeginEffect DEF Inv, Typed
  <2>2. UNCHANGED sessions
    BY <1>2 DEF Begin
  <2>3. QED
    BY <2>1, <2>2, Releases
<1>3. ASSUME NEW c \in Calls, Select(c)
      PROVE  (OneSession /\ Locks)'
  <2>1. tx[c].gone = {} /\ tx[c].kept = {}
    BY <1>3 DEF Select, Inv, Locks, Holds
  <2>2. PICK t \in Tx : /\ tx' = [tx EXCEPT ![c] = t]
                        /\ t.gone = tx[c].gone /\ t.kept = tx[c].kept
                        /\ t.key = tx[c].key /\ t.user = tx[c].user
                        /\ t.seen = {r \in sessions : (r.key = tx[c].key) # (r.user = tx[c].user)}
    BY <1>3, SelectEffect DEF Inv, Typed
  <2>3. UNCHANGED sessions
    BY <1>3 DEF Select
  <2>4. \A r \in t.seen : ~Kin(t, r)
    BY <2>2 DEF Kin
  <2>5. QED
    BY <2>1, <2>2, <2>3, <2>4, Releases
<1>4. ASSUME NEW c \in Calls, Rollback(c)
      PROVE  (OneSession /\ Locks)'
  BY <1>4, IdleTyping, Releases DEF Rollback, Idle
<1>5. QED
  BY <1>1, <1>2, <1>3, <1>4, LocksTake, LocksUpsert, LocksCommit, LocksRevoke DEF Next, Call

-----------------------------------------------------------------------------
(* A step of one transaction that leaves the rows and the rivals alone.    *)
LEMMA SeenOfOne ==
  ASSUME SeenInv, NEW c \in Calls, Seen(c)',
         UNCHANGED <<sessions, rivals>>,
         \A d \in Others(c) : tx'[d] = tx[d],
         Running(c)' => Running(c) /\ tx'[c].key = tx[c].key /\ tx'[c].user = tx[c].user
  PROVE  SeenInv'
<1>1. ASSUME NEW d \in Calls, NEW e \in Others(d),
             Running(d)', Running(e)', tx'[d].key = tx'[e].key, tx'[d].user # tx'[e].user
      PROVE  e \in rivals'[d]
  <2>1. /\ Running(d) /\ tx[d].key = tx'[d].key /\ tx[d].user = tx'[d].user
        /\ Running(e) /\ tx[e].key = tx'[e].key /\ tx[e].user = tx'[e].user
    BY <1>1 DEF Running, Others
  <2>2. QED
    BY <1>1, <2>1 DEF SeenInv, RivalsKnown
<1>2. \A d \in Others(c) : Seen(d)'
  BY DEF SeenInv, Seen, Others
<1>3. QED
  BY <1>1, <1>2 DEF SeenInv, RivalsKnown, Others

LEMMA SeenBegin ==
  ASSUME Inv, SeenInv, NEW c \in Calls, NEW k \in Keys, NEW u \in Users, Begin(c, k, u)
  PROVE  SeenInv'
<1>1. PICK t \in Tx : /\ tx' = [tx EXCEPT ![c] = t]
                      /\ t.pc = "delete" /\ t.key = k /\ t.user = u
                      /\ t.gone = {} /\ t.kept = {}
  BY BeginEffect DEF Inv, Typed
<1>2. tx'[c] = t /\ \A d \in Others(c) : tx'[d] = tx[d]
  BY <1>1, StepTyping DEF Inv, Typed
<1>3. /\ UNCHANGED sessions
      /\ rivals'[c] = Rivals(c, k, u)
      /\ \A d \in Others(c) : /\ rivals[d] \subseteq rivals'[d]
                              /\ d \in Rivals(c, k, u) => c \in rivals'[d]
                              /\ rivals'[d] = {} => rivals[d] = {}
  BY DEF Begin, Others
<1>4. ASSUME NEW d \in Calls, NEW e \in Others(d),
             Running(d)', Running(e)', tx'[d].key = tx'[e].key, tx'[d].user # tx'[e].user
      PROVE  e \in rivals'[d]
  <2>1. CASE d = c
    BY <1>1, <1>2, <1>3, <1>4, <2>1 DEF Rivals, Running
  <2>2. CASE e = c
    <3>1. d \in Others(c)
      BY <2>2 DEF Others
    <3>2. QED
      BY <1>1, <1>2, <1>3, <1>4, <2>2, <3>1 DEF Rivals, Running
  <2>3. CASE d # c /\ e # c
    BY <1>2, <1>3, <1>4, <2>3 DEF SeenInv, RivalsKnown, Running, Others
  <2>4. QED
    BY <2>1, <2>2, <2>3
<1>5. Seen(c)'
  BY <1>1, <1>2 DEF Seen
<1>6. \A d \in Others(c) : Seen(d)'
  BY <1>2, <1>3 DEF SeenInv, Seen, Others
<1>7. QED
  BY <1>4, <1>5, <1>6 DEF SeenInv, RivalsKnown, Others

LEMMA SeenCommit ==
  ASSUME Inv, SeenInv, NEW c \in Calls, Commit(c)
  PROVE  SeenInv'
<1>1. /\ tx'[c] = Idle /\ \A d \in Others(c) : tx'[d] = tx[d]
      /\ sessions' = (sessions \ tx[c].gone) \cup tx[c].kept
      /\ rivals'[c] = {} /\ \A d \in Others(c) : rivals'[d] = rivals[d]
  BY IdleTyping, StepTyping DEF Commit, Inv, Typed, TypeOK, Others
<1>2. RivalsKnown'
  <2>1. ~Running(c)'
    BY <1>1 DEF Running, Idle
  <2>2. QED
    BY <1>1, <2>1 DEF SeenInv, RivalsKnown, Running, Others
<1>3. Seen(c)'
  BY <1>1 DEF Seen, Idle
<1>4. ASSUME NEW d \in Others(c), rivals[d] = {}, Running(d),
             NEW r \in sessions' \ sessions, r.key = tx[d].key
      PROVE  r.user = tx[d].user
  <2>1. r.key = tx[c].key /\ r.user = tx[c].user
    BY <1>1, <1>4 DEF Inv, Locks, Holds
  <2>2. Running(c) /\ d \in Calls /\ c \in Others(d)
    BY DEF Commit, Running, Others
  <2>3. QED
    BY <1>4, <2>1, <2>2 DEF SeenInv, RivalsKnown
<1>5. ASSUME NEW d \in Others(c)
      PROVE  Seen(d)'
  <2>1. Seen(d)
    BY DEF SeenInv, Others
  <2>2. QED
    BY <1>1, <1>4, <2>1 DEF Seen, Running
<1>6. QED
  BY <1>2, <1>3, <1>5 DEF SeenInv, Others

LEMMA SeenStep == Inv /\ SeenInv /\ [Next]_vars => SeenInv'
<1> SUFFICES ASSUME Inv, SeenInv, Next
             PROVE  SeenInv'
  BY DEF vars, SeenInv, RivalsKnown, Seen, Running, Others
<1>0. TypeOK
  BY DEF Inv, Typed
<1>1. CASE Tick
  BY <1>1 DEF Tick, SeenInv, RivalsKnown, Seen, Running, Others
<1>2. ASSUME NEW c \in Calls, Select(c)
      PROVE  SeenInv'
  <2>1. PICK t \in Tx :
          /\ tx' = [tx EXCEPT ![c] = t]
          /\ t.pc = "take" /\ t.key = tx[c].key /\ t.user = tx[c].user
          /\ t.gone = tx[c].gone /\ t.kept = tx[c].kept
          /\ t.seen = {r \in sessions : (r.key = tx[c].key) # (r.user = tx[c].user)}
    BY <1>0, <1>2, SelectEffect
  <2>2. tx'[c] = t /\ \A d \in Others(c) : tx'[d] = tx[d]
    BY <1>0, <2>1, StepTyping
  <2>3. Running(c) /\ UNCHANGED <<sessions, rivals>>
    BY <1>2 DEF Select, Running
  <2>4. \A r \in sessions : r.key = tx[c].key /\ r.user # tx[c].user => r \in t.seen
    BY <2>1
  <2>5. Seen(c)'
    BY <2>1, <2>2, <2>3, <2>4 DEF Seen, SeenInv
  <2>6. QED
    BY <2>1, <2>2, <2>3, <2>5, SeenOfOne
<1>3. ASSUME NEW c \in Calls, Take(c)
      PROVE  SeenInv'
  <2>1. PICK t \in Tx :
          /\ tx' = [tx EXCEPT ![c] = t]
          /\ t.pc = "upsert" /\ t.key = tx[c].key /\ t.user = tx[c].user
          /\ t.gone = tx[c].seen \cap sessions /\ t.kept = tx[c].kept
    BY <1>0, <1>3, TakeEffect
  <2>2. tx'[c] = t /\ \A d \in Others(c) : tx'[d] = tx[d]
    BY <1>0, <2>1, StepTyping
  <2>3. Running(c) /\ tx[c].pc = "take" /\ UNCHANGED <<sessions, rivals>>
    BY <1>3 DEF Take, Running
  <2>4. Seen(c)'
    BY <2>1, <2>2, <2>3 DEF Seen, SeenInv
  <2>5. QED
    BY <2>1, <2>2, <2>3, <2>4, SeenOfOne
<1>4. ASSUME NEW c \in Calls, Upsert(c)
      PROVE  SeenInv'
  <2>1. PICK t \in Tx :
          /\ tx' = [tx EXCEPT ![c] = t]
          /\ t.pc = "commit" /\ t.key = tx[c].key /\ t.user = tx[c].user
          /\ t.gone = tx[c].gone /\ Kept(c, t.kept)
    BY <1>4, UpsertEffect DEF Inv
  <2>2. tx'[c] = t /\ \A d \in Others(c) : tx'[d] = tx[d]
    BY <1>0, <2>1, StepTyping
  <2>3. Running(c) /\ tx[c].pc = "upsert" /\ UNCHANGED <<sessions, rivals>>
    BY <1>4 DEF Upsert, Running
  <2>4. rivals[c] = {} => \A r \in t.kept : r.user = tx[c].user
    BY <2>1, <2>3 DEF Kept, Seen, SeenInv
  <2>5. Seen(c)'
    BY <2>1, <2>2, <2>3, <2>4 DEF Seen
  <2>6. QED
    BY <2>1, <2>2, <2>3, <2>5, SeenOfOne
<1>5. ASSUME NEW c \in Calls, Rollback(c)
      PROVE  SeenInv'
  <2>1. /\ tx'[c] = Idle /\ \A d \in Others(c) : tx'[d] = tx[d]
        /\ rivals'[c] = {} /\ \A d \in Others(c) : rivals'[d] = rivals[d]
        /\ UNCHANGED sessions
    BY <1>0, <1>5, IdleTyping, StepTyping DEF Rollback, TypeOK, Others
  <2>2. ~Running(c)' /\ Seen(c)'
    BY <2>1 DEF Running, Idle, Seen
  <2>3. RivalsKnown'
    BY <2>1, <2>2 DEF SeenInv, RivalsKnown, Running, Others
  <2>4. \A d \in Others(c) : Seen(d)'
    BY <2>1 DEF SeenInv, Seen, Others
  <2>5. QED
    BY <2>2, <2>3, <2>4 DEF SeenInv, Others
<1>6. ASSUME NEW c \in Calls, NEW k \in Keys, NEW t \in Instants, Revoke(c, k, t)
      PROVE  SeenInv'
  BY <1>6 DEF Revoke, SeenInv, RivalsKnown, Seen, Running, Others
<1>7. QED
  BY <1>1, <1>2, <1>3, <1>4, <1>5, <1>6, SeenBegin, SeenCommit DEF Next, Call

-----------------------------------------------------------------------------
LEMMA InvHolds == Inv => LocksHold
<1> SUFFICES ASSUME Inv, NEW c \in Calls
             PROVE  /\ tx[c].gone \subseteq sessions
                    /\ tx[c].gone \cap tx[c].kept = {}
                    /\ \A d \in Others(c) : tx[c].gone \cap (tx[d].gone \cup tx[d].kept) = {}
                    /\ \A r \in tx[c].kept : r \in sessions \/ r.user = tx[c].user
  BY DEF LocksHold
<1>1. Holds(c) /\ \A d \in Others(c) : Apart(c, d)
  BY DEF Inv, Locks
<1>2. tx[c].gone \cap tx[c].kept = {}
  BY <1>1 DEF Holds, Kin
<1>3. QED
  BY <1>1, <1>2 DEF Holds, Apart

LEMMA SeenReports == SeenInv => MisreportOnlyUnderRace
BY DEF SeenInv, Seen, MisreportOnlyUnderRace

-----------------------------------------------------------------------------
(* The tokens of Twinoid.  A call is idle, touches, reads or has answered.  *)
TwinoidUsers == {g.user : g \in Grants}
TwinoidKeys  == {g.access : g \in Grants} \cup {g.refresh : g \in Grants}
TokenRows    == [key : TwinoidKeys, user : TwinoidUsers, ctime : Nat]
RowsOfBoth   == [Kinds -> SUBSET TokenRows]

Touches  == [pc : {"delete", "wait", "upsert", "commit"}, kind : Kinds,
             user : TwinoidUsers, now : Nat, key : [Kinds -> TwinoidKeys],
             seen : SUBSET TokenRows, gone : RowsOfBoth, kept : RowsOfBoth]
Readings == [pc : {"readAccess"}, user : TwinoidUsers, now : Nat, torn : BOOLEAN,
             refresh : SUBSET TokenRows]
Answers  == [pc : {"answered"}, user : TwinoidUsers, torn : BOOLEAN,
             refresh : SUBSET TokenRows, access : SUBSET TokenRows]

CallStates == {OauthIdle} \cup Touches \cup Readings \cup Answers

OauthTyped == /\ clock \in Nat
              /\ tokens \in RowsOfBoth
              /\ DOMAIN old_tokens = Kinds
              /\ otx \in [OauthCalls -> CallStates]

(* A key and a user have one token of each kind.                           *)
OneToken == \A kind \in Kinds : \A r, s \in tokens[kind] : Clash(r, s) => r = s

(* What a touch holds of a kind: what it has deleted is committed, what it *)
(* has written is committed too, or clashes with nothing that is left.     *)
HoldsToken(t, kind, rows) ==
  /\ t.gone[kind] \subseteq rows
  /\ \A r \in t.kept[kind] :
       /\ r.key = t.key[kind]
       /\ \/ r \in rows \ t.gone[kind]
          \/ /\ r.user = t.user
             /\ \A s \in rows \ t.gone[kind] : ~Clash(r, s)
  /\ \A r, s \in t.kept[kind] : r = s

(* It has written nothing before both DELETEs, both tokens when it commits.*)
Progress(t) ==
  /\ t.pc \in {"delete", "wait"} => t.kept = OfBoth({})
  /\ t.pc = "upsert" /\ t.kind = "refresh" => t.kept["access"] # {}
  /\ t.pc = "commit" => t.kept["access"] # {} /\ t.kept["refresh"] # {}

ApartTokens(t, u, kind) ==
  /\ t.gone[kind] \cap (u.gone[kind] \cup u.kept[kind]) = {}
  /\ \A r \in t.kept[kind], s \in u.kept[kind] : ~Clash(r, s)

TouchesApart ==
  /\ \A c \in OauthCalls : Touching(c) =>
       Progress(otx[c]) /\ \A kind \in Kinds : HoldsToken(otx[c], kind, tokens[kind])
  /\ \A c \in OauthCalls : \A d \in OthersThan(c) :
       Touching(c) /\ Touching(d) =>
         \A kind \in Kinds : ApartTokens(otx[c], otx[d], kind)

(* A token that is stored was given for its user.                          *)
Given == \A kind \in Kinds : \A r \in tokens[kind] :
           \E x \in touched : x.user = r.user /\ x[kind] = r.key

(* The tokens of a user are of one grant.                                  *)
Paired(user, access, refresh) ==
  \A a \in access, r \in refresh : Together(user, a.key, r.key) \/ Contested(user)

OfUser(rows, user) == {r \in rows : r.user = user}

Pairs == \A user \in TwinoidUsers :
           Paired(user, OfUser(tokens["access"], user), OfUser(tokens["refresh"], user))

(* An untorn read found the refresh token that is still there, or has      *)
(* answered tokens of one grant.                                           *)
Reads == \A c \in OauthCalls :
  /\ otx[c].pc = "readAccess" /\ ~otx[c].torn =>
       otx[c].refresh = OfUser(tokens["refresh"], otx[c].user)
  /\ otx[c].pc = "answered" /\ ~otx[c].torn =>
       Paired(otx[c].user, otx[c].access, otx[c].refresh)

OauthInv == OauthTyped /\ OneToken /\ TouchesApart /\ Given /\ Pairs /\ Reads
(* What a call turns into.                                                 *)
LEMMA Becoming ==
  ASSUME OauthTyped, NEW c \in OauthCalls, NEW t, Become(c, t)
  PROVE  otx'[c] = t /\ \A d \in OthersThan(c) : otx'[d] = otx[d]
BY DEF OauthTyped, Become, OthersThan

LEMMA TouchingTyped ==
  ASSUME OauthTyped, NEW c \in OauthCalls
  PROVE  /\ Touching(c) => otx[c] \in Touches
         /\ otx[c].pc = "readAccess" => otx[c] \in Readings
         /\ otx[c].pc = "answered" => otx[c] \in Answers
BY DEF OauthTyped, CallStates, Touching, Touches, Readings, Answers, OauthIdle

LEMMA NothingOfBoth == OfBoth({}) \in RowsOfBoth /\ \A kind \in Kinds : OfBoth({})[kind] = {}
BY DEF OfBoth, RowsOfBoth

LEMMA BeginTouchEffect ==
  ASSUME OauthTyped, NEW c \in OauthCalls, NEW g \in Grants, BeginTouch(c, g)
  PROVE  \E t \in Touches : /\ Become(c, t) /\ t.pc = "delete"
                            /\ t.gone = OfBoth({}) /\ t.kept = OfBoth({})
<1> DEFINE key == [access |-> g.access, refresh |-> g.refresh]
           t == [pc |-> "delete", kind |-> "access", user |-> g.user, now |-> clock,
                 key |-> key, seen |-> {}, gone |-> OfBoth({}), kept |-> OfBoth({})]
<1>1. g.user \in TwinoidUsers /\ key \in [Kinds -> TwinoidKeys] /\ "access" \in Kinds
  BY DEF TwinoidUsers, TwinoidKeys, Kinds
<1>2. clock \in Nat /\ {} \subseteq TokenRows
  BY DEF OauthTyped
<1> HIDE DEF key
<1>3. t \in Touches
  BY <1>1, <1>2, NothingOfBoth DEF Touches
<1>4. Become(c, t)
  BY DEF BeginTouch, key
<1>5. t.pc = "delete" /\ t.gone = OfBoth({}) /\ t.kept = OfBoth({})
  OBVIOUS
<1> HIDE DEF t
<1>6. QED
  BY <1>3, <1>4, <1>5

(* A DELETE waits, or takes rows that nobody else holds.                   *)
Taken(c, t) ==
  /\ t.pc \in {"delete", "upsert"} /\ (t.pc = "upsert" => t.kind = "access")
  /\ \E rows \in SUBSET tokens[otx[c].kind] :
       /\ t.gone = [otx[c].gone EXCEPT ![otx[c].kind] = rows]
       /\ rows \cap HeldByOthers(c, otx[c].kind) = {}

LEMMA DeleteEffect ==
  ASSUME OauthTyped, NEW c \in OauthCalls, DeleteTokens(c)
  PROVE  /\ Touching(c) /\ otx[c].pc \in {"delete", "wait"} /\ otx[c] \in Touches
         /\ \E t \in Touches :
              /\ Become(c, t) /\ t.user = otx[c].user /\ t.key = otx[c].key
              /\ t.kept = otx[c].kept
              /\ \/ Taken(c, t)
                 \/ t.pc = "wait" /\ t.gone = otx[c].gone
<1> DEFINE o == otx[c]
           rows == IF o.pc = "wait" THEN o.seen \cap tokens[o.kind] ELSE Revoked(o)
           free == (IF o.pc = "wait" THEN o.seen ELSE rows) \cap HeldByOthers(c, o.kind) = {}
           moved == [o EXCEPT !.pc = "delete", !.gone[o.kind] = rows]
           waits == [o EXCEPT !.pc = "wait", !.seen = rows]
<1>1. o.pc \in {"delete", "wait"} /\ Touching(c) /\ o \in Touches
  BY TouchingTyped DEF DeleteTokens, Touching
<1>2. rows \subseteq tokens[o.kind] /\ tokens[o.kind] \subseteq TokenRows
  BY <1>1 DEF Revoked, OauthTyped, Touches, RowsOfBoth
<1>3. free => rows \cap HeldByOthers(c, o.kind) = {}
  OBVIOUS
<1>4. \/ free /\ Become(c, Followed(moved, "upsert"))
      \/ Become(c, waits)
  BY DEF DeleteTokens
<1> HIDE DEF rows, free
<1>5. /\ waits \in Touches /\ waits.user = o.user /\ waits.key = o.key
      /\ waits.kept = o.kept /\ waits.pc = "wait" /\ waits.gone = o.gone
  BY <1>1, <1>2 DEF Touches
<1>6. [o.gone EXCEPT ![o.kind] = rows] \in RowsOfBoth
  BY <1>1, <1>2 DEF Touches, RowsOfBoth
<1>7. /\ moved \in Touches /\ moved.user = o.user /\ moved.key = o.key /\ moved.kind = o.kind
      /\ moved.kept = o.kept /\ moved.pc = "delete"
      /\ moved.gone = [o.gone EXCEPT ![o.kind] = rows]
  BY <1>1, <1>6 DEF Touches
<1> HIDE DEF moved, waits
<1>8. LET t == Followed(moved, "upsert")
      IN  /\ t \in Touches /\ t.user = o.user /\ t.key = o.key /\ t.kept = o.kept
          /\ t.gone = [o.gone EXCEPT ![o.kind] = rows]
          /\ t.pc \in {"delete", "upsert"} /\ (t.pc = "upsert" => t.kind = "access")
  BY <1>7 DEF Followed, Touches, Kinds
<1>9. CASE free /\ Become(c, Followed(moved, "upsert"))
  <2>1. Taken(c, Followed(moved, "upsert"))
    BY <1>2, <1>3, <1>8, <1>9 DEF Taken
  <2>2. QED
    BY <1>1, <1>8, <1>9, <2>1
<1>10. QED
  BY <1>1, <1>4, <1>5, <1>9

(* An upsert keeps the row of the key, or a new one that clashes with none *)
(* of those that it sees.                                                  *)
KeptToken(c, kind, rows) ==
  LET mine == tokens[kind] \ otx[c].gone[kind]
  IN  /\ rows # {}
      /\ \A d \in OthersThan(c) : \A r \in HeldBy(d, kind) : r.key # otx[c].key[kind]
      /\ \/ rows = {r \in mine : r.key = otx[c].key[kind]}
         \/ \E n \in TokenRows :
              /\ rows = {n} /\ n.key = otx[c].key[kind] /\ n.user = otx[c].user
              /\ \A s \in mine : ~Clash(n, s)
              /\ \A d \in OthersThan(c) : \A r \in HeldBy(d, kind) : ~Clash(n, r)

LEMMA UpsertTokenEffect ==
  ASSUME OauthTyped, NEW c \in OauthCalls, UpsertToken(c)
  PROVE  /\ Touching(c) /\ otx[c].pc = "upsert" /\ otx[c] \in Touches
         /\ \E t \in Touches :
              /\ Become(c, t) /\ t.user = otx[c].user /\ t.key = otx[c].key
              /\ t.gone = otx[c].gone
              /\ \E rows \in SUBSET TokenRows :
                   /\ KeptToken(c, otx[c].kind, rows)
                   /\ t.kept = [otx[c].kept EXCEPT ![otx[c].kind] = rows]
              /\ IF otx[c].kind = "access" THEN t.pc = "upsert" /\ t.kind = "refresh"
                 ELSE t.pc = "commit"
<1> DEFINE o == otx[c]
           mine == tokens[o.kind] \ o.gone[o.kind]
           same == {row \in mine : row.key = o.key[o.kind]}
           new == [key |-> o.key[o.kind], user |-> o.user, ctime |-> o.now]
           rows == IF same = {} THEN {new} ELSE same
           moved == [o EXCEPT !.kept[o.kind] = rows]
<1>1. o.pc = "upsert" /\ Touching(c) /\ o \in Touches
  BY TouchingTyped DEF UpsertToken, Touching
<1>2. /\ new \in TokenRows /\ new.key = o.key[o.kind] /\ new.user = o.user
      /\ tokens[o.kind] \subseteq TokenRows
  BY <1>1 DEF TokenRows, Touches, OauthTyped, RowsOfBoth
<1>3. \A d \in OthersThan(c) : \A r \in HeldBy(d, o.kind) :
        r.key # o.key[o.kind] /\ (same = {} => r.user # o.user)
  BY DEF UpsertToken, HeldByOthers
<1>4. same = {} => \A r \in mine : r.user # o.user
  BY DEF UpsertToken
<1>5. Become(c, Followed(moved, "commit"))
  BY DEF UpsertToken
<1>6. rows \in SUBSET TokenRows /\ rows # {}
  BY <1>2
<1>7. KeptToken(c, o.kind, rows)
  <2>1. CASE same # {}
    BY <1>3, <1>6, <2>1 DEF KeptToken
  <2>2. CASE same = {}
    <3>1. \A s \in mine : ~Clash(new, s)
      BY <1>4, <2>2 DEF Clash
    <3>2. \A d \in OthersThan(c) : \A r \in HeldBy(d, o.kind) : ~Clash(new, r)
      BY <1>2, <1>3, <2>2 DEF Clash
    <3>3. rows = {new}
      BY <2>2
    <3> HIDE DEF new, rows, same
    <3>4. QED
      BY <1>2, <1>3, <1>6, <3>1, <3>2, <3>3 DEF KeptToken
  <2>3. QED
    BY <2>1, <2>2
<1> HIDE DEF rows, same, new
<1>8. [o.kept EXCEPT ![o.kind] = rows] \in RowsOfBoth
  BY <1>1, <1>6 DEF Touches, RowsOfBoth
<1>9. /\ moved \in Touches /\ moved.user = o.user /\ moved.key = o.key /\ moved.kind = o.kind
      /\ moved.gone = o.gone /\ moved.pc = "upsert"
      /\ moved.kept = [o.kept EXCEPT ![o.kind] = rows]
  BY <1>1, <1>8 DEF Touches
<1> HIDE DEF moved
<1>10. LET t == Followed(moved, "commit")
       IN  /\ t \in Touches /\ t.user = o.user /\ t.key = o.key /\ t.gone = o.gone
           /\ t.kept = [o.kept EXCEPT ![o.kind] = rows]
           /\ IF o.kind = "access" THEN t.pc = "upsert" /\ t.kind = "refresh"
              ELSE t.pc = "commit"
  BY <1>9 DEF Followed, Touches, Kinds
<1>11. QED
  BY <1>1, <1>5, <1>6, <1>7, <1>10

(* What others hold is apart from what a touch writes or takes.            *)
LEMMA HeldIsHeld ==
  ASSUME NEW c \in OauthCalls, NEW d \in OthersThan(c), NEW kind
  PROVE  /\ HeldBy(d, kind) \subseteq HeldByOthers(c, kind)
         /\ Touching(d) => HeldBy(d, kind) = otx[d].gone[kind] \cup otx[d].kept[kind]
BY DEF HeldByOthers, HeldBy

(* A step of one call that leaves the tokens alone.                        *)
LEMMA ApartOfOne ==
  ASSUME OauthTyped, TouchesApart, NEW c \in OauthCalls, NEW t, Become(c, t), UNCHANGED tokens,
         Touching(c)' => Progress(t) /\ \A kind \in Kinds : HoldsToken(t, kind, tokens[kind]),
         \A d \in OthersThan(c) : Touching(c)' /\ Touching(d) =>
           \A kind \in Kinds : ApartTokens(t, otx[d], kind) /\ ApartTokens(otx[d], t, kind)
  PROVE  TouchesApart'
<1>1. otx'[c] = t /\ \A d \in OthersThan(c) : otx'[d] = otx[d]
  BY Becoming
<1>2. ASSUME NEW d \in OauthCalls, Touching(d)'
      PROVE  Progress(otx'[d]) /\ \A kind \in Kinds : HoldsToken(otx'[d], kind, tokens'[kind])
  BY <1>1, <1>2 DEF TouchesApart, Touching, OthersThan
<1>3. ASSUME NEW d \in OauthCalls, NEW e \in OthersThan(d), Touching(d)', Touching(e)',
             NEW kind \in Kinds
      PROVE  ApartTokens(otx'[d], otx'[e], kind)
  <2>1. CASE d = c
    BY <1>1, <1>3, <2>1 DEF Touching
  <2>2. CASE e = c
    <3>1. d \in OthersThan(c)
      BY <2>2 DEF OthersThan
    <3>2. QED
      BY <1>1, <1>3, <2>2, <3>1 DEF Touching
  <2>3. CASE d # c /\ e # c
    BY <1>1, <1>3, <2>3 DEF TouchesApart, Touching, OthersThan
  <2>4. QED
    BY <2>1, <2>2, <2>3
<1>4. QED
  BY <1>2, <1>3 DEF TouchesApart

(* A call that holds nothing, or that no longer touches.                   *)
LEMMA ApartOfNothing ==
  ASSUME OauthTyped, TouchesApart, NEW c \in OauthCalls, NEW t, Become(c, t), UNCHANGED tokens,
         \/ t.pc \notin {"delete", "wait", "upsert", "commit"}
         \/ t.pc = "delete" /\ t.gone = OfBoth({}) /\ t.kept = OfBoth({})
  PROVE  TouchesApart'
<1>1. otx'[c] = t
  BY Becoming
<1>2. CASE t.pc \notin {"delete", "wait", "upsert", "commit"}
  <2>1. ~Touching(c)'
    BY <1>1, <1>2 DEF Touching
  <2>2. QED
    BY <2>1, ApartOfOne
<1>3. CASE t.pc = "delete" /\ t.gone = OfBoth({}) /\ t.kept = OfBoth({})
  <2>1. \A kind \in Kinds : t.gone[kind] = {} /\ t.kept[kind] = {}
    BY <1>3, NothingOfBoth
  <2>2. Progress(t) /\ \A kind \in Kinds : HoldsToken(t, kind, tokens[kind])
    BY <1>3, <2>1 DEF Progress, HoldsToken
  <2>3. \A d \in OthersThan(c) : \A kind \in Kinds :
          ApartTokens(t, otx[d], kind) /\ ApartTokens(otx[d], t, kind)
    BY <2>1 DEF ApartTokens
  <2>4. QED
    BY <2>2, <2>3, ApartOfOne
<1>4. QED
  BY <1>2, <1>3

LEMMA ApartDelete ==
  ASSUME OauthTyped, TouchesApart, NEW c \in OauthCalls, DeleteTokens(c)
  PROVE  TouchesApart'
<1>1. PICK t \in Touches :
        /\ Become(c, t) /\ t.user = otx[c].user /\ t.key = otx[c].key
        /\ t.kept = otx[c].kept
        /\ \/ Taken(c, t)
           \/ t.pc = "wait" /\ t.gone = otx[c].gone
  BY DeleteEffect
<1>2. Touching(c) /\ otx[c].pc \in {"delete", "wait"} /\ otx[c] \in Touches
  BY DeleteEffect
<1>3. otx[c].kept = OfBoth({}) /\ \A kind \in Kinds : HoldsToken(otx[c], kind, tokens[kind])
  BY <1>2 DEF TouchesApart, Progress
<1>4. Progress(t) /\ \A kind \in Kinds : t.kept[kind] = {}
  BY <1>1, <1>3, NothingOfBoth DEF Taken, Progress
<1>5. otx[c].kind \in Kinds /\ DOMAIN otx[c].gone = Kinds
  BY <1>2 DEF Touches, RowsOfBoth
<1>6. \A kind \in Kinds :
        \/ t.gone[kind] = otx[c].gone[kind]
        \/ /\ t.gone[kind] \subseteq tokens[kind]
           /\ t.gone[kind] \cap HeldByOthers(c, kind) = {}
  BY <1>1, <1>5 DEF Taken
<1>7. \A kind \in Kinds : HoldsToken(t, kind, tokens[kind])
  BY <1>3, <1>4, <1>6 DEF HoldsToken
<1>8. ASSUME NEW d \in OthersThan(c), Touching(d), NEW kind \in Kinds
      PROVE  ApartTokens(t, otx[d], kind) /\ ApartTokens(otx[d], t, kind)
  <2>1. ApartTokens(otx[c], otx[d], kind) /\ ApartTokens(otx[d], otx[c], kind)
    BY <1>2, <1>8 DEF TouchesApart, OthersThan
  <2>2. t.gone[kind] \cap (otx[d].gone[kind] \cup otx[d].kept[kind]) = {}
    BY <1>6, <1>8, <2>1, HeldIsHeld DEF ApartTokens
  <2>3. QED
    BY <1>4, <2>2 DEF ApartTokens
<1>9. QED
  BY <1>1, <1>4, <1>7, <1>8, ApartOfOne DEF DeleteTokens

LEMMA ApartUpsert ==
  ASSUME OauthTyped, OneToken, TouchesApart, NEW c \in OauthCalls, UpsertToken(c)
  PROVE  TouchesApart'
<1> DEFINE o == otx[c]
<1>1. PICK t \in Touches :
        /\ Become(c, t) /\ t.user = otx[c].user /\ t.key = otx[c].key
        /\ t.gone = otx[c].gone
        /\ \E rows \in SUBSET TokenRows :
             /\ KeptToken(c, otx[c].kind, rows)
             /\ t.kept = [otx[c].kept EXCEPT ![otx[c].kind] = rows]
        /\ IF otx[c].kind = "access" THEN t.pc = "upsert" /\ t.kind = "refresh"
           ELSE t.pc = "commit"
  BY UpsertTokenEffect
<1>2. PICK rows \in SUBSET TokenRows :
        /\ KeptToken(c, o.kind, rows)
        /\ t.kept = [o.kept EXCEPT ![o.kind] = rows]
  BY <1>1
<1>3. Touching(c) /\ o.pc = "upsert" /\ o \in Touches
  BY UpsertTokenEffect
<1>4. o.kind \in Kinds /\ DOMAIN o.kept = Kinds
  BY <1>3 DEF Touches, RowsOfBoth
<1>5. t.kept[o.kind] = rows /\ \A kind \in Kinds : kind # o.kind => t.kept[kind] = o.kept[kind]
  BY <1>2, <1>4
<1>6. Progress(o) /\ \A kind \in Kinds : HoldsToken(o, kind, tokens[kind])
  BY <1>3 DEF TouchesApart
<1>7. rows # {} /\ \A d \in OthersThan(c) : \A r \in HeldBy(d, o.kind) : r.key # o.key[o.kind]
  BY <1>2 DEF KeptToken
<1>8. Progress(t)
  BY <1>1, <1>3, <1>4, <1>5, <1>6, <1>7 DEF Progress, Kinds
<1>9. \A kind \in Kinds : kind # o.kind => HoldsToken(t, kind, tokens[kind])
  BY <1>1, <1>5, <1>6 DEF HoldsToken
<1>10. UNCHANGED tokens
  BY DEF UpsertToken
<1>11. ASSUME NEW d \in OthersThan(c), Touching(d)
       PROVE  /\ \A kind \in Kinds : kind # o.kind =>
                   ApartTokens(t, otx[d], kind) /\ ApartTokens(otx[d], t, kind)
              /\ \A kind \in Kinds : ApartTokens(o, otx[d], kind) /\ ApartTokens(otx[d], o, kind)
              /\ HeldBy(d, o.kind) = otx[d].gone[o.kind] \cup otx[d].kept[o.kind]
              /\ HoldsToken(otx[d], o.kind, tokens[o.kind])
  <2>1. \A kind \in Kinds : ApartTokens(o, otx[d], kind) /\ ApartTokens(otx[d], o, kind)
    BY <1>3, <1>11 DEF TouchesApart, OthersThan
  <2>2. \A kind \in Kinds : kind # o.kind =>
          ApartTokens(t, otx[d], kind) /\ ApartTokens(otx[d], t, kind)
    BY <1>1, <1>5, <2>1 DEF ApartTokens
  <2>3. HoldsToken(otx[d], o.kind, tokens[o.kind])
    BY <1>4, <1>11 DEF TouchesApart, OthersThan
  <2>4. QED
    BY <1>11, <2>1, <2>2, <2>3, HeldIsHeld
<1>12. CASE rows = {r \in tokens[o.kind] \ o.gone[o.kind] : r.key = o.key[o.kind]}
  <2>1. HoldsToken(t, o.kind, tokens[o.kind])
    <3>1. \A r, s \in rows : r = s
      BY <1>4, <1>12 DEF OneToken, Clash
    <3>2. QED
      BY <1>1, <1>4, <1>5, <1>6, <1>12, <3>1 DEF HoldsToken
  <2>2. ASSUME NEW d \in OthersThan(c), Touching(d)
        PROVE  ApartTokens(t, otx[d], o.kind) /\ ApartTokens(otx[d], t, o.kind)
    <3>1. \A r \in rows : r \in tokens[o.kind] /\ r.key = o.key[o.kind]
      BY <1>12
    <3>2. \A r \in rows : r \notin otx[d].gone[o.kind] \cup otx[d].kept[o.kind]
      BY <1>7, <1>11, <2>2, <3>1
    <3>3. ASSUME NEW r \in rows, NEW s \in otx[d].kept[o.kind]
          PROVE  ~Clash(r, s) /\ ~Clash(s, r)
      <4>1. r \in tokens[o.kind] \ otx[d].gone[o.kind] /\ r # s
        BY <3>1, <3>2
      <4>2. CASE s \in tokens[o.kind]
        BY <1>4, <4>1, <4>2 DEF OneToken, Clash
      <4>3. CASE s \notin tokens[o.kind]
        <5>1. ~Clash(s, r)
          BY <1>11, <2>2, <4>1, <4>3 DEF HoldsToken
        <5>2. QED
          BY <5>1 DEF Clash
      <4>4. QED
        BY <4>2, <4>3
    <3>4. ApartTokens(o, otx[d], o.kind) /\ ApartTokens(otx[d], o, o.kind)
      BY <1>4, <1>11, <2>2
    <3>5. QED
      BY <1>1, <1>5, <3>2, <3>3, <3>4 DEF ApartTokens
  <2>3. QED
    BY <1>1, <1>8, <1>9, <1>10, <1>11, <2>1, <2>2, ApartOfOne
<1>13. ASSUME NEW n \in TokenRows, rows = {n}, n.key = o.key[o.kind], n.user = o.user,
              \A s \in tokens[o.kind] \ o.gone[o.kind] : ~Clash(n, s),
              \A d \in OthersThan(c) : \A r \in HeldBy(d, o.kind) : ~Clash(n, r)
       PROVE  TouchesApart'
  <2>1. HoldsToken(t, o.kind, tokens[o.kind])
    BY <1>1, <1>4, <1>5, <1>6, <1>13 DEF HoldsToken
  <2>2. ASSUME NEW d \in OthersThan(c), Touching(d)
        PROVE  ApartTokens(t, otx[d], o.kind) /\ ApartTokens(otx[d], t, o.kind)
    <3>1. \A r \in otx[d].gone[o.kind] \cup otx[d].kept[o.kind] :
            ~Clash(n, r) /\ ~Clash(r, n) /\ r # n
      BY <1>11, <1>13, <2>2 DEF Clash
    <3>2. ApartTokens(o, otx[d], o.kind) /\ ApartTokens(otx[d], o, o.kind)
      BY <1>4, <1>11, <2>2
    <3>3. QED
      BY <1>1, <1>5, <1>13, <3>1, <3>2 DEF ApartTokens
  <2>3. QED
    BY <1>1, <1>8, <1>9, <1>10, <1>11, <2>1, <2>2, ApartOfOne
<1>14. QED
  BY <1>2, <1>12, <1>13 DEF KeptToken

-----------------------------------------------------------------------------
(* What a commit leaves of a kind.                                         *)
Left(c, kind) == (tokens[kind] \ otx[c].gone[kind]) \cup otx[c].kept[kind]

(* The pair that a touch was given.                                        *)
GivenBy(t) == [user |-> t.user, access |-> t.key["access"], refresh |-> t.key["refresh"]]

LEMMA GivenByFields ==
  ASSUME NEW t
  PROVE  /\ GivenBy(t).user = t.user
         /\ GivenBy(t).access = t.key["access"] /\ GivenBy(t).refresh = t.key["refresh"]
         /\ \A kind \in Kinds : GivenBy(t)[kind] = t.key[kind]
BY DEF GivenBy, Kinds

(* A change of the tokens marks the reads of the users it concerns.        *)
LEMMA Tears ==
  ASSUME OauthTyped, NEW new, NEW c \in OauthCalls
  PROVE  /\ Torn(new)[c].pc = otx[c].pc
         /\ otx[c].pc # "readAccess" => Torn(new)[c] = otx[c]
         /\ otx[c].pc = "readAccess" =>
              /\ Torn(new)[c] \in Readings
              /\ Torn(new)[c].user = otx[c].user /\ Torn(new)[c].refresh = otx[c].refresh
              /\ ~Torn(new)[c].torn =>
                   /\ ~otx[c].torn
                   /\ OfUser(new["refresh"], otx[c].user) = OfUser(tokens["refresh"], otx[c].user)
<1> DEFINE changed == \E kind \in Kinds :
             {r \in new[kind] : r.user = otx[c].user} # {r \in tokens[kind] : r.user = otx[c].user}
<1>1. Torn(new)[c] = IF otx[c].pc # "readAccess" THEN otx[c]
                     ELSE [otx[c] EXCEPT !.torn = @ \/ changed]
  BY DEF Torn
<1>2. ~changed => OfUser(new["refresh"], otx[c].user) = OfUser(tokens["refresh"], otx[c].user)
  BY DEF OfUser, Kinds
<1>3. changed \in BOOLEAN
  OBVIOUS
<1> HIDE DEF changed
<1>4. CASE otx[c].pc # "readAccess"
  BY <1>1, <1>4
<1>5. CASE otx[c].pc = "readAccess"
  <2>1. otx[c] \in Readings
    BY <1>5, TouchingTyped
  <2> DEFINE torn == otx[c].torn \/ changed
  <2>2. torn \in BOOLEAN /\ (~torn => ~otx[c].torn /\ ~changed)
    OBVIOUS
  <2>3. Torn(new)[c] = [otx[c] EXCEPT !.torn = torn]
    BY <1>1, <1>5
  <2> HIDE DEF torn
  <2>4. /\ Torn(new)[c] \in Readings /\ Torn(new)[c].torn = torn
        /\ Torn(new)[c].user = otx[c].user /\ Torn(new)[c].refresh = otx[c].refresh
        /\ Torn(new)[c].pc = otx[c].pc
    BY <2>1, <2>2, <2>3 DEF Readings
  <2>5. QED
    BY <1>2, <1>5, <2>2, <2>4
<1>6. QED
  BY <1>4, <1>5

LEMMA CommitEffect ==
  ASSUME OauthTyped, NEW c \in OauthCalls, CommitTouch(c)
  PROVE  \E new :
           /\ otx[c] \in Touches /\ Touching(c) /\ otx[c].pc = "commit"
           /\ tokens' = new /\ \A kind \in Kinds : new[kind] = Left(c, kind)
           /\ otx'[c] = OauthIdle
           /\ \A d \in OthersThan(c) : otx'[d] = Torn(new)[d]
           /\ touched' = touched \cup {GivenBy(otx[c])}
<1> DEFINE new == [kind \in Kinds |-> (tokens[kind] \ otx[c].gone[kind]) \cup otx[c].kept[kind]]
<1>1. tokens' = new /\ \A kind \in Kinds : new[kind] = Left(c, kind)
  BY DEF CommitTouch, Left
<1>2. otx' = [Torn(new) EXCEPT ![c] = OauthIdle] /\ otx[c].pc = "commit"
      /\ touched' = touched \cup {GivenBy(otx[c])}
  BY DEF CommitTouch, GivenBy
<1> HIDE DEF new
<1>3. otx'[c] = OauthIdle /\ \A d \in OthersThan(c) : otx'[d] = Torn(new)[d]
  BY <1>2 DEF Torn, OthersThan
<1>4. Touching(c) /\ otx[c] \in Touches
  BY <1>2, TouchingTyped DEF Touching
<1>5. QED
  BY <1>1, <1>2, <1>3, <1>4

(* What others hold still stands after a commit.                           *)
LEMMA HeldAfterCommit ==
  ASSUME OauthTyped, TouchesApart, NEW c \in OauthCalls, NEW d \in OthersThan(c),
         Touching(c), Touching(d), NEW kind \in Kinds
  PROVE  HoldsToken(otx[d], kind, Left(c, kind))
<1>1. /\ HoldsToken(otx[c], kind, tokens[kind]) /\ HoldsToken(otx[d], kind, tokens[kind])
      /\ ApartTokens(otx[c], otx[d], kind) /\ ApartTokens(otx[d], otx[c], kind)
  BY DEF TouchesApart, OthersThan
<1>2. otx[d].gone[kind] \subseteq Left(c, kind)
  BY <1>1 DEF Left, HoldsToken, ApartTokens
<1>3. ASSUME NEW r \in otx[d].kept[kind]
      PROVE  \/ r \in Left(c, kind) \ otx[d].gone[kind]
             \/ /\ r.user = otx[d].user
                /\ \A s \in Left(c, kind) \ otx[d].gone[kind] : ~Clash(r, s)
  <2>1. CASE r \in tokens[kind] \ otx[d].gone[kind]
    BY <1>1, <2>1 DEF Left, ApartTokens
  <2>2. CASE r.user = otx[d].user /\ \A s \in tokens[kind] \ otx[d].gone[kind] : ~Clash(r, s)
    BY <1>1, <2>2 DEF Left, ApartTokens
  <2>3. QED
    BY <1>1, <2>1, <2>2 DEF HoldsToken
<1>4. QED
  BY <1>1, <1>2, <1>3 DEF HoldsToken

LEMMA ApartCommit ==
  ASSUME OauthTyped, TouchesApart, NEW c \in OauthCalls, CommitTouch(c)
  PROVE  TouchesApart'
<1>1. PICK new :
        /\ Touching(c) /\ tokens' = new /\ \A kind \in Kinds : new[kind] = Left(c, kind)
        /\ otx'[c] = OauthIdle
        /\ \A d \in OthersThan(c) : otx'[d] = Torn(new)[d]
  BY CommitEffect
<1>2. ~Touching(c)'
  BY <1>1 DEF Touching, OauthIdle
<1>3. \A d \in OthersThan(c) : Touching(d)' => otx'[d] = otx[d] /\ Touching(d)
  BY <1>1, Tears DEF Touching, OthersThan
<1>4. ASSUME NEW d \in OauthCalls, Touching(d)'
      PROVE  Progress(otx'[d]) /\ \A kind \in Kinds : HoldsToken(otx'[d], kind, tokens'[kind])
  <2>1. d \in OthersThan(c) /\ otx'[d] = otx[d] /\ Touching(d)
    BY <1>2, <1>3, <1>4 DEF OthersThan
  <2>2. QED
    BY <1>1, <2>1, HeldAfterCommit DEF TouchesApart
<1>5. ASSUME NEW d \in OauthCalls, NEW e \in OthersThan(d), Touching(d)', Touching(e)',
             NEW kind \in Kinds
      PROVE  ApartTokens(otx'[d], otx'[e], kind)
  <2>1. d \in OthersThan(c) /\ e \in OthersThan(c)
    BY <1>2, <1>5 DEF OthersThan
  <2>2. QED
    BY <1>3, <1>5, <2>1 DEF TouchesApart
<1>6. QED
  BY <1>4, <1>5 DEF TouchesApart

LEMMA OneAfterCommit ==
  ASSUME OneToken, TouchesApart, NEW c \in OauthCalls, Touching(c), NEW kind \in Kinds
  PROVE  \A r, s \in Left(c, kind) : Clash(r, s) => r = s
<1>1. HoldsToken(otx[c], kind, tokens[kind])
  BY DEF TouchesApart
<1>2. \A r, s \in tokens[kind] : Clash(r, s) => r = s
  BY DEF OneToken
<1>3. QED
  BY <1>1, <1>2 DEF HoldsToken, Left, Clash

(* The row that a commit leaves for the key of the touch.                  *)
LEMMA KeyAfterCommit ==
  ASSUME OneToken, TouchesApart, NEW c \in OauthCalls, Touching(c), otx[c].pc = "commit",
         NEW kind \in Kinds, NEW r \in Left(c, kind), r.user = otx[c].user
  PROVE  \/ r.key = otx[c].key[kind]
         \/ \E s \in tokens[kind] : s.key = otx[c].key[kind] /\ s.user # otx[c].user
<1>1. HoldsToken(otx[c], kind, tokens[kind]) /\ otx[c].kept[kind] # {}
  BY DEF TouchesApart, Progress, Kinds
<1>2. PICK s \in otx[c].kept[kind] : TRUE
  BY <1>1
<1>3. s.key = otx[c].key[kind] /\ s \in Left(c, kind)
  BY <1>1 DEF HoldsToken, Left
<1>4. CASE s.user = otx[c].user
  BY <1>3, <1>4, OneAfterCommit DEF Clash
<1>5. CASE s.user # otx[c].user
  BY <1>1, <1>3, <1>5 DEF HoldsToken
<1>6. QED
  BY <1>4, <1>5

LEMMA GivenAfterCommit ==
  ASSUME OauthTyped, TouchesApart, Given, NEW c \in OauthCalls, CommitTouch(c)
  PROVE  Given'
<1>1. PICK new :
        /\ Touching(c) /\ tokens' = new /\ \A kind \in Kinds : new[kind] = Left(c, kind)
        /\ touched' = touched \cup {GivenBy(otx[c])}
  BY CommitEffect
<1>2. ASSUME NEW kind \in Kinds, NEW r \in Left(c, kind)
      PROVE  \E x \in touched' : x.user = r.user /\ x[kind] = r.key
  <2>1. HoldsToken(otx[c], kind, tokens[kind])
    BY <1>1 DEF TouchesApart
  <2>2. CASE r \in tokens[kind]
    BY <1>1, <2>2 DEF Given
  <2>3. CASE r \notin tokens[kind]
    BY <1>1, <1>2, <2>1, <2>3, GivenByFields DEF HoldsToken, Left
  <2>4. QED
    BY <2>2, <2>3
<1>3. QED
  BY <1>1, <1>2 DEF Given

(* A pair, or a contested user, remains so.                                *)
LEMMA PairedGrows ==
  ASSUME NEW user, NEW access, NEW refresh, NEW access2 \in SUBSET access,
         NEW refresh2 \in SUBSET refresh,
         Paired(user, access, refresh), touched \subseteq touched'
  PROVE  Paired(user, access2, refresh2)'
BY DEF Paired, Together, Contested

LEMMA PairsAfterCommit ==
  ASSUME OauthTyped, OneToken, TouchesApart, Given, Pairs, NEW c \in OauthCalls, CommitTouch(c)
  PROVE  Pairs'
<1>1. PICK o, new, access, refresh :
        /\ o = otx[c] /\ access = Left(c, "access") /\ refresh = Left(c, "refresh")
        /\ Touching(c) /\ o.pc = "commit"
        /\ tokens' = new /\ \A kind \in Kinds : new[kind] = Left(c, kind)
        /\ touched' = touched \cup {GivenBy(o)}
  BY CommitEffect
<1>2. GivenBy(o) \in touched' /\ touched \subseteq touched'
  BY <1>1
<1>3. tokens'["access"] = access /\ tokens'["refresh"] = refresh
  BY <1>1 DEF Kinds
<1>4. ASSUME NEW kind \in Kinds, NEW s \in tokens[kind], s.key = o.key[kind], s.user # o.user
      PROVE  Contested(o.user)'
  <2>1. PICK y \in touched : y.user = s.user /\ y[kind] = s.key
    BY DEF Given
  <2>2. GivenBy(o).access = y.access \/ GivenBy(o).refresh = y.refresh
    BY <1>4, <2>1, GivenByFields DEF Kinds
  <2>3. y \in touched' /\ y.user # o.user /\ GivenBy(o).user = o.user
    BY <1>2, <1>4, <2>1, GivenByFields
  <2>4. QED
    BY <1>2, <2>2, <2>3 DEF Contested
<1>5. ASSUME NEW a \in access, NEW r \in refresh, a.user = o.user, r.user = o.user
      PROVE  (Together(o.user, a.key, r.key) \/ Contested(o.user))'
  <2>1. a.key = o.key["access"] \/ Contested(o.user)'
    BY <1>1, <1>4, <1>5, KeyAfterCommit DEF Kinds
  <2>2. r.key = o.key["refresh"] \/ Contested(o.user)'
    BY <1>1, <1>4, <1>5, KeyAfterCommit DEF Kinds
  <2>3. QED
    BY <1>2, <2>1, <2>2 DEF Together, GivenBy
<1>6. ASSUME NEW user, user # o.user, NEW kind \in Kinds
      PROVE  OfUser(Left(c, kind), user) \subseteq OfUser(tokens[kind], user)
  <2>1. HoldsToken(o, kind, tokens[kind])
    BY <1>1 DEF TouchesApart
  <2>2. QED
    BY <1>1, <1>6, <2>1 DEF HoldsToken, OfUser, Left
<1>7. ASSUME NEW user \in TwinoidUsers
      PROVE  Paired(user, OfUser(access, user), OfUser(refresh, user))'
  <2>1. CASE user = o.user
    BY <1>5, <2>1 DEF Paired, OfUser
  <2>2. CASE user # o.user
    <3>1. PICK before, after :
            /\ before = OfUser(tokens["access"], user) /\ after = OfUser(tokens["refresh"], user)
      OBVIOUS
    <3>2. OfUser(access, user) \subseteq before /\ OfUser(refresh, user) \subseteq after
      BY <1>1, <1>6, <2>2, <3>1 DEF Kinds
    <3>3. Paired(user, before, after)
      BY <3>1 DEF Pairs
    <3>4. QED
      BY <1>2, <3>2, <3>3, PairedGrows
  <2>3. QED
    BY <2>1, <2>2
<1>8. QED
  BY <1>3, <1>7 DEF Pairs

-----------------------------------------------------------------------------
(* A revocation removes rows of one kind that nobody holds.                *)
LEMMA RevokeEffect ==
  ASSUME OauthTyped, NEW kind \in Kinds, NEW key, NEW at, RevokeToken(kind, key, at)
  PROVE  \E new, rows :
           /\ tokens' = new /\ otx' = Torn(new) /\ UNCHANGED touched
           /\ new \in RowsOfBoth
           /\ new[kind] = tokens[kind] \ rows /\ \A k \in Kinds : k # kind => new[k] = tokens[k]
           /\ \A c \in OauthCalls : rows \cap HeldBy(c, kind) = {}
<1> DEFINE rows == {row \in tokens[kind] : row.key = key}
           new == [tokens EXCEPT ![kind] = @ \ rows]
<1>1. tokens' = new /\ otx' = Torn(new) /\ UNCHANGED touched
  BY DEF RevokeToken
<1>2. \A c \in OauthCalls : rows \cap HeldBy(c, kind) = {}
  BY DEF RevokeToken
<1> HIDE DEF rows
<1>3. /\ new \in RowsOfBoth
      /\ new[kind] = tokens[kind] \ rows /\ \A k \in Kinds : k # kind => new[k] = tokens[k]
  BY DEF OauthTyped, RowsOfBoth
<1> HIDE DEF new
<1>4. QED
  BY <1>1, <1>2, <1>3

LEMMA ApartRevoke ==
  ASSUME OauthTyped, TouchesApart, NEW kind \in Kinds, NEW key, NEW at, RevokeToken(kind, key, at)
  PROVE  TouchesApart'
<1>1. PICK new, rows :
        /\ tokens' = new /\ otx' = Torn(new)
        /\ new[kind] = tokens[kind] \ rows /\ \A k \in Kinds : k # kind => new[k] = tokens[k]
        /\ \A c \in OauthCalls : rows \cap HeldBy(c, kind) = {}
  BY RevokeEffect
<1>2. \A c \in OauthCalls : Touching(c)' => otx'[c] = otx[c] /\ Touching(c)
  BY <1>1, Tears DEF Touching
<1>3. ASSUME NEW c \in OauthCalls, Touching(c), NEW k \in Kinds
      PROVE  HoldsToken(otx[c], k, new[k])
  <2>1. HoldsToken(otx[c], k, tokens[k])
    BY <1>3 DEF TouchesApart
  <2>2. CASE k = kind
    <3>1. rows \cap (otx[c].gone[kind] \cup otx[c].kept[kind]) = {}
      BY <1>1, <1>3 DEF HeldBy
    <3>2. QED
      BY <1>1, <2>1, <2>2, <3>1 DEF HoldsToken
  <2>3. QED
    BY <1>1, <2>1, <2>2
<1>4. QED
  BY <1>1, <1>2, <1>3 DEF TouchesApart, OthersThan

(* Rows that leave take nothing from what is said of those that stay.      *)
LEMMA FewerTokens ==
  ASSUME OneToken, Given, Pairs, \A kind \in Kinds : tokens'[kind] \subseteq tokens[kind],
         touched \subseteq touched'
  PROVE  OneToken' /\ Given' /\ Pairs'
<1>1. OneToken' /\ Given'
  BY DEF OneToken, Given
<1>2. ASSUME NEW user \in TwinoidUsers
      PROVE  Paired(user, OfUser(tokens["access"], user), OfUser(tokens["refresh"], user))'
  <2>1. PICK before, after, access, refresh :
          /\ before = OfUser(tokens["access"], user) /\ after = OfUser(tokens["refresh"], user)
          /\ access = OfUser(tokens'["access"], user) /\ refresh = OfUser(tokens'["refresh"], user)
    OBVIOUS
  <2>2. access \subseteq before /\ refresh \subseteq after
    BY <2>1 DEF OfUser, Kinds
  <2>3. Paired(user, before, after)
    BY <2>1 DEF Pairs
  <2>4. Paired(user, access, refresh)'
    BY <2>2, <2>3, PairedGrows
  <2>5. QED
    BY <2>1, <2>4
<1>3. QED
  BY <1>1, <1>2 DEF Pairs

-----------------------------------------------------------------------------
LEMMA OauthTyping ==
  ASSUME OauthTyped, TouchesApart, NextOauth
  PROVE  OauthTyped'
<1> USE DEF CallStates
<1>1. ASSUME NEW c \in OauthCalls, NEW t \in CallStates,
             Become(c, t), UNCHANGED <<clock, tokens, old_tokens>>
      PROVE  OauthTyped'
  BY <1>1 DEF Become, OauthTyped
<1>2. ASSUME NEW new
      PROVE  Torn(new) \in [OauthCalls -> CallStates]
  <2>1. ASSUME NEW c \in OauthCalls
        PROVE  Torn(new)[c] \in CallStates
    BY Tears DEF OauthTyped
  <2>2. Torn(new) = [c \in OauthCalls |-> Torn(new)[c]]
    BY DEF Torn
  <2>3. QED
    BY <2>1, <2>2
<1>3. CASE TickOauth
  BY <1>3 DEF TickOauth, OauthTyped
<1>4. ASSUME NEW kind \in Kinds, NEW key, NEW at, RevokeToken(kind, key, at)
      PROVE  OauthTyped'
  <2>1. tokens' \in RowsOfBoth /\ otx' \in [OauthCalls -> CallStates]
    BY <1>2, <1>4, RevokeEffect
  <2>2. UNCHANGED clock /\ DOMAIN old_tokens' = Kinds
    BY <1>4 DEF RevokeToken, OauthTyped
  <2>3. QED
    BY <2>1, <2>2 DEF OauthTyped
<1>5. ASSUME NEW c \in OauthCalls, NEW g \in Grants, BeginTouch(c, g)
      PROVE  OauthTyped'
  BY <1>1, <1>5, BeginTouchEffect DEF BeginTouch
<1>6. ASSUME NEW c \in OauthCalls, NEW g \in Grants, ReadRefresh(c, g.user)
      PROVE  OauthTyped'
  <2> DEFINE t == [pc |-> "readAccess", user |-> g.user, now |-> clock, torn |-> FALSE,
                   refresh |-> {row \in tokens["refresh"] : row.user = g.user}]
  <2>1. tokens["refresh"] \subseteq TokenRows
    BY DEF OauthTyped, RowsOfBoth, Kinds
  <2>2. t \in Readings
    BY <2>1 DEF Readings, TwinoidUsers, OauthTyped
  <2>3. Become(c, t)
    BY <1>6 DEF ReadRefresh
  <2> HIDE DEF t
  <2>4. QED
    BY <1>1, <1>6, <2>2, <2>3 DEF ReadRefresh
<1>7. ASSUME NEW c \in OauthCalls, DeleteTokens(c)
      PROVE  OauthTyped'
  BY <1>1, <1>7, DeleteEffect DEF DeleteTokens
<1>8. ASSUME NEW c \in OauthCalls, UpsertToken(c)
      PROVE  OauthTyped'
  <2>1. PICK t \in Touches : Become(c, t)
    BY <1>8, UpsertTokenEffect
  <2>2. QED
    BY <1>1, <1>8, <2>1 DEF UpsertToken
<1>9. ASSUME NEW c \in OauthCalls, CommitTouch(c)
      PROVE  OauthTyped'
  <2> DEFINE new == [kind \in Kinds |-> (tokens[kind] \ otx[c].gone[kind]) \cup otx[c].kept[kind]]
  <2>1. otx[c] \in Touches
    BY <1>9, CommitEffect
  <2>2. new \in RowsOfBoth
    BY <2>1 DEF OauthTyped, Touches, RowsOfBoth
  <2>3. tokens' = new /\ UNCHANGED clock /\ DOMAIN old_tokens' = Kinds
        /\ otx' = [Torn(new) EXCEPT ![c] = OauthIdle]
    BY <1>9 DEF CommitTouch
  <2> HIDE DEF new
  <2>4. otx' \in [OauthCalls -> CallStates]
    BY <1>2, <2>3
  <2>5. QED
    BY <2>2, <2>3, <2>4 DEF OauthTyped
<1>10. ASSUME NEW c \in OauthCalls, RollbackOauth(c)
       PROVE  OauthTyped'
  BY <1>1, <1>10 DEF RollbackOauth
<1>11. ASSUME NEW c \in OauthCalls, ReadAccess(c)
       PROVE  OauthTyped'
  <2> DEFINE o == otx[c]
             access == {row \in tokens["access"] :
                          row.user = o.user /\ o.now < row.ctime + Validity}
             t == [pc |-> "answered", user |-> o.user, torn |-> o.torn, refresh |-> o.refresh,
                   access |-> access]
  <2>1. o \in Readings
    BY <1>11, TouchingTyped DEF ReadAccess
  <2>2. access \subseteq TokenRows
    BY DEF OauthTyped, RowsOfBoth, Kinds
  <2>3. Become(c, t)
    BY <1>11 DEF ReadAccess
  <2> HIDE DEF access
  <2>4. t \in Answers
    BY <2>1, <2>2 DEF Readings, Answers
  <2> HIDE DEF t
  <2>5. QED
    BY <1>1, <1>11, <2>3, <2>4 DEF ReadAccess
<1>12. QED
  BY <1>3, <1>4, <1>5, <1>6, <1>7, <1>8, <1>9, <1>10, <1>11 DEF NextOauth

(* The reads of the other calls, when the tokens change.                   *)
LEMMA ReadsTorn ==
  ASSUME OauthTyped, Reads, NEW new, tokens' = new, touched \subseteq touched',
         NEW d \in OauthCalls, otx'[d] = Torn(new)[d]
  PROVE  /\ otx'[d].pc = "readAccess" /\ ~otx'[d].torn =>
              otx'[d].refresh = OfUser(tokens'["refresh"], otx'[d].user)
         /\ otx'[d].pc = "answered" /\ ~otx'[d].torn =>
              Paired(otx[d].user, otx[d].access, otx[d].refresh)'
<1>1. CASE otx[d].pc = "readAccess"
  BY <1>1, Tears DEF Reads
<1>2. CASE otx[d].pc = "answered"
  <2>1. PICK t : t = otx[d]
    OBVIOUS
  <2>2. t = otx'[d]
    BY <1>2, <2>1, Tears
  <2>3. ASSUME ~t.torn
        PROVE  Paired(t.user, t.access, t.refresh)'
    <3>1. Paired(t.user, t.access, t.refresh)
      BY <1>2, <2>1, <2>3 DEF Reads
    <3>2. QED
      BY <3>1, PairedGrows
  <2>4. QED
    BY <1>2, <2>1, <2>2, <2>3
<1>3. CASE otx[d].pc \notin {"readAccess", "answered"}
  BY <1>3, Tears
<1>4. QED
  BY <1>1, <1>2, <1>3

(* The reads, when the tokens do not change.                               *)
LEMMA ReadsOfOne ==
  ASSUME OauthTyped, Reads, NEW c \in OauthCalls, NEW t, Become(c, t),
         UNCHANGED <<tokens, touched>>,
         t.pc = "readAccess" /\ ~t.torn => t.refresh = OfUser(tokens["refresh"], t.user),
         t.pc = "answered" /\ ~t.torn => Paired(t.user, t.access, t.refresh)
  PROVE  Reads'
<1>1. otx'[c] = t /\ \A d \in OthersThan(c) : otx'[d] = otx[d]
  BY Becoming
<1>2. ASSUME NEW d \in OauthCalls, otx'[d].pc = "readAccess", ~otx'[d].torn
      PROVE  otx'[d].refresh = OfUser(tokens'["refresh"], otx'[d].user)
  BY <1>1, <1>2 DEF Reads, OthersThan
<1>3. ASSUME NEW d \in OauthCalls, otx'[d].pc = "answered", ~otx'[d].torn
      PROVE  Paired(otx[d].user, otx[d].access, otx[d].refresh)'
  <2>1. PICK o : o = otx'[d]
    OBVIOUS
  <2>2. Paired(o.user, o.access, o.refresh)
    BY <1>1, <1>3, <2>1 DEF Reads, OthersThan
  <2>3. Paired(o.user, o.access, o.refresh)'
    BY <2>2, PairedGrows
  <2>4. QED
    BY <2>1, <2>3
<1>4. QED
  BY <1>2, <1>3 DEF Reads

(* A read that is answered: the refresh token is still there.              *)
LEMMA ReadsAnswered ==
  ASSUME OauthTyped, Pairs, Reads, NEW c \in OauthCalls, ReadAccess(c)
  PROVE  Reads'
<1> DEFINE o == otx[c]
           access == {row \in tokens["access"] : row.user = o.user /\ o.now < row.ctime + Validity}
           t == [pc |-> "answered", user |-> o.user, torn |-> o.torn, refresh |-> o.refresh,
                 access |-> access]
<1>1. o.pc = "readAccess" /\ o.user \in TwinoidUsers
  BY TouchingTyped DEF ReadAccess, Readings
<1>2. Become(c, t) /\ UNCHANGED <<tokens, touched>>
  BY DEF ReadAccess
<1>3. access \subseteq OfUser(tokens["access"], o.user)
  BY DEF OfUser
<1> HIDE DEF access
<1>4. /\ t.pc = "answered" /\ t.user = o.user /\ t.torn = o.torn
      /\ t.refresh = o.refresh /\ t.access = access
  OBVIOUS
<1> HIDE DEF t
<1>5. ASSUME ~o.torn
      PROVE  Paired(o.user, access, o.refresh)
  <2>1. o.refresh = OfUser(tokens["refresh"], o.user)
    BY <1>1, <1>5 DEF Reads
  <2>2. Paired(o.user, OfUser(tokens["access"], o.user), OfUser(tokens["refresh"], o.user))
    BY <1>1 DEF Pairs
  <2>3. QED
    BY <1>3, <2>1, <2>2 DEF Paired
<1>6. QED
  BY <1>2, <1>4, <1>5, ReadsOfOne

-----------------------------------------------------------------------------
LEMMA OauthInit == InitOauth => OauthInv
<1> SUFFICES ASSUME InitOauth
             PROVE  OauthInv
  OBVIOUS
<1>1. /\ tokens = OfBoth({}) /\ \A kind \in Kinds : tokens[kind] = {}
      /\ \A c \in OauthCalls : otx[c] = OauthIdle /\ otx[c].pc = "idle"
  BY NothingOfBoth DEF InitOauth, OauthIdle
<1>2. OauthTyped
  BY NothingOfBoth DEF InitOauth, OauthTyped, OfBoth, CallStates
<1>3. OneToken /\ TouchesApart /\ Given
  BY <1>1 DEF OneToken, TouchesApart, Given, Touching
<1>4. Pairs /\ Reads
  BY <1>1 DEF Pairs, Paired, OfUser, Reads, Kinds
<1>5. QED
  BY <1>2, <1>3, <1>4 DEF OauthInv

LEMMA OauthStep == OauthInv /\ [NextOauth]_oauthVars => OauthInv'
<1> SUFFICES ASSUME OauthInv, NextOauth
             PROVE  OauthInv'
  <2>1. CASE UNCHANGED oauthVars
    BY <2>1 DEF oauthVars, OauthInv, OauthTyped, OneToken, TouchesApart, Touching, Given,
                Pairs, Reads, Paired, Together, Contested
  <2>2. QED
    BY <2>1
<1> USE DEF OauthInv
<1>1. OauthTyped'
  BY OauthTyping
<1>2. ASSUME UNCHANGED <<tokens, touched>>
      PROVE  OneToken' /\ Given' /\ Pairs'
  BY <1>2, FewerTokens
<1>3. CASE TickOauth
  <2>1. UNCHANGED <<tokens, otx, touched>>
    BY <1>3 DEF TickOauth
  <2>2. TouchesApart' /\ Reads'
    BY <2>1 DEF TouchesApart, Touching, Reads, Paired, Together, Contested
  <2>3. QED
    BY <1>1, <1>2, <2>1, <2>2
<1>4. ASSUME NEW kind \in Kinds, NEW key, NEW at, RevokeToken(kind, key, at)
      PROVE  OauthInv'
  <2>1. PICK new, rows :
          /\ tokens' = new /\ otx' = Torn(new) /\ UNCHANGED touched
          /\ new[kind] = tokens[kind] \ rows /\ \A k \in Kinds : k # kind => new[k] = tokens[k]
    BY <1>4, RevokeEffect
  <2>2. \A k \in Kinds : tokens'[k] \subseteq tokens[k]
    BY <2>1
  <2>3. Reads'
    BY <2>1, ReadsTorn DEF Reads
  <2>4. TouchesApart'
    BY <1>4, ApartRevoke
  <2>5. QED
    BY <1>1, <2>1, <2>2, <2>3, <2>4, FewerTokens
<1>5. ASSUME NEW c \in OauthCalls, CommitTouch(c)
      PROVE  OauthInv'
  <2>1. PICK new :
          /\ Touching(c) /\ tokens' = new /\ \A kind \in Kinds : new[kind] = Left(c, kind)
          /\ otx'[c] = OauthIdle /\ \A d \in OthersThan(c) : otx'[d] = Torn(new)[d]
          /\ touched \subseteq touched'
    BY <1>5, CommitEffect
  <2>2. OneToken'
    BY <2>1, OneAfterCommit DEF OneToken
  <2>3. Reads'
    <3>1. otx'[c].pc = "idle"
      BY <2>1 DEF OauthIdle
    <3>2. ASSUME NEW d \in OthersThan(c)
          PROVE  /\ otx'[d].pc = "readAccess" /\ ~otx'[d].torn =>
                      otx'[d].refresh = OfUser(tokens'["refresh"], otx'[d].user)
                 /\ otx'[d].pc = "answered" /\ ~otx'[d].torn =>
                      Paired(otx[d].user, otx[d].access, otx[d].refresh)'
      BY <2>1, ReadsTorn DEF OthersThan
    <3>3. QED
      BY <3>1, <3>2 DEF Reads, OthersThan
  <2>4. QED
    BY <1>1, <1>5, <2>2, <2>3, ApartCommit, GivenAfterCommit, PairsAfterCommit
<1>6. ASSUME NEW c \in OauthCalls, NEW t, Become(c, t), UNCHANGED <<tokens, touched>>,
             TouchesApart', t.pc \notin {"readAccess", "answered"}
      PROVE  OauthInv'
  <2>1. Reads'
    BY <1>6, ReadsOfOne
  <2>2. QED
    BY <1>1, <1>2, <1>6, <2>1
<1>7. ASSUME NEW c \in OauthCalls, NEW g \in Grants, BeginTouch(c, g)
      PROVE  OauthInv'
  <2>1. PICK t \in Touches :
          Become(c, t) /\ t.pc = "delete" /\ t.gone = OfBoth({}) /\ t.kept = OfBoth({})
    BY <1>7, BeginTouchEffect
  <2>2. UNCHANGED <<tokens, touched>>
    BY <1>7 DEF BeginTouch
  <2>3. TouchesApart'
    BY <2>1, <2>2, ApartOfNothing
  <2>4. QED
    BY <1>6, <2>1, <2>2, <2>3
<1>8. ASSUME NEW c \in OauthCalls, NEW g \in Grants, ReadRefresh(c, g.user)
      PROVE  OauthInv'
  <2> DEFINE t == [pc |-> "readAccess", user |-> g.user, now |-> clock, torn |-> FALSE,
                   refresh |-> {row \in tokens["refresh"] : row.user = g.user}]
  <2>1. Become(c, t) /\ UNCHANGED <<tokens, touched>>
    BY <1>8 DEF ReadRefresh
  <2>2. t.pc = "readAccess" /\ t.refresh = OfUser(tokens["refresh"], t.user)
    BY DEF OfUser
  <2> HIDE DEF t
  <2>3. TouchesApart' /\ Reads'
    BY <2>1, <2>2, ApartOfNothing, ReadsOfOne
  <2>4. QED
    BY <1>1, <1>2, <2>1, <2>3
<1>9. ASSUME NEW c \in OauthCalls, DeleteTokens(c)
      PROVE  OauthInv'
  <2>1. PICK t \in Touches : Become(c, t)
    BY <1>9, DeleteEffect
  <2>2. UNCHANGED <<tokens, touched>> /\ TouchesApart'
    BY <1>9, ApartDelete DEF DeleteTokens
  <2>3. QED
    BY <1>6, <2>1, <2>2 DEF Touches
<1>10. ASSUME NEW c \in OauthCalls, UpsertToken(c)
       PROVE  OauthInv'
  <2>1. PICK t \in Touches : Become(c, t)
    BY <1>10, UpsertTokenEffect
  <2>2. UNCHANGED <<tokens, touched>> /\ TouchesApart'
    BY <1>10, ApartUpsert DEF UpsertToken
  <2>3. QED
    BY <1>6, <2>1, <2>2 DEF Touches
<1>11. ASSUME NEW c \in OauthCalls, RollbackOauth(c)
       PROVE  OauthInv'
  <2>1. Become(c, OauthIdle) /\ UNCHANGED <<tokens, touched>> /\ OauthIdle.pc = "idle"
    BY <1>11 DEF RollbackOauth, OauthIdle
  <2>2. TouchesApart'
    BY <2>1, ApartOfNothing
  <2>3. QED
    BY <1>6, <2>1, <2>2
<1>12. ASSUME NEW c \in OauthCalls, ReadAccess(c)
       PROVE  OauthInv'
  <2>1. PICK t : Become(c, t) /\ t.pc = "answered"
    BY <1>12 DEF ReadAccess
  <2>2. UNCHANGED <<tokens, touched>>
    BY <1>12 DEF ReadAccess
  <2>3. TouchesApart' /\ Reads'
    BY <1>12, <2>1, <2>2, ApartOfNothing, ReadsAnswered
  <2>4. QED
    BY <1>1, <1>2, <2>2, <2>3
<1>13. QED
  BY <1>3, <1>4, <1>5, <1>7, <1>8, <1>9, <1>10, <1>11, <1>12 DEF NextOauth

LEMMA OauthGrants == OauthInv => GrantsTogether
<1> SUFFICES ASSUME OauthInv
             PROVE  GrantsTogether
  OBVIOUS
<1>1. ASSUME NEW a \in tokens["access"], NEW r \in tokens["refresh"], a.user = r.user
      PROVE  Together(a.user, a.key, r.key) \/ Contested(a.user)
  <2>1. a.user \in TwinoidUsers
    BY DEF OauthInv, OauthTyped, RowsOfBoth, TokenRows, Kinds
  <2>2. a \in OfUser(tokens["access"], a.user) /\ r \in OfUser(tokens["refresh"], a.user)
    BY <1>1 DEF OfUser
  <2>3. QED
    BY <2>1, <2>2 DEF OauthInv, Pairs, Paired
<1>2. \A c \in OauthCalls : otx[c].pc = "answered" /\ ~otx[c].torn =>
        \A a \in otx[c].access, r \in otx[c].refresh :
          Together(otx[c].user, a.key, r.key) \/ Contested(otx[c].user)
  BY DEF OauthInv, Reads, Paired
<1>3. QED
  BY <1>1, <1>2 DEF GrantsTogether

-----------------------------------------------------------------------------
(* OneSession holds for any number of keys, users and concurrent touches:  *)
(* touch_dinoparc's DELETE and upsert leave no key and no user with two    *)
(* sessions.                                                               *)
THEOREM Session == Spec => [](TypeOK /\ OneSession)
<1>1. Inv => TypeOK /\ OneSession
  BY DEF Inv, Typed
<1>2. QED
  BY <1>1, InitInv, Step, PTL DEF Spec

(* LocksHold: no transaction takes or brings back a session that another   *)
(* has deleted.                                                            *)
THEOREM Locking == Spec => []LocksHold
BY InvHolds, InitInv, Step, PTL DEF Spec

(* MisreportOnlyUnderRace: without a concurrent touch of the same key for  *)
(* another user, touch_dinoparc returns the session it stored.             *)
THEOREM Reporting == Spec => []MisreportOnlyUnderRace
BY SeenReports, InitInv, Step, SeenStep, PTL DEF Spec

-----------------------------------------------------------------------------
(* TokensAgree: the sessions of a game and the tokens of Twinoid, whichever*)
(* of the two a behaviour of the store exercises.  For Twinoid this is     *)
(* GrantsTogether: get_twinoid_oauth never answers the access token of one *)
(* grant with the refresh token of another, unless the tokens changed      *)
(* between its two SELECTs or Twinoid gave a token for two users.          *)
THEOREM Agreement == MCSpec => []TokensAgree
<1>1. MCInit => Inv /\ SeenInv /\ OauthInv
  BY InitInv, OauthInit DEF MCInit
<1>2. [MCNext]_<<linkVars, vars, oauthVars, part>> =>
        [Next]_vars /\ [NextOauth]_oauthVars
  BY DEF MCNext
<1>3. Inv /\ SeenInv /\ OauthInv => TokensAgree
  BY InvHolds, SeenReports, OauthGrants DEF Inv, TokensAgree
<1>4. QED
  BY <1>1, <1>2, <1>3, Step, SeenStep, OauthStep, PTL DEF MCSpec

-----------------------------------------------------------------------------
(* The in-memory store.                                                    *)
MemInv == MemTypeOK /\ SessionsResolve /\ TokensIndexed

LEMMA MemInit == InitMem => MemInv
BY AbsentAssumption DEF InitMem, MemInv, MemTypeOK, SessionsResolve, TokensIndexed

-----------------------------------------------------------------------------
LEMMA MemTouchesSession ==
  ASSUME MemInv, NEW k \in SessionKeys, NEW u \in GameUsers, TouchSession(k, u)
  PROVE  MemInv'
<1>1. MemTypeOK'
  BY DEF MemInv, MemTypeOK, TouchSession
<1>2. user_by_session'[k] = u /\ \A l \in SessionKeys \ {k} : user_by_session'[l] = user_by_session[l]
  BY DEF MemInv, MemTypeOK, TouchSession
<1>3. ASSUME NEW v \in GameUsers, session_by_user'[v] # Absent
      PROVE  user_by_session'[session_by_user'[v]] = v
  <2>1. CASE v = u
    BY <1>2, <2>1 DEF TouchSession
  <2>2. CASE v # u
    <3>1. session_by_user'[v] = session_by_user[v] /\ v # user_by_session[k]
      BY <1>3, <2>2 DEF TouchSession
    <3>2. session_by_user[v] \in SessionKeys /\ user_by_session[session_by_user[v]] = v
      BY <1>3, <3>1 DEF MemInv, MemTypeOK, SessionsResolve
    <3>3. QED
      BY <1>2, <3>1, <3>2
  <2>3. QED
    BY <2>1, <2>2
<1>4. TokensIndexed'
  BY DEF MemInv, TokensIndexed, TouchSession
<1>5. QED
  BY <1>1, <1>3, <1>4 DEF MemInv, SessionsResolve

LEMMA MemRevokesSession ==
  ASSUME MemInv, NEW k \in SessionKeys, RevokeSession(k)
  PROVE  MemInv'
<1> DEFINE u == user_by_session[k]
<1>1. u \in GameUsers
  BY DEF MemInv, MemTypeOK, RevokeSession
<1>2. /\ user_by_session' = [user_by_session EXCEPT ![k] = Absent]
      /\ session_by_user' = [session_by_user EXCEPT ![u] = Absent]
      /\ UNCHANGED <<token_to_user, user_to_token>>
  BY DEF RevokeSession
<1>3. MemTypeOK'
  BY <1>1, <1>2 DEF MemInv, MemTypeOK
<1>4. ASSUME NEW v \in GameUsers, session_by_user'[v] # Absent
      PROVE  user_by_session'[session_by_user'[v]] = v
  <2>1. v # u /\ session_by_user'[v] = session_by_user[v]
    BY <1>1, <1>2, <1>4 DEF MemInv, MemTypeOK
  <2>2. session_by_user[v] \in SessionKeys /\ user_by_session[session_by_user[v]] = v
    BY <1>4, <2>1 DEF MemInv, MemTypeOK, SessionsResolve
  <2>3. session_by_user[v] # k
    BY <2>1, <2>2
  <2>4. QED
    BY <1>2, <2>1, <2>2, <2>3 DEF MemInv, MemTypeOK
<1>5. TokensIndexed'
  BY <1>2 DEF MemInv, TokensIndexed
<1>6. QED
  BY <1>3, <1>4, <1>5 DEF MemInv, SessionsResolve

LEMMA MemTouchesOauth ==
  ASSUME MemInv, NEW at \in TwinoidTokens, NEW rt \in TwinoidTokens, NEW p \in TwinoidPlayers,
         TouchOauth(at, rt, p)
  PROVE  MemInv'
<1> DEFINE key == [kind \in TokenKinds |-> IF kind = "access" THEN at ELSE rt]
<1>1. /\ token_to_user' = [kind \in TokenKinds |-> Assigned(kind, key[kind], p)]
      /\ user_to_token' =
           [kind \in TokenKinds |-> [user_to_token[kind] EXCEPT ![p] = key[kind]]]
      /\ UNCHANGED <<user_by_session, session_by_user>>
  BY DEF TouchOauth
<1>2. \A kind \in TokenKinds : key[kind] \in TwinoidTokens
  OBVIOUS
<1> HIDE DEF key
<1>3. ASSUME NEW kind \in TokenKinds
      PROVE  /\ token_to_user'[kind] \in [TwinoidTokens -> TwinoidPlayers \cup {Absent}]
             /\ user_to_token'[kind] \in [TwinoidPlayers -> TwinoidTokens \cup {Absent}]
             /\ \A t \in TwinoidTokens :
                  token_to_user'[kind][t] = IF t = key[kind] THEN p
                                     ELSE IF t = user_to_token[kind][p] THEN Absent
                                     ELSE token_to_user[kind][t]
             /\ user_to_token'[kind][p] = key[kind]
             /\ \A q \in TwinoidPlayers \ {p} :
                  user_to_token'[kind][q] = user_to_token[kind][q]
  BY <1>1, <1>2, <1>3 DEF Assigned, MemInv, MemTypeOK
<1>4. MemTypeOK'
  BY <1>1, <1>3 DEF MemInv, MemTypeOK
<1>5. ASSUME NEW kind \in TokenKinds, NEW t \in TwinoidTokens, token_to_user'[kind][t] # Absent
      PROVE  user_to_token'[kind][token_to_user'[kind][t]] = t
  <2>1. CASE t = key[kind]
    BY <1>3, <2>1
  <2>2. CASE t # key[kind]
    <3>1. t # user_to_token[kind][p] /\ token_to_user'[kind][t] = token_to_user[kind][t]
      BY <1>3, <1>5, <2>2
    <3>2. token_to_user[kind][t] \in TwinoidPlayers
          /\ user_to_token[kind][token_to_user[kind][t]] = t
      BY <1>5, <3>1 DEF MemInv, MemTypeOK, TokensIndexed
    <3>3. QED
      BY <1>3, <3>1, <3>2
  <2>3. QED
    BY <2>1, <2>2
<1>6. SessionsResolve'
  BY <1>1 DEF MemInv, SessionsResolve
<1>7. QED
  BY <1>4, <1>5, <1>6 DEF MemInv, TokensIndexed

LEMMA MemRevokesToken ==
  ASSUME MemInv, NEW kind \in TokenKinds, NEW t \in TwinoidTokens, RevokeTokenInMem(kind, t)
  PROVE  MemInv'
<1> DEFINE p == token_to_user[kind][t]
<1>1. p \in TwinoidPlayers
  BY DEF MemInv, MemTypeOK, RevokeTokenInMem
<1>2. /\ user_to_token' = [user_to_token EXCEPT ![kind][p] = Absent]
      /\ token_to_user' = [token_to_user EXCEPT ![kind][t] = Absent]
      /\ UNCHANGED <<user_by_session, session_by_user>>
  BY DEF RevokeTokenInMem
<1>3. /\ token_to_user' \in [TokenKinds -> [TwinoidTokens -> TwinoidPlayers \cup {Absent}]]
      /\ user_to_token' \in [TokenKinds -> [TwinoidPlayers -> TwinoidTokens \cup {Absent}]]
  BY <1>1, <1>2 DEF MemInv, MemTypeOK
<1>4. MemTypeOK'
  BY <1>2, <1>3 DEF MemInv, MemTypeOK
<1>5. ASSUME NEW k \in TokenKinds, NEW s \in TwinoidTokens, token_to_user'[k][s] # Absent
      PROVE  user_to_token'[k][token_to_user'[k][s]] = s
  <2>1. token_to_user'[k][s] = token_to_user[k][s] /\ ~(k = kind /\ s = t)
    BY <1>2, <1>5 DEF MemInv, MemTypeOK
  <2>2. /\ token_to_user[k][s] \in TwinoidPlayers
        /\ user_to_token[k][token_to_user[k][s]] = s
    BY <1>5, <2>1 DEF MemInv, MemTypeOK, TokensIndexed
  <2>3. user_to_token[kind][p] = t
    BY <1>1 DEF MemInv, TokensIndexed, RevokeTokenInMem
  <2>4. ~(k = kind /\ token_to_user[k][s] = p)
    BY <2>1, <2>2, <2>3
  <2>5. QED
    BY <1>2, <2>1, <2>2, <2>4 DEF MemInv, MemTypeOK
<1>6. SessionsResolve'
  BY <1>2 DEF MemInv, SessionsResolve
<1>7. QED
  BY <1>4, <1>5, <1>6 DEF MemInv, TokensIndexed

-----------------------------------------------------------------------------
LEMMA MemStep == MemInv /\ [NextMem]_tokenVars => MemInv'
<1> SUFFICES ASSUME MemInv, [NextMem]_tokenVars PROVE MemInv'
  OBVIOUS
<1>1. CASE NextMem
  BY <1>1, MemTouchesSession, MemRevokesSession, MemTouchesOauth, MemRevokesToken DEF NextMem, SessionStep, TokenStep
<1>2. CASE UNCHANGED tokenVars
  BY <1>2 DEF tokenVars, MemInv, MemTypeOK, SessionsResolve, TokensIndexed
<1>3. QED
  BY <1>1, <1>2

(* The four maps keep their types.                                         *)
THEOREM MemTyping == MemSpec => []MemTypeOK
<1>1. InitMem => MemInv
  BY MemInit
<1>2. MemInv => MemTypeOK
  BY DEF MemInv
<1>3. QED
  BY <1>1, <1>2, MemStep, PTL DEF MemSpec

(* get_dinoparc and get_hammerfest never panic and never return the        *)
(* session of another user.                                                *)
THEOREM SessionsAlwaysResolve == MemSpec => []SessionsResolve
<1>1. InitMem => MemInv
  BY MemInit
<1>2. MemInv => SessionsResolve
  BY DEF MemInv
<1>3. QED
  BY <1>1, <1>2, MemStep, PTL DEF MemSpec

(* The assertions of the two Twinoid revocations never fail.               *)
THEOREM TokensAlwaysIndexed == MemSpec => []TokensIndexed
<1>1. InitMem => MemInv
  BY MemInit
<1>2. MemInv => TokensIndexed
  BY DEF MemInv
<1>3. QED
  BY <1>1, <1>2, MemStep, PTL DEF MemSpec
=============================================================================

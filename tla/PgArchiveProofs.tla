--------------------------- MODULE PgArchiveProofs ---------------------------
(***************************************************************************)
(* The transactions that archive pages, for any number of calls, any pages *)
(* whose touches are steps of upsert_archive_query and any values of the   *)
(* clock: the tables never give two values for one instant, a transaction  *)
(* never changes what they said before it began, and the transactions are  *)
(* serializable, which READ COMMITTED alone does not promise.              *)
(*                                                                         *)
(* The argument: a statement does not run while it would touch a row that  *)
(* contends with one another transaction has written (Apart), so the steps *)
(* of two transactions commute.  The steps a transaction has done are a    *)
(* walk from the tables as they are committed now to what the transaction  *)
(* sees (Serial), and another commit moves the whole walk (WalkRebases).   *)
(*                                                                         *)
(* Then what the stores of Hammerfest and Dinoparc promise of their own    *)
(* tables, for any pages of these games: the rest of the module.  A commit *)
(* is one walk over a whole page (CommitWalks), so each promise comes from *)
(* a fact about the touches of a page (HammerfestRuled, DinoparcWhole),    *)
(* proved of every response, and from what one touch does to the rows      *)
(* (TouchRows), carried along the walk (PathHolds).                        *)
(***************************************************************************)
EXTENDS HammerfestStore, DinoparcStore, TLAPS, FiniteSetTheorems, WellFoundedInduction

(* Induction over the naturals, as a least element: intervals are ordered  *)
(* by strict inclusion, which is well founded.                             *)
LEMMA LeastNumber ==
  ASSUME NEW S \in SUBSET Nat, S # {}
  PROVE  \E m \in S : \A k \in S : m <= k
<1> DEFINE R == StrictSubsetOrdering(Nat)
           T == {0 .. n : n \in S}
<1>1. IsWellFoundedOn(R, FiniteSubsetsOf(Nat))
  BY FS_StrictSubsetOrderingWellFounded
<1>2. \A n \in Nat : IsFiniteSet(0 .. n) /\ 0 .. n \subseteq Nat
  BY FS_Interval
<1>3. T \subseteq FiniteSubsetsOf(Nat) /\ T # {}
  BY <1>2, Zenon DEF FiniteSubsetsOf
<1>4. \E x \in T : \A y \in T : <<y, x>> \notin R
  <2> HIDE DEF R, T
  <2>1. QED
    BY <1>1, <1>3, WFMin, Zenon
<1>5. PICK m \in S : \A k \in S : <<0 .. k, 0 .. m>> \notin R
  BY <1>4, Zenon
<1>6. ASSUME NEW k \in S, k < m
      PROVE  FALSE
  <2>1. m \in 0 .. m /\ m \notin 0 .. k /\ 0 .. k \subseteq 0 .. m
    BY <1>6
  <2>2. <<0 .. k, 0 .. m>> \in R
    BY <2>1, <1>2 DEF StrictSubsetOrdering
  <2>3. QED
    BY <2>2, <1>5
<1>7. QED
  BY <1>6

(* Who walks from S through a program, one step after the other, arrives   *)
(* in a state that replaying it reaches.  The recursive function of Replay *)
(* exists: there is one on every interval from 0, since the one on an      *)
(* interval extends to the next.                                           *)
LEMMA ReplayWalk ==
  ASSUME NEW S, NEW program, NEW t, NEW path, NEW n \in Nat, n = Len(program),
         path[0] = S,
         \A i \in 1 .. n : path[i] \in After(path[i - 1], program[i], t)
  PROVE  path[n] \in Replay(S, program, t)
<1> DEFINE Extended(g, i) == AfterAny(g[i - 1], program[i], t)
           Reached(g, k) == g = [i \in 0 .. k |-> IF i = 0 THEN {S} ELSE Extended(g, i)]
           reached == CHOOSE g : Reached(g, n)
<1>1. ASSUME NEW k \in Nat, NEW g, Reached(g, k)
      PROVE  g[0] = {S} /\ \A i \in 1 .. k : g[i] = Extended(g, i)
  <2> HIDE DEF Extended
  <2>1. \A i \in 0 .. k : g[i] = IF i = 0 THEN {S} ELSE Extended(g, i)
    BY <1>1
  <2> HIDE DEF Reached
  <2>2. 0 \in 0 .. k /\ \A i \in 1 .. k : i \in 0 .. k /\ i # 0
    OBVIOUS
  <2>3. QED
    BY <2>1, <2>2, Zenon
<1>2. ASSUME NEW k \in Nat, NEW g, Reached(g, k)
      PROVE  \E h : Reached(h, k + 1)
  <2> DEFINE last == AfterAny(g[k], program[k + 1], t)
             h == [i \in 0 .. k + 1 |-> IF i = k + 1 THEN last ELSE g[i]]
  <2>1. h[k + 1] = last /\ \A i \in 0 .. k : h[i] = g[i]
    <3> HIDE DEF last, Reached
    <3>1. QED
      OBVIOUS
  <2>2. h = [i \in 0 .. k + 1 |-> h[i]]
    <3> HIDE DEF last, Reached
    <3>1. QED
      OBVIOUS
  <2> HIDE DEF h
  <2>3. 0 \in 0 .. k /\ \A i \in 1 .. k : i \in 0 .. k /\ i - 1 \in 0 .. k
    OBVIOUS
  <2>4. h[0] = {S} /\ \A i \in 1 .. k : h[i] = Extended(h, i)
    <3>1. g[0] = {S} /\ \A i \in 1 .. k : g[i] = Extended(g, i)
      BY <1>1, <1>2, Zenon
    <3> HIDE DEF Reached
    <3>2. \A i \in 1 .. k : Extended(h, i) = Extended(g, i)
      BY <2>1, <2>3, Zenon
    <3> HIDE DEF Extended
    <3>3. QED
      BY <3>1, <3>2, <2>1, <2>3, Zenon
  <2>5. h[k + 1] = Extended(h, k + 1)
    <3>1. (k + 1) - 1 = k /\ k \in 0 .. k
      OBVIOUS
    <3>2. QED
      BY <3>1, <2>1, Zenon
  <2>6. \A i \in 0 .. k + 1 : i = 0 \/ i \in 1 .. k \/ i = k + 1
    OBVIOUS
  <2>7. k + 1 # 0 /\ \A i \in 1 .. k : i # 0
    OBVIOUS
  <2>8. \A i \in 0 .. k + 1 : h[i] = IF i = 0 THEN {S} ELSE Extended(h, i)
    <3> HIDE DEF Extended, Reached
    <3>1. QED
      BY <2>4, <2>5, <2>6, <2>7
  <2>9. QED
    <3> HIDE DEF Extended
    <3>1. QED
      BY <2>2, <2>8, Zenon
<1>3. \A k \in Nat : \E g : Reached(g, k)
  <2> DEFINE Bad == {k \in Nat : ~ \E g : Reached(g, k)}
  <2>1. 0 \notin Bad
    <3>1. [i \in 0 .. 0 |-> {S}]
            = [i \in 0 .. 0 |-> IF i = 0 THEN {S} ELSE Extended([j \in 0 .. 0 |-> {S}], i)]
      <4> HIDE DEF Extended
      <4>1. QED
        OBVIOUS
    <3>2. QED
      BY <3>1, Zenon
  <2> HIDE DEF Reached
  <2>2. Bad = {}
    <3> SUFFICES ASSUME Bad # {}
                 PROVE  FALSE
      OBVIOUS
    <3>1. PICK m \in Bad : \A k \in Bad : m <= k
      BY LeastNumber
    <3>2. m - 1 \in Nat /\ m - 1 \notin Bad /\ m = (m - 1) + 1
      BY <2>1, <3>1
    <3>3. \E g : Reached(g, (m - 1) + 1)
      BY <3>2, <1>2
    <3>4. QED
      BY <3>2, <3>3
  <2>3. QED
    BY <2>2
<1>4. Replay(S, program, t) = reached[n]
  BY Zenon DEF Replay
<1>5. Reached(reached, n)
  <2>1. \E g : Reached(g, n)
    BY <1>3
  <2> HIDE DEF Reached
  <2>2. QED
    BY <2>1, Zenon
<1> HIDE DEF reached
<1>6. reached[0] = {S} /\ \A i \in 1 .. n : reached[i] = Extended(reached, i)
  <2> HIDE DEF Extended, Reached
  <2>1. QED
    BY <1>1, <1>5, Zenon
<1> HIDE DEF Reached
<1> DEFINE Bad == {k \in 0 .. n : path[k] \notin reached[k]}
<1>7. ASSUME NEW k \in 1 .. n, path[k - 1] \in reached[k - 1]
      PROVE  path[k] \in reached[k]
  BY <1>6, <1>7 DEF AfterAny
<1>8. Bad = {}
  <2> SUFFICES ASSUME Bad # {}
               PROVE  FALSE
    OBVIOUS
  <2>1. Bad \in SUBSET Nat
    OBVIOUS
  <2>2. PICK m \in Bad : \A k \in Bad : m <= k
    BY <2>1, LeastNumber
  <2>3. m # 0
    BY <1>6
  <2>4. m \in 1 .. n /\ m - 1 \in 0 .. n /\ m - 1 \notin Bad
    BY <2>2, <2>3
  <2>5. QED
    BY <2>4, <1>7
<1>9. QED
  BY <1>4, <1>8
-----------------------------------------------------------------------------
(* What one upsert does to the rows it takes.                              *)
LEMMA RowVersions ==
  ASSUME NEW r \in Row, NEW t \in Instants
  PROVE  /\ Refreshed(r, t) \in Row
         /\ Closed(r, t) \in Row
         /\ Refreshed(r, t).key = r.key /\ Closed(r, t).key = r.key
         /\ Refreshed(r, t).mid = r.mid /\ Closed(r, t).mid = r.mid
         /\ Refreshed(r, t).data = r.data /\ Closed(r, t).data = r.data
         /\ Refreshed(r, t).lower = r.lower /\ Closed(r, t).lower = r.lower
         /\ Refreshed(r, t).upper = r.upper /\ Closed(r, t).upper = t
         /\ Refreshed(r, t).retrieved = r.retrieved \cup {t}
         /\ Closed(r, t).retrieved = r.retrieved
BY ArchiveAssumption DEF Row, Refreshed, Closed, Instants, Forever

(* The row a touch inserts is a row of its table, open from the page on.   *)
LEMMA NewRowIsRow ==
  ASSUME NEW u \in Touch, NEW t \in Instants
  PROVE  NewRow(u, t) \in Row
BY ArchiveAssumption DEF Row, NewRow, Touch, Instants, Forever

(* A row that is current and contends with a touch is the one the touch    *)
(* takes.                                                                  *)
LEMMA TakenOpen ==
  ASSUME NEW W \in SUBSET Row, NEW u
  PROVE  /\ Taken(W, u) \subseteq W
         /\ Matching(W, u) \subseteq W
         /\ CurrentRows(W, u) \subseteq W
         /\ \A r \in Taken(W, u) : r.upper = Forever
         /\ \A r \in CurrentRows(W, u) : r.upper = Forever
BY DEF Taken, Matching, CurrentRows, CurrentPrimary, CurrentUnique, Open

(* Every version an upsert writes is that of a row it takes, or new; every *)
(* row it takes has a version.                                             *)
LEMMA PutVersions ==
  ASSUME NEW W \in SUBSET Row, NEW u \in Touch, NEW t \in Instants
  PROVE  /\ Put(W, u, t) \subseteq Row
         /\ \A r \in Taken(W, u) : Refreshed(r, t) \in Put(W, u, t)
                                   \/ Closed(r, t) \in Put(W, u, t)
         /\ \A p \in Put(W, u, t) :
              \/ p = NewRow(u, t)
              \/ \E r \in Taken(W, u) : p = Refreshed(r, t) \/ p = Closed(r, t)
<1> DEFINE T == Taken(W, u)
           P == Put(W, u, t)
<1>1. T \subseteq Row
  BY TakenOpen
<1>2. CASE Matching(W, u) # {}
  <2>1. P = {Refreshed(r, t) : r \in T}
    BY <1>2 DEF Put, Taken
  <2> HIDE DEF T, P
  <2>2. P \subseteq Row
    BY <2>1, <1>1, RowVersions
  <2>3. QED
    BY <2>1, <2>2 DEF T, P
<1>3. CASE Matching(W, u) = {}
  <2>1. P = {Closed(r, t) : r \in T} \cup {NewRow(u, t)}
    BY <1>3 DEF Put, Taken
  <2> HIDE DEF T, P
  <2>2. P \subseteq Row
    BY <2>1, <1>1, RowVersions, NewRowIsRow
  <2>3. QED
    BY <2>1, <2>2 DEF T, P
<1>4. QED
  BY <1>2, <1>3

(* An upsert that the constraints allow leaves one value at every instant. *)
LEMMA UpsertExclusive ==
  ASSUME NEW W \in SUBSET Row, NEW u \in Touch, NEW t \in Instants,
         Exclusive(W), Allowed(W, u, t)
  PROVE  Exclusive((W \ Taken(W, u)) \cup Put(W, u, t))
<1> DEFINE T == Taken(W, u)
           P == Put(W, u, t)
<1>1. SUFFICES ASSUME NEW p \in (W \ T) \cup P, NEW q \in (W \ T) \cup P,
                      p # q, Alike(p, q)
               PROVE  Disjoint(p, q)
  BY DEF Exclusive
<1>2. T \subseteq W /\ P \subseteq Row
  BY TakenOpen, PutVersions
<1>3. \A r, s \in W : r # s /\ Alike(r, s) => Disjoint(r, s)
  BY DEF Exclusive
<1>4. \A r, s : Alike(r, s) => Alike(s, r)
  BY DEF Alike
<1>5. \A r, s : Disjoint(r, s) => Disjoint(s, r)
  BY DEF Disjoint
<1>6. CASE Matching(W, u) # {}
  <2>1. T = Matching(W, u) /\ P = {Refreshed(r, t) : r \in T}
    BY <1>6 DEF Put, Taken
  <2>2. \A r \in T : \A s :
          /\ Alike(Refreshed(r, t), s) <=> Alike(r, s)
          /\ Disjoint(Refreshed(r, t), s) <=> Disjoint(r, s)
          /\ Alike(s, Refreshed(r, t)) <=> Alike(s, r)
          /\ Disjoint(s, Refreshed(r, t)) <=> Disjoint(s, r)
    BY <1>2, RowVersions DEF Alike, Disjoint
  <2> HIDE DEF T, P
  <2>3. CASE p \in W \ T /\ q \in W \ T
    BY <1>1, <1>3, <2>3
  <2>4. CASE p \in W \ T /\ q \in P
    BY <1>1, <1>2, <1>3, <2>1, <2>2, <2>4
  <2>5. CASE p \in P /\ q \in W \ T
    BY <1>1, <1>2, <1>3, <2>1, <2>2, <2>5
  <2>6. CASE p \in P /\ q \in P
    BY <1>1, <1>2, <1>3, <2>1, <2>2, <2>6
  <2>7. QED
    BY <1>1, <2>3, <2>4, <2>5, <2>6
<1>7. CASE Matching(W, u) = {}
  <2> DEFINE n == NewRow(u, t)
  <2>1. T = CurrentRows(W, u) /\ P = {Closed(r, t) : r \in T} \cup {n}
    BY <1>7 DEF Put, Taken
  <2>2. /\ \A r \in T : r.lower < t
        /\ \A r \in W \ T : Alike(r, n) => r.upper <= t
    BY <1>7, <2>1 DEF Allowed
  <2>3. n.lower = t
    BY DEF NewRow
  <2>4. \A r \in T : \A s :
          /\ Alike(Closed(r, t), s) <=> Alike(r, s)
          /\ Alike(s, Closed(r, t)) <=> Alike(s, r)
    BY <1>2, RowVersions DEF Alike
  <2>5. \A r \in T, s \in W : Disjoint(r, s) => Disjoint(Closed(r, t), s)
    <3> SUFFICES ASSUME NEW r \in T, NEW s \in W, Disjoint(r, s)
                 PROVE  Disjoint(Closed(r, t), s)
      OBVIOUS
    <3>1. r.upper = Forever /\ s.lower \in Instants /\ ~ (Forever <= s.lower)
      BY <1>2, TakenOpen, ArchiveAssumption DEF Row, Instants, Forever
    <3>2. Closed(r, t).lower = r.lower
      BY <1>2, RowVersions
    <3>3. QED
      BY <3>1, <3>2 DEF Disjoint
  <2>6. \A r, s \in T : Alike(r, s) => r = s
    <3> SUFFICES ASSUME NEW r \in T, NEW s \in T, Alike(r, s), r # s
                 PROVE  FALSE
      OBVIOUS
    <3>1. r.upper = Forever /\ s.upper = Forever
      BY TakenOpen
    <3>2. r.lower \in Instants /\ s.lower \in Instants
      BY <1>2 DEF Row
    <3>3. Disjoint(r, s)
      BY <1>2, <1>3
    <3>4. QED
      BY <3>1, <3>2, <3>3, ArchiveAssumption DEF Disjoint, Instants, Forever
  <2>7. \A r \in T : Disjoint(Closed(r, t), n)
    BY <1>2, <2>3, RowVersions DEF Disjoint, Instants
  <2>8. \A r \in W \ T : Alike(r, n) => Disjoint(r, n)
    BY <2>2, <2>3 DEF Disjoint
  <2> HIDE DEF T, P, n
  <2>9. CASE p \in W \ T /\ q \in W \ T
    BY <1>1, <1>3, <2>9
  <2>10. CASE p \in W \ T /\ q \in P
    BY <1>1, <1>2, <1>3, <1>4, <1>5, <2>1, <2>4, <2>5, <2>8, <2>10
  <2>11. CASE p \in P /\ q \in W \ T
    BY <1>1, <1>2, <1>3, <1>4, <1>5, <2>1, <2>4, <2>5, <2>8, <2>11
  <2>12. CASE p \in P /\ q \in P
    BY <1>1, <1>5, <2>1, <2>4, <2>6, <2>7, <2>12
  <2>13. QED
    BY <1>1, <2>9, <2>10, <2>11, <2>12
<1>8. QED
  BY <1>6, <1>7

(* An upsert does the same in tables that differ in rows it does not touch *)
(* and would not contend with.                                             *)
LEMMA Elsewhere ==
  ASSUME NEW W \in SUBSET Row, NEW G, NEW M, NEW u \in Touch, NEW t \in Instants,
         \A r \in Taken(W, u) \cup Put(W, u, t) : \A x \in G \cup M : ~Alike(r, x)
  PROVE  LET W2 == (W \ G) \cup M
         IN  /\ Taken(W2, u) = Taken(W, u)
             /\ Put(W2, u, t) = Put(W, u, t)
             /\ Allowed(W, u, t) => Allowed(W2, u, t)
             /\ (W2 \ Taken(W2, u)) \cup Put(W2, u, t)
                  = (((W \ Taken(W, u)) \cup Put(W, u, t)) \ G) \cup M
<1> DEFINE W2 == (W \ G) \cup M
           n == NewRow(u, t)
<1>1. n.key = u.key /\ n.mid = u.mid
  BY DEF NewRow
<1>2. \A r \in Taken(W, u) \cup Put(W, u, t) : r \notin G /\ r \notin M
  BY DEF Alike
<1>3. Matching(W, u) = {} => n \in Put(W, u, t)
  BY DEF Put
<1>4. \A r \in Matching(W, u) :
        /\ r \in Taken(W, u) /\ r.key = u.key
        /\ u.looked => r.mid = u.mid /\ u.mid # None
  BY DEF Taken, Matching, CurrentPrimary, CurrentUnique
<1>5. \E r \in Taken(W, u) \cup Put(W, u, t) :
        r.key = u.key /\ (u.looked /\ u.mid # None => r.mid = u.mid)
  BY <1>1, <1>3, <1>4
<1>6. \A x \in G \cup M : x.key # u.key /\ ~(u.looked /\ u.mid # None /\ x.mid = u.mid)
  BY <1>5 DEF Alike
<1>7. /\ CurrentPrimary(W2, u) = CurrentPrimary(W, u)
      /\ CurrentUnique(W2, u) = CurrentUnique(W, u)
  BY <1>6 DEF CurrentPrimary, CurrentUnique, Open
<1>8. /\ Matching(W2, u) = Matching(W, u)
      /\ CurrentRows(W2, u) = CurrentRows(W, u)
  BY <1>7 DEF Matching, CurrentRows
<1>9. Taken(W2, u) = Taken(W, u) /\ Put(W2, u, t) = Put(W, u, t)
  BY <1>8 DEF Taken, Put
<1>10. ASSUME Allowed(W, u, t), Matching(W, u) = {}
       PROVE  Allowed(W2, u, t)
  <2>1. \A x \in M : ~Alike(n, x) /\ ~Alike(x, n)
    BY <1>3, <1>10 DEF Alike
  <2> HIDE DEF n
  <2>2. /\ \A r \in CurrentRows(W, u) : r.lower < t
        /\ \A r \in W \ CurrentRows(W, u) : Alike(r, n) => r.upper <= t
    BY <1>10 DEF Allowed, n
  <2>3. /\ \A r \in CurrentRows(W2, u) : r.lower < t
        /\ \A r \in W2 \ CurrentRows(W2, u) : Alike(r, n) => r.upper <= t
    BY <1>8, <2>1, <2>2
  <2>4. QED
    BY <2>3 DEF Allowed, n
<1>11. Allowed(W, u, t) => Allowed(W2, u, t)
  BY <1>8, <1>10 DEF Allowed
<1>12. (W2 \ Taken(W, u)) \cup Put(W, u, t)
         = (((W \ Taken(W, u)) \cup Put(W, u, t)) \ G) \cup M
  BY <1>2
<1>13. QED
  BY <1>9, <1>11, <1>12
-----------------------------------------------------------------------------
(* Who has read the clock read it before now and archives a page of the    *)
(* store; who has no transaction has written nothing.                      *)
Started == \A c \in Calls :
  IF Running(c)
  THEN tx[c].now <= now /\ tx[c].program \in Programs
  ELSE tx[c].gone = {} /\ tx[c].made = {}

Typed == TypeOK /\ Started

Touched(c) == tx[c].gone \cup tx[c].made

(* Two transactions never write rows that an EXCLUDE constraint compares,  *)
(* and only rows that are still committed are updated.                     *)
Apart == \A c, d \in Calls : c # d =>
           \A r \in Touched(c), s \in Touched(d) : ~Alike(r, s)

Locked == Apart /\ \A c \in Calls : tx[c].gone \subseteq rows

(* What a transaction takes away of the time before it began, it writes    *)
(* again, and it writes nothing else of that time.                         *)
SameTold(r, s) == r.key = s.key /\ r.data = s.data /\ r.lower = s.lower

Retold == \A c \in Calls : Running(c) =>
  /\ \A r \in tx[c].gone : r.lower < tx[c].now =>
       \E s \in tx[c].made : SameTold(r, s)
  /\ \A s \in tx[c].made : s.lower < tx[c].now =>
       \E r \in tx[c].gone : SameTold(r, s)

(* The instants that rows carry are those of commits, and of the           *)
(* transaction that writes them.                                           *)
Times == {log[i].at : i \in DOMAIN log}

Dates(r) == {r.lower} \cup r.retrieved

Dated == /\ \A r \in rows : Dates(r) \subseteq Times
         /\ \A c \in Calls : \A r \in tx[c].made :
              Dates(r) \subseteq Times \cup {tx[c].now}

(* A row's period holds the instants it was retrieved at: in the tables    *)
(* when the commits are in order, and for a transaction when its own       *)
(* commit would be.                                                        *)
Fits(r) == \A t \in r.retrieved : r.lower <= t /\ t <= r.upper

Fitting ==
  InOrder =>
    /\ \A r \in rows : Fits(r)
    /\ \A c \in Calls : (Running(c) /\ \A t \in Times : t <= tx[c].now) =>
         \A r \in tx[c].made : Fits(r)

Fresh == OneValueAtATime /\ Locked /\ Retold /\ Dated /\ Fitting /\ Typed
-----------------------------------------------------------------------------
(* The steps as the changes they make to the rows and to what transactions *)
(* have written.                                                           *)
Unmoved(d) == /\ tx'[d].pc = tx[d].pc
              /\ tx'[d].now = tx[d].now
              /\ tx'[d].program = tx[d].program
              /\ tx'[d].gone = tx[d].gone
              /\ tx'[d].made = tx[d].made

OthersUnmoved(c) == \A d \in Calls \ {c} : Unmoved(d)

Quiet == rows' = rows /\ log' = log /\ \A d \in Calls : Unmoved(d)

Emptied(c) == /\ rows' = rows
              /\ log' = log
              /\ OthersUnmoved(c)
              /\ tx'[c].gone = {} /\ tx'[c].made = {}

Upserted(c) ==
  LET u == Step(c)
      V == View(c)
  IN  /\ rows' = rows
      /\ log' = log
      /\ OthersUnmoved(c)
      /\ Running(c) /\ Running(c)'
      /\ tx'[c].now = tx[c].now
      /\ tx'[c].program = tx[c].program
      /\ tx'[c].gone = tx[c].gone \cup (Taken(V, u) \cap rows)
      /\ tx'[c].made = (tx[c].made \ Taken(V, u)) \cup Put(V, u, tx[c].now)
      /\ u \in Touch
      /\ u.kind = "archive"
      /\ Allowed(V, u, tx[c].now)
      /\ \A d \in Calls \ {c} :
           \A r \in Taken(V, u) \cup Put(V, u, tx[c].now), s \in Touched(d) : ~Alike(r, s)

Committed(c) == /\ rows' = View(c)
                /\ log' = Append(log, [program |-> tx[c].program, at |-> tx[c].now])
                /\ OthersUnmoved(c)
                /\ Running(c)
                /\ tx'[c].gone = {} /\ tx'[c].made = {} /\ ~Running(c)'

(* The first touch of what is left of a program.                           *)
LEMMA StepIsTouch ==
  ASSUME TypeOK, NEW c \in Calls, tx[c].todo # <<>>
  PROVE  Step(c) \in Touch /\ Tail(tx[c].todo) \in Seq(Touch)
<1>1. tx[c].todo \in Seq(Touch)
  BY DEF TypeOK, Tx
<1>2. QED
  BY <1>1 DEF Step

(* A transaction that does not wait writes nothing another one contends for. *)
LEMMA ArchiveIsApart ==
  ASSUME NEW c \in Calls, Ready(c, "archive"), NEW d \in Calls \ {c},
         NEW r \in Taken(View(c), Step(c)) \cup Put(View(c), Step(c), tx[c].now),
         NEW s \in Touched(d)
  PROVE  ~Alike(r, s)
<1>1. /\ Running(c)
      /\ tx[c].todo # <<>>
      /\ Step(c).kind = "archive"
      /\ WaitsFor(c) = {}
  BY DEF Ready
<1>2. d \notin {e \in Calls \ {c} :
                  CASE Step(c).kind = "lock" -> Step(c).key \in tx[e].held
                    [] Step(c).kind = "insert" ->
                         Step(c).key \notin known /\ Step(c).key \in tx[e].held
                    [] Step(c).kind = "archive" ->
                         \E q \in Taken(View(c), Step(c))
                                    \cup Put(View(c), Step(c), tx[c].now) :
                           Holds(e, q)}
  BY <1>1 DEF WaitsFor
<1>3. ~ \E q \in Taken(View(c), Step(c)) \cup Put(View(c), Step(c), tx[c].now) :
          Holds(d, q)
  BY <1>1, <1>2
<1>4. QED
  BY <1>3 DEF Holds, Touched

(* What each step of a transaction changes: the rows it wrote, and no one  *)
(* else's.                                                                 *)
LEMMA BeginEffect ==
  ASSUME TypeOK, NEW c \in Calls, Begin(c)
  PROVE  Emptied(c)
BY DEF TypeOK, Tx, Begin, Emptied, OthersUnmoved, Unmoved, NoTx

LEMMA OverEffect ==
  ASSUME TypeOK, NEW c \in Calls, Over(c)
  PROVE  /\ OthersUnmoved(c)
         /\ tx'[c].gone = {} /\ tx'[c].made = {} /\ ~Running(c)'
BY DEF TypeOK, Over, OthersUnmoved, Unmoved, NoTx, Running

LEMMA ArchiveEffect ==
  ASSUME TypeOK, NEW c \in Calls, Archive(c)
  PROVE  Upserted(c)
<1> DEFINE u == Step(c)
           V == View(c)
           gone2 == tx[c].gone \cup (Taken(V, u) \cap rows)
           made2 == (tx[c].made \ Taken(V, u)) \cup Put(V, u, tx[c].now)
<1>1. /\ Ready(c, "archive")
      /\ Allowed(V, u, tx[c].now)
      /\ tx' = [tx EXCEPT ![c].todo = Tail(@), ![c].gone = gone2, ![c].made = made2]
      /\ rows' = rows /\ log' = log
  BY DEF Archive
<1>2. u \in Touch /\ u.kind = "archive" /\ Running(c)
  BY <1>1, StepIsTouch DEF Ready
<1>3. \A d \in Calls \ {c} :
        \A r \in Taken(V, u) \cup Put(V, u, tx[c].now), s \in Touched(d) : ~Alike(r, s)
  BY <1>1, ArchiveIsApart
<1> HIDE DEF u, V, gone2, made2
<1>4. /\ tx'[c].pc = tx[c].pc
      /\ tx'[c].now = tx[c].now
      /\ tx'[c].program = tx[c].program
      /\ tx'[c].gone = gone2
      /\ tx'[c].made = made2
      /\ OthersUnmoved(c)
  BY <1>1 DEF TypeOK, Tx, OthersUnmoved, Unmoved
<1>5. Running(c)'
  BY <1>2, <1>4 DEF Running
<1>6. QED
  BY <1>1, <1>2, <1>3, <1>4, <1>5 DEF Upserted, u, V, gone2, made2

LEMMA CommitEffect ==
  ASSUME TypeOK, NEW c \in Calls, Commit(c)
  PROVE  Committed(c)
BY OverEffect DEF Commit, Committed

LEMMA QuietEffect ==
  ASSUME TypeOK, Tick \/ UNCHANGED vars \/ \E c \in Calls : Lock(c) \/ Insert(c)
  PROVE  Quiet
<1>1. CASE Tick \/ UNCHANGED vars
  BY <1>1 DEF Tick, vars, Quiet, Unmoved
<1>2. ASSUME NEW c \in Calls, Lock(c) \/ Insert(c)
      PROVE  Quiet
  <2>1. PICK h : tx' = [tx EXCEPT ![c].todo = Tail(@), ![c].held = h]
    BY <1>2, Zenon DEF Lock, Insert
  <2>2. \A d \in Calls : Unmoved(d)
    BY <2>1 DEF TypeOK, Tx, Unmoved
  <2>3. QED
    BY <1>2, <2>2 DEF Lock, Insert, Quiet
<1>3. QED
  BY <1>1, <1>2

(* Every step does one of these.                                           *)
LEMMA StepEffect ==
  ASSUME TypeOK, [Next]_vars
  PROVE  Quiet \/ \E c \in Calls : Emptied(c) \/ Upserted(c) \/ Committed(c)
<1>1. ASSUME NEW c \in Calls, Fail(c) \/ Rollback(c)
      PROVE  Emptied(c)
  BY <1>1, OverEffect DEF Fail, Rollback, Emptied
<1>2. QED
  BY <1>1, BeginEffect, ArchiveEffect, CommitEffect, QuietEffect DEF Next, Advance
-----------------------------------------------------------------------------
LEMMA ViewIsRows ==
  ASSUME TypeOK, NEW c \in Calls
  PROVE  /\ View(c) \in SUBSET Row
         /\ rows \in SUBSET Row
         /\ tx[c].gone \in SUBSET Row
         /\ tx[c].made \in SUBSET Row
         /\ tx[c].now \in Instants
         /\ tx[c].todo \in Seq(Touch)
BY DEF TypeOK, Tx, View

LEMMA OverIsTx == [NoTx EXCEPT !.pc = "over"] \in Tx
<1>1. <<>> \in Seq(Touch) /\ 0 \in Instants
  BY ArchiveAssumption DEF Instants
<1>2. NoTx \in Tx
  BY <1>1 DEF Tx, NoTx
<1>3. QED
  BY <1>2 DEF Tx

LEMMA TypedInit == Init => Typed
BY ProgramsAssumption, ArchiveAssumption
DEF Init, Typed, TypeOK, Started, Tx, NoTx, Running, Instants

(* Every step keeps the types, the rows of a call in progress included.    *)
LEMMA TypedStep == Typed /\ [Next]_vars => Typed'
<1> SUFFICES ASSUME Typed, [Next]_vars
             PROVE  Typed'
  OBVIOUS
<1> USE DEF Typed
<1>1. ASSUME NEW c \in Calls, Begin(c)
      PROVE  Typed'
  <2>1. PICK program \in Programs :
          tx' = [tx EXCEPT ![c] = [NoTx EXCEPT !.pc = "run", !.now = now,
                                     !.program = program, !.todo = program]]
    BY <1>1 DEF Begin
  <2>2. program \in Seq(Touch)
    BY ProgramsAssumption
  <2>3. now' = now /\ rows' = rows /\ known' = known /\ log' = log /\ now \in Instants
    BY <1>1 DEF Begin, TypeOK
  <2>4. [NoTx EXCEPT !.pc = "run", !.now = now,
                     !.program = program, !.todo = program] \in Tx
    BY <2>2, <2>3 DEF Tx, NoTx
  <2>5. TypeOK'
    BY <2>1, <2>3, <2>4 DEF TypeOK
  <2>6. Started'
    BY <2>1, <2>3, ArchiveAssumption
    DEF Started, Running, TypeOK, Tx, NoTx, Instants
  <2>7. QED
    BY <2>5, <2>6
<1>2. ASSUME NEW c \in Calls, Lock(c) \/ Insert(c)
      PROVE  Typed'
  <2>1. PICK h \in SUBSET Ids : tx' = [tx EXCEPT ![c].todo = Tail(@), ![c].held = h]
    <3>1. tx[c].held \in SUBSET Ids /\ Step(c).key \in Ids
      BY <1>2, StepIsTouch DEF TypeOK, Tx, Lock, Insert, Ready, Touch
    <3>2. QED
      BY <1>2, <3>1 DEF Lock, Insert
  <2>2. tx[c].todo # <<>>
    BY <1>2 DEF Lock, Insert, Ready
  <2>3. Tail(tx[c].todo) \in Seq(Touch)
    BY <2>2, StepIsTouch
  <2>4. now' = now /\ rows' = rows /\ known' = known /\ log' = log
    BY <1>2 DEF Lock, Insert
  <2>5. TypeOK'
    BY <2>1, <2>3, <2>4 DEF TypeOK, Tx
  <2>6. Started'
    BY <2>1, <2>4 DEF Started, Running, TypeOK, Tx
  <2>7. QED
    BY <2>5, <2>6
<1>3. ASSUME NEW c \in Calls, Archive(c)
      PROVE  Typed'
  <2> DEFINE g == tx[c].gone \cup (Taken(View(c), Step(c)) \cap rows)
             m == (tx[c].made \ Taken(View(c), Step(c)))
                    \cup Put(View(c), Step(c), tx[c].now)
  <2>1. tx' = [tx EXCEPT ![c].todo = Tail(@), ![c].gone = g, ![c].made = m]
    BY <1>3 DEF Archive
  <2>2. tx[c].todo # <<>> /\ Running(c)
    BY <1>3 DEF Archive, Ready
  <2>3. Tail(tx[c].todo) \in Seq(Touch) /\ Step(c) \in Touch
    BY <2>2, StepIsTouch
  <2>4. g \in SUBSET Row
    BY ViewIsRows
  <2>5. m \in SUBSET Row
    BY <2>3, ViewIsRows, PutVersions
  <2>6. now' = now /\ rows' = rows /\ known' = known /\ log' = log
    BY <1>3 DEF Archive
  <2> HIDE DEF g, m
  <2>7. TypeOK'
    BY <2>1, <2>3, <2>4, <2>5, <2>6 DEF TypeOK, Tx
  <2>8. Started'
    BY <2>1, <2>2, <2>6 DEF Started, Running, TypeOK, Tx
  <2>9. QED
    BY <2>7, <2>8
<1>4. ASSUME NEW c \in Calls, Commit(c)
      PROVE  Typed'
  <2>1. /\ tx' = [tx EXCEPT ![c] = [NoTx EXCEPT !.pc = "over"]]
        /\ rows' = View(c)
        /\ known' = known \cup tx[c].held
        /\ log' = Append(log, [program |-> tx[c].program, at |-> tx[c].now])
        /\ now' = now
        /\ Running(c)
    BY <1>4 DEF Commit, Over
  <2>2. [NoTx EXCEPT !.pc = "over"] \in Tx
    BY OverIsTx
  <2>3. [program |-> tx[c].program, at |-> tx[c].now] \in [program : Programs, at : Instants]
    BY <2>1, ViewIsRows DEF Started
  <2>4. View(c) \subseteq Row /\ tx[c].held \subseteq Ids
    BY ViewIsRows DEF TypeOK, Tx
  <2>5. TypeOK'
    BY <2>1, <2>2, <2>3, <2>4 DEF TypeOK
  <2>6. Started'
    BY <2>1 DEF Started, Running, TypeOK, NoTx
  <2>7. QED
    BY <2>5, <2>6
<1>5. ASSUME NEW c \in Calls, Fail(c) \/ Rollback(c)
      PROVE  Typed'
  <2>1. /\ tx' = [tx EXCEPT ![c] = [NoTx EXCEPT !.pc = "over"]]
        /\ UNCHANGED <<now, rows, known, log>>
    BY <1>5 DEF Fail, Rollback, Over
  <2>2. [NoTx EXCEPT !.pc = "over"] \in Tx
    BY OverIsTx
  <2>3. TypeOK'
    BY <2>1, <2>2 DEF TypeOK
  <2>4. Started'
    BY <2>1 DEF Started, Running, TypeOK, NoTx
  <2>5. QED
    BY <2>3, <2>4
<1>6. CASE Tick
  BY <1>6, ArchiveAssumption
  DEF Tick, TypeOK, Started, Running, Tx, Instants
<1>7. CASE UNCHANGED vars
  BY <1>7 DEF vars, TypeOK, Started, Running
<1>8. QED
  BY <1>1, <1>2, <1>3, <1>4, <1>5, <1>6, <1>7 DEF Next, Advance

(* Every reachable state has the types of the specification.               *)
THEOREM Typing == Spec => []Typed
<1>1. QED
  BY TypedInit, TypedStep, PTL DEF Spec

-----------------------------------------------------------------------------
LEMMA LockedInit == Init => Locked
BY DEF Init, Locked, Apart, Touched, NoTx

(* A statement waits for the rows another transaction wrote: no two        *)
(* transactions ever hold writes that contend.                             *)
LEMMA LockedStep == Typed /\ Locked /\ [Next]_vars => Locked'
<1> SUFFICES ASSUME Typed, Locked, [Next]_vars
             PROVE  Locked'
  OBVIOUS
<1> USE DEF Typed
<1>1. \A r, s : Alike(r, s) => Alike(s, r)
  BY DEF Alike
<1>2. \A r : Alike(r, r)
  BY DEF Alike
<1>3. CASE Quiet
  BY <1>3 DEF Quiet, Unmoved, Locked, Apart, Touched
<1>4. ASSUME NEW c \in Calls, Emptied(c)
      PROVE  Locked'
  <2>1. /\ \A d \in Calls \ {c} : Touched(d)' = Touched(d) /\ tx'[d].gone = tx[d].gone
        /\ Touched(c)' = {} /\ tx'[c].gone = {}
    BY <1>4 DEF Emptied, OthersUnmoved, Unmoved, Touched
  <2>2. Apart'
    BY <2>1 DEF Locked, Apart
  <2>3. QED
    BY <1>4, <2>1, <2>2 DEF Emptied, Locked
<1>5. ASSUME NEW c \in Calls, Upserted(c)
      PROVE  Locked'
  <2> DEFINE T == Taken(View(c), Step(c))
             P == Put(View(c), Step(c), tx[c].now)
  <2>1. /\ rows' = rows
        /\ \A d \in Calls \ {c} : Touched(d)' = Touched(d) /\ tx'[d].gone = tx[d].gone
        /\ tx'[c].gone = tx[c].gone \cup (T \cap rows)
        /\ Touched(c)' \subseteq Touched(c) \cup T \cup P
        /\ \A d \in Calls \ {c} : \A r \in T \cup P, s \in Touched(d) : ~Alike(r, s)
    BY <1>5 DEF Upserted, OthersUnmoved, Unmoved, Touched
  <2> HIDE DEF T, P
  <2>2. \A d \in Calls \ {c} : \A r \in Touched(c)', s \in Touched(d)' :
          ~Alike(r, s) /\ ~Alike(s, r)
    BY <1>1, <2>1 DEF Locked, Apart
  <2>3. Apart'
    BY <2>1, <2>2 DEF Locked, Apart
  <2>4. QED
    BY <2>1, <2>3 DEF Locked
<1>6. ASSUME NEW c \in Calls, Committed(c)
      PROVE  Locked'
  <2>1. /\ \A d \in Calls \ {c} : Touched(d)' = Touched(d) /\ tx'[d].gone = tx[d].gone
        /\ Touched(c)' = {} /\ tx'[c].gone = {}
        /\ rows' = (rows \ tx[c].gone) \cup tx[c].made
    BY <1>6 DEF Committed, OthersUnmoved, Unmoved, Touched, View
  <2>2. Apart'
    BY <2>1 DEF Locked, Apart
  <2>3. \A d \in Calls \ {c} : tx[d].gone \cap tx[c].gone = {}
    BY <1>2 DEF Locked, Apart, Touched
  <2>4. QED
    BY <2>1, <2>2, <2>3 DEF Locked
<1>7. QED
  BY <1>3, <1>4, <1>5, <1>6, StepEffect

(* Two transactions never write rows that contend, and what a transaction  *)
(* takes away is still in the tables when it commits.                      *)
THEOREM Locking == Spec => []Locked
<1>1. QED
  BY LockedInit, LockedStep, Typing, PTL DEF Spec

-----------------------------------------------------------------------------
(* What one transaction sees after another one has committed.              *)
LEMMA ViewAfterCommit ==
  ASSUME Locked, NEW c \in Calls, Committed(c), NEW d \in Calls \ {c}
  PROVE  View(d)' = (View(d) \ tx[c].gone) \cup tx[c].made
<1>1. /\ tx[c].made \cap tx[d].gone = {}
      /\ tx[d].made \cap tx[c].gone = {}
  BY DEF Locked, Apart, Touched, Alike
<1>2. /\ rows' = (rows \ tx[c].gone) \cup tx[c].made
      /\ tx'[d].gone = tx[d].gone
      /\ tx'[d].made = tx[d].made
  BY DEF Committed, View, OthersUnmoved, Unmoved
<1>3. QED
  BY <1>1, <1>2 DEF View

(* What it sees after its own upsert is what the upsert leaves.            *)
LEMMA ViewAfterUpsert ==
  ASSUME Typed, Locked, NEW c \in Calls, Upserted(c)
  PROVE  View(c)' = (View(c) \ Taken(View(c), Step(c)))
                      \cup Put(View(c), Step(c), tx[c].now)
BY TakenOpen, ViewIsRows DEF Upserted, View, Typed

LEMMA OneValueInit == Init => OneValueAtATime
BY DEF Init, OneValueAtATime, Exclusive, View, NoTx

(* A commit brings to the tables what a constraint checked of them.        *)
LEMMA OneValueStep ==
  Typed /\ Locked /\ OneValueAtATime /\ [Next]_vars => OneValueAtATime'
<1> SUFFICES ASSUME Typed, Locked, OneValueAtATime, [Next]_vars
             PROVE  OneValueAtATime'
  OBVIOUS
<1> USE DEF Typed
<1>1. CASE Quiet
  <2>1. rows' = rows /\ \A d \in Calls : View(d)' = View(d)
    BY <1>1 DEF Quiet, Unmoved, View
  <2>2. QED
    BY <2>1 DEF OneValueAtATime
<1>2. ASSUME NEW c \in Calls, Emptied(c)
      PROVE  OneValueAtATime'
  <2>1. rows' = rows /\ View(c)' = rows /\ \A d \in Calls \ {c} : View(d)' = View(d)
    BY <1>2 DEF Emptied, OthersUnmoved, Unmoved, View
  <2>2. QED
    BY <2>1 DEF OneValueAtATime
<1>3. ASSUME NEW c \in Calls, Upserted(c)
      PROVE  OneValueAtATime'
  <2>1. rows' = rows /\ \A d \in Calls \ {c} : View(d)' = View(d)
    BY <1>3 DEF Upserted, OthersUnmoved, Unmoved, View
  <2>2. Exclusive(View(c)')
    BY <1>3, ViewAfterUpsert, ViewIsRows, UpsertExclusive DEF Upserted, OneValueAtATime
  <2>3. QED
    BY <2>1, <2>2 DEF OneValueAtATime
<1>4. ASSUME NEW c \in Calls, Committed(c)
      PROVE  OneValueAtATime'
  <2>1. rows' = View(c) /\ View(c)' = View(c)
    BY <1>4 DEF Committed, View
  <2>2. Exclusive(View(c))
    BY DEF OneValueAtATime
  <2>3. ASSUME NEW d \in Calls \ {c}
        PROVE  Exclusive(View(d)')
    <3>1. View(d)' = (View(d) \ tx[c].gone) \cup tx[c].made
      BY <1>4, ViewAfterCommit
    <3>2. Exclusive(View(d))
      BY DEF OneValueAtATime
    <3>3. \A r \in View(d) \ tx[c].gone, s \in tx[c].made :
            \/ r \in View(c) /\ s \in View(c)
            \/ ~Alike(r, s) /\ ~Alike(s, r)
      BY DEF View, Locked, Apart, Touched
    <3>4. tx[c].made \subseteq View(c)
      BY DEF View
    <3>5. QED
      BY <2>2, <3>1, <3>2, <3>3, <3>4 DEF Exclusive
  <2>4. QED
    BY <2>1, <2>2, <2>3 DEF OneValueAtATime
<1>5. QED
  BY <1>1, <1>2, <1>3, <1>4, StepEffect

(* At no instant do the tables give two values for one identifier, neither *)
(* as committed nor as a running transaction sees them.                    *)
THEOREM OneValue == Spec => []OneValueAtATime
<1>1. QED
  BY OneValueInit, OneValueStep, Typing, Locking, PTL DEF Spec
-----------------------------------------------------------------------------
(* The versions an upsert writes of a row tell the same of the time before; *)
(* a row it adds tells nothing of it.                                      *)
LEMMA PutTells ==
  ASSUME NEW W \in SUBSET Row, NEW u \in Touch, NEW t \in Instants
  PROVE  /\ \A r \in Taken(W, u) : \E p \in Put(W, u, t) :
              SameTold(r, p) /\ p.mid = r.mid
         /\ \A p \in Put(W, u, t) : p.lower < t =>
              \E r \in Taken(W, u) : SameTold(r, p)
<1>1. \A r \in Taken(W, u) : /\ SameTold(r, Refreshed(r, t)) /\ SameTold(r, Closed(r, t))
                             /\ Refreshed(r, t).mid = r.mid /\ Closed(r, t).mid = r.mid
  BY TakenOpen, RowVersions DEF SameTold
<1>2. ~ (NewRow(u, t).lower < t)
  BY DEF NewRow, Instants
<1>3. QED
  BY <1>1, <1>2, PutVersions

LEMMA RetoldInit == Init => Retold
BY DEF Init, Retold, Running, NoTx

(* A row another transaction sees is still there for it, refreshed or      *)
(* closed.                                                                 *)
LEMMA RetoldStep == Typed /\ Retold /\ [Next]_vars => Retold'
<1> SUFFICES ASSUME Typed, Retold, [Next]_vars
             PROVE  Retold'
  OBVIOUS
<1> USE DEF Typed
<1>1. CASE Quiet
  BY <1>1 DEF Quiet, Unmoved, Retold, Running
<1>2. ASSUME NEW c \in Calls, Emptied(c)
      PROVE  Retold'
  BY <1>2 DEF Emptied, OthersUnmoved, Unmoved, Retold, Running
<1>3. ASSUME NEW c \in Calls, Committed(c)
      PROVE  Retold'
  BY <1>3 DEF Committed, OthersUnmoved, Unmoved, Retold, Running
<1>4. ASSUME NEW c \in Calls, Upserted(c)
      PROVE  Retold'
  <2> DEFINE T == Taken(View(c), Step(c))
             P == Put(View(c), Step(c), tx[c].now)
             G == tx[c].gone
             M == tx[c].made
             n == tx[c].now
  <2>1. /\ \A r \in T : \E p \in P : SameTold(r, p)
        /\ \A p \in P : p.lower < n => \E r \in T : SameTold(r, p)
    BY <1>4, ViewIsRows, PutTells DEF Upserted
  <2>2. T \subseteq (rows \ G) \cup M
    BY ViewIsRows, TakenOpen DEF View
  <2>3. /\ \A r \in G : r.lower < n => \E s \in M : SameTold(r, s)
        /\ \A s \in M : s.lower < n => \E r \in G : SameTold(r, s)
    BY <1>4 DEF Upserted, Retold
  <2>4. /\ tx'[c].gone = G \cup (T \cap rows)
        /\ tx'[c].made = (M \ T) \cup P
        /\ tx'[c].now = n
        /\ \A d \in Calls \ {c} : Unmoved(d)
    BY <1>4 DEF Upserted, OthersUnmoved
  <2> HIDE DEF T, P, G, M, n
  <2>5. \A r, s, q : /\ SameTold(r, s) /\ SameTold(s, q) => SameTold(r, q)
                     /\ SameTold(r, s) => r.lower = s.lower
    BY DEF SameTold
  <2>6. \A r \in tx'[c].gone : r.lower < n => \E s \in tx'[c].made : SameTold(r, s)
    <3>1. \A s \in M : \E q \in tx'[c].made : SameTold(s, q)
      <4>1. \A s : SameTold(s, s)
        BY DEF SameTold
      <4>2. QED
        BY <2>1, <2>4, <4>1
    <3>2. QED
      BY <2>1, <2>3, <2>4, <2>5, <3>1
  <2>7. \A s \in tx'[c].made : s.lower < n => \E r \in tx'[c].gone : SameTold(r, s)
    <3>1. \A s \in M : s.lower < n => \E r \in tx'[c].gone : SameTold(r, s)
      BY <2>3, <2>4
    <3>2. \A r \in T : r.lower < n => \E q \in tx'[c].gone : SameTold(q, r)
      <4>1. \A s : SameTold(s, s)
        BY DEF SameTold
      <4>2. QED
        BY <2>2, <2>4, <3>1, <4>1
    <3>3. \A p \in P : p.lower < n => \E r \in T : SameTold(r, p) /\ r.lower < n
      BY <2>1, <2>5
    <3>4. \A p \in P : p.lower < n => \E q \in tx'[c].gone : SameTold(q, p)
      BY <3>2, <3>3, <2>5
    <3>5. QED
      BY <2>4, <3>1, <3>4
  <2>8. QED
    BY <2>4, <2>6, <2>7 DEF Retold, Running, Unmoved
<1>5. QED
  BY <1>1, <1>2, <1>3, <1>4, StepEffect

(* What a call saw when it began is told by the tables when it ends.       *)
LEMMA HistoryStep ==
  Typed /\ Locked /\ Retold /\ [Next]_vars =>
    \A t \in Instants :
      (\A c \in Calls : Running(c) /\ ~Running(c)' => t <= tx[c].now)
        => Told(rows', t) = Told(rows, t)
<1> SUFFICES ASSUME Typed, Locked, Retold, [Next]_vars,
                    NEW t \in Instants,
                    \A c \in Calls : Running(c) /\ ~Running(c)' => t <= tx[c].now
             PROVE  Told(rows', t) = Told(rows, t)
  OBVIOUS
<1>1. CASE rows' = rows
  BY <1>1
<1>2. ASSUME NEW c \in Calls, Committed(c)
      PROVE  Told(rows', t) = Told(rows, t)
  <2> DEFINE G == tx[c].gone
             M == tx[c].made
             n == tx[c].now
             tells(r) == [key |-> r.key, data |-> r.data, lower |-> r.lower]
  <2>1. rows' = (rows \ G) \cup M /\ G \subseteq rows
    BY <1>2 DEF Committed, View, Locked
  <2>2. t <= n /\ n \in Instants /\ rows \subseteq Row /\ M \subseteq Row
    BY <1>2, ViewIsRows DEF Committed, Typed
  <2>3. /\ \A r \in G : r.lower < n => \E s \in M : SameTold(r, s)
        /\ \A s \in M : s.lower < n => \E r \in G : SameTold(r, s)
    BY <1>2 DEF Committed, Retold
  <2>4. \A r \in rows \cup M : r.lower < t => r.lower < n
    BY <2>2 DEF Row, Instants
  <2>5. \A r, s : SameTold(r, s) => tells(r) = tells(s) /\ r.lower = s.lower
    BY DEF SameTold
  <2> HIDE DEF G, M, n, tells
  <2>6. \A r \in rows : r.lower < t =>
          \E s \in (rows \ G) \cup M : s.lower < t /\ tells(s) = tells(r)
    BY <2>1, <2>3, <2>4, <2>5
  <2>7. \A s \in (rows \ G) \cup M : s.lower < t =>
          \E r \in rows : r.lower < t /\ tells(s) = tells(r)
    BY <2>1, <2>3, <2>4, <2>5
  <2>8. \A S : Told(S, t) = {tells(r) : r \in {s \in S : s.lower < t}}
    BY DEF Told, tells
  <2>9. Told((rows \ G) \cup M, t) = Told(rows, t)
    <3> DEFINE R == (rows \ G) \cup M
    <3>1. Told(R, t) = {tells(r) : r \in {s \in R : s.lower < t}}
      BY <2>8
    <3>2. Told(rows, t) = {tells(r) : r \in {s \in rows : s.lower < t}}
      BY <2>8
    <3> HIDE DEF R
    <3>3. Told(R, t) \subseteq Told(rows, t)
      BY <2>7, <3>1, <3>2 DEF R
    <3>4. Told(rows, t) \subseteq Told(R, t)
      BY <2>6, <3>1, <3>2 DEF R
    <3>5. QED
      BY <3>3, <3>4 DEF R
  <2>10. QED
    BY <2>1, <2>9
<1>3. QED
  BY <1>1, <1>2, StepEffect DEF Quiet, Emptied, Upserted, Typed

(* A transaction changes no answer about an instant before the time it     *)
(* read, however long it has been running.                                 *)
THEOREM KeepingHistory == Spec => HistoryKept
<1>1. Spec => []Retold
  BY RetoldInit, RetoldStep, Typing, PTL DEF Spec
<1>2. QED
  BY <1>1, HistoryStep, Typing, Locking, PTL DEF Spec, HistoryKept

-----------------------------------------------------------------------------
(* The times of the log, and whether they are in order, after one more     *)
(* commit.                                                                 *)
LEMMA LogAppend ==
  ASSUME log \in Seq([program : Programs, at : Instants]), NEW p, NEW t \in Instants,
         log' = Append(log, [program |-> p, at |-> t])
  PROVE  /\ Times' = Times \cup {t}
         /\ Times \subseteq Instants
         /\ InOrder' => InOrder /\ \A s \in Times : s <= t
<1>1. /\ Len(log) \in Nat
      /\ DOMAIN log = 1 .. Len(log)
      /\ DOMAIN log' = 1 .. Len(log) + 1
      /\ \A i \in 1 .. Len(log) : log'[i] = log[i]
      /\ log'[Len(log) + 1].at = t
      /\ \A i \in 1 .. Len(log) : log[i].at \in Instants
  <2> DEFINE e == [program |-> p, at |-> t]
  <2>1. e.at = t
    OBVIOUS
  <2>2. log' = Append(log, e)
    OBVIOUS
  <2>3. \A i \in 1 .. Len(log) : log[i].at \in Instants
    <3> DEFINE E == [program : Programs, at : Instants]
    <3>1. log \in Seq(E)
      OBVIOUS
    <3>2. \A x \in E : x.at \in Instants
      OBVIOUS
    <3> HIDE DEF E
    <3>3. \A i \in 1 .. Len(log) : log[i] \in E
      BY <3>1
    <3>4. QED
      BY <3>2, <3>3, Zenon
  <2> HIDE DEF e
  <2>4. QED
    BY <2>1, <2>2, <2>3
<1>2. \A i \in 1 .. Len(log) + 1 : i \in 1 .. Len(log) \/ i = Len(log) + 1
  BY <1>1
<1>3. Times' = Times \cup {t} /\ Times \subseteq Instants
  BY <1>1, <1>2 DEF Times
<1>4. ASSUME InOrder'
      PROVE  InOrder /\ \A s \in Times : s <= t
  <2>1. \A i, j \in 1 .. Len(log) + 1 : i < j => log'[i].at <= log'[j].at
    BY <1>1, <1>4 DEF InOrder
  <2>2. \A i, j \in 1 .. Len(log) : i < j => log[i].at <= log[j].at
    BY <1>1, <2>1
  <2>3. \A i \in 1 .. Len(log) : log[i].at <= t
    BY <1>1, <2>1
  <2>4. QED
    BY <1>1, <2>2, <2>3 DEF InOrder, Times
<1>5. QED
  BY <1>3, <1>4

LEMMA DatedInit == Init => Dated /\ Fitting
BY DEF Init, Dated, Fitting, NoTx

(* A row begins and is retrieved at instants of pages that were committed. *)
LEMMA DatedStep == Typed /\ Dated /\ [Next]_vars => Dated'
<1> SUFFICES ASSUME Typed, Dated, [Next]_vars
             PROVE  Dated'
  OBVIOUS
<1> USE DEF Typed
<1>1. CASE Quiet
  <2>1. Times' = Times
    BY <1>1 DEF Quiet, Times
  <2>2. QED
    BY <1>1, <2>1 DEF Quiet, Unmoved, Dated
<1>2. ASSUME NEW c \in Calls, Emptied(c)
      PROVE  Dated'
  <2>1. Times' = Times
    BY <1>2 DEF Emptied, Times
  <2>2. QED
    BY <1>2, <2>1 DEF Emptied, OthersUnmoved, Unmoved, Dated
<1>3. ASSUME NEW c \in Calls, Upserted(c)
      PROVE  Dated'
  <2> DEFINE T == Taken(View(c), Step(c))
             P == Put(View(c), Step(c), tx[c].now)
             n == tx[c].now
  <2>1. Times' = Times
    BY <1>3 DEF Upserted, Times
  <2>2. n \in Instants /\ Step(c) \in Touch
    BY <1>3, ViewIsRows DEF Upserted
  <2>3. \A r \in T : Dates(r) \subseteq Times \cup {n}
    BY ViewIsRows, TakenOpen DEF Dated, View
  <2>4. \A r \in T : /\ Dates(Refreshed(r, n)) \subseteq Times \cup {n}
                     /\ Dates(Closed(r, n)) \subseteq Times \cup {n}
    BY <2>2, <2>3, ViewIsRows, TakenOpen, RowVersions DEF Dates
  <2>5. Dates(NewRow(Step(c), n)) \subseteq Times \cup {n}
    BY DEF Dates, NewRow
  <2>6. \A p \in P : Dates(p) \subseteq Times \cup {n}
    <3>1. \A p \in P : \/ p = NewRow(Step(c), n)
                       \/ \E r \in T : p = Refreshed(r, n) \/ p = Closed(r, n)
      BY <2>2, ViewIsRows, PutVersions
    <3> HIDE DEF T, P, n
    <3>2. QED
      BY <2>4, <2>5, <3>1
  <2>7. tx'[c].made = (tx[c].made \ T) \cup P /\ tx'[c].now = n
        /\ rows' = rows /\ \A d \in Calls \ {c} : Unmoved(d)
    BY <1>3 DEF Upserted, OthersUnmoved
  <2> HIDE DEF T, P, n
  <2>8. \A r \in tx'[c].made : Dates(r) \subseteq Times \cup {n}
    BY <2>6, <2>7 DEF Dated, n
  <2>9. QED
    BY <2>1, <2>7, <2>8 DEF Dated, Unmoved
<1>4. ASSUME NEW c \in Calls, Committed(c)
      PROVE  Dated'
  <2>1. Times' = Times \cup {tx[c].now}
    BY <1>4, LogAppend, ViewIsRows DEF Committed, TypeOK
  <2>2. \A r \in View(c) : Dates(r) \subseteq Times \cup {tx[c].now}
    BY DEF Dated, View
  <2>3. QED
    BY <1>4, <2>1, <2>2 DEF Committed, OthersUnmoved, Unmoved, Dated
<1>5. QED
  BY <1>1, <1>2, <1>3, <1>4, StepEffect

(* A version of a fitting row fits when the clock of its writer is past    *)
(* the row's dates.                                                        *)
LEMMA VersionsFit ==
  ASSUME NEW r \in Row, NEW t \in Instants, r.upper = Forever, Fits(r),
         \A s \in Dates(r) : s <= t
  PROVE  Fits(Refreshed(r, t)) /\ Fits(Closed(r, t))
<1>1. /\ r.lower \in Instants /\ r.retrieved \subseteq Instants
      /\ r.lower <= t /\ \A s \in r.retrieved : s <= t
      /\ t <= Forever
  BY ArchiveAssumption DEF Row, Dates, Instants, Forever
<1>2. /\ \A s \in r.retrieved : r.lower <= s
      /\ \A s \in r.retrieved \cup {t} : s <= Forever /\ s <= t /\ r.lower <= s
  BY <1>1, ArchiveAssumption DEF Fits, Instants, Forever
<1>3. Fits(Refreshed(r, t))
  BY <1>2, RowVersions DEF Fits
<1>4. Fits(Closed(r, t))
  BY <1>2, RowVersions DEF Fits
<1>5. QED
  BY <1>3, <1>4

(* An instant added to a row is one of the period of that row.             *)
LEMMA FittingStep == Typed /\ Dated /\ Fitting /\ [Next]_vars => Fitting'
<1> SUFFICES ASSUME Typed, Dated, Fitting, [Next]_vars
             PROVE  Fitting'
  OBVIOUS
<1> USE DEF Typed
<1>1. CASE Quiet
  <2>1. Times' = Times /\ InOrder' = InOrder
    BY <1>1 DEF Quiet, Times, InOrder
  <2>2. QED
    BY <1>1, <2>1 DEF Quiet, Unmoved, Fitting, Running
<1>2. ASSUME NEW c \in Calls, Emptied(c)
      PROVE  Fitting'
  <2>1. Times' = Times /\ InOrder' = InOrder
    BY <1>2 DEF Emptied, Times, InOrder
  <2>2. QED
    BY <1>2, <2>1 DEF Emptied, OthersUnmoved, Unmoved, Fitting, Running
<1>3. ASSUME NEW c \in Calls, Upserted(c)
      PROVE  Fitting'
  <2> DEFINE T == Taken(View(c), Step(c))
             P == Put(View(c), Step(c), tx[c].now)
             n == tx[c].now
  <2>1. /\ Times' = Times /\ InOrder' = InOrder
        /\ tx'[c].made = (tx[c].made \ T) \cup P /\ tx'[c].now = n
        /\ rows' = rows /\ \A d \in Calls \ {c} : Unmoved(d)
    BY <1>3 DEF Upserted, OthersUnmoved, Times, InOrder
  <2>2. n \in Instants /\ Step(c) \in Touch /\ Running(c)
    BY <1>3, ViewIsRows DEF Upserted
  <2>3. ASSUME InOrder, \A t \in Times : t <= n
        PROVE  \A p \in P : Fits(p)
    <3>1. \A r \in T : Fits(r) /\ r.upper = Forever /\ r \in Row
      BY <2>2, <2>3, ViewIsRows, TakenOpen DEF Fitting, View
    <3>2. \A r \in T : \A s \in Dates(r) : s <= n
      <4>1. \A r \in T : Dates(r) \subseteq Times \cup {n}
        BY ViewIsRows, TakenOpen DEF Dated, View
      <4>2. QED
        BY <2>2, <2>3, <4>1 DEF Instants
    <3>3. Fits(NewRow(Step(c), n))
      BY <2>2, ArchiveAssumption DEF Fits, NewRow, Instants, Forever
    <3>4. \A r \in T : Fits(Refreshed(r, n)) /\ Fits(Closed(r, n))
      BY <2>2, <3>1, <3>2, VersionsFit
    <3>5. QED
      BY <2>2, <3>3, <3>4, ViewIsRows, PutVersions
  <2> HIDE DEF T, P
  <2>4. ASSUME InOrder, \A t \in Times : t <= n
        PROVE  \A r \in tx'[c].made : Fits(r)
    BY <2>1, <2>2, <2>3, <2>4 DEF Fitting
  <2> HIDE DEF n
  <2>5. QED
    BY <2>1, <2>4 DEF Fitting, Unmoved, Running
<1>4. ASSUME NEW c \in Calls, Committed(c)
      PROVE  Fitting'
  <2>1. /\ Times' = Times \cup {tx[c].now}
        /\ InOrder' => InOrder /\ \A s \in Times : s <= tx[c].now
    BY <1>4, LogAppend, ViewIsRows DEF Committed, TypeOK
  <2>2. ASSUME InOrder'
        PROVE  \A r \in rows' : Fits(r)
    BY <1>4, <2>1, <2>2 DEF Committed, View, Fitting
  <2>3. QED
    BY <1>4, <2>1, <2>2 DEF Committed, OthersUnmoved, Unmoved, Fitting, Running
<1>5. QED
  BY <1>1, <1>2, <1>3, <1>4, StepEffect

(* While no transaction is overtaken by a later one, every instant a page  *)
(* was retrieved at lies in the period of its row.                         *)
THEOREM RetrievalsFit == Spec => []RetrievedInPeriod
<1>1. Spec => []Dated
  BY DatedInit, DatedStep, Typing, PTL DEF Spec
<1>2. Spec => []Fitting
  BY DatedInit, FittingStep, Typing, <1>1, PTL DEF Spec
<1>3. Typed /\ Fitting => RetrievedInPeriod
  BY DEF Fitting, Fits, RetrievedInPeriod
<1>4. QED
  BY <1>2, <1>3, Typing, PTL
-----------------------------------------------------------------------------
(* A walk: the states of the tables that the first n touches of a program  *)
(* leave one after the other, from S to V.  Every row a touch takes or     *)
(* writes has the identifiers of a row of F.                               *)
SameIds(r, s) == r.key = s.key /\ r.mid = s.mid

Footprint(W, u, t, F) ==
  u.kind = "archive" =>
    \A r \in Taken(W, u) \cup Put(W, u, t) : \E s \in F : SameIds(r, s)

Walk(path, S, V, F, program, t, n) ==
  /\ path[0] = S
  /\ path[n] = V
  /\ \A i \in 0 .. n : path[i] \in SUBSET Row
  /\ \A i \in 1 .. n : /\ path[i] \in After(path[i - 1], program[i], t)
                       /\ Footprint(path[i - 1], program[i], t, F)

LEMMA AfterIsRows ==
  ASSUME NEW W \in SUBSET Row, NEW u \in Touch, NEW t \in Instants, NEW W2 \in After(W, u, t)
  PROVE  W2 \in SUBSET Row
BY PutVersions DEF After

LEMMA FootprintGrows ==
  ASSUME NEW W, NEW u, NEW t, NEW F, NEW F2, Footprint(W, u, t, F),
         \A r \in F : \E s \in F2 : SameIds(r, s)
  PROVE  Footprint(W, u, t, F2)
<1>1. \A p, q, r : SameIds(p, q) /\ SameIds(q, r) => SameIds(p, r)
  BY DEF SameIds
<1>2. QED
  BY <1>1 DEF Footprint

(* A touch makes the same change before another transaction's commit and   *)
(* after it.                                                               *)
LEMMA TouchRebases ==
  ASSUME NEW W \in SUBSET Row, NEW u \in Touch, NEW t \in Instants, NEW F,
         NEW W2 \in After(W, u, t), Footprint(W, u, t, F),
         NEW G, NEW M, \A s \in F : \A x \in G \cup M : ~Alike(s, x)
  PROVE  /\ (W2 \ G) \cup M \in After((W \ G) \cup M, u, t)
         /\ Footprint((W \ G) \cup M, u, t, F)
<1>1. CASE u.kind # "archive"
  BY <1>1 DEF After, Footprint
<1>2. CASE u.kind = "archive"
  <2> DEFINE X == (W \ G) \cup M
  <2>1. Allowed(W, u, t) /\ W2 = (W \ Taken(W, u)) \cup Put(W, u, t)
    BY <1>2 DEF After
  <2>2. \A r \in Taken(W, u) \cup Put(W, u, t) : \A x \in G \cup M : ~Alike(r, x)
    BY <1>2 DEF Footprint, SameIds, Alike
  <2>3. /\ Taken(X, u) = Taken(W, u)
        /\ Put(X, u, t) = Put(W, u, t)
        /\ Allowed(X, u, t)
        /\ (X \ Taken(X, u)) \cup Put(X, u, t) = (W2 \ G) \cup M
    BY <2>1, <2>2, Elsewhere
  <2> HIDE DEF X
  <2>4. (W2 \ G) \cup M \in After(X, u, t)
    BY <1>2, <2>3 DEF After
  <2>5. Footprint(X, u, t, F)
    BY <2>3 DEF Footprint
  <2>6. QED
    BY <2>4, <2>5 DEF X
<1>3. QED
  BY <1>1, <1>2

(* Another commit moves a whole walk: its rows are not those of the walk.  *)
LEMMA WalkRebases ==
  ASSUME NEW path, NEW S, NEW V, NEW F, NEW program \in Seq(Touch), NEW t \in Instants,
         NEW n \in Nat, n <= Len(program), Walk(path, S, V, F, program, t, n),
         NEW G \in SUBSET Row, NEW M \in SUBSET Row,
         \A s \in F : \A x \in G \cup M : ~Alike(s, x)
  PROVE  \E p : Walk(p, (S \ G) \cup M, (V \ G) \cup M, F, program, t, n)
<1> DEFINE p == [i \in 0 .. n |-> (path[i] \ G) \cup M]
<1>1. \A i \in 0 .. n : p[i] = (path[i] \ G) \cup M
  OBVIOUS
<1> HIDE DEF p
<1>2. /\ path[0] = S /\ path[n] = V
      /\ \A i \in 0 .. n : path[i] \in SUBSET Row
      /\ \A i \in 1 .. n : /\ path[i] \in After(path[i - 1], program[i], t)
                           /\ Footprint(path[i - 1], program[i], t, F)
  BY DEF Walk
<1>3. 0 \in 0 .. n /\ n \in 0 .. n
  OBVIOUS
<1>4. p[0] = (S \ G) \cup M /\ p[n] = (V \ G) \cup M
  BY <1>1, <1>2, <1>3
<1>5. \A i \in 0 .. n : p[i] \in SUBSET Row
  BY <1>1, <1>2
<1>6. ASSUME NEW i \in 1 .. n
      PROVE  /\ p[i] \in After(p[i - 1], program[i], t)
             /\ Footprint(p[i - 1], program[i], t, F)
  <2>1. i \in 0 .. n /\ i - 1 \in 0 .. n /\ program[i] \in Touch
    OBVIOUS
  <2>2. p[i] = (path[i] \ G) \cup M /\ p[i - 1] = (path[i - 1] \ G) \cup M
    BY <1>1, <2>1
  <2>3. /\ path[i] \in After(path[i - 1], program[i], t)
        /\ Footprint(path[i - 1], program[i], t, F)
        /\ path[i - 1] \in SUBSET Row
    BY <1>2, <2>1
  <2>4. /\ (path[i] \ G) \cup M \in After((path[i - 1] \ G) \cup M, program[i], t)
        /\ Footprint((path[i - 1] \ G) \cup M, program[i], t, F)
    BY <2>1, <2>3, TouchRebases
  <2>5. QED
    BY <2>2, <2>4
<1>7. Walk(p, (S \ G) \cup M, (V \ G) \cup M, F, program, t, n)
  BY <1>4, <1>5, <1>6 DEF Walk
<1>8. QED
  BY <1>7

(* One more statement is one more step of the walk.                        *)
LEMMA WalkExtends ==
  ASSUME NEW path, NEW S, NEW V, NEW F, NEW program \in Seq(Touch), NEW t \in Instants,
         NEW n \in Nat, n + 1 <= Len(program), Walk(path, S, V, F, program, t, n),
         NEW V2 \in After(V, program[n + 1], t), NEW F2,
         \A r \in F : \E s \in F2 : SameIds(r, s),
         Footprint(V, program[n + 1], t, F2)
  PROVE  \E p : Walk(p, S, V2, F2, program, t, n + 1)
<1> DEFINE p == [i \in 0 .. n + 1 |-> IF i = n + 1 THEN V2 ELSE path[i]]
<1>1. p[n + 1] = V2 /\ \A i \in 0 .. n : p[i] = path[i]
  OBVIOUS
<1> HIDE DEF p
<1>2. /\ path[0] = S /\ path[n] = V
      /\ \A i \in 0 .. n : path[i] \in SUBSET Row
      /\ \A i \in 1 .. n : /\ path[i] \in After(path[i - 1], program[i], t)
                           /\ Footprint(path[i - 1], program[i], t, F)
  BY DEF Walk
<1>3. 0 \in 0 .. n /\ n \in 0 .. n /\ (n + 1) - 1 = n
      /\ \A i \in 1 .. n : i \in 0 .. n /\ i - 1 \in 0 .. n
  OBVIOUS
<1>4. p[0] = S
  BY <1>1, <1>2, <1>3
<1>5. \A i \in 0 .. n + 1 : p[i] \in SUBSET Row
  <2>1. V \in SUBSET Row /\ program[n + 1] \in Touch
    BY <1>2, <1>3
  <2>2. V2 \in SUBSET Row
    BY <2>1, AfterIsRows
  <2>3. \A i \in 0 .. n + 1 : i \in 0 .. n \/ i = n + 1
    OBVIOUS
  <2>4. QED
    BY <1>1, <1>2, <2>2, <2>3
<1>6. ASSUME NEW i \in 1 .. n
      PROVE  /\ p[i] \in After(p[i - 1], program[i], t)
             /\ Footprint(p[i - 1], program[i], t, F2)
  <2>1. p[i] = path[i] /\ p[i - 1] = path[i - 1]
    BY <1>1, <1>3
  <2>2. /\ path[i] \in After(path[i - 1], program[i], t)
        /\ Footprint(path[i - 1], program[i], t, F)
    BY <1>2
  <2>3. Footprint(path[i - 1], program[i], t, F2)
    BY <2>2, FootprintGrows
  <2>4. QED
    BY <2>1, <2>2, <2>3
<1>7. /\ p[n + 1] \in After(p[(n + 1) - 1], program[n + 1], t)
      /\ Footprint(p[(n + 1) - 1], program[n + 1], t, F2)
  BY <1>1, <1>2, <1>3
<1>8. \A i \in 1 .. n + 1 : i \in 1 .. n \/ i = n + 1
  OBVIOUS
<1>9. \A i \in 1 .. n + 1 : /\ p[i] \in After(p[i - 1], program[i], t)
                            /\ Footprint(p[i - 1], program[i], t, F2)
  BY <1>6, <1>7, <1>8
<1>10. Walk(p, S, V2, F2, program, t, n + 1)
  BY <1>1, <1>4, <1>5, <1>9 DEF Walk
<1>11. QED
  BY <1>10
-----------------------------------------------------------------------------
(* What a running transaction sees is where the touches it has done lead   *)
(* from the tables as they are committed now, and what is left is the rest *)
(* of its program.                                                         *)
Position(c) == Len(tx[c].program) - Len(tx[c].todo)

Remaining(c) ==
  /\ Len(tx[c].todo) <= Len(tx[c].program)
  /\ \A j \in 1 .. Len(tx[c].todo) : tx[c].todo[j] = tx[c].program[Position(c) + j]

Walked(c) ==
  \E path : Walk(path, rows, View(c), Touched(c), tx[c].program, tx[c].now, Position(c))

Serial == \A c \in Calls : Running(c) => Remaining(c) /\ Walked(c)

LEMMA TailRemains ==
  ASSUME NEW program \in Seq(Touch), NEW todo \in Seq(Touch), todo # <<>>,
         NEW n \in Int, n = Len(program) - Len(todo), Len(todo) <= Len(program),
         \A j \in 1 .. Len(todo) : todo[j] = program[n + j]
  PROVE  /\ n \in Nat /\ n + 1 <= Len(program)
         /\ program[n + 1] = Head(todo)
         /\ Len(program) - Len(Tail(todo)) = n + 1
         /\ Len(Tail(todo)) <= Len(program)
         /\ \A j \in 1 .. Len(Tail(todo)) : Tail(todo)[j] = program[(n + 1) + j]
<1>1. /\ Len(todo) \in Nat \ {0} /\ Len(program) \in Nat
      /\ Tail(todo) \in Seq(Touch) /\ Len(Tail(todo)) = Len(todo) - 1
      /\ \A j \in 1 .. Len(todo) - 1 : Tail(todo)[j] = todo[j + 1]
      /\ Head(todo) = todo[1]
  OBVIOUS
<1>2. n \in Nat /\ n + 1 <= Len(program) /\ Len(program) - (Len(todo) - 1) = n + 1
  BY <1>1
<1>3. program[n + 1] = Head(todo)
  BY <1>1
<1>4. \A j \in 1 .. Len(todo) - 1 : todo[j + 1] = program[n + (j + 1)]
  BY <1>1
<1>5. \A j \in 1 .. Len(todo) - 1 : n + (j + 1) = (n + 1) + j
  BY <1>2
<1>6. \A j \in 1 .. Len(todo) - 1 : Tail(todo)[j] = program[(n + 1) + j]
  BY <1>1, <1>4, <1>5
<1>7. QED
  BY <1>1, <1>2, <1>3, <1>6

(* A transaction that advances by one touch walks one step further.        *)
LEMMA WalkAdvances ==
  ASSUME Typed, NEW c \in Calls, Running(c), Remaining(c), Walked(c), tx[c].todo # <<>>,
         /\ tx'[c].program = tx[c].program
         /\ tx'[c].now = tx[c].now
         /\ tx'[c].todo = Tail(tx[c].todo)
         /\ rows' = rows,
         View(c)' \in After(View(c), Step(c), tx[c].now),
         \A r \in Touched(c) : \E s \in Touched(c)' : SameIds(r, s),
         Footprint(View(c), Step(c), tx[c].now, Touched(c)')
  PROVE  Remaining(c)' /\ Walked(c)'
<1> DEFINE program == tx[c].program
           todo == tx[c].todo
           t == tx[c].now
           n == Len(program) - Len(todo)
           F2 == Touched(c)'
           V2 == View(c)'
<1>1. program \in Seq(Touch) /\ todo \in Seq(Touch) /\ t \in Instants
  BY DEF Typed, TypeOK, Tx
<1>2. PICK path : Walk(path, rows, View(c), Touched(c), program, t, n)
  BY DEF Walked, Position
<1>3. /\ Len(todo) <= Len(program)
      /\ \A j \in 1 .. Len(todo) : todo[j] = program[n + j]
  BY DEF Remaining, Position
<1>4. /\ n \in Nat /\ n + 1 <= Len(program)
      /\ program[n + 1] = Head(todo)
      /\ Len(program) - Len(Tail(todo)) = n + 1
      /\ Len(Tail(todo)) <= Len(program)
      /\ \A j \in 1 .. Len(Tail(todo)) : Tail(todo)[j] = program[(n + 1) + j]
  <2>1. todo # <<>> /\ n = Len(program) - Len(todo)
    OBVIOUS
  <2>2. n \in Int
    BY <1>1
  <2> HIDE DEF program, todo, t, n
  <2>3. QED
    BY <2>1, <2>2, <1>1, <1>3, TailRemains
<1>5. Remaining(c)'
  BY <1>4 DEF Remaining, Position
<1>6. Step(c) = program[n + 1]
  BY <1>4 DEF Step
<1>7. \E p : Walk(p, rows, V2, F2, program, t, n + 1)
  <2>1. /\ V2 \in After(View(c), program[n + 1], t)
        /\ \A r \in Touched(c) : \E s \in F2 : SameIds(r, s)
        /\ Footprint(View(c), program[n + 1], t, F2)
    BY <1>6
  <2> HIDE DEF program, todo, t, n, F2, V2
  <2>2. QED
    BY <1>1, <1>2, <1>4, <2>1, WalkExtends
<1>8. Position(c)' = n + 1
  BY <1>4 DEF Position
<1>9. Walked(c)'
  BY <1>7, <1>8 DEF Walked
<1>10. QED
  BY <1>5, <1>9

LEMMA SerialInit == Init => Serial
BY DEF Init, Serial, Running, NoTx

(* A transaction that does not move, in tables that do not either.         *)
LEMMA SerialStill ==
  ASSUME NEW d \in Calls, rows' = rows, tx'[d] = tx[d],
         Running(d) => Remaining(d) /\ Walked(d)
  PROVE  Running(d)' => Remaining(d)' /\ Walked(d)'
BY DEF Running, Remaining, Walked, View, Touched, Position

(* Through every step a transaction is a walk from the tables as committed *)
(* now.                                                                    *)
LEMMA SerialStep == Typed /\ Locked /\ Serial /\ [Next]_vars => Serial'
<1> SUFFICES ASSUME Typed, Locked, Serial, [Next]_vars
             PROVE  Serial'
  OBVIOUS
<1> USE DEF Typed
<1>1. CASE Tick \/ UNCHANGED vars
  <2>1. rows' = rows /\ tx' = tx
    BY <1>1 DEF Tick, vars
  <2>2. QED
    BY <2>1, SerialStill DEF Serial
<1>2. ASSUME NEW c \in Calls, Begin(c)
      PROVE  Serial'
  <2>1. PICK program \in Programs :
          tx' = [tx EXCEPT ![c] = [NoTx EXCEPT !.pc = "run", !.now = now,
                                     !.program = program, !.todo = program]]
    BY <1>2 DEF Begin
  <2>2. rows' = rows /\ (\A d \in Calls \ {c} : tx'[d] = tx[d])
    BY <1>2, <2>1 DEF Begin, TypeOK
  <2>3. /\ tx'[c].program = program /\ tx'[c].todo = program /\ tx'[c].now = now
        /\ tx'[c].gone = {} /\ tx'[c].made = {}
    BY <2>1 DEF TypeOK, NoTx
  <2>4. program \in Seq(Touch) /\ rows \in SUBSET Row
    BY ProgramsAssumption, ViewIsRows
  <2>5. Len(program) \in Nat /\ Len(program) - Len(program) = 0
    BY <2>4
  <2>6. Position(c)' = 0 /\ View(c)' = rows /\ Remaining(c)'
    BY <2>2, <2>3, <2>5 DEF Position, View, Remaining
  <2>7. Walk([i \in 0 .. 0 |-> rows], rows, rows, Touched(c)', program, now, 0)
    BY <2>4 DEF Walk
  <2>8. Walked(c)'
    BY <2>2, <2>3, <2>6, <2>7 DEF Walked
  <2>9. QED
    BY <2>2, <2>6, <2>8, SerialStill DEF Serial
<1>3. ASSUME NEW c \in Calls, Lock(c) \/ Insert(c)
      PROVE  Serial'
  <2>1. PICK h : tx' = [tx EXCEPT ![c].todo = Tail(@), ![c].held = h]
    BY <1>3, Zenon DEF Lock, Insert
  <2>2. rows' = rows /\ Running(c) /\ tx[c].todo # <<>> /\ Step(c).kind # "archive"
    BY <1>3 DEF Lock, Insert, Ready
  <2>3. \A d \in Calls \ {c} : tx'[d] = tx[d]
    BY <2>1 DEF TypeOK
  <2>4. /\ tx'[c].program = tx[c].program /\ tx'[c].now = tx[c].now
        /\ tx'[c].todo = Tail(tx[c].todo)
        /\ tx'[c].gone = tx[c].gone /\ tx'[c].made = tx[c].made
    BY <2>1 DEF TypeOK, Tx
  <2>5. View(c)' = View(c) /\ Touched(c)' = Touched(c)
    BY <2>2, <2>4 DEF View, Touched
  <2>6. /\ View(c)' \in After(View(c), Step(c), tx[c].now)
        /\ \A r \in Touched(c) : \E s \in Touched(c)' : SameIds(r, s)
        /\ Footprint(View(c), Step(c), tx[c].now, Touched(c)')
    BY <2>2, <2>5 DEF After, Footprint, SameIds
  <2>7. Remaining(c)' /\ Walked(c)'
    BY <2>2, <2>4, <2>6, WalkAdvances DEF Serial
  <2>8. QED
    BY <2>2, <2>3, <2>7, SerialStill DEF Serial
<1>4. ASSUME NEW c \in Calls, Archive(c)
      PROVE  Serial'
  <2> DEFINE V == View(c)
             u == Step(c)
             t == tx[c].now
             T == Taken(V, u)
             P == Put(V, u, t)
             g == tx[c].gone \cup (T \cap rows)
             m == (tx[c].made \ T) \cup P
  <2>1. /\ tx' = [tx EXCEPT ![c].todo = Tail(@), ![c].gone = g, ![c].made = m]
        /\ rows' = rows /\ Running(c) /\ tx[c].todo # <<>> /\ u.kind = "archive"
        /\ Allowed(V, u, t)
    BY <1>4 DEF Archive, Ready
  <2>2. /\ u \in Touch /\ t \in Instants /\ V \in SUBSET Row
    BY <2>1, StepIsTouch, ViewIsRows
  <2>3. View(c)' = (V \ T) \cup P
    BY <1>4, ArchiveEffect, ViewAfterUpsert
  <2>4. /\ \A r \in T : \E p \in P : SameTold(r, p) /\ p.mid = r.mid
        /\ T \subseteq rows \cup tx[c].made
    <3>1. V \subseteq rows \cup tx[c].made
      BY DEF View
    <3> HIDE DEF V, u, t
    <3>2. T \subseteq V
      BY <2>2, TakenOpen
    <3>3. \A r \in T : \E p \in P : SameTold(r, p) /\ p.mid = r.mid
      BY <2>2, PutTells
    <3>4. QED
      BY <3>1, <3>2, <3>3
  <2>5. (V \ T) \cup P \in After(V, u, t)
    BY <2>1 DEF After
  <2> HIDE DEF V, u, t, T, P
  <2>6. /\ tx'[c].program = tx[c].program /\ tx'[c].now = tx[c].now
        /\ tx'[c].todo = Tail(tx[c].todo)
        /\ tx'[c].gone = g /\ tx'[c].made = m
        /\ \A d \in Calls \ {c} : tx'[d] = tx[d]
    <3> HIDE DEF g, m
    <3>1. QED
      BY <2>1 DEF TypeOK, Tx
  <2>7. Touched(c)' = g \cup m
    BY <2>6 DEF Touched
  <2>8. \A r : SameIds(r, r)
    BY DEF SameIds
  <2>9. \A r \in T : \E s \in P : SameIds(r, s)
    BY <2>4 DEF SameTold, SameIds
  <2>10. \A r \in Touched(c) : \E s \in Touched(c)' : SameIds(r, s)
    BY <2>7, <2>8, <2>9 DEF Touched
  <2>11. \A r \in T \cup P : \E s \in Touched(c)' : SameIds(r, s)
    BY <2>7, <2>8, <2>9
  <2>12. Footprint(V, u, t, Touched(c)')
    BY <2>11 DEF Footprint, V, u, t, T, P
  <2>13. Remaining(c)' /\ Walked(c)'
    BY <2>1, <2>3, <2>5, <2>6, <2>10, <2>12, WalkAdvances DEF Serial, V, u, t
  <2>14. QED
    BY <2>1, <2>6, <2>13, SerialStill DEF Serial
<1>5. ASSUME NEW c \in Calls, Commit(c)
      PROVE  Serial'
  <2>1. Committed(c) /\ ~Running(c)'
    BY <1>5, CommitEffect DEF Committed
  <2>2. ASSUME NEW d \in Calls \ {c}, Running(d)'
        PROVE  Remaining(d)' /\ Walked(d)'
    <3> DEFINE G == tx[c].gone
               M == tx[c].made
               program == tx[d].program
               t == tx[d].now
               n == Position(d)
               F == Touched(d)
    <3>1. tx'[d] = tx[d]
      BY <1>5 DEF Commit, Over, TypeOK
    <3>2. Running(d) /\ Remaining(d)' /\ Touched(d)' = F /\ Position(d)' = n
      BY <2>2, <3>1 DEF Running, Serial, Remaining, Touched, Position
    <3>3. PICK path : Walk(path, rows, View(d), F, program, t, n)
      BY <3>2 DEF Serial, Walked
    <3>4. /\ program \in Seq(Touch) /\ tx[d].todo \in Seq(Touch) /\ t \in Instants
          /\ G \in SUBSET Row /\ M \in SUBSET Row
      BY DEF TypeOK, Tx
    <3>5. n \in Nat /\ n <= Len(program)
      <4>1. Len(program) \in Nat /\ Len(tx[d].todo) \in Nat
        BY <3>4
      <4>2. Len(tx[d].todo) <= Len(program) /\ n = Len(program) - Len(tx[d].todo)
        BY <3>2 DEF Serial, Remaining, Position
      <4> HIDE DEF program, n
      <4>3. QED
        BY <4>1, <4>2
    <3>6. \A s \in F : \A x \in G \cup M : ~Alike(s, x)
      BY DEF Locked, Apart, Touched
    <3>7. /\ rows' = (rows \ G) \cup M
          /\ View(d)' = (View(d) \ G) \cup M
      BY <2>1, ViewAfterCommit DEF Committed, View
    <3> HIDE DEF G, M, program, t, n, F
    <3>8. \E p : Walk(p, (rows \ G) \cup M, (View(d) \ G) \cup M, F, program, t, n)
      BY <3>3, <3>4, <3>5, <3>6, WalkRebases
    <3>9. Walked(d)'
      BY <3>1, <3>2, <3>7, <3>8 DEF Walked, program, t
    <3>10. QED
      BY <3>2, <3>9
  <2>3. QED
    BY <2>1, <2>2 DEF Serial
<1>6. ASSUME NEW c \in Calls, Fail(c) \/ Rollback(c)
      PROVE  Serial'
  <2>1. /\ rows' = rows /\ ~Running(c)'
        /\ \A d \in Calls \ {c} : tx'[d] = tx[d]
    BY <1>6, OverEffect DEF Fail, Rollback, Over, TypeOK
  <2>2. QED
    BY <2>1, SerialStill DEF Serial
<1>7. QED
  BY <1>1, <1>2, <1>3, <1>4, <1>5, <1>6 DEF Next, Advance
-----------------------------------------------------------------------------
(* The abstract specification replays programs with the same operators.    *)
LEMMA SameReplay ==
  ASSUME NEW S, NEW program, NEW t
  PROVE  Abstract!Replay(S, program, t) = Replay(S, program, t)
<1>1. \A W, u : /\ Abstract!Matching(W, u) = Matching(W, u)
                /\ Abstract!CurrentRows(W, u) = CurrentRows(W, u)
  BY DEF Abstract!Matching, Matching, Abstract!CurrentRows, CurrentRows,
         Abstract!CurrentPrimary, CurrentPrimary, Abstract!CurrentUnique, CurrentUnique,
         Abstract!Open, Open, Abstract!Forever, Forever
<1>2. \A u, x : Abstract!NewRow(u, x) = NewRow(u, x)
  BY DEF Abstract!NewRow, NewRow, Abstract!Forever, Forever
<1>3. \A W, u : Abstract!Taken(W, u) = Taken(W, u)
  BY <1>1 DEF Abstract!Taken, Taken
<1>4. \A W, u, x : Abstract!Put(W, u, x) = Put(W, u, x)
  BY <1>1, <1>2
  DEF Abstract!Put, Put, Abstract!Refreshed, Refreshed, Abstract!Closed, Closed
<1>5. \A W, u, x : Abstract!Allowed(W, u, x) = Allowed(W, u, x)
  BY <1>1, <1>2 DEF Abstract!Allowed, Allowed, Abstract!Alike, Alike
<1>6. \A W, u, x : Abstract!After(W, u, x) = After(W, u, x)
  BY <1>3, <1>4, <1>5 DEF Abstract!After, After
<1>7. \A Ss, u, x : Abstract!AfterAny(Ss, u, x) = AfterAny(Ss, u, x)
  BY <1>6 DEF Abstract!AfterAny, AfterAny
<1>8. QED
  BY <1>7 DEF Abstract!Replay, Replay

(* A commit leaves what its whole page, archived in one step, would leave. *)
LEMMA CommitReplays ==
  ASSUME Typed, Serial, NEW c \in Calls, Commit(c)
  PROVE  /\ rows' \in Replay(rows, tx[c].program, tx[c].now)
         /\ tx[c].program \in Programs /\ tx[c].now \in 0 .. now
<1> DEFINE program == tx[c].program
           t == tx[c].now
           n == Len(program)
<1>1. Running(c) /\ tx[c].todo = <<>> /\ rows' = View(c)
  BY DEF Commit
<1>2. program \in Seq(Touch) /\ t \in Instants
  BY DEF Typed, TypeOK, Tx
<1>3. n \in Nat /\ Position(c) = n
  BY <1>1, <1>2 DEF Position
<1>4. PICK path : Walk(path, rows, View(c), Touched(c), program, t, n)
  BY <1>1, <1>3 DEF Serial, Walked
<1> HIDE DEF program, t
<1>5. /\ path[0] = rows /\ path[n] = View(c)
      /\ \A i \in 1 .. n : path[i] \in After(path[i - 1], program[i], t)
  BY <1>4 DEF Walk
<1>6. path[n] \in Replay(rows, program, t)
  BY <1>3, <1>5, ReplayWalk
<1>7. program \in Programs /\ t \in 0 .. now
  BY <1>1, <1>2 DEF Typed, TypeOK, Started, Instants, program, t
<1>8. QED
  BY <1>1, <1>5, <1>6, <1>7 DEF program, t

(* A commit replays its page on the tables as they are at that instant.    *)
LEMMA SerializableStep ==
  Typed /\ Serial /\ [Next]_vars => [Abstract!Tick \/ Abstract!Record]_<<now, rows>>
<1> SUFFICES ASSUME Typed, Serial, [Next]_vars
             PROVE  [Abstract!Tick \/ Abstract!Record]_<<now, rows>>
  OBVIOUS
<1>1. CASE Tick
  BY <1>1 DEF Tick, Abstract!Tick
<1>2. ASSUME NEW c \in Calls, Commit(c)
      PROVE  [Abstract!Record]_<<now, rows>>
  <2>1. rows' \in Abstract!Replay(rows, tx[c].program, tx[c].now)
        /\ tx[c].program \in Programs /\ tx[c].now \in 0 .. now
    BY <1>2, CommitReplays, SameReplay
  <2>2. now' = now
    BY <1>2 DEF Commit
  <2>3. QED
    BY <2>1, <2>2 DEF Abstract!Record
<1>3. CASE UNCHANGED vars
  BY <1>3 DEF vars
<1>4. ASSUME NEW c \in Calls,
             Begin(c) \/ Lock(c) \/ Insert(c) \/ Archive(c) \/ Fail(c) \/ Rollback(c)
      PROVE  UNCHANGED <<now, rows>>
  BY <1>4 DEF Begin, Lock, Insert, Archive, Fail, Rollback
<1>5. QED
  BY <1>1, <1>2, <1>3, <1>4 DEF Next, Advance

(* The transactions, interleaved statement by statement, leave what some   *)
(* order of whole pages, archived one at a time, would leave.              *)
THEOREM Serializability == Spec => Serializable
<1>1. Spec => []Serial
  BY SerialInit, SerialStep, Typing, Locking, PTL DEF Spec
<1>2. Init => Abstract!Init
  BY DEF Init, Abstract!Init
<1>3. QED
  BY <1>1, <1>2, SerializableStep, Typing, PTL DEF Spec, Serializable, Abstract!Spec

-----------------------------------------------------------------------------
(***************************************************************************)
(* Sequences of touches, as the programs of the stores build them: what    *)
(* they hold, and that no two of them, in order, are a pair of B.          *)
(***************************************************************************)

LEMMA UpTo ==
  ASSUME NEW n \in Nat, NEW G, 0 \in G,
         \A i \in 1 .. n : i - 1 \in G => i \in G
  PROVE  \A i \in 0 .. n : i \in G
<1> DEFINE Bad == {i \in 0 .. n : i \notin G}
<1>1. SUFFICES ASSUME Bad # {} PROVE FALSE
  OBVIOUS
<1>2. Bad \in SUBSET Nat
  OBVIOUS
<1>3. PICK m \in Bad : \A k \in Bad : m <= k
  BY <1>1, <1>2, LeastNumber
<1>4. m \in 1 .. n
  BY <1>3
<1>5. m - 1 \in 0 .. n /\ m - 1 \notin Bad
  BY <1>3, <1>4
<1>6. QED
  BY <1>3, <1>4, <1>5

Ordered(s, B) == \A i, j \in 1 .. Len(s) : i < j => <<s[i], s[j]>> \notin B

(* A sequence over any set is one over the set of its own elements.        *)
LEMMA SeqIsSeq ==
  ASSUME NEW S, NEW s \in Seq(S)
  PROVE  IsSeq(s) /\ ToSet(s) \subseteq S /\ ToSet(s) = {s[i] : i \in 1 .. Len(s)}
<1>1. ToSet(s) = {s[i] : i \in 1 .. Len(s)} /\ Len(s) \in Nat
  BY DEF ToSet
<1>2. ToSet(s) \subseteq S
  BY <1>1
<1>3. s \in [1 .. Len(s) -> ToSet(s)]
  BY <1>1
<1>4. s \in Seq(ToSet(s))
  BY <1>1, <1>3
<1>5. QED
  BY <1>1, <1>2, <1>4 DEF IsSeq

LEMMA EmptyIsSeq == IsSeq(<<>>) /\ ToSet(<<>>) = {} /\ \A B : Ordered(<<>>, B)
BY DEF IsSeq, ToSet, Ordered

LEMMA OneIsSeq ==
  ASSUME NEW u
  PROVE  IsSeq(<<u>>) /\ ToSet(<<u>>) = {u} /\ \A B : Ordered(<<u>>, B)
<1>1. <<u>> \in Seq({u}) /\ Len(<<u>>) = 1 /\ <<u>>[1] = u
  OBVIOUS
<1>2. ToSet(<<u>>) = {<<u>>[i] : i \in 1 .. 1}
  BY <1>1, SeqIsSeq
<1>3. ToSet(<<u>>) = {u}
  BY <1>1, <1>2
<1>4. QED
  BY <1>1, <1>3 DEF IsSeq, Ordered

(* Touches one after the other hold what both hold, in order when no touch *)
(* of the first is a pair of B with one of the second.                     *)
LEMMA ConcatIsSeq ==
  ASSUME NEW a, NEW b, IsSeq(a), IsSeq(b)
  PROVE  /\ IsSeq(a \o b)
         /\ ToSet(a \o b) = ToSet(a) \cup ToSet(b)
         /\ \A B : (/\ Ordered(a, B) /\ Ordered(b, B)
                    /\ \A u \in ToSet(a), v \in ToSet(b) : <<u, v>> \notin B)
                   => Ordered(a \o b, B)
<1> DEFINE S == ToSet(a) \cup ToSet(b)
           c == a \o b
<1>1. a \in Seq(S) /\ b \in Seq(S)
  BY DEF IsSeq
<1>2. /\ c \in Seq(S) /\ Len(c) = Len(a) + Len(b) /\ Len(a) \in Nat /\ Len(b) \in Nat
      /\ \A i \in 1 .. Len(a) : c[i] = a[i]
      /\ \A i \in 1 .. Len(b) : c[Len(a) + i] = b[i]
      /\ \A i \in (1 .. Len(c)) \ (1 .. Len(a)) : i - Len(a) \in 1 .. Len(b) /\ c[i] = b[i - Len(a)]
  BY <1>1
<1>3. /\ ToSet(a) = {a[i] : i \in 1 .. Len(a)} /\ ToSet(b) = {b[i] : i \in 1 .. Len(b)}
      /\ ToSet(c) = {c[i] : i \in 1 .. Len(c)} /\ IsSeq(c)
  BY <1>1, <1>2, SeqIsSeq
<1> HIDE DEF c
<1>4. \A i \in 1 .. Len(c) : i \in 1 .. Len(a) \/ (i - Len(a) \in 1 .. Len(b)
                                                  /\ i = Len(a) + (i - Len(a)))
  BY <1>2
<1>5. \A i \in 1 .. Len(b) : Len(a) + i \in 1 .. Len(c)
  BY <1>2
<1>6. \A i \in 1 .. Len(a) : i \in 1 .. Len(c)
  BY <1>2
<1>7. ToSet(c) \subseteq S
  BY <1>2, <1>3, <1>4
<1>8. S \subseteq ToSet(c)
  BY <1>2, <1>3, <1>5, <1>6
<1>9. ASSUME NEW B, Ordered(a, B), Ordered(b, B),
             \A u \in ToSet(a), v \in ToSet(b) : <<u, v>> \notin B,
             NEW i \in 1 .. Len(c), NEW j \in 1 .. Len(c), i < j
      PROVE  <<c[i], c[j]>> \notin B
  <2>1. CASE i \in 1 .. Len(a) /\ j \in 1 .. Len(a)
    BY <1>2, <1>9, <2>1 DEF Ordered
  <2>2. CASE j \notin 1 .. Len(a) /\ i \in 1 .. Len(a)
    <3>1. c[i] \in ToSet(a) /\ c[j] \in ToSet(b)
      <4>1. i \in 1 .. Len(a) /\ j \in (1 .. Len(c)) \ (1 .. Len(a))
        BY <1>2, <1>9, <2>2
      <4>2. QED
        BY <4>1, <1>2, <1>3
    <3>2. QED
      BY <3>1, <1>9
  <2>3. CASE i \notin 1 .. Len(a)
    <3>1. i - Len(a) \in 1 .. Len(b) /\ j - Len(a) \in 1 .. Len(b) /\ i - Len(a) < j - Len(a)
      BY <1>2, <1>9, <2>3
    <3>2. c[i] = b[i - Len(a)] /\ c[j] = b[j - Len(a)]
      <4>1. j \notin 1 .. Len(a)
        BY <1>2, <1>9, <2>3
      <4>2. QED
        BY <4>1, <1>2, <1>9, <2>3
    <3>3. QED
      BY <3>1, <3>2, <1>9 DEF Ordered
  <2>4. QED
    BY <2>1, <2>2, <2>3
<1>10. QED
  BY <1>3, <1>7, <1>8, <1>9 DEF c, Ordered

(* The same of a loop over the items of a page (ForEach).                  *)
LEMMA FlattenIsSeq ==
  ASSUME NEW ss, NEW n \in Nat, n = Len(ss), n = 0 => ss = <<>>,
         \A i \in 1 .. n : IsSeq(ss[i])
  PROVE  /\ IsSeq(FlattenSeq(ss))
         /\ ToSet(FlattenSeq(ss)) = UNION {ToSet(ss[i]) : i \in 1 .. n}
         /\ \A B : (/\ \A i \in 1 .. n : Ordered(ss[i], B)
                    /\ \A i, j \in 1 .. n : i < j =>
                         \A u \in ToSet(ss[i]), v \in ToSet(ss[j]) : <<u, v>> \notin B)
                   => Ordered(FlattenSeq(ss), B)
<1> DEFINE Next1(g, i) == IF i = 1 THEN ss[i] ELSE g[i - 1] \o ss[i]
           Flat(g, k) == g = [i \in 1 .. k |-> Next1(g, i)]
           flat == CHOOSE g : Flat(g, n)
<1>1. CASE n = 0
  <2>1. FlattenSeq(ss) = <<>>
    BY <1>1 DEF FlattenSeq
  <2>2. 1 .. n = {}
    BY <1>1
  <2>3. QED
    BY <2>1, <2>2, EmptyIsSeq
<1>2. CASE n # 0
  <2>1. FlattenSeq(ss) = flat[n]
    BY <1>2, Zenon DEF FlattenSeq
  <2>2. ASSUME NEW k \in Nat, NEW g, Flat(g, k)
        PROVE  \E h : Flat(h, k + 1)
    <3> DEFINE last == IF k + 1 = 1 THEN ss[k + 1] ELSE g[k] \o ss[k + 1]
               h == [i \in 1 .. k + 1 |-> IF i = k + 1 THEN last ELSE g[i]]
    <3>1. \A i \in 1 .. k : g[i] = Next1(g, i)
      <4> HIDE DEF Next1
      <4>1. QED
        BY <2>2
    <3> HIDE DEF Flat
    <3>2. h[k + 1] = last /\ \A i \in 1 .. k : h[i] = g[i]
      <4> HIDE DEF last
      <4>1. QED
        OBVIOUS
    <3>3. h = [i \in 1 .. k + 1 |-> h[i]]
      <4> HIDE DEF last
      <4>1. QED
        OBVIOUS
    <3> HIDE DEF h
    <3>4. \A i \in 1 .. k : i - 1 \in 1 .. k \/ i = 1
      OBVIOUS
    <3>5. \A i \in 1 .. k : Next1(h, i) = Next1(g, i)
      BY <3>2, <3>4, Zenon
    <3>6. Next1(h, k + 1) = last
      <4>1. (k + 1) - 1 = k /\ (k + 1 = 1 \/ k \in 1 .. k)
        OBVIOUS
      <4>2. QED
        BY <4>1, <3>2, Zenon
    <3>7. \A i \in 1 .. k + 1 : i \in 1 .. k \/ i = k + 1
      OBVIOUS
    <3>8. \A i \in 1 .. k + 1 : h[i] = Next1(h, i)
      <4> HIDE DEF Next1, last
      <4>1. QED
        BY <3>1, <3>2, <3>5, <3>6, <3>7, Zenon
    <3>9. QED
      <4> HIDE DEF Next1
      <4>1. QED
        BY <3>3, <3>8, Zenon DEF Flat
  <2>3. \E g : Flat(g, n)
    <3> DEFINE G == {k \in 0 .. n : \E g : Flat(g, k)}
    <3>1. 0 \in G
      <4>1. [i \in 1 .. 0 |-> 0] = [i \in 1 .. 0 |-> Next1([j \in 1 .. 0 |-> 0], i)]
        <5> HIDE DEF Next1
        <5>1. QED
          OBVIOUS
      <4>2. 0 \in 0 .. n
        OBVIOUS
      <4>3. QED
        BY <4>1, <4>2, Zenon
    <3>2. \A i \in 1 .. n : i - 1 \in G => i \in G
      <4> HIDE DEF Flat
      <4>1. \A i \in 1 .. n : i - 1 \in Nat /\ i = (i - 1) + 1 /\ i \in 0 .. n
        OBVIOUS
      <4>2. QED
        BY <2>2, <4>1
    <3> HIDE DEF G
    <3>3. n \in G
      <4>1. n \in 0 .. n
        OBVIOUS
      <4>2. QED
        BY <4>1, <3>1, <3>2, UpTo
    <3>4. QED
      BY <3>3 DEF G
  <2>4. Flat(flat, n)
    <3> HIDE DEF Flat
    <3>1. QED
      BY <2>3, Zenon
  <2> HIDE DEF flat
  <2>5. \A i \in 1 .. n : flat[i] = Next1(flat, i)
    <3> HIDE DEF Next1
    <3>1. QED
      BY <2>4
  <2> HIDE DEF Flat
  <2> DEFINE Good(k) ==
        /\ IsSeq(flat[k])
        /\ ToSet(flat[k]) = UNION {ToSet(ss[i]) : i \in 1 .. k}
        /\ \A B : (/\ \A i \in 1 .. n : Ordered(ss[i], B)
                   /\ \A i, j \in 1 .. n : i < j =>
                        \A u \in ToSet(ss[i]), v \in ToSet(ss[j]) : <<u, v>> \notin B)
                  => Ordered(flat[k], B)
  <2>6. Good(1)
    <3>1. 1 \in 1 .. n /\ 1 .. 1 = {1}
      BY <1>2
    <3>2. flat[1] = ss[1]
      BY <2>5, <3>1
    <3>3. QED
      BY <3>1, <3>2
  <2>7. ASSUME NEW k \in 1 .. n, k # 1, Good(k - 1)
        PROVE  Good(k)
    <3> DEFINE a == flat[k - 1]
               b == ss[k]
    <3>1. flat[k] = a \o b
      BY <2>5, <2>7
    <3>2. k - 1 \in 1 .. n /\ 1 .. k = (1 .. k - 1) \cup {k} /\ \A i \in 1 .. k - 1 : i \in 1 .. n /\ i < k
      BY <2>7
    <3>3. IsSeq(a) /\ IsSeq(b)
      BY <2>7
    <3>4. ToSet(a) = UNION {ToSet(ss[i]) : i \in 1 .. k - 1}
      BY <2>7
    <3>5. /\ IsSeq(a \o b)
          /\ ToSet(a \o b) = ToSet(a) \cup ToSet(b)
          /\ \A B : (/\ Ordered(a, B) /\ Ordered(b, B)
                     /\ \A u \in ToSet(a), v \in ToSet(b) : <<u, v>> \notin B)
                    => Ordered(a \o b, B)
      <4> HIDE DEF a, b
      <4>1. QED
        BY <3>3, ConcatIsSeq
    <3>6. ToSet(flat[k]) = UNION {ToSet(ss[i]) : i \in 1 .. k}
      BY <3>1, <3>2, <3>4, <3>5
    <3>7. ASSUME NEW B, \A i \in 1 .. n : Ordered(ss[i], B),
                 \A i, j \in 1 .. n : i < j =>
                   \A u \in ToSet(ss[i]), v \in ToSet(ss[j]) : <<u, v>> \notin B
          PROVE  Ordered(flat[k], B)
      <4>1. Ordered(a, B)
        BY <2>7, <3>7, Zenon
      <4>2. \A u \in ToSet(a), v \in ToSet(b) : <<u, v>> \notin B
        BY <3>2, <3>4, <3>7
      <4>3. QED
        BY <3>1, <3>5, <3>7, <4>1, <4>2
    <3>8. QED
      BY <3>1, <3>5, <3>6, <3>7, Zenon
  <2> DEFINE G == {k \in 0 .. n : k = 0 \/ Good(k)}
  <2>8. 0 \in G
    OBVIOUS
  <2> HIDE DEF Good
  <2>9. \A i \in 1 .. n : i - 1 \in G => i \in G
    BY <2>6, <2>7
  <2> HIDE DEF G
  <2>10. n \in G
    <3>1. n \in 0 .. n
      OBVIOUS
    <3>2. QED
      BY <3>1, <2>8, <2>9, UpTo
  <2>11. Good(n)
    BY <2>10, <1>2 DEF G
  <2>12. QED
    BY <2>1, <2>11 DEF Good
<1>3. QED
  BY <1>1, <1>2

-----------------------------------------------------------------------------
(***************************************************************************)
(* A commit as one walk over the touches of its page, from the committed   *)
(* tables to the committed tables.                                         *)
(***************************************************************************)

(* Tables as the constraints of the database keep them.                    *)
Sound(S) == /\ S \in SUBSET Row
            /\ Exclusive(S)
            /\ \A r \in S : r.lower < r.upper

(* Versions of one row.                                                    *)
SameRow(r, s) == /\ r.key = s.key /\ r.mid = s.mid
                 /\ r.data = s.data /\ r.lower = s.lower

(* A touch that only locks or inserts a key leaves the archived rows       *)
(* alone.                                                                  *)
LEMMA AfterRefused ==
  ASSUME NEW W, NEW u, NEW t, NEW W2 \in After(W, u, t), u.kind # "archive"
  PROVE  W2 = W
BY DEF After

(* What a touch that succeeds does to the rows.                            *)
LEMMA AfterVersions ==
  ASSUME NEW W, Sound(W), NEW u \in Touch, u.kind = "archive",
         NEW t \in Instants, NEW W2 \in After(W, u, t)
  PROVE  /\ Sound(W2)
         /\ Allowed(W, u, t)
         /\ Matching(W, u) = {} => NewRow(u, t) \in W2
         /\ \A r \in W : \E s \in W2 : SameRow(r, s) /\ r.retrieved \subseteq s.retrieved
         /\ \A r \in W \ Taken(W, u) : r \in W2
         /\ \A r \in Matching(W, u) : Refreshed(r, t) \in W2
         /\ \A s \in W2 :
              \/ s \in W \ Taken(W, u)
              \/ \E r \in Matching(W, u) : s = Refreshed(r, t)
              \/ /\ Matching(W, u) = {}
                 /\ s = NewRow(u, t) \/ \E r \in CurrentRows(W, u) : s = Closed(r, t)
<1> DEFINE T == Taken(W, u)
           P == Put(W, u, t)
<1>1. Allowed(W, u, t) /\ W2 = (W \ T) \cup P
  BY DEF After
<1>2. W \in SUBSET Row /\ Exclusive(W) /\ \A r \in W : r.lower < r.upper
  BY DEF Sound
<1>3. W2 \in SUBSET Row /\ Exclusive(W2)
  BY <1>1, <1>2, PutVersions, UpsertExclusive
<1>4. T \subseteq W /\ Matching(W, u) \subseteq W /\ CurrentRows(W, u) \subseteq W
  BY <1>2, TakenOpen
<1>5. /\ Matching(W, u) # {} => T = Matching(W, u) /\ P = {Refreshed(r, t) : r \in Matching(W, u)}
      /\ Matching(W, u) = {} =>
           /\ T = CurrentRows(W, u)
           /\ P = {Closed(r, t) : r \in CurrentRows(W, u)} \cup {NewRow(u, t)}
           /\ \A r \in CurrentRows(W, u) : r.lower < t
  BY <1>1 DEF Taken, Put, Allowed
<1>6. NewRow(u, t).lower = t /\ NewRow(u, t).upper = Forever /\ t < Forever
  BY ArchiveAssumption DEF NewRow, Instants, Forever
<1>7. \A r \in Row : /\ SameRow(r, Refreshed(r, t)) /\ SameRow(r, Closed(r, t)) /\ SameRow(r, r)
                     /\ Refreshed(r, t).upper = r.upper /\ Closed(r, t).upper = t
                     /\ r.retrieved \subseteq Refreshed(r, t).retrieved
                     /\ r.retrieved \subseteq Closed(r, t).retrieved
  BY RowVersions DEF SameRow
<1> HIDE DEF T, P
<1>8. \A s \in W2 :
        \/ s \in W \ T
        \/ \E r \in Matching(W, u) : s = Refreshed(r, t)
        \/ /\ Matching(W, u) = {}
           /\ s = NewRow(u, t) \/ \E r \in CurrentRows(W, u) : s = Closed(r, t)
  BY <1>1, <1>5
<1>9. \A s \in W2 : s.lower < s.upper
  BY <1>2, <1>4, <1>5, <1>6, <1>7, <1>8 DEF SameRow
<1>10. \A r \in W : \E s \in W2 : SameRow(r, s) /\ r.retrieved \subseteq s.retrieved
  BY <1>1, <1>2, <1>5, <1>7
<1>11. Matching(W, u) = {} => NewRow(u, t) \in W2
  BY <1>1, <1>5
<1>12. \A r \in W \ T : r \in W2
  BY <1>1
<1>13. \A r \in Matching(W, u) : Refreshed(r, t) \in W2
  BY <1>1, <1>5
<1>14. QED
  BY <1>1, <1>3, <1>8, <1>9, <1>10, <1>11, <1>12, <1>13 DEF Sound, T

(* The tables after each touch of a page, run alone.                       *)
Path(path, S, program, t) ==
  path[0] = S /\ \A i \in 1 .. Len(program) : path[i] \in After(path[i - 1], program[i], t)

(* Run alone, a page goes from tables that respect the constraints to      *)
(* tables that do at each of its touches.                                  *)
LEMMA PathSound ==
  ASSUME NEW path, NEW S, NEW program \in Seq(Touch), NEW t \in Instants,
         Path(path, S, program, t), Sound(S)
  PROVE  /\ Len(program) \in Nat
         /\ \A i \in 0 .. Len(program) : Sound(path[i])
         /\ \A i \in 1 .. Len(program) :
              i - 1 \in 0 .. Len(program) /\ i \in 0 .. Len(program) /\ program[i] \in Touch
<1> DEFINE n == Len(program)
           G == {i \in 0 .. n : Sound(path[i])}
<1>1. n \in Nat /\ \A i \in 1 .. n : program[i] \in Touch /\ i - 1 \in 0 .. n /\ i \in 0 .. n
  OBVIOUS
<1>2. 0 \in G
  BY <1>1 DEF Path
<1>3. ASSUME NEW i \in 1 .. n, i - 1 \in G
      PROVE  i \in G
  <2>1. Sound(path[i - 1]) /\ path[i] \in After(path[i - 1], program[i], t)
    BY <1>3 DEF Path
  <2>2. Sound(path[i])
    <3>1. CASE program[i].kind = "archive"
      BY <1>1, <2>1, <3>1, AfterVersions
    <3>2. CASE program[i].kind # "archive"
      BY <2>1, <3>2, AfterRefused
    <3>3. QED
      BY <3>1, <3>2
  <2>3. QED
    BY <2>2, <1>1
<1>4. \A i \in 0 .. n : i \in G
  <2> HIDE DEF G
  <2>1. QED
    BY <1>1, <1>2, <1>3, UpTo
<1>5. QED
  BY <1>1, <1>4

(* A commit is its whole page, run alone on the tables as they are then:   *)
(* what a page says of one key can be set against what it says of another, *)
(* although its statements ran among those of other pages.                 *)
LEMMA CommitWalks ==
  ASSUME Typed, Serial, NEW c \in Calls, Commit(c)
  PROVE  /\ tx[c].program \in Programs /\ tx[c].program \in Seq(Touch)
         /\ tx[c].now \in Instants
         /\ log' = Append(log, [program |-> tx[c].program, at |-> tx[c].now])
         /\ \E path : /\ Path(path, rows, tx[c].program, tx[c].now)
                      /\ path[Len(tx[c].program)] = rows'
<1> DEFINE program == tx[c].program
           t == tx[c].now
           n == Len(program)
<1>1. Running(c) /\ tx[c].todo = <<>> /\ rows' = View(c)
  BY DEF Commit
<1>2. program \in Seq(Touch) /\ t \in Instants /\ program \in Programs
  BY <1>1 DEF Typed, TypeOK, Tx, Started
<1>3. n \in Nat /\ Position(c) = n
  BY <1>1, <1>2 DEF Position
<1>4. PICK path : Walk(path, rows, View(c), Touched(c), program, t, n)
  BY <1>1, <1>3 DEF Serial, Walked
<1>5. Path(path, rows, program, t) /\ path[n] = rows'
  BY <1>1, <1>4 DEF Walk, Path
<1>6. QED
  BY <1>2, <1>5 DEF Commit

(* The committed tables and the log change only when a transaction         *)
(* commits.                                                                *)
LEMMA OnlyCommits ==
  ASSUME [Next]_vars
  PROVE  (rows' = rows /\ log' = log) \/ \E c \in Calls : Commit(c)
<1>1. ASSUME NEW c \in Calls,
             Begin(c) \/ Lock(c) \/ Insert(c) \/ Archive(c) \/ Fail(c) \/ Rollback(c)
      PROVE  rows' = rows /\ log' = log
  BY <1>1 DEF Begin, Lock, Insert, Archive, Fail, Rollback
<1>2. QED
  BY <1>1 DEF Next, Advance, Tick, vars

(* The committed tables respect the constraints.                           *)
TablesSound == Sound(rows)

(* A commit keeps the constraints, touch by touch.                         *)
LEMMA SoundStep == Typed /\ Serial /\ TablesSound /\ [Next]_vars => TablesSound'
<1> SUFFICES ASSUME Typed, Serial, Sound(rows), [Next]_vars
             PROVE  Sound(rows')
  BY DEF TablesSound
<1>1. ASSUME NEW c \in Calls, Commit(c)
      PROVE  Sound(rows')
  <2>1. PICK path : /\ Path(path, rows, tx[c].program, tx[c].now)
                    /\ path[Len(tx[c].program)] = rows'
    BY <1>1, CommitWalks
  <2>2. tx[c].program \in Seq(Touch) /\ tx[c].now \in Instants
    BY <1>1, CommitWalks
  <2>3. Len(tx[c].program) \in 0 .. Len(tx[c].program)
    BY <2>2
  <2>4. QED
    BY <2>1, <2>2, <2>3, PathSound
<1>2. QED
  BY <1>1, OnlyCommits

(* The tables stay as the constraints keep them.                           *)
LEMMA Soundness == Spec => [](Typed /\ Serial /\ TablesSound)
<1>1. Init => TablesSound
  BY DEF Init, TablesSound, Sound, Exclusive
<1>2. Spec => []Serial
  BY SerialInit, SerialStep, Typing, Locking, PTL DEF Spec
<1>3. QED
  BY <1>1, <1>2, SoundStep, Typing, PTL DEF Spec

-----------------------------------------------------------------------------
(***************************************************************************)
(* The pages of Hammerfest. A unique value says what the data of its row   *)
(* says; most touches are of no table that has a rule of its own.          *)
(***************************************************************************)

LEMMA SameSeq ==
  ASSUME NEW S, NEW s \in Seq(S), NEW t \in Seq(S), Len(s) = Len(t),
         \A i \in 1 .. Len(s) : s[i] = t[i]
  PROVE  s = t
<1>1. s \in [1 .. Len(s) -> S] /\ t \in [1 .. Len(s) -> S]
  OBVIOUS
<1>2. QED
  BY <1>1

Threads  == "hammerfest_forum_theme_threads"
PostIds  == "hammerfest_forum_post_ids"
(* The tables that have a rule of their own.                               *)
ChildLists == "hammerfest_godchild_lists"
Children == "hammerfest_godchildren"
Addresses  == "hammerfest_emails"

MidOf(table, value) ==
  IF table \in {Threads, PostIds, Children} \/ (table = Addresses /\ value # None)
  THEN <<table, value>> ELSE None

(* A touch carries the unique value that its data says; the only one that  *)
(* is looked up and may be missing is an address.                          *)
Shaped(u) == u.kind = "archive" =>
               /\ u.mid = MidOf(u.key[1], u.data[2])
               /\ u.looked /\ u.mid = None => u.key[1] = Addresses

(* A touch of a table without a rule of its own.                           *)
Plain(u) == u.key[1] \notin {ChildLists, Children}

Simple(s) == IsSeq(s) /\ \A u \in ToSet(s) : Shaped(u) /\ Plain(u)

LEMMA SimpleEmpty == Simple(<<>>)
BY EmptyIsSeq DEF Simple

LEMMA SimpleOne ==
  ASSUME NEW u, Shaped(u), Plain(u)
  PROVE  Simple(<<u>>)
BY OneIsSeq DEF Simple

(* Pages are made of touches without a rule, one after the other or in a   *)
(* loop.                                                                   *)
LEMMA SimpleConcat ==
  ASSUME NEW a, NEW b, Simple(a), Simple(b)
  PROVE  Simple(a \o b)
BY ConcatIsSeq DEF Simple

LEMMA SimpleEach ==
  ASSUME NEW ss, NEW n \in Nat, n = Len(ss), n = 0 => ss = <<>>,
         \A i \in 1 .. n : Simple(ss[i])
  PROVE  Simple(FlattenSeq(ss))
<1>1. /\ IsSeq(FlattenSeq(ss))
      /\ ToSet(FlattenSeq(ss)) = UNION {ToSet(ss[i]) : i \in 1 .. n}
  BY FlattenIsSeq DEF Simple
<1>2. QED
  BY <1>1 DEF Simple

(* The key of a touch begins with its table.                               *)
LEMMA Tables ==
  ASSUME NEW table, NEW a, NEW b, NEW c, NEW d
  PROVE  /\ (<<table>> \o <<a>>)[1] = table
         /\ (<<table>> \o <<a, b>>)[1] = table
         /\ (<<table>> \o <<a, b, c>>)[1] = table
         /\ (<<table>> \o <<a, b, c, d>>)[1] = table
         /\ (<<table>> \o <<a>>)[2] = a
         /\ (<<table>> \o <<a, b>>)[2] = a
         /\ (<<table>> \o <<a, b, c>>)[2] = a
         /\ (<<table>> \o <<a, b, c, d>>)[2] = a
OBVIOUS

LEMMA WrittenSimple ==
  ASSUME NEW kind \in {"lock", "insert"}, NEW table, NEW a, table \notin {ChildLists, Children}
  PROVE  Simple(<<Written(kind, table, <<a>>)>>)
<1>1. Written(kind, table, <<a>>).kind # "archive" /\ Written(kind, table, <<a>>).key[1] = table
  BY Tables DEF Written
<1>2. QED
  BY <1>1, SimpleOne DEF Shaped, Plain

LEMMA ArchivedSimple ==
  ASSUME NEW table, NEW id, NEW data, table \notin {Threads, ChildLists, Children, PostIds, Addresses},
         (<<table>> \o id)[1] = table
  PROVE  Simple(<<Archived(table, id, data)>>)
<1>1. Archived(table, id, data).key[1] = table /\ Archived(table, id, data).mid = None
      /\ ~Archived(table, id, data).looked
  BY DEF Archived
<1>2. QED
  BY <1>1, SimpleOne DEF Shaped, Plain, MidOf

(* The touches that declare no unique value beside their key.              *)
LEMMA SimpleTouches ==
  /\ \A x : Simple(touch_hammerfest_user(x))
  /\ \A x : Simple(touch_hammerfest_forum_theme(x))
  /\ \A x, y : Simple(touch_hammerfest_forum_theme_count(x, y))
  /\ \A x, y, z : Simple(touch_hammerfest_forum_theme_page_count(x, y, z))
  /\ \A x, y, z : Simple(touch_hammerfest_forum_thread_page_count(x, y, z))
  /\ \A x : Simple(touch_hammerfest_forum_thread(x))
  /\ \A x, y, z, v, w : Simple(touch_hammerfest_forum_thread_shared_meta(x, y, z, v, w))
  /\ \A x, y, z, v, w : Simple(touch_hammerfest_forum_thread_theme_meta(x, y, z, v, w))
  /\ \A x, y, z, v, w, d : Simple(touch_hammerfest_forum_post(x, y, z, v, w, d))
  /\ \A x : Simple(touch_hammerfest_quest_statuses(x))
  /\ \A x : Simple(touch_hammerfest_unlocked_items(x))
  /\ \A x : Simple(touch_hammerfest_item_counts(x))
  /\ \A x : Simple(touch_email_address(x))
  /\ \A x, y : Simple(touch_hammerfest_tokens(x, y))
  /\ \A x, y, z, v : Simple(touch_hammerfest_profile(x, y, z, v))
  /\ \A x, y : Simple(touch_hammerfest_achievements(x, y))
  /\ \A x, y : Simple(touch_hammerfest_best_season_rank(x, y))
  /\ \A x, y : Simple(touch_hammerfest_forum_role(x, y))
  /\ \A x, y : Simple(touch_hammerfest_inventory(x, y))
  /\ \A x, y : Simple(touch_hammerfest_shop(x, y))
BY WrittenSimple, ArchivedSimple, Tables
DEF Threads, ChildLists, Children, PostIds, Addresses, touch_hammerfest_user,
    touch_hammerfest_forum_theme, touch_hammerfest_forum_theme_count,
    touch_hammerfest_forum_theme_page_count, touch_hammerfest_forum_thread_page_count,
    touch_hammerfest_forum_thread, touch_hammerfest_forum_thread_shared_meta,
    touch_hammerfest_forum_thread_theme_meta, touch_hammerfest_forum_post,
    touch_hammerfest_quest_statuses, touch_hammerfest_unlocked_items,
    touch_hammerfest_item_counts, touch_email_address, touch_hammerfest_tokens,
    touch_hammerfest_profile, touch_hammerfest_achievements,
    touch_hammerfest_best_season_rank, touch_hammerfest_forum_role,
    touch_hammerfest_inventory, touch_hammerfest_shop

(* An address is its own unique value, and the only one that may be not    *)
(* set.                                                                    *)
LEMMA SimpleEmail ==
  ASSUME NEW user, NEW email
  PROVE  Simple(touch_hammerfest_email(user, email))
<1> DEFINE u == touch_hammerfest_email(user, email)[1]
<1>1. /\ touch_hammerfest_email(user, email) = <<u>>
      /\ u.key[1] = Addresses /\ u.data[2] = email
      /\ u.mid = IF email = None THEN None ELSE <<Addresses, email>>
  BY Tables DEF touch_hammerfest_email, Archived, Addresses
<1> HIDE DEF u
<1>2. Shaped(u) /\ Plain(u)
  BY <1>1 DEF Shaped, Plain, MidOf, Addresses, Threads, ChildLists, Children, PostIds
<1>3. QED
  BY <1>1, <1>2, SimpleOne

LEMMA SimplePostId ==
  ASSUME NEW thread, NEW page, NEW offset, NEW id, <<PostIds, id>> # None
  PROVE  Simple(touch_hammerfest_forum_post_id(thread, page, offset, id))
<1> DEFINE a == Archived(PostIds, <<thread, page, offset>>, <<id>>)
           u == [a EXCEPT !.mid = <<PostIds, id>>, !.looked = TRUE]
<1>0. /\ a.key[1] = PostIds /\ a.data[2] = id
      /\ a = [kind |-> a.kind, key |-> a.key, data |-> a.data, mid |-> a.mid, looked |-> a.looked]
  BY Tables DEF Archived
<1>1. /\ touch_hammerfest_forum_post_id(thread, page, offset, id) = <<u>>
      /\ u.key[1] = PostIds /\ u.data[2] = id
      /\ u.mid = <<PostIds, id>>
  <2> HIDE DEF a
  <2>1. u.key = a.key /\ u.data = a.data /\ u.mid = <<PostIds, id>>
    BY <1>0
  <2>2. QED
    BY <1>0, <2>1 DEF touch_hammerfest_forum_post_id, PostIds, a
<1> HIDE DEF u
<1>2. Shaped(u) /\ Plain(u)
  BY <1>1 DEF Shaped, Plain, MidOf, Addresses, Threads, ChildLists, Children, PostIds
<1>3. QED
  BY <1>1, <1>2, SimpleOne

LEMMA SimplePageItem ==
  ASSUME NEW theme, NEW page, NEW offset, NEW thread
  PROVE  Simple(touch_hammerfest_forum_theme_page_item(theme, page, offset, thread))
<1> DEFINE a == Archived(Threads, <<theme, page, offset>>, <<thread>>)
           u == [a EXCEPT !.mid = <<Threads, thread>>]
<1>0. /\ a.key[1] = Threads /\ a.data[2] = thread /\ ~a.looked
      /\ a = [kind |-> a.kind, key |-> a.key, data |-> a.data, mid |-> a.mid, looked |-> a.looked]
  BY Tables DEF Archived
<1>1. /\ touch_hammerfest_forum_theme_page_item(theme, page, offset, thread) = <<u>>
      /\ u.key[1] = Threads /\ u.data[2] = thread /\ ~u.looked
      /\ u.mid = <<Threads, thread>>
  <2> HIDE DEF a
  <2>1. u.key = a.key /\ u.data = a.data /\ u.looked = a.looked /\ u.mid = <<Threads, thread>>
    BY <1>0
  <2>2. QED
    BY <1>0, <2>1 DEF touch_hammerfest_forum_theme_page_item, Threads, a
<1> HIDE DEF u
<1>2. Shaped(u) /\ Plain(u)
  BY <1>1 DEF Shaped, Plain, MidOf, Addresses, Threads, ChildLists, Children, PostIds
<1>3. QED
  BY <1>1, <1>2, SimpleOne

(* A page seen when logged in begins with its reader.                      *)
LEMMA SimpleSession == \A s : Simple(touch_hammerfest_session_user(s))
BY SimpleTouches, SimpleConcat DEF touch_hammerfest_session_user

LEMMA SimpleLogged ==
  \A s : Simple(IfLogged(s, touch_hammerfest_session_user))
BY SimpleSession, SimpleEmpty DEF IfLogged

LEMMA SimpleShortUser == \A r : Simple(hammerfest_touch_short_user(r))
BY SimpleTouches DEF hammerfest_touch_short_user

(* The pages without a list of godchildren.                                *)
LEMMA SimpleShop == \A r : Simple(touch_shop(r))
BY SimpleTouches, SimpleSession, SimpleConcat DEF touch_shop

LEMMA SimpleInventory == \A r : Simple(hammerfest_touch_inventory(r))
BY SimpleTouches, SimpleSession, SimpleConcat DEF hammerfest_touch_inventory

LEMMA SimpleProfile == \A r : Simple(touch_profile(r))
<1> SUFFICES ASSUME NEW r
             PROVE  Simple(touch_profile(r))
  OBVIOUS
<1> DEFINE p == r.profile
           a == IfLogged(r.session, touch_hammerfest_session_user)
           b == touch_hammerfest_user(p.user)
           c == touch_hammerfest_quest_statuses(p.quests)
           d == touch_hammerfest_unlocked_items(p.items)
           e == touch_hammerfest_profile(p.user, p.scores, p.quests, p.items)
           f == IF r.session = None THEN <<>>
                ELSE (IF p.email = None THEN <<>> ELSE touch_email_address(p.email)) \o
                     touch_hammerfest_email(p.user, p.email)
           g == touch_hammerfest_achievements(p.user, p.achievements)
<1>1. Simple(a) /\ Simple(b) /\ Simple(c) /\ Simple(d) /\ Simple(e) /\ Simple(g)
  BY SimpleTouches, SimpleLogged
<1>2. Simple(f)
  <2>1. Simple(touch_hammerfest_email(p.user, p.email))
    BY SimpleEmail
  <2>2. Simple(IF p.email = None THEN <<>> ELSE touch_email_address(p.email))
    BY SimpleTouches, SimpleEmpty
  <2>3. QED
    BY <2>1, <2>2, SimpleConcat, SimpleEmpty
<1>3. touch_profile(r) = a \o b \o c \o d \o e \o f \o g
  BY DEF touch_profile
<1> HIDE DEF a, b, c, d, e, f, g
<1>4. QED
  BY <1>1, <1>2, <1>3, SimpleConcat

LEMMA SimpleThreadPage ==
  ASSUME NEW r \in HammerfestResponses, r.kind = "thread_page"
  PROVE  Simple(touch_thread_page(r))
<1> DEFINE thread == r.thread
           page == r.page1
           posts == r.items
           block(i) ==
             touch_hammerfest_user(posts[i].author) \o
             touch_hammerfest_achievements(posts[i].author, posts[i].achievements) \o
             touch_hammerfest_best_season_rank(posts[i].author, posts[i].rank) \o
             touch_hammerfest_forum_role(posts[i].author, posts[i].role) \o
             touch_hammerfest_forum_post(thread, page, i - 1, posts[i].author, posts[i].ctime,
               posts[i].content) \o
             (IF posts[i].id = None THEN <<>>
              ELSE touch_hammerfest_forum_post_id(thread, page, i - 1, posts[i].id))
           ss == [i \in 1 .. Len(posts) |-> block(i)]
           a == IfLogged(r.session, touch_hammerfest_session_user)
           b == touch_hammerfest_forum_theme(r.theme)
           c == touch_hammerfest_forum_thread(thread)
           d == touch_hammerfest_forum_thread_shared_meta(thread, r.theme, r.title,
                  r.is_closed, r.pages)
           e == touch_hammerfest_forum_thread_page_count(thread, page, Len(posts))
           f == FlattenSeq(ss)
           g == IF r.session = None THEN <<>>
                ELSE touch_hammerfest_forum_role(r.session.user, SessionRole(posts))
<1>1. /\ IsSeq(posts) /\ Len(posts) \in Nat
      /\ \A i \in 1 .. Len(posts) : <<PostIds, posts[i].id>> # None
  BY HammerfestAssumption DEF IsSeq, PostIds
<1>2. Simple(a) /\ Simple(b) /\ Simple(c) /\ Simple(d) /\ Simple(e) /\ Simple(g)
  BY SimpleTouches, SimpleLogged, SimpleEmpty
<1>3. ASSUME NEW i \in 1 .. Len(posts)
      PROVE  Simple(block(i))
  <2> DEFINE last == IF posts[i].id = None THEN <<>>
                     ELSE touch_hammerfest_forum_post_id(thread, page, i - 1, posts[i].id)
  <2>1. Simple(last)
    BY <1>1, SimplePostId, SimpleEmpty
  <2> HIDE DEF last
  <2>2. QED
    BY <2>1, SimpleTouches, SimpleConcat DEF last
<1>4. Simple(f)
  <2> HIDE DEF block
  <2>1. /\ \A i \in 1 .. Len(posts) : ss[i] = block(i)
        /\ Len(ss) = Len(posts)
        /\ Len(posts) = 0 => ss = <<>>
    BY <1>1
  <2> HIDE DEF ss
  <2>2. QED
    BY <1>1, <1>3, <2>1, SimpleEach
<1>5. touch_thread_page(r) = a \o b \o c \o d \o e \o f \o g
  BY DEF touch_thread_page, ForEach, IfLogged
<1> HIDE DEF a, b, c, d, e, f, g
<1>6. QED
  BY <1>2, <1>4, <1>5, SimpleConcat

(* The loop over the threads of a page of a theme.                         *)
LEMMA SimplePageThreads ==
  ASSUME NEW theme, NEW page, NEW list, IsSeq(list)
  PROVE  Simple(PageThreads(theme, page, list))
<1> DEFINE n == Len(list)
           block(i) ==
             touch_hammerfest_forum_thread(list[i].thread) \o
             touch_hammerfest_forum_theme_page_item(theme, page, i - 1, list[i].thread) \o
             touch_hammerfest_forum_thread_shared_meta(list[i].thread, theme,
               list[i].title, list[i].is_closed, list[i].page_count) \o
             touch_hammerfest_user(list[i].author) \o
             touch_hammerfest_forum_role(list[i].author, list[i].role) \o
             touch_hammerfest_forum_thread_theme_meta(list[i].thread, page = 0,
               IF page = 0 THEN None ELSE list[i].latest_post_at, list[i].author,
               list[i].reply_count)
           ss == [i \in 1 .. n |-> block(i)]
           count == touch_hammerfest_forum_theme_page_count(theme, page, n)
<1>1. n \in Nat
  BY DEF IsSeq
<1>2. PageThreads(theme, page, list) = count \o FlattenSeq(ss)
  BY DEF PageThreads, ForEach
<1>3. ASSUME NEW i \in 1 .. n
      PROVE  Simple(block(i))
  BY SimpleTouches, SimplePageItem, SimpleConcat
<1>4. (\A i \in 1 .. n : ss[i] = block(i)) /\ n = Len(ss) /\ (n = 0 => ss = <<>>)
  <2> HIDE DEF block
  <2>1. QED
    BY <1>1
<1> HIDE DEF ss, block
<1>5. Simple(FlattenSeq(ss))
  BY <1>1, <1>3, <1>4, SimpleEach
<1>6. Simple(count)
  BY SimpleTouches
<1> HIDE DEF count
<1>7. QED
  BY <1>2, <1>5, <1>6, SimpleConcat

LEMMA SimpleThemePage ==
  ASSUME NEW r \in HammerfestResponses, r.kind = "theme_page"
  PROVE  Simple(touch_theme_page(r))
<1> DEFINE a == IfLogged(r.session, touch_hammerfest_session_user)
           b == touch_hammerfest_forum_theme(r.theme)
           c == touch_hammerfest_forum_theme_count(r.theme, r.pages)
           d == PageThreads(r.theme, 0, r.sticky)
           e == PageThreads(r.theme, r.page1, r.items)
<1>1. Simple(a) /\ Simple(b) /\ Simple(c)
  BY SimpleTouches, SimpleLogged
<1>2. Simple(d) /\ Simple(e)
  BY HammerfestAssumption, SimplePageThreads
<1>3. touch_theme_page(r) = a \o b \o c \o d \o e
  BY DEF touch_theme_page
<1> HIDE DEF a, b, c, d, e
<1>4. QED
  BY <1>1, <1>2, <1>3, SimpleConcat

(* The identifiers of the tables, written out.                             *)
LEMMA Identifier1 == \A table, a : <<table>> \o <<a>> = <<table, a>>
<1> SUFFICES ASSUME NEW table, NEW a
             PROVE  <<table>> \o <<a>> = <<table, a>>
  OBVIOUS
<1> DEFINE S == {table, a}
           x == <<table>> \o <<a>>
           y == <<table, a>>
<1>1. <<table>> \in Seq(S) /\ <<a>> \in Seq(S) /\ y \in Seq(S) /\ Len(y) = 2
  OBVIOUS
<1>2. x \in Seq(S) /\ Len(x) = 2
  BY <1>1
<1>3. \A i \in 1 .. 2 : x[i] = y[i]
  OBVIOUS
<1> HIDE DEF x, y
<1>4. x = y
  BY <1>1, <1>2, <1>3, SameSeq
<1>5. QED
  BY <1>4 DEF x, y

LEMMA Identifier2 == \A table, a, b : <<table>> \o <<a, b>> = <<table, a, b>>
<1> SUFFICES ASSUME NEW table, NEW a, NEW b
             PROVE  <<table>> \o <<a, b>> = <<table, a, b>>
  OBVIOUS
<1> DEFINE S == {table, a, b}
           x == <<table>> \o <<a, b>>
           y == <<table, a, b>>
<1>1. <<table>> \in Seq(S) /\ <<a, b>> \in Seq(S) /\ y \in Seq(S) /\ Len(y) = 3
  OBVIOUS
<1>2. x \in Seq(S) /\ Len(x) = 3
  BY <1>1
<1>3. \A i \in 1 .. 3 : x[i] = y[i]
  OBVIOUS
<1> HIDE DEF x, y
<1>4. x = y
  BY <1>1, <1>2, <1>3, SameSeq
<1>5. QED
  BY <1>4 DEF x, y

(* Two touches of one page that would give a place twice, place a godchild *)
(* twice, or count a list twice.                                           *)
Repeats == {p \in Touch \X Touch :
              \/ /\ p[1].key[1] = Children /\ p[2].key[1] = Children
                 /\ p[1].key = p[2].key \/ p[1].mid = p[2].mid
              \/ p[1].key[1] = ChildLists /\ p[2].key[1] = ChildLists}

(* A page that shows a list of godchildren shows every place below its     *)
(* length, once, each godchild once, and shows no list of another user.    *)
Family(s) ==
  /\ Ordered(s, Repeats)
  /\ \A u \in ToSet(s) :
       /\ u.key[1] = ChildLists =>
            /\ u.kind = "archive" /\ u.key = <<ChildLists, u.key[2]>>
            /\ u.data[2] \in Nat
            /\ \A k \in 0 .. u.data[2] - 1 :
                 \E v \in ToSet(s) : v.kind = "archive" /\ v.key = <<Children, u.key[2], k>>
       /\ u.key[1] = Children =>
            \E l \in ToSet(s) : l.key[1] = ChildLists /\ l.key[2] = u.key[2]

(* The touches of one item of the list.                                    *)
GodchildBlock(s, U, k, child) ==
  /\ IsSeq(s)
  /\ Ordered(s, Repeats)
  /\ \A u \in ToSet(s) : /\ Shaped(u) /\ u.key[1] # ChildLists
                         /\ u.key[1] = Children => /\ u.key = <<Children, U, k>>
                                                   /\ u.mid = <<Children, child>>
  /\ \E v \in ToSet(s) : v.kind = "archive" /\ v.key = <<Children, U, k>>

(* One item of the list touches its own place with its own godchild.       *)
LEMMA GodchildTouch ==
  ASSUME NEW U, NEW k, NEW child, NEW tokens, <<Children, child>> # None
  PROVE  GodchildBlock(touch_hammerfest_user(child) \o
                       touch_hammerfest_godchild(U, k, child, tokens), U, k, child)
<1> DEFINE b == Archived(Children, <<U, k>>, <<child, tokens>>)
           u == [b EXCEPT !.mid = <<Children, child>>, !.looked = TRUE]
           a == touch_hammerfest_user(child)
<1>1. /\ b.key = <<Children, U, k>> /\ b.data[2] = child /\ b.kind = "archive"
      /\ b = [kind |-> b.kind, key |-> b.key, data |-> b.data, mid |-> b.mid, looked |-> b.looked]
  <2>1. /\ b.key = <<Children>> \o <<U, k>> /\ b.data = <<Children>> \o <<child, tokens>>
        /\ b.kind = "archive"
        /\ b = [kind |-> b.kind, key |-> b.key, data |-> b.data, mid |-> b.mid, looked |-> b.looked]
    BY DEF Archived
  <2> HIDE DEF b
  <2>2. b.key = <<Children, U, k>>
    BY <2>1, Identifier2
  <2>3. b.data[2] = child
    BY <2>1, Tables
  <2>4. QED
    BY <2>1, <2>2, <2>3
<1>2. touch_hammerfest_godchild(U, k, child, tokens) = <<u>>
  BY DEF touch_hammerfest_godchild, Children
<1>3. /\ u.key = b.key /\ u.data = b.data /\ u.mid = <<Children, child>> /\ u.looked
      /\ u.kind = b.kind
  <2> HIDE DEF b
  <2>1. QED
    BY <1>1
<1> HIDE DEF b, u
<1>4. u.key[1] = Children
  BY <1>1, <1>3
<1>5. Shaped(u)
  BY <1>1, <1>3, <1>4 DEF Shaped, MidOf
<1>6. Children # ChildLists
  BY DEF Children, ChildLists
<1>7. Simple(a)
  BY SimpleTouches
<1> HIDE DEF a
<1>9. \A v, w : v.key[1] \notin {ChildLists, Children} \/ w.key[1] \notin {ChildLists, Children}
                => <<v, w>> \notin Repeats
  BY DEF Repeats
<1>10. Ordered(a, Repeats)
  <2>1. \A i \in 1 .. Len(a) : a[i] \in ToSet(a)
    BY <1>7, SeqIsSeq DEF Simple, IsSeq
  <2>2. QED
    BY <1>7, <1>9, <2>1 DEF Ordered, Simple, Plain
<1>11. /\ IsSeq(a \o <<u>>) /\ ToSet(a \o <<u>>) = ToSet(a) \cup {u}
       /\ Ordered(a \o <<u>>, Repeats)
  BY <1>7, <1>9, <1>10, OneIsSeq, ConcatIsSeq DEF Simple, Plain
<1>12. QED
  BY <1>1, <1>2, <1>3, <1>4, <1>5, <1>6, <1>7, <1>11 DEF GodchildBlock, Simple, Plain, a

(* What every page of Hammerfest respects.                                 *)
Ruled(s) ==
  /\ IsSeq(s)
  /\ \A u \in ToSet(s) : Shaped(u)
  /\ Family(s)

(* A page without godchildren respects the rules of the lists.             *)
LEMMA SimpleRuled ==
  ASSUME NEW s, Simple(s)
  PROVE  Ruled(s)
<1>1. \A v, w : v.key[1] \notin {ChildLists, Children} => <<v, w>> \notin Repeats
  BY DEF Repeats
<1>2. \A i \in 1 .. Len(s) : s[i] \in ToSet(s)
  BY SeqIsSeq DEF Simple, IsSeq
<1>3. Ordered(s, Repeats)
  BY <1>1, <1>2 DEF Ordered, Simple, Plain
<1>4. QED
  BY <1>3 DEF Ruled, Simple, Plain, Family

(* The page of the godchildren: its length and then its items, counted     *)
(* from zero, respect the rules of the lists.                              *)
LEMMA GodchildrenRuled ==
  ASSUME NEW r \in HammerfestResponses, r.kind = "godchildren"
  PROVE  Ruled(touch_godchildren(r))
<1> DEFINE U == r.session.user
           list == r.godchildren
           n == Len(list)
           a == touch_hammerfest_session_user(r.session)
           l == Archived(ChildLists, <<U>>, <<n>>)
           block(i) == touch_hammerfest_user(list[i].user) \o
                       touch_hammerfest_godchild(U, i - 1, list[i].user, list[i].tokens)
           ss == [i \in 1 .. n |-> block(i)]
           f == FlattenSeq(ss)
<1>1. /\ IsSeq(list) /\ n \in Nat
      /\ \A i \in 1 .. n : <<Children, list[i].user>> # None
      /\ \A i, j \in 1 .. n : list[i].user = list[j].user => i = j
  BY HammerfestAssumption DEF IsSeq, Children
<1>2. touch_godchildren(r) = a \o <<l>> \o f
  BY DEF touch_godchildren, ForEach, touch_hammerfest_godchild_list, ChildLists
<1>3. \A i \in 1 .. n : GodchildBlock(block(i), U, i - 1, list[i].user)
  BY <1>1, GodchildTouch
<1>4. Simple(a)
  BY SimpleSession
<1>5. /\ l.key = <<ChildLists, U>> /\ l.data[2] = n /\ l.kind = "archive" /\ l.mid = None
      /\ ~l.looked
  <2>1. /\ l.key = <<ChildLists>> \o <<U>> /\ l.data = <<ChildLists>> \o <<n>>
        /\ l.kind = "archive" /\ l.mid = None /\ ~l.looked
    BY DEF Archived
  <2> HIDE DEF l, n
  <2>2. QED
    BY <2>1, Identifier1, Tables
<1>6. (\A i \in 1 .. n : ss[i] = block(i)) /\ n = Len(ss) /\ (n = 0 => ss = <<>>)
  <2> HIDE DEF block
  <2>1. QED
    BY <1>1
<1> HIDE DEF U, list, n, a, l, block, ss
<1>7. l.key[1] = ChildLists /\ l.key[2] = U
  BY <1>5
<1>8. Shaped(l)
  BY <1>5, <1>7 DEF Shaped, MidOf, ChildLists, Threads, PostIds, Children, Addresses
<1>9. \A v, w : v.key[1] \notin {ChildLists, Children} \/ w.key[1] \notin {ChildLists, Children}
                => <<v, w>> \notin Repeats
  BY DEF Repeats
<1>10. \A v, w : v.key[1] = ChildLists /\ w.key[1] # ChildLists => <<v, w>> \notin Repeats
  BY DEF Repeats, ChildLists, Children
<1>12. \A i, j \in 1 .. n : i < j =>
         \A u \in ToSet(ss[i]), v \in ToSet(ss[j]) : <<u, v>> \notin Repeats
  <2> SUFFICES ASSUME NEW i \in 1 .. n, NEW j \in 1 .. n, i < j,
                      NEW u \in ToSet(ss[i]), NEW v \in ToSet(ss[j]), <<u, v>> \in Repeats
               PROVE  FALSE
    OBVIOUS
  <2>1. u.key[1] # ChildLists /\ v.key[1] # ChildLists
    BY <1>3, <1>6 DEF GodchildBlock
  <2>2. u.key[1] = Children /\ v.key[1] = Children /\ (u.key = v.key \/ u.mid = v.mid)
    BY <2>1 DEF Repeats
  <2>3. /\ u.key = <<Children, U, i - 1>> /\ v.key = <<Children, U, j - 1>>
        /\ u.mid = <<Children, list[i].user>> /\ v.mid = <<Children, list[j].user>>
    BY <1>3, <1>6, <2>2 DEF GodchildBlock
  <2>4. i - 1 # j - 1 /\ list[i].user # list[j].user
    BY <1>1
  <2>5. QED
    BY <2>2, <2>3, <2>4
<1>13. /\ IsSeq(f)
       /\ ToSet(f) = UNION {ToSet(ss[i]) : i \in 1 .. n}
       /\ Ordered(f, Repeats)
  <2>1. \A i \in 1 .. n : IsSeq(ss[i]) /\ Ordered(ss[i], Repeats)
    BY <1>3, <1>6 DEF GodchildBlock
  <2>2. QED
    BY <1>1, <1>6, <1>12, <2>1, FlattenIsSeq
<1>14. \A u \in ToSet(f) : /\ Shaped(u) /\ u.key[1] # ChildLists
                           /\ u.key[1] = Children => u.key[2] = U
  BY <1>3, <1>6, <1>13 DEF GodchildBlock
<1>15. \A k \in 0 .. n - 1 : \E v \in ToSet(f) : v.kind = "archive" /\ v.key = <<Children, U, k>>
  <2> SUFFICES ASSUME NEW k \in 0 .. n - 1
               PROVE  \E v \in ToSet(f) : v.kind = "archive" /\ v.key = <<Children, U, k>>
    OBVIOUS
  <2>1. PICK i \in 1 .. n : i - 1 = k
    <3>1. k + 1 \in 1 .. n /\ (k + 1) - 1 = k
      BY <1>1
    <3>2. QED
      BY <3>1
  <2>2. GodchildBlock(ss[i], U, k, list[i].user)
    BY <2>1, <1>3, <1>6
  <2>3. QED
    BY <2>2, <1>13 DEF GodchildBlock
<1>17. Ordered(a, Repeats)
  <2>1. \A i \in 1 .. Len(a) : a[i] \in ToSet(a)
    BY <1>4, SeqIsSeq DEF Simple, IsSeq
  <2>2. QED
    BY <1>4, <1>9, <2>1 DEF Ordered, Simple, Plain
<1> HIDE DEF f
<1>18. /\ IsSeq(a \o <<l>>) /\ ToSet(a \o <<l>>) = ToSet(a) \cup {l}
       /\ Ordered(a \o <<l>>, Repeats)
  BY <1>4, <1>9, <1>17, OneIsSeq, ConcatIsSeq DEF Simple, Plain
<1> DEFINE s == (a \o <<l>>) \o f
<1>19. IsSeq(s) /\ ToSet(s) = ToSet(a) \cup {l} \cup ToSet(f) /\ Ordered(s, Repeats)
  <2>1. \A u \in ToSet(a \o <<l>>), v \in ToSet(f) : <<u, v>> \notin Repeats
    BY <1>4, <1>7, <1>9, <1>10, <1>14, <1>18 DEF Simple, Plain
  <2>2. QED
    BY <1>13, <1>18, <2>1, ConcatIsSeq
<1> HIDE DEF s
<1>20. \A u \in ToSet(s) : Shaped(u)
  BY <1>4, <1>8, <1>14, <1>19 DEF Simple
<1>22. ASSUME NEW u \in ToSet(s), u.key[1] = ChildLists
       PROVE  u = l
  BY <1>4, <1>14, <1>19, <1>22 DEF Simple, Plain
<1>23. ASSUME NEW u \in ToSet(s), u.key[1] = Children
       PROVE  u.key[2] = U
  BY <1>4, <1>7, <1>14, <1>19, <1>23 DEF Simple, Plain, ChildLists, Children
<1>24. Family(s)
  BY <1>1, <1>5, <1>7, <1>15, <1>19, <1>22, <1>23 DEF Family
<1>25. Ruled(s)
  BY <1>19, <1>20, <1>24 DEF Ruled
<1>26. QED
  BY <1>2, <1>25 DEF s

(* Every page that the store archives respects the rules, whatever the     *)
(* game shows.                                                             *)
LEMMA HammerfestRuled == \A program \in HammerfestPrograms : Ruled(program)
<1> SUFFICES ASSUME NEW r \in HammerfestResponses
             PROVE  Ruled(HammerfestProgram(r))
  BY DEF HammerfestPrograms
<1>1. \A s : Simple(s) => Ruled(s)
  BY SimpleRuled
<1>2. r.kind \in {"short_user", "shop", "profile", "inventory", "godchildren",
                  "theme_page", "thread_page"}
  BY HammerfestAssumption
<1>3. Ruled(hammerfest_touch_short_user(r)) /\ Ruled(touch_shop(r)) /\ Ruled(touch_profile(r))
      /\ Ruled(hammerfest_touch_inventory(r))
  BY <1>1, SimpleShortUser, SimpleShop, SimpleProfile, SimpleInventory
<1>4. r.kind = "godchildren" => Ruled(touch_godchildren(r))
  BY GodchildrenRuled
<1>5. r.kind = "theme_page" => Ruled(touch_theme_page(r))
  BY <1>1, SimpleThemePage
<1>6. r.kind = "thread_page" => Ruled(touch_thread_page(r))
  BY <1>1, SimpleThreadPage
<1>7. QED
  BY <1>2, <1>3, <1>4, <1>5, <1>6 DEF HammerfestProgram

-----------------------------------------------------------------------------
(***************************************************************************)
(* What one touch does to the rows, and where each committed row comes     *)
(* from.                                                                   *)
(***************************************************************************)

(* What each touch of a page keeps, from the one at a on, the page keeps.  *)
LEMMA PathKeeps ==
  ASSUME NEW path, NEW S, NEW program \in Seq(Touch), NEW t \in Instants,
         Path(path, S, program, t), Sound(S), NEW a \in 0 .. Len(program), NEW Good,
         path[a] \in Good,
         \A W \in Good : Sound(W) =>
           \A i \in a + 1 .. Len(program) : program[i].kind = "archive" =>
             \A W2 \in After(W, program[i], t) : W2 \in Good
  PROVE  path[Len(program)] \in Good
<1> DEFINE n == Len(program)
           G == {i \in 0 .. n : i >= a => path[i] \in Good}
<1>1. n \in Nat
  OBVIOUS
<1>2. 0 \in G
  BY <1>1
<1>3. ASSUME NEW i \in 1 .. n, i - 1 \in G
      PROVE  i \in G
  <2>1. i - 1 \in 0 .. n /\ i \in 0 .. n /\ program[i] \in Touch
    BY <1>1
  <2>2. CASE i <= a
    BY <1>1, <2>1, <2>2
  <2>3. CASE a < i
    <3>1. i \in a + 1 .. n /\ i - 1 >= a
      BY <1>1, <2>1, <2>3
    <3>2. path[i - 1] \in Good /\ Sound(path[i - 1])
      BY <1>3, <2>1, <3>1, PathSound
    <3>3. path[i] \in After(path[i - 1], program[i], t)
      BY DEF Path
    <3>4. path[i] \in Good
      BY <3>1, <3>2, <3>3, AfterRefused
    <3>5. QED
      BY <2>1, <3>4
  <2>4. QED
    BY <1>1, <2>1, <2>2, <2>3
<1> HIDE DEF G
<1>4. \A i \in 0 .. n : i \in G
  BY <1>1, <1>2, <1>3, UpTo
<1>5. QED
  BY <1>1, <1>4 DEF G

(* What each touch of a page keeps, its commit keeps.                      *)
LEMMA CommitKeeps ==
  ASSUME Typed, Serial, TablesSound, NEW c \in Calls, Commit(c), NEW Good, rows \in Good,
         \A W \in Good : Sound(W) =>
           \A u \in ToSet(tx[c].program) : u \in Touch /\ u.kind = "archive" =>
             \A W2 \in After(W, u, tx[c].now) : W2 \in Good
  PROVE  rows' \in Good
<1> DEFINE program == tx[c].program
           t == tx[c].now
<1>1. program \in Seq(Touch) /\ t \in Instants
  BY CommitWalks
<1>2. PICK path : Path(path, rows, program, t) /\ path[Len(program)] = rows'
  BY CommitWalks
<1> HIDE DEF program, t
<1>3. \A i \in 1 .. Len(program) : program[i] \in ToSet(program) /\ program[i] \in Touch
  BY <1>1, SeqIsSeq
<1>4. 0 \in 0 .. Len(program) /\ path[0] = rows /\ 0 + 1 = 1
  BY <1>1, <1>2 DEF Path
<1>5. \A W \in Good : Sound(W) =>
        \A i \in 0 + 1 .. Len(program) : program[i].kind = "archive" =>
          \A W2 \in After(W, program[i], t) : W2 \in Good
  BY <1>3, <1>4 DEF program, t
<1>6. Sound(rows)
  BY DEF TablesSound
<1>7. path[Len(program)] \in Good
  BY <1>1, <1>2, <1>4, <1>5, <1>6, PathKeeps
<1>8. QED
  BY <1>2, <1>7

(* Rows that a constraint compares do not begin together.                  *)
LEMMA SameStart ==
  ASSUME NEW W, Sound(W), NEW a \in W, NEW b \in W, Alike(a, b), a.lower = b.lower
  PROVE  a = b
<1>1. Exclusive(W) /\ W \in SUBSET Row /\ a.lower < a.upper /\ b.lower < b.upper
  BY DEF Sound
<1>2. a.lower \in Nat /\ b.lower \in Nat /\ a.upper \in Nat /\ b.upper \in Nat
  BY <1>1, ArchiveAssumption DEF Row, Instants, Forever
<1>3. ~Disjoint(a, b)
  BY <1>1, <1>2 DEF Disjoint
<1>4. QED
  BY <1>1, <1>3 DEF Exclusive

(* Rows that a constraint compares are not both current.                   *)
LEMMA OneOpen ==
  ASSUME NEW W, Sound(W), NEW a \in W, NEW b \in W, Alike(a, b),
         a.upper = Forever, b.upper = Forever
  PROVE  a = b
<1>1. Exclusive(W) /\ W \in SUBSET Row /\ a.lower < a.upper /\ b.lower < b.upper
  BY DEF Sound
<1>2. a.lower \in Nat /\ b.lower \in Nat /\ a.upper \in Nat /\ b.upper \in Nat
  BY <1>1, ArchiveAssumption DEF Row, Instants, Forever
<1>3. ~Disjoint(a, b)
  BY <1>1, <1>2 DEF Disjoint
<1>4. QED
  BY <1>1, <1>3 DEF Exclusive

(* What a touch that succeeds does to each row, and where each row comes    *)
(* from.                                                                   *)
LEMMA TouchRows ==
  ASSUME NEW W, Sound(W), NEW u \in Touch, u.kind = "archive",
         NEW t \in Instants, NEW W2 \in After(W, u, t)
  PROVE  /\ Sound(W2)
         /\ \A r \in W :
              \/ r \in W2
              \/ /\ r.upper = Forever /\ r.key = u.key /\ r.data = u.data
                 /\ u.looked => r.mid = u.mid /\ u.mid # None
                 /\ Refreshed(r, t) \in W2
                 /\ SameRow(r, Refreshed(r, t)) /\ Refreshed(r, t).upper = Forever
              \/ /\ r.upper = Forever /\ r.lower < t
                 /\ \/ /\ r.key = u.key
                       /\ r.data = u.data => u.looked /\ (u.mid = None \/ r.mid # u.mid)
                    \/ r.key # u.key /\ u.looked /\ u.mid # None /\ r.mid = u.mid
                 /\ Closed(r, t) \in W2 /\ NewRow(u, t) \in W2
                 /\ SameRow(r, Closed(r, t)) /\ Closed(r, t).upper = t
         /\ \A s \in W2 :
              \/ s \in W
              \/ \E r \in W : /\ r.upper = Forever /\ SameRow(r, s) /\ s.upper = Forever
                              /\ s = Refreshed(r, t)
              \/ \E r \in W : r.upper = Forever /\ SameRow(r, s) /\ s.upper = t
              \/ s = NewRow(u, t)
         /\ \E s \in W2 : /\ s.upper = Forever /\ s.key = u.key /\ s.data = u.data
                          /\ u.looked => s.mid = u.mid
<1>1. /\ Sound(W2)
      /\ Allowed(W, u, t)
      /\ Matching(W, u) = {} => NewRow(u, t) \in W2
      /\ \A r \in W \ Taken(W, u) : r \in W2
      /\ \A r \in Matching(W, u) : Refreshed(r, t) \in W2
      /\ \A s \in W2 :
           \/ s \in W \ Taken(W, u)
           \/ \E r \in Matching(W, u) : s = Refreshed(r, t)
           \/ /\ Matching(W, u) = {}
              /\ s = NewRow(u, t) \/ \E r \in CurrentRows(W, u) : s = Closed(r, t)
  BY AfterVersions
<1>2. W \in SUBSET Row
  BY DEF Sound
<1>3. Matching(W, u) \subseteq W /\ CurrentRows(W, u) \subseteq W
      /\ \A r \in CurrentRows(W, u) : r.upper = Forever
  BY <1>2, TakenOpen
<1>4. \A r \in W : /\ SameRow(r, Refreshed(r, t)) /\ SameRow(r, Closed(r, t))
                   /\ Refreshed(r, t).upper = r.upper /\ Closed(r, t).upper = t
  BY <1>2, RowVersions DEF SameRow
<1>5. \A r \in Matching(W, u) : /\ r.upper = Forever /\ r.key = u.key /\ r.data = u.data
                                /\ u.looked => r.mid = u.mid /\ u.mid # None
  BY DEF Matching, CurrentPrimary, CurrentUnique, Open
<1>6. Matching(W, u) = {} => /\ Taken(W, u) = CurrentRows(W, u)
                             /\ \A r \in CurrentRows(W, u) : r.lower < t /\ Closed(r, t) \in W2
  BY <1>1 DEF Taken, Allowed, After, Put
<1>7. \A r \in CurrentRows(W, u) :
        \/ r.key = u.key
        \/ r.key # u.key /\ u.looked /\ u.mid # None /\ r.mid = u.mid
  BY DEF CurrentRows, CurrentPrimary, CurrentUnique
<1>8. \A r \in CurrentRows(W, u) :
        r \notin Matching(W, u) /\ r.key = u.key /\ r.data = u.data =>
          u.looked /\ (u.mid = None \/ r.mid # u.mid)
  BY DEF CurrentRows, CurrentPrimary, CurrentUnique, Matching, Open
<1>9. Matching(W, u) # {} => Taken(W, u) = Matching(W, u)
  BY DEF Taken
<1>10. /\ NewRow(u, t).upper = Forever /\ NewRow(u, t).key = u.key
       /\ NewRow(u, t).data = u.data /\ NewRow(u, t).mid = u.mid
  BY DEF NewRow
<1>11. ASSUME NEW r \in W
       PROVE  \/ r \in W2
              \/ /\ r.upper = Forever /\ r.key = u.key /\ r.data = u.data
                 /\ u.looked => r.mid = u.mid /\ u.mid # None
                 /\ Refreshed(r, t) \in W2
                 /\ SameRow(r, Refreshed(r, t)) /\ Refreshed(r, t).upper = Forever
              \/ /\ r.upper = Forever /\ r.lower < t
                 /\ \/ /\ r.key = u.key
                       /\ r.data = u.data => u.looked /\ (u.mid = None \/ r.mid # u.mid)
                    \/ r.key # u.key /\ u.looked /\ u.mid # None /\ r.mid = u.mid
                 /\ Closed(r, t) \in W2 /\ NewRow(u, t) \in W2
                 /\ SameRow(r, Closed(r, t)) /\ Closed(r, t).upper = t
  <2>1. CASE r \notin Taken(W, u)
    BY <1>1, <2>1
  <2>2. CASE r \in Matching(W, u)
    BY <1>1, <1>4, <1>5, <2>2
  <2>3. CASE Matching(W, u) = {} /\ r \in CurrentRows(W, u)
    BY <1>1, <1>3, <1>4, <1>6, <1>7, <1>8, <2>3
  <2>4. QED
    BY <1>6, <1>9, <2>1, <2>2, <2>3
<1>12. \A s \in W2 :
         \/ s \in W
         \/ \E r \in W : /\ r.upper = Forever /\ SameRow(r, s) /\ s.upper = Forever
                         /\ s = Refreshed(r, t)
         \/ \E r \in W : r.upper = Forever /\ SameRow(r, s) /\ s.upper = t
         \/ s = NewRow(u, t)
  BY <1>1, <1>3, <1>4, <1>5
<1>13. \E s \in W2 : /\ s.upper = Forever /\ s.key = u.key /\ s.data = u.data
                     /\ u.looked => s.mid = u.mid
  <2>1. CASE Matching(W, u) = {}
    BY <1>1, <1>10, <2>1
  <2>2. CASE Matching(W, u) # {}
    <3>1. PICK r \in Matching(W, u) : TRUE
      BY <2>2
    <3>2. Refreshed(r, t) \in W2 /\ r \in W
      BY <1>1, <1>3
    <3>3. QED
      BY <1>4, <1>5, <3>2 DEF SameRow
  <2>3. QED
    BY <2>1, <2>2
<1>14. QED
  BY <1>1, <1>11, <1>12, <1>13

(* The row says what the touch says.                                       *)
Versions(r, u) == r.key = u.key /\ r.data = u.data /\ r.mid = u.mid

(* Every row was said by a page.                                           *)
Traced == \A r \in rows : \E program \in Programs : \E u \in ToSet(program) :
            u.kind = "archive" /\ Versions(r, u)

(* A commit only adds rows that its page says, and closes or refreshes     *)
(* others.                                                                 *)
LEMMA TracedStep == Typed /\ Serial /\ TablesSound /\ Traced /\ [Next]_vars => Traced'
<1> SUFFICES ASSUME Typed, Serial, TablesSound, Traced, [Next]_vars
             PROVE  Traced'
  OBVIOUS
<1> DEFINE Source(r) == \E program \in Programs : \E u \in ToSet(program) :
                          u.kind = "archive" /\ Versions(r, u)
           Good == {W \in SUBSET Row : \A r \in W : Source(r)}
<1>1. ASSUME NEW c \in Calls, Commit(c)
      PROVE  rows' \in Good
  <2>1. rows \in Good
    BY DEF TablesSound, Sound, Traced
  <2>2. tx[c].program \in Programs /\ tx[c].now \in Instants
    BY <1>1, CommitWalks
  <2>3. ASSUME NEW W \in Good, Sound(W), NEW u \in ToSet(tx[c].program), u \in Touch,
               u.kind = "archive", NEW W2 \in After(W, u, tx[c].now)
        PROVE  W2 \in Good
    <3>1. /\ Sound(W2)
          /\ \A s \in W2 :
               \/ s \in W
               \/ \E r \in Matching(W, u) : s = Refreshed(r, tx[c].now)
               \/ s = NewRow(u, tx[c].now)
               \/ \E r \in CurrentRows(W, u) : s = Closed(r, tx[c].now)
      BY <2>2, <2>3, AfterVersions
    <3>2. Matching(W, u) \subseteq W /\ CurrentRows(W, u) \subseteq W /\ W \in SUBSET Row
      BY <2>3, TakenOpen DEF Sound
    <3>3. \A r \in W : /\ SameRow(r, Refreshed(r, tx[c].now))
                       /\ SameRow(r, Closed(r, tx[c].now))
      BY <2>2, <3>2, RowVersions DEF SameRow
    <3>4. Versions(NewRow(u, tx[c].now), u)
      BY DEF Versions, NewRow
    <3>5. Source(NewRow(u, tx[c].now))
      BY <2>2, <2>3, <3>4
    <3>6. \A r, s : SameRow(r, s) /\ Source(r) => Source(s)
      BY DEF SameRow, Versions
    <3>7. \A r \in W : Source(r)
      BY <2>3
    <3> HIDE DEF Source
    <3>8. \A s \in W2 : Source(s)
      BY <3>1, <3>2, <3>3, <3>5, <3>6, <3>7
    <3>9. QED
      BY <3>1, <3>8 DEF Sound
  <2> HIDE DEF Good
  <2>4. QED
    BY <1>1, <2>1, <2>3, CommitKeeps
<1>2. QED
  BY <1>1, OnlyCommits DEF Traced

(* Every committed row was said by a page, at any time.                    *)
LEMMA Sources == Spec => [](Typed /\ Serial /\ TablesSound /\ Traced)
<1>1. Init => Traced
  BY DEF Init, Traced
<1>2. QED
  BY <1>1, TracedStep, Soundness, PTL DEF Spec

(* A row carries the unique value that its data says.                      *)
OwnMid(r) == r.mid = MidOf(r.key[1], r.data[2])

(* What made way for a row that begins.                                    *)
Follows(r, w) ==
  \/ r.key = w.key /\ (r.data # w.data \/ (r.key[1] = Addresses /\ r.mid = None))
  \/ r.key # w.key /\ w.mid = r.mid /\ r.mid # None

(* Every row carries its own unique value.                                 *)
OwnMids == \A r \in rows : OwnMid(r)

(* A row was closed only because another took its place or its value.      *)
Replaced == \A r \in rows : r.upper # Forever =>
              \E w \in rows : w.lower = r.upper /\ Follows(r, w)

(* Each touch closes a row only to insert the one that makes it false, and *)
(* a row closed earlier keeps the one that made way for it: this is what   *)
(* upsert_archive_query promises of the rows it closes, carried through    *)
(* whole pages.                                                            *)
LEMMA ReplacedStep ==
  ASSUME Programs \subseteq HammerfestPrograms
  PROVE  Typed /\ Serial /\ TablesSound /\ OwnMids /\ Replaced /\ [Next]_vars
           => OwnMids' /\ Replaced'
<1> SUFFICES ASSUME Typed, Serial, TablesSound, OwnMids, Replaced, [Next]_vars
             PROVE  OwnMids' /\ Replaced'
  OBVIOUS
<1> DEFINE Good == {W \in SUBSET Row :
                      /\ \A r \in W : OwnMid(r)
                      /\ \A r \in W : r.upper # Forever =>
                           \E w \in W : w.lower = r.upper /\ Follows(r, w)}
<1>1. ASSUME NEW c \in Calls, Commit(c)
      PROVE  rows' \in Good
  <2> DEFINE t == tx[c].now
  <2>1. rows \in Good
    BY DEF TablesSound, Sound, OwnMids, Replaced
  <2>2. tx[c].program \in Programs /\ t \in Instants
    BY <1>1, CommitWalks
  <2>3. \A u \in ToSet(tx[c].program) : Shaped(u)
    BY <2>2, HammerfestRuled DEF Ruled
  <2>4. ASSUME NEW W \in Good, Sound(W), NEW u \in ToSet(tx[c].program), u \in Touch,
               u.kind = "archive", NEW W2 \in After(W, u, t)
        PROVE  W2 \in Good
    <3> HIDE DEF t
    <3>1. /\ Sound(W2)
          /\ \A r \in W :
               \/ r \in W2
               \/ /\ r.upper = Forever
                  /\ Refreshed(r, t) \in W2
                  /\ SameRow(r, Refreshed(r, t)) /\ Refreshed(r, t).upper = Forever
               \/ /\ r.upper = Forever
                  /\ \/ /\ r.key = u.key
                        /\ r.data = u.data => u.looked /\ (u.mid = None \/ r.mid # u.mid)
                     \/ r.key # u.key /\ u.looked /\ u.mid # None /\ r.mid = u.mid
                  /\ Closed(r, t) \in W2 /\ NewRow(u, t) \in W2
                  /\ SameRow(r, Closed(r, t)) /\ Closed(r, t).upper = t
      BY <2>2, <2>4, TouchRows
    <3>2. /\ \A s \in W2 :
               \/ s \in W
               \/ \E r \in W : r.upper = Forever /\ SameRow(r, s) /\ s.upper = Forever
               \/ \E r \in W : r.upper = Forever /\ SameRow(r, s) /\ s.upper = t
               \/ s = NewRow(u, t)
          /\ W2 \in SUBSET Row
      BY <2>2, <2>4, TouchRows DEF Sound
    <3>3. /\ NewRow(u, t).upper = Forever /\ NewRow(u, t).key = u.key
          /\ NewRow(u, t).data = u.data /\ NewRow(u, t).mid = u.mid
          /\ NewRow(u, t).lower = t
      BY DEF NewRow
    <3>4. u.mid = MidOf(u.key[1], u.data[2]) /\ (u.looked /\ u.mid = None => u.key[1] = Addresses)
      BY <2>3, <2>4 DEF Shaped
    <3>5. \A r \in W : OwnMid(r)
      OBVIOUS
    <3>6. \A s \in W2 : OwnMid(s)
      BY <3>2, <3>3, <3>4, <3>5 DEF OwnMid, SameRow
    <3>7. ASSUME NEW s \in W2, s.upper # Forever
          PROVE  \E w \in W2 : w.lower = s.upper /\ Follows(s, w)
      <4>1. CASE s \in W
        <5>1. PICK w \in W : w.lower = s.upper /\ Follows(s, w)
          BY <3>7, <4>1
        <5>2. \E v \in W2 : SameRow(w, v)
          BY <3>1 DEF SameRow
        <5>3. QED
          BY <5>1, <5>2 DEF SameRow, Follows
      <4>2. CASE s \notin W
        <5>1. PICK r \in W : r.upper = Forever /\ SameRow(r, s) /\ s.upper = t
          BY <3>2, <3>3, <3>7, <4>2
        <5>2. r \notin W2 /\ Closed(r, t) \in W2 /\ NewRow(u, t) \in W2
              /\ \/ /\ r.key = u.key
                    /\ r.data = u.data => u.looked /\ (u.mid = None \/ r.mid # u.mid)
                 \/ r.key # u.key /\ u.looked /\ u.mid # None /\ r.mid = u.mid
          <6>1. s # r
            BY <4>2
          <6>2. \A a, b \in W2 : SameRow(a, b) => a = b
            BY <3>1, SameStart DEF SameRow, Alike
          <6>3. r \notin W2
            BY <5>1, <6>1, <6>2
          <6>4. ~(Refreshed(r, t) \in W2 /\ SameRow(r, Refreshed(r, t)) /\ Refreshed(r, t).upper = Forever)
            <7>1. SUFFICES ASSUME Refreshed(r, t) \in W2, SameRow(r, Refreshed(r, t)),
                                  Refreshed(r, t).upper = Forever
                           PROVE  FALSE
              OBVIOUS
            <7>2. SameRow(Refreshed(r, t), s)
              BY <5>1, <7>1 DEF SameRow
            <7>3. QED
              BY <6>2, <7>1, <7>2, <3>7
          <6>5. QED
            BY <3>1, <6>3, <6>4
        <5>3. Follows(r, NewRow(u, t))
          <6>1. r.key = u.key /\ r.data = u.data => r.mid = u.mid
            BY <3>4, <3>5 DEF OwnMid
          <6>2. QED
            BY <3>3, <3>4, <5>2, <6>1 DEF Follows
        <5>4. QED
          BY <3>3, <5>1, <5>2, <5>3 DEF Follows, SameRow
      <4>3. QED
        BY <4>1, <4>2
    <3>8. QED
      BY <3>2, <3>6, <3>7
  <2> HIDE DEF Good
  <2>5. QED
    BY <1>1, <2>1, <2>4, CommitKeeps
<1>2. QED
  BY <1>1, OnlyCommits DEF OwnMids, Replaced

(* Two rows of one key that follow at once differ: the row that began when *)
(* the first was closed contends with the second, so it is the second.     *)
LEMMA Changes ==
  ASSUME TablesSound, OwnMids, Replaced
  PROVE  RowsAreChanges
<1> SUFFICES ASSUME NEW r \in rows, NEW s \in rows, r.key = s.key, r.upper = s.lower,
                    r.data = s.data
             PROVE  r.key[1] = "hammerfest_emails" /\ r.mid = None
  BY DEF RowsAreChanges
<1>1. rows \in SUBSET Row /\ Exclusive(rows) /\ \A a \in rows : a.lower < a.upper
  BY DEF TablesSound, Sound
<1>2. r.upper # Forever
  BY <1>1, ArchiveAssumption DEF Row, Instants, Forever
<1>3. PICK w \in rows : w.lower = r.upper /\ Follows(r, w)
  BY <1>2 DEF Replaced
<1>4. r.mid = s.mid
  BY DEF OwnMids, OwnMid
<1>5. Alike(w, s)
  BY <1>3, <1>4 DEF Follows, Alike
<1>6. w = s
  BY <1>3, <1>5, SameStart DEF TablesSound
<1>7. QED
  BY <1>3, <1>6 DEF Follows, Addresses

(* Every table of Hammerfest holds changes only: a row that follows        *)
(* another of its key without a gap says something else, for any pages,    *)
(* any number of calls and any clock. The one exception is the address     *)
(* that is not set, which NULL keeps from matching its own row             *)
(* (upsert_archive_query compares with = and not with IS NOT DISTINCT      *)
(* FROM).                                                                  *)
THEOREM HammerfestRowsAreChanges ==
  ASSUME Programs \subseteq HammerfestPrograms
  PROVE  Spec => []RowsAreChanges
<1>1. Init => OwnMids /\ Replaced
  BY DEF Init, OwnMids, Replaced
<1>2. Typed /\ Serial /\ TablesSound /\ OwnMids /\ Replaced /\ [Next]_vars => OwnMids' /\ Replaced'
  BY ReplacedStep
<1>3. TablesSound /\ OwnMids /\ Replaced => RowsAreChanges
  BY Changes
<1>4. QED
  BY <1>1, <1>2, <1>3, Soundness, PTL DEF Spec

-----------------------------------------------------------------------------
(***************************************************************************)
(* The lists of godchildren.                                               *)
(***************************************************************************)

(* The value of the row is current, though it may have been seen again     *)
(* since.                                                                  *)
Current(W, r) == \E x \in W : x.upper = Forever /\ SameRow(r, x)

(* What each touch of a page keeps holds after each of them.               *)
LEMMA PathHolds ==
  ASSUME NEW path, NEW S, NEW program \in Seq(Touch), NEW t \in Instants,
         Path(path, S, program, t), Sound(S), NEW a \in 0 .. Len(program), NEW Good,
         path[a] \in Good,
         \A i \in a + 1 .. Len(program) :
           program[i].kind = "archive" /\ path[i - 1] \in Good => path[i] \in Good
  PROVE  \A i \in a .. Len(program) : path[i] \in Good
<1> DEFINE n == Len(program)
           G == {i \in 0 .. n : i >= a => path[i] \in Good}
<1>1. n \in Nat
  OBVIOUS
<1>2. 0 \in G
  BY <1>1
<1>3. ASSUME NEW i \in 1 .. n, i - 1 \in G
      PROVE  i \in G
  <2>1. i - 1 \in 0 .. n /\ i \in 0 .. n /\ program[i] \in Touch
    BY <1>1
  <2>2. CASE i <= a
    BY <1>1, <2>1, <2>2
  <2>3. CASE a < i
    <3>1. i \in a + 1 .. n /\ i - 1 >= a
      BY <1>1, <2>1, <2>3
    <3>2. path[i - 1] \in Good
      BY <1>3, <2>1, <3>1
    <3>3. path[i] \in After(path[i - 1], program[i], t)
      BY DEF Path
    <3>4. path[i] \in Good
      BY <3>1, <3>2, <3>3, AfterRefused
    <3>5. QED
      BY <2>1, <3>4
  <2>4. QED
    BY <1>1, <2>1, <2>2, <2>3
<1> HIDE DEF G
<1>4. \A i \in 0 .. n : i \in G
  BY <1>1, <1>2, <1>3, UpTo
<1>5. QED
  BY <1>1, <1>4 DEF G

(* A touch carries the unique value that its data says.                    *)
LEMMA OwnMidTouch ==
  ASSUME NEW W, Sound(W), NEW u \in Touch, u.kind = "archive", Shaped(u),
         NEW t \in Instants, NEW W2 \in After(W, u, t), \A r \in W : OwnMid(r)
  PROVE  \A r \in W2 : OwnMid(r)
<1>1. \A s \in W2 : \/ s \in W
                    \/ \E r \in W : SameRow(r, s)
                    \/ s = NewRow(u, t)
  BY TouchRows
<1>2. OwnMid(NewRow(u, t))
  BY DEF OwnMid, Shaped, NewRow
<1>3. QED
  BY <1>1, <1>2 DEF OwnMid, SameRow

(* All along a page the rows carry the unique value their data says.       *)
LEMMA PathOwn ==
  ASSUME NEW path, NEW S, NEW program \in Seq(Touch), NEW t \in Instants,
         Path(path, S, program, t), Sound(S), Ruled(program), \A r \in S : OwnMid(r)
  PROVE  \A i \in 0 .. Len(program) : \A r \in path[i] : OwnMid(r)
<1> DEFINE n == Len(program)
           Good == {W \in SUBSET Row : \A r \in W : OwnMid(r)}
<1>1. n \in Nat /\ \A i \in 0 .. n : Sound(path[i])
  BY PathSound
<1>2. \A i \in 1 .. n : program[i] \in Touch /\ Shaped(program[i]) /\ i - 1 \in 0 .. n /\ i \in 0 .. n
  BY <1>1, SeqIsSeq DEF Ruled
<1>3. 0 \in 0 .. n /\ path[0] \in Good
  BY <1>1 DEF Path, Sound
<1>4. ASSUME NEW i \in 0 + 1 .. n, program[i].kind = "archive", path[i - 1] \in Good
      PROVE  path[i] \in Good
  <2>1. i \in 1 .. n
    OBVIOUS
  <2>2. path[i] \in After(path[i - 1], program[i], t)
    BY <2>1 DEF Path
  <2>3. \A r \in path[i] : OwnMid(r)
    BY <1>1, <1>2, <1>4, <2>1, <2>2, OwnMidTouch
  <2>4. QED
    BY <1>1, <1>2, <2>1, <2>3 DEF Sound
<1> HIDE DEF Good
<1>5. \A i \in 0 .. n : path[i] \in Good
  BY <1>3, <1>4, PathHolds
<1>6. QED
  BY <1>5 DEF Good

(* A row stays current through touches of other identifiers and other      *)
(* unique values.                                                          *)
LEMMA StaysCurrent ==
  ASSUME NEW path, NEW S, NEW program \in Seq(Touch), NEW t \in Instants,
         Path(path, S, program, t), Sound(S), NEW a \in 0 .. Len(program),
         NEW x \in path[a], x.upper = Forever,
         \A i \in a + 1 .. Len(program) : program[i].kind = "archive" =>
           /\ program[i].key # x.key
           /\ program[i].looked /\ program[i].mid # None => program[i].mid # x.mid
  PROVE  \E y \in path[Len(program)] : y.upper = Forever /\ SameRow(x, y)
<1> DEFINE n == Len(program)
           Good == {W \in SUBSET Row : Current(W, x)}
<1>1. n \in Nat /\ \A i \in 0 .. n : Sound(path[i])
  BY PathSound
<1>2. path[a] \in Good
  BY <1>1 DEF Sound, Current, SameRow
<1>3. ASSUME NEW i \in a + 1 .. n, program[i].kind = "archive", path[i - 1] \in Good
      PROVE  path[i] \in Good
  <2>1. i \in 1 .. n /\ i - 1 \in 0 .. n /\ i \in 0 .. n /\ program[i] \in Touch
    BY <1>1
  <2>2. path[i] \in After(path[i - 1], program[i], t)
    BY <2>1 DEF Path
  <2>3. PICK y \in path[i - 1] : y.upper = Forever /\ SameRow(x, y)
    BY <1>3 DEF Current
  <2>4. \/ y \in path[i]
        \/ /\ Refreshed(y, t) \in path[i]
           /\ SameRow(y, Refreshed(y, t)) /\ Refreshed(y, t).upper = Forever
        \/ y.key = program[i].key
        \/ program[i].looked /\ program[i].mid # None /\ y.mid = program[i].mid
    BY <1>1, <1>3, <2>1, <2>2, TouchRows
  <2>5. y.key = x.key /\ y.mid = x.mid
    BY <2>3 DEF SameRow
  <2>6. \E z \in path[i] : z.upper = Forever /\ SameRow(x, z)
    BY <1>3, <2>3, <2>4, <2>5 DEF SameRow
  <2>7. QED
    BY <1>1, <2>1, <2>6 DEF Current, Sound
<1> HIDE DEF Good
<1>4. path[n] \in Good
  <2>1. n \in a .. n
    BY <1>1
  <2>2. QED
    BY <1>2, <1>3, <2>1, PathHolds
<1>5. QED
  BY <1>4 DEF Good, Current

(* Place k of the list of U is filled, or was left for the list of another *)
(* user.                                                                   *)
Kept(S, U, k) ==
  \/ \E r \in S : r.upper = Forever /\ r.key[1] = Children /\ r.key[2] = U /\ r.key[3] = k
  \/ \E r, s \in S : /\ r.key[1] = Children /\ r.key[2] = U /\ r.key[3] = k
                     /\ s.key[1] = Children /\ s.mid = r.mid
                     /\ s.lower = r.upper /\ s.key[2] # U

(* A touch about the list of another user keeps that: a godchild it takes  *)
(* away goes to the other list at that instant.                            *)
LEMMA KeptTouch ==
  ASSUME NEW W, Sound(W), NEW u \in Touch, u.kind = "archive", Shaped(u),
         NEW t \in Instants, NEW W2 \in After(W, u, t), \A r \in W : OwnMid(r),
         NEW U, NEW k, u.key[1] = Children => u.key[2] # U, Kept(W, U, k)
  PROVE  Kept(W2, U, k)
<1>1. /\ \A r \in W :
           \/ r \in W2
           \/ /\ r.upper = Forever
              /\ Refreshed(r, t) \in W2
              /\ SameRow(r, Refreshed(r, t)) /\ Refreshed(r, t).upper = Forever
           \/ /\ r.upper = Forever
              /\ r.key = u.key \/ (u.looked /\ u.mid # None /\ r.mid = u.mid)
              /\ Closed(r, t) \in W2 /\ NewRow(u, t) \in W2
              /\ SameRow(r, Closed(r, t)) /\ Closed(r, t).upper = t
  BY TouchRows
<1>2. NewRow(u, t).key = u.key /\ NewRow(u, t).mid = u.mid /\ NewRow(u, t).lower = t
  BY DEF NewRow
<1>3. CASE \E r \in W : r.upper = Forever /\ r.key[1] = Children /\ r.key[2] = U /\ r.key[3] = k
  <2>1. PICK r \in W : r.upper = Forever /\ r.key[1] = Children /\ r.key[2] = U /\ r.key[3] = k
    BY <1>3
  <2>2. CASE \E x \in W2 : x.upper = Forever /\ x.key = r.key
    BY <2>1, <2>2 DEF Kept
  <2>3. CASE ~\E x \in W2 : x.upper = Forever /\ x.key = r.key
    <3>1. /\ u.looked /\ u.mid # None /\ r.mid = u.mid
          /\ Closed(r, t) \in W2 /\ NewRow(u, t) \in W2
          /\ Closed(r, t).key = r.key /\ Closed(r, t).mid = r.mid /\ Closed(r, t).upper = t
      BY <1>1, <2>1, <2>3 DEF SameRow
    <3>2. u.key[1] = Children
      <4>1. <<Children, r.data[2]>> = <<u.key[1], u.data[2]>>
        BY <2>1, <3>1 DEF OwnMid, Shaped, MidOf
      <4>2. QED
        BY <4>1
    <3>3. QED
      BY <1>2, <2>1, <3>1, <3>2 DEF Kept
  <2>4. QED
    BY <2>2, <2>3
<1>4. ASSUME NEW r \in W, NEW s \in W, r.key[1] = Children, r.key[2] = U, r.key[3] = k,
             s.key[1] = Children, s.mid = r.mid, s.lower = r.upper, s.key[2] # U
      PROVE  Kept(W2, U, k)
  <2>1. r.upper # Forever
    BY <1>4, ArchiveAssumption DEF Sound, Row, Instants, Forever
  <2>2. r \in W2
    BY <1>1, <2>1
  <2>3. \E x \in W2 : SameRow(s, x)
    BY <1>1 DEF SameRow
  <2>4. QED
    BY <1>4, <2>2, <2>3 DEF Kept, SameRow
<1>5. QED
  BY <1>3, <1>4 DEF Kept

(* The tables have different names.                                        *)
LEMMA ChildrenAreNotLists == ChildLists # Children /\ ChildLists \notin {Threads, PostIds, Addresses}
BY DEF ChildLists, Children, Threads, PostIds, Addresses

(* A touch leaves a current row that says what it says.                    *)
LEMMA Shows ==
  ASSUME NEW path, NEW S, NEW program \in Seq(Touch), NEW t \in Instants,
         Path(path, S, program, t), Sound(S),
         NEW j \in 1 .. Len(program), program[j].kind = "archive"
  PROVE  \E x \in path[j] : /\ x.upper = Forever /\ x.key = program[j].key
                            /\ x.data = program[j].data
<1>1. Sound(path[j - 1]) /\ program[j] \in Touch
  BY PathSound
<1>2. path[j] \in After(path[j - 1], program[j], t)
  BY DEF Path
<1> DEFINE u == program[j]
           W == path[j - 1]
           W2 == path[j]
<1>3. Sound(W) /\ u \in Touch /\ u.kind = "archive" /\ W2 \in After(W, u, t)
  BY <1>1, <1>2
<1> HIDE DEF u, W, W2
<1>4. \E x \in W2 : x.upper = Forever /\ x.key = u.key /\ x.data = u.data
  BY <1>3, TouchRows
<1>5. QED
  BY <1>4 DEF u, W2

(* After a page that counts the list of U, each place of it is filled.     *)
LEMMA ListFilled ==
  ASSUME NEW path, NEW S, NEW program \in Seq(Touch), NEW t \in Instants,
         Path(path, S, program, t), Sound(S), Ruled(program), \A r \in S : OwnMid(r),
         NEW j \in 1 .. Len(program), program[j].key[1] = ChildLists,
         NEW list \in path[Len(program)], list.upper = Forever, list.key = program[j].key
  PROVE  \A k \in 0 .. list.data[2] - 1 : Kept(path[Len(program)], list.key[2], k)
<1> DEFINE n == Len(program)
           v == program[j]
           last == path[n]
<1>1. /\ n \in Nat
      /\ \A i \in 0 .. n : Sound(path[i])
      /\ \A i \in 1 .. n : /\ i - 1 \in 0 .. n /\ i \in 0 .. n
                           /\ program[i] \in Touch /\ program[i] \in ToSet(program)
  BY PathSound, SeqIsSeq
<1>2. \A i \in 0 .. n : \A r \in path[i] : OwnMid(r)
  BY PathOwn
<1>3. \A i \in 1 .. n : path[i] \in After(path[i - 1], program[i], t)
  BY DEF Path
<1>4. \A i \in 1 .. n : Shaped(program[i])
  BY <1>1 DEF Ruled
<1>5. \A i, m \in 1 .. n : i < m => <<program[i], program[m]>> \notin Repeats
  BY DEF Ruled, Family, Ordered
<1>6. /\ v.kind = "archive"
      /\ v.data[2] \in Nat
      /\ \A k \in 0 .. v.data[2] - 1 :
           \E w \in ToSet(program) : w.kind = "archive" /\ w.key = <<Children, v.key[2], k>>
  BY <1>1 DEF Ruled, Family
<1>7. n \in 0 .. n /\ Sound(last)
  BY <1>1
<1>8. list.data = v.data
  <2>1. PICK x \in path[j] : x.upper = Forever /\ x.key = v.key /\ x.data = v.data
    BY <1>6, Shows
  <2>2. x.mid = None
    BY <1>1, <1>2, <2>1, ChildrenAreNotLists DEF OwnMid, MidOf
  <2>3. ASSUME NEW i \in j + 1 .. n, program[i].kind = "archive"
        PROVE  /\ program[i].key # x.key
               /\ program[i].looked /\ program[i].mid # None => program[i].mid # x.mid
    <3>1. i \in 1 .. n /\ j < i
      BY <1>1
    <3>2. <<v, program[i]>> \notin Repeats /\ v \in Touch /\ program[i] \in Touch
      BY <1>1, <1>5, <3>1
    <3>3. program[i].key # v.key
      BY <3>2 DEF Repeats
    <3>4. QED
      BY <2>1, <2>2, <3>3
  <2>4. j \in 0 .. n
    BY <1>1
  <2>5. PICK y \in last : y.upper = Forever /\ SameRow(x, y)
    BY <2>1, <2>3, <2>4, StaysCurrent
  <2>6. y = list
    BY <1>7, <2>1, <2>5, OneOpen DEF SameRow, Alike
  <2>7. QED
    BY <2>1, <2>5, <2>6 DEF SameRow
<1>9. ASSUME NEW k \in 0 .. v.data[2] - 1
      PROVE  Kept(last, v.key[2], k)
  <2>1. PICK m \in 1 .. n : /\ program[m].kind = "archive"
                            /\ program[m].key = <<Children, v.key[2], k>>
    <3>1. ToSet(program) = {program[i] : i \in 1 .. n}
      BY SeqIsSeq
    <3>2. QED
      BY <1>6, <1>9, <3>1
  <2> DEFINE w == program[m]
  <2> HIDE DEF v, last
  <2>2. w.key[1] = Children /\ w.key[2] = v.key[2] /\ w.key[3] = k
    BY <2>1
  <2>3. PICK x \in path[m] : x.upper = Forever /\ x.key = w.key /\ x.data = w.data
    <3>1. program[m].kind = "archive"
      BY <2>1
    <3>2. QED
      BY <3>1, Shows
  <2>4. x.mid = w.mid
    <3>1. OwnMid(x) /\ Shaped(w) /\ w.kind = "archive"
      BY <1>1, <1>2, <1>4, <2>1
    <3> HIDE DEF w
    <3>2. QED
      BY <2>3, <3>1 DEF OwnMid, Shaped
  <2>5. ASSUME NEW i \in m + 1 .. n, program[i].kind = "archive"
        PROVE  /\ program[i].key # x.key
               /\ program[i].looked /\ program[i].mid # None => program[i].mid # x.mid
    <3>1. i \in 1 .. n /\ m < i
      BY <1>1
    <3>2. <<w, program[i]>> \notin Repeats /\ w \in Touch /\ program[i] \in Touch
          /\ Shaped(program[i])
      BY <1>1, <1>4, <1>5, <3>1
    <3> DEFINE u == program[i]
    <3>3. u.key[1] = Children => u.key # w.key /\ u.mid # w.mid
      <4> HIDE DEF u, w
      <4>1. QED
        BY <2>2, <3>2 DEF Repeats, u
    <3>4. w.mid = <<Children, w.data[2]>>
      <4>1. Shaped(w) /\ w.kind = "archive"
        BY <1>4, <2>1
      <4> HIDE DEF w
      <4>2. QED
        BY <2>2, <4>1 DEF Shaped, MidOf
    <3>5. u.mid # None /\ u.mid = w.mid => u.key[1] = Children
      <4> SUFFICES ASSUME u.mid # None, u.mid = w.mid
                   PROVE  u.key[1] = Children
        OBVIOUS
      <4>1. u.mid = MidOf(u.key[1], u.data[2])
        BY <1>5, <3>2, <2>5 DEF Shaped
      <4>2. u.mid = <<u.key[1], u.data[2]>>
        <5> HIDE DEF u
        <5>1. QED
          BY <4>1 DEF MidOf
      <4> HIDE DEF u, w
      <4>3. <<Children, w.data[2]>> = <<u.key[1], u.data[2]>>
        BY <3>4, <4>2
      <4>4. QED
        BY <4>3
    <3> HIDE DEF u, w
    <3>6. u.key # x.key /\ (u.mid # None => u.mid # x.mid)
      BY <2>2, <2>3, <2>4, <3>3, <3>5
    <3>7. QED
      BY <3>6 DEF u
  <2>6. m \in 0 .. n
    BY <1>1
  <2> HIDE DEF w
  <2>7. PICK y \in path[n] : y.upper = Forever /\ SameRow(x, y)
    BY <2>3, <2>5, <2>6, StaysCurrent
  <2>8. QED
    BY <2>2, <2>3, <2>7 DEF Kept, SameRow, last
<1>10. QED
  BY <1>8, <1>9

(* A page that does not count the list of U leaves its places filled, or   *)
(* takes them by showing their godchildren elsewhere.                      *)
LEMMA ListLeft ==
  ASSUME NEW path, NEW S, NEW program \in Seq(Touch), NEW t \in Instants,
         Path(path, S, program, t), Sound(S), Ruled(program), \A r \in S : OwnMid(r),
         \A r \in S : r.upper = Forever /\ r.key[1] = ChildLists =>
           \A k \in 0 .. r.data[2] - 1 : Kept(S, r.key[2], k),
         NEW list \in path[Len(program)], list.upper = Forever, list.key[1] = ChildLists,
         list.key = <<ChildLists, list.key[2]>>,
         \A u \in ToSet(program) : u.key # list.key
  PROVE  \A k \in 0 .. list.data[2] - 1 : Kept(path[Len(program)], list.key[2], k)
<1> DEFINE n == Len(program)
           U == list.key[2]
<1>1. /\ n \in Nat
      /\ \A i \in 0 .. n : Sound(path[i])
      /\ \A i \in 1 .. n : /\ i - 1 \in 0 .. n /\ i \in 0 .. n
                           /\ program[i] \in Touch /\ program[i] \in ToSet(program)
  BY PathSound, SeqIsSeq
<1>2. \A i \in 0 .. n : \A r \in path[i] : OwnMid(r)
  BY PathOwn
<1>3. \A i \in 1 .. n : path[i] \in After(path[i - 1], program[i], t)
  BY DEF Path
<1>4. \A u \in ToSet(program) : u.key[1] = Children => u.key[2] # U
  <2> SUFFICES ASSUME NEW u \in ToSet(program), u.key[1] = Children, u.key[2] = U
               PROVE  FALSE
    OBVIOUS
  <2>1. PICK l \in ToSet(program) : l.key[1] = ChildLists /\ l.key[2] = u.key[2]
    BY DEF Ruled, Family
  <2>2. l.key = <<ChildLists, l.key[2]>>
    BY <2>1 DEF Ruled, Family
  <2>3. QED
    BY <2>1, <2>2
<1>5. 0 \in 0 .. n /\ n \in 0 .. n /\ path[0] = S
  BY <1>1 DEF Path
<1> DEFINE Old == {W \in SUBSET Row :
                     \A x \in W : x.upper = Forever /\ x.key = list.key =>
                       \E l \in S : l.upper = Forever /\ SameRow(l, x)}
<1>6. path[0] \in Old
  BY <1>1, <1>5 DEF Sound, SameRow
<1>7. ASSUME NEW i \in 0 + 1 .. n, program[i].kind = "archive", path[i - 1] \in Old
      PROVE  path[i] \in Old
  <2>1. i \in 1 .. n
    OBVIOUS
  <2>2. \A x \in path[i] :
          \/ x \in path[i - 1]
          \/ \E y \in path[i - 1] : y.upper = Forever /\ SameRow(y, x)
          \/ x.upper = t
          \/ x = NewRow(program[i], t)
    BY <1>1, <1>3, <1>7, <2>1, TouchRows
  <2>3. NewRow(program[i], t).key = program[i].key /\ program[i].key # list.key
    BY <1>1, <2>1 DEF NewRow
  <2>4. t # Forever
    BY ArchiveAssumption DEF Instants, Forever
  <2>5. ASSUME NEW x \in path[i], x.upper = Forever, x.key = list.key
        PROVE  \E l \in S : l.upper = Forever /\ SameRow(l, x)
    <3>1. \E y \in path[i - 1] : y.upper = Forever /\ SameRow(y, x)
      BY <2>2, <2>3, <2>4, <2>5 DEF SameRow
    <3>2. QED
      BY <1>7, <2>5, <3>1 DEF SameRow
  <2>6. QED
    BY <1>1, <2>1, <2>5 DEF Sound
<1> HIDE DEF Old
<1>8. path[n] \in Old
  BY <1>5, <1>6, <1>7, PathHolds
<1>9. PICK l \in S : l.upper = Forever /\ SameRow(l, list)
  BY <1>8 DEF Old
<1>10. ASSUME NEW k \in 0 .. list.data[2] - 1
       PROVE  Kept(path[n], U, k)
  <2> DEFINE Good == {W \in SUBSET Row : Kept(W, U, k)}
  <2>1. path[0] \in Good
    BY <1>1, <1>5, <1>9, <1>10 DEF SameRow, Sound
  <2>2. ASSUME NEW i \in 0 + 1 .. n, program[i].kind = "archive", path[i - 1] \in Good
        PROVE  path[i] \in Good
    <3>1. i \in 1 .. n
      OBVIOUS
    <3>2. Kept(path[i], U, k)
      <4> HIDE DEF U
      <4>1. Shaped(program[i])
        BY <1>1, <3>1 DEF Ruled
      <4>2. QED
        BY <1>1, <1>2, <1>3, <1>4, <2>2, <3>1, <4>1, KeptTouch
    <3>3. QED
      BY <1>1, <3>1, <3>2 DEF Sound
  <2> HIDE DEF Good
  <2>3. path[n] \in Good
    BY <1>5, <2>1, <2>2, PathHolds
  <2>4. QED
    BY <2>3 DEF Good
<1>11. QED
  BY <1>10

(* So it is of every place of every list that is current.                  *)
ListsKept == \A r \in rows : r.upper = Forever /\ r.key[1] = ChildLists =>
               \A k \in 0 .. r.data[2] - 1 : Kept(rows, r.key[2], k)

(* A commit keeps the lists: its page either shows a list, which is filled *)
(* from its first place to its last (ListFilled), or shows none of that    *)
(* user (ListLeft).                                                        *)
LEMMA ListsStep ==
  ASSUME Programs \subseteq HammerfestPrograms
  PROVE  Typed /\ Serial /\ TablesSound /\ Traced /\ Traced' /\ ListsKept /\ [Next]_vars
           => ListsKept'
<1> SUFFICES ASSUME Typed, Serial, TablesSound, Traced, Traced', ListsKept, [Next]_vars
             PROVE  ListsKept'
  OBVIOUS
<1>1. ASSUME NEW c \in Calls, Commit(c)
      PROVE  ListsKept'
  <2> DEFINE program == tx[c].program
             t == tx[c].now
  <2>1. program \in Programs /\ program \in Seq(Touch) /\ t \in Instants
    BY <1>1, CommitWalks
  <2>2. PICK path : Path(path, rows, program, t) /\ path[Len(program)] = rows'
    BY <1>1, CommitWalks
  <2>3. Ruled(program)
    BY <2>1, HammerfestRuled
  <2> HIDE DEF program, t
  <2>4. Sound(rows) /\ \A r \in rows : OwnMid(r)
    BY HammerfestRuled DEF Traced, Versions, Ruled, Shaped, OwnMid, TablesSound
  <2>5. ASSUME NEW list \in rows', list.upper = Forever, list.key[1] = ChildLists
        PROVE  \A k \in 0 .. list.data[2] - 1 : Kept(rows', list.key[2], k)
    <3>1. list.key = <<ChildLists, list.key[2]>>
      BY <2>5, HammerfestRuled DEF Traced, Versions, Ruled, Family
    <3>2. CASE \E u \in ToSet(program) : u.key = list.key
      <4>1. PICK j \in 1 .. Len(program) : program[j].key = list.key
        BY <2>1, <3>2, SeqIsSeq
      <4>2. QED
        BY <2>1, <2>2, <2>3, <2>4, <2>5, <4>1, ListFilled
    <3>3. CASE ~\E u \in ToSet(program) : u.key = list.key
      BY <2>1, <2>2, <2>3, <2>4, <2>5, <3>1, <3>3, ListLeft DEF ListsKept
    <3>4. QED
      BY <3>2, <3>3
  <2>6. QED
    BY <2>5 DEF ListsKept
<1>2. CASE rows' = rows
  BY <1>2 DEF ListsKept
<1>3. QED
  BY <1>1, <1>2, OnlyCommits

(* A place without a current row had its last one closed by the other      *)
(* list.                                                                   *)
LEMMA Leave ==
  ASSUME ListsKept
  PROVE  GodchildrenLeave
<1> SUFFICES ASSUME NEW list \in rows, list.upper = Forever, list.key[1] = ChildLists,
                    NEW i \in 0 .. list.data[2] - 1,
                    ~\E r \in rows : /\ r.upper = Forever /\ r.key[1] = Children
                                     /\ r.key[2] = list.key[2] /\ r.key[3] = i
             PROVE  \E r, s \in rows : /\ r.key[1] = Children /\ r.key[2] = list.key[2]
                                       /\ r.key[3] = i /\ s.key[1] = Children /\ s.mid = r.mid
                                       /\ s.lower = r.upper /\ s.key[2] # r.key[2]
  BY DEF GodchildrenLeave, InTable, Open, ChildLists, Children
<1>1. Kept(rows, list.key[2], i)
  BY DEF ListsKept
<1>2. QED
  BY <1>1 DEF Kept

(* The count and the places of a list of godchildren are tables of their   *)
(* own, yet a place of a current list is empty only because a page showed  *)
(* its godchild in the list of another user at that instant. For any pages *)
(* and any interleaving.                                                   *)
THEOREM HammerfestGodchildrenLeave ==
  ASSUME Programs \subseteq HammerfestPrograms
  PROVE  Spec => []GodchildrenLeave
<1>1. Init => ListsKept
  BY DEF Init, ListsKept
<1>2. Typed /\ Serial /\ TablesSound /\ Traced /\ Traced' /\ ListsKept /\ [Next]_vars => ListsKept'
  BY ListsStep
<1>3. ListsKept => GodchildrenLeave
  BY Leave
<1>4. QED
  BY <1>1, <1>2, <1>3, Sources, PTL DEF Spec

-----------------------------------------------------------------------------
(***************************************************************************)
(* The pages of Dinoparc: a page that shows a list of dinoz shows the      *)
(* whole of it, and tells the owner of each.                               *)
(***************************************************************************)

(* The tables of a list of dinoz and of their owners.                      *)
DinozCounts == "dinoparc_user_dinoz_counts"
DinozPlaces == "dinoparc_user_dinoz"
DinozOwners == "dinoparc_dinoz_owners"

(* A page that shows a dinoz in a list tells its owner; one that gives a   *)
(* place counts the list; and one that counts a list gives each place.     *)
Backed(u, T) ==
  /\ u.key[1] = DinozPlaces =>
       /\ u.kind = "archive"
       /\ \E w \in T : /\ w.kind = "archive" /\ w.key = <<DinozOwners, u.data[2]>>
                       /\ w.data[2] = u.key[2]
       /\ \E c \in T : c.key = <<DinozCounts, u.key[2]>>
  /\ u.key[1] = DinozCounts =>
       /\ u.kind = "archive" /\ u.data[2] \in Nat
       /\ \A k \in 0 .. u.data[2] - 1 :
            \E v \in T : v.kind = "archive" /\ v.key = <<DinozPlaces, u.key[2], k>>

(* A page of which every touch of a list has the touches that go with it.  *)
Complete(T) == \A u \in T : Backed(u, T)

(* More touches take nothing away.                                         *)
LEMMA BackedMore ==
  ASSUME NEW u, NEW S, NEW T, S \subseteq T, Backed(u, S)
  PROVE  Backed(u, T)
BY Zenon DEF Backed

(* What every page of Dinoparc respects.                                   *)
Whole(s) == IsSeq(s) /\ Complete(ToSet(s))

LEMMA WholeEmpty == Whole(<<>>)
BY EmptyIsSeq DEF Whole, Complete

(* Whole parts, one after the other or in a loop, make a whole.            *)
LEMMA WholeConcat ==
  ASSUME NEW a, NEW b, Whole(a), Whole(b)
  PROVE  Whole(a \o b)
<1>1. IsSeq(a \o b) /\ ToSet(a \o b) = ToSet(a) \cup ToSet(b)
  BY ConcatIsSeq DEF Whole
<1>2. QED
  BY <1>1, BackedMore DEF Whole, Complete

LEMMA WholeOne ==
  ASSUME NEW u, u.key[1] \notin {DinozPlaces, DinozCounts}
  PROVE  Whole(<<u>>)
BY OneIsSeq DEF Whole, Complete, Backed

LEMMA WholeEach ==
  ASSUME NEW ss, NEW n \in Nat, n = Len(ss), n = 0 => ss = <<>>,
         \A i \in 1 .. n : Whole(ss[i])
  PROVE  Whole(FlattenSeq(ss)) /\ ToSet(FlattenSeq(ss)) = UNION {ToSet(ss[i]) : i \in 1 .. n}
<1>1. /\ IsSeq(FlattenSeq(ss))
      /\ ToSet(FlattenSeq(ss)) = UNION {ToSet(ss[i]) : i \in 1 .. n}
  BY FlattenIsSeq DEF Whole
<1>2. \A i \in 1 .. n : ToSet(ss[i]) \subseteq ToSet(FlattenSeq(ss))
  BY <1>1
<1>3. \A i \in 1 .. n : \A u \in ToSet(ss[i]) : Backed(u, ToSet(FlattenSeq(ss)))
  BY <1>2, BackedMore DEF Whole, Complete
<1>4. QED
  BY <1>1, <1>3 DEF Whole, Complete

LEMMA WrittenWhole ==
  ASSUME NEW kind, NEW table, NEW a, table \notin {DinozPlaces, DinozCounts}
  PROVE  Whole(<<Written(kind, table, <<a>>)>>)
<1>1. Written(kind, table, <<a>>).key[1] = table
  BY Tables DEF Written
<1>2. QED
  BY <1>1, WholeOne

LEMMA ArchivedWhole ==
  ASSUME NEW table, NEW id, NEW data, table \notin {DinozPlaces, DinozCounts},
         (<<table>> \o id)[1] = table
  PROVE  Whole(<<Archived(table, id, data)>>)
<1>1. Archived(table, id, data).key[1] = table
  BY DEF Archived
<1>2. QED
  BY <1>1, WholeOne

(* The touches that are not of a list.                                     *)
LEMMA WholeTouches ==
  /\ \A x : Whole(touch_dinoparc_user(x))
  /\ \A x : Whole(touch_dinoparc_dinoz(x))
  /\ \A x, y : Whole(touch_dinoparc_coins(x, y))
  /\ \A x, y : Whole(touch_dinoparc_bills(x, y))
  /\ \A x, y : Whole(touch_dinoparc_inventory(x, y))
  /\ \A x, y, z : Whole(touch_dinoparc_collection(x, y, z))
  /\ \A x, y : Whole(touch_dinoparc_dinoz_name(x, y))
  /\ \A x, y : Whole(touch_dinoparc_dinoz_owner(x, y))
  /\ \A x, y : Whole(touch_dinoparc_dinoz_location(x, y))
  /\ \A x, y : Whole(touch_dinoparc_dinoz_level(x, y))
  /\ \A x, y, z : Whole(touch_dinoparc_dinoz_skin(x, y, z))
  /\ \A x, y, z : Whole(touch_dinoparc_dinoz_profile(x, y, z))
  /\ \A x : Whole(touch_dinoparc_item_counts(x))
  /\ \A x : Whole(touch_dinoparc_reward_set(x))
  /\ \A x : Whole(touch_dinoparc_epic_reward_set(x))
  /\ \A x : Whole(touch_dinoparc_skill_levels(x))
BY WrittenWhole, ArchivedWhole, Tables
DEF DinozPlaces, DinozCounts, touch_dinoparc_user, touch_dinoparc_dinoz, touch_dinoparc_coins,
    touch_dinoparc_bills, touch_dinoparc_inventory, touch_dinoparc_collection,
    touch_dinoparc_dinoz_name, touch_dinoparc_dinoz_owner, touch_dinoparc_dinoz_location,
    touch_dinoparc_dinoz_level, touch_dinoparc_dinoz_skin, touch_dinoparc_dinoz_profile,
    touch_dinoparc_item_counts, touch_dinoparc_reward_set, touch_dinoparc_epic_reward_set,
    touch_dinoparc_skill_levels

(* The owner of a dinoz is told by a touch of her own table.               *)
LEMMA OwnerTouch ==
  ASSUME NEW dinoz, NEW owner
  PROVE  \E w \in ToSet(touch_dinoparc_dinoz_owner(dinoz, owner)) :
           w.kind = "archive" /\ w.key = <<DinozOwners, dinoz>> /\ w.data[2] = owner
<1> DEFINE w == Archived(DinozOwners, <<dinoz>>, <<owner>>)
<1>1. /\ w.key = <<DinozOwners>> \o <<dinoz>> /\ w.data = <<DinozOwners>> \o <<owner>>
      /\ w.kind = "archive"
  BY DEF Archived
<1>2. touch_dinoparc_dinoz_owner(dinoz, owner) = <<w>>
  BY DEF touch_dinoparc_dinoz_owner, DinozOwners
<1> HIDE DEF w
<1>3. w.key = <<DinozOwners, dinoz>>
  BY <1>1, Identifier1
<1>4. w.data[2] = owner
  BY <1>1, Tables
<1>5. QED
  BY <1>1, <1>2, <1>3, <1>4, OneIsSeq

(* The touches of a list: its count, and the place of each dinoz in it.    *)
ListSaid(s, user, list) ==
  /\ IsSeq(s)
  /\ \E c \in ToSet(s) : c.key = <<DinozCounts, user>>
  /\ \A u \in ToSet(s) :
       /\ u.key[1] = DinozPlaces =>
            /\ u.kind = "archive" /\ u.key[2] = user
            /\ \E i \in 1 .. Len(list) : u.data[2] = list[i].dinoz
       /\ u.key[1] = DinozCounts =>
            /\ u.kind = "archive" /\ u.key[2] = user /\ u.data[2] = Len(list)
  /\ \A k \in 0 .. Len(list) - 1 :
       \E v \in ToSet(s) : v.kind = "archive" /\ v.key = <<DinozPlaces, user, k>>

(* ListTouches archives the length and each place below it.                *)
LEMMA ListTouchesSaid ==
  ASSUME NEW user, NEW list, IsSeq(list)
  PROVE  ListSaid(ListTouches(user, list), user, list)
<1> DEFINE n == Len(list)
           c == Archived(DinozCounts, <<user>>, <<n>>)
           b(i) == Archived(DinozPlaces, <<user, i - 1>>, <<list[i].dinoz>>)
           p(i) == [b(i) EXCEPT !.mid = <<DinozPlaces, list[i].dinoz>>, !.looked = TRUE]
           d(i) == touch_dinoparc_dinoz(list[i].dinoz)
           ss == [i \in 1 .. n |-> d(i) \o <<p(i)>>]
           f == FlattenSeq(ss)
<1>1. n \in Nat
  BY DEF IsSeq
<1>2. ListTouches(user, list) = <<c>> \o f
  BY DEF ListTouches, ForEach, touch_dinoparc_user_dinoz_count, touch_dinoparc_user_dinoz_item,
         DinozCounts, DinozPlaces
<1>3. c.key = <<DinozCounts, user>> /\ c.data[2] = n /\ c.kind = "archive"
  <2>1. c.key = <<DinozCounts>> \o <<user>> /\ c.data = <<DinozCounts>> \o <<n>> /\ c.kind = "archive"
    BY DEF Archived
  <2> HIDE DEF c, n
  <2>2. c.key = <<DinozCounts, user>>
    BY <2>1, Identifier1
  <2>3. c.data[2] = n
    BY <2>1, Tables
  <2>4. QED
    BY <2>1, <2>2, <2>3
<1>4. \A i \in 1 .. n : /\ p(i).key = <<DinozPlaces, user, i - 1>>
                        /\ p(i).data[2] = list[i].dinoz /\ p(i).kind = "archive"
  <2> SUFFICES ASSUME NEW i \in 1 .. n
               PROVE  /\ p(i).key = <<DinozPlaces, user, i - 1>>
                      /\ p(i).data[2] = list[i].dinoz /\ p(i).kind = "archive"
    OBVIOUS
  <2> DEFINE k == i - 1
             dinoz == list[i].dinoz
  <2>1. p(i).key = b(i).key /\ p(i).data = b(i).data /\ p(i).kind = b(i).kind
    BY DEF Archived
  <2>2. /\ b(i).key = <<DinozPlaces>> \o <<user, k>> /\ b(i).data = <<DinozPlaces>> \o <<dinoz>>
        /\ b(i).kind = "archive"
    BY DEF Archived
  <2> HIDE DEF b, p, k, dinoz
  <2>3. b(i).key = <<DinozPlaces, user, k>>
    BY <2>2, Identifier2
  <2>4. b(i).data[2] = dinoz
    BY <2>2, Tables
  <2>5. QED
    BY <2>1, <2>2, <2>3, <2>4 DEF k, dinoz
<1>5. \A i \in 1 .. n : /\ IsSeq(d(i))
                        /\ \A u \in ToSet(d(i)) : u.key[1] \notin {DinozPlaces, DinozCounts}
  <2> SUFFICES ASSUME NEW i \in 1 .. n
               PROVE  /\ IsSeq(d(i))
                      /\ \A u \in ToSet(d(i)) : u.key[1] \notin {DinozPlaces, DinozCounts}
    OBVIOUS
  <2> DEFINE w == Written("insert", "dinoparc_dinoz", <<list[i].dinoz>>)
  <2>1. w.key[1] = "dinoparc_dinoz"
    BY Tables DEF Written
  <2>2. d(i) = <<w>>
    BY DEF touch_dinoparc_dinoz
  <2> HIDE DEF w
  <2>3. QED
    BY <2>1, <2>2, OneIsSeq DEF DinozPlaces, DinozCounts
<1>6. (\A i \in 1 .. n : ss[i] = d(i) \o <<p(i)>>) /\ n = Len(ss) /\ (n = 0 => ss = <<>>)
  <2> HIDE DEF d, p
  <2>1. QED
    BY <1>1
<1> HIDE DEF n, c, p, d, ss
<1>7. \A i \in 1 .. n : IsSeq(ss[i]) /\ ToSet(ss[i]) = ToSet(d(i)) \cup {p(i)}
  <2> SUFFICES ASSUME NEW i \in 1 .. n
               PROVE  IsSeq(ss[i]) /\ ToSet(ss[i]) = ToSet(d(i)) \cup {p(i)}
    OBVIOUS
  <2>1. IsSeq(<<p(i)>>) /\ ToSet(<<p(i)>>) = {p(i)}
    BY OneIsSeq
  <2>2. IsSeq(d(i) \o <<p(i)>>) /\ ToSet(d(i) \o <<p(i)>>) = ToSet(d(i)) \cup ToSet(<<p(i)>>)
    BY <1>5, <2>1, ConcatIsSeq
  <2>3. QED
    BY <1>6, <2>1, <2>2
<1>8. IsSeq(f) /\ ToSet(f) = UNION {ToSet(ss[i]) : i \in 1 .. n}
  BY <1>1, <1>6, <1>7, FlattenIsSeq
<1> HIDE DEF f
<1>9. IsSeq(<<c>> \o f) /\ ToSet(<<c>> \o f) = {c} \cup ToSet(f)
  BY <1>8, OneIsSeq, ConcatIsSeq
<1> DEFINE s == <<c>> \o f
<1> HIDE DEF s
<1>10. IsSeq(s) /\ ToSet(s) = {c} \cup ToSet(f)
  BY <1>9 DEF s
<1>11. c \in ToSet(s) /\ \A i \in 1 .. n : p(i) \in ToSet(s)
  BY <1>7, <1>8, <1>10
<1>12. c.key[1] = DinozCounts /\ c.key[2] = user /\ DinozCounts # DinozPlaces
  BY <1>3 DEF DinozCounts, DinozPlaces
<1>13. ASSUME NEW u \in ToSet(s)
       PROVE  /\ u.key[1] = DinozPlaces =>
                   /\ u.kind = "archive" /\ u.key[2] = user
                   /\ \E i \in 1 .. n : u.data[2] = list[i].dinoz
              /\ u.key[1] = DinozCounts =>
                   u.kind = "archive" /\ u.key[2] = user /\ u.data[2] = n
  <2>1. CASE u = c
    BY <1>3, <1>12, <2>1
  <2>2. CASE u # c
    <3>1. PICK i \in 1 .. n : u \in ToSet(d(i)) \/ u = p(i)
      BY <1>7, <1>8, <1>10, <2>2
    <3>2. CASE u = p(i)
      <4>1. /\ u.key = <<DinozPlaces, user, i - 1>> /\ u.data[2] = list[i].dinoz
            /\ u.kind = "archive"
        BY <1>4, <3>2
      <4>2. QED
        BY <4>1, <1>12
    <3>3. CASE u \in ToSet(d(i))
      BY <1>5, <3>3
    <3>4. QED
      BY <3>1, <3>2, <3>3
  <2>3. QED
    BY <2>1, <2>2
<1>14. ASSUME NEW k \in 0 .. n - 1
       PROVE  \E v \in ToSet(s) : v.kind = "archive" /\ v.key = <<DinozPlaces, user, k>>
  <2>1. PICK i \in 1 .. n : i - 1 = k
    <3>1. k + 1 \in 1 .. n /\ (k + 1) - 1 = k
      BY <1>1
    <3>2. QED
      BY <3>1
  <2>2. QED
    BY <1>4, <1>11, <2>1
<1>15. QED
  BY <1>2, <1>3, <1>10, <1>11, <1>13, <1>14 DEF s, n, ListSaid

(* A list of dinoz whose owners are told next.                             *)
LEMMA ListWhole ==
  ASSUME NEW user, NEW list, IsSeq(list), NEW a, Whole(a), NEW s, Whole(s),
         \A i \in 1 .. Len(list) :
           \E w \in ToSet(s) : /\ w.kind = "archive" /\ w.key = <<DinozOwners, list[i].dinoz>>
                               /\ w.data[2] = user
  PROVE  Whole(a \o ListTouches(user, list) \o s)
<1> DEFINE l == ListTouches(user, list)
           n == Len(list)
           T == ToSet(a \o l \o s)
<1>1. ListSaid(l, user, list)
  BY ListTouchesSaid
<1>2. n \in Nat
  BY DEF IsSeq
<1>3. /\ \A i \in 1 .. n : \E w \in ToSet(s) :
           w.kind = "archive" /\ w.key = <<DinozOwners, list[i].dinoz>> /\ w.data[2] = user
      /\ Whole(a) /\ Whole(s)
  OBVIOUS
<1> HIDE DEF l
<1>4. IsSeq(a \o l \o s) /\ T = ToSet(a) \cup ToSet(l) \cup ToSet(s)
  <2>1. IsSeq(a \o l) /\ ToSet(a \o l) = ToSet(a) \cup ToSet(l)
    BY <1>1, ConcatIsSeq DEF Whole, ListSaid
  <2>2. QED
    BY <2>1, ConcatIsSeq DEF Whole
<1> HIDE DEF T
<1>5. \A u \in ToSet(a) \cup ToSet(s) : Backed(u, T)
  BY <1>4, BackedMore DEF Whole, Complete
<1>6. ASSUME NEW u \in ToSet(l)
      PROVE  Backed(u, T)
  <2>1. ASSUME u.key[1] = DinozPlaces
        PROVE  \E w \in ToSet(s) : /\ w.kind = "archive" /\ w.key = <<DinozOwners, u.data[2]>>
                                   /\ w.data[2] = u.key[2]
    <3>1. PICK i \in 1 .. n : u.data[2] = list[i].dinoz
      BY <1>1, <2>1 DEF ListSaid
    <3>2. u.key[2] = user
      BY <1>1, <2>1 DEF ListSaid
    <3>3. QED
      BY <1>3, <3>1, <3>2
  <2>2. ASSUME u.key[1] = DinozPlaces
        PROVE  /\ u.kind = "archive"
               /\ \E c \in ToSet(l) : c.key = <<DinozCounts, u.key[2]>>
    BY <1>1, <2>2 DEF ListSaid
  <2>3. ASSUME u.key[1] = DinozCounts
        PROVE  /\ u.kind = "archive" /\ u.data[2] \in Nat
               /\ \A k \in 0 .. u.data[2] - 1 : \E v \in ToSet(l) :
                    v.kind = "archive" /\ v.key = <<DinozPlaces, u.key[2], k>>
    <3>1. u.kind = "archive" /\ u.key[2] = user /\ u.data[2] = n
      BY <1>1, <2>3 DEF ListSaid
    <3>2. QED
      BY <1>1, <1>2, <3>1 DEF ListSaid
  <2>4. Backed(u, ToSet(l) \cup ToSet(s))
    BY <2>1, <2>2, <2>3 DEF Backed
  <2>5. QED
    BY <1>4, <2>4, BackedMore
<1>7. QED
  BY <1>4, <1>5, <1>6 DEF Whole, Complete, T, l

(* The loop that inserts the keys of the dinoz.                            *)
Dinozes(list) == FlattenSeq([i \in 1 .. Len(list) |-> touch_dinoparc_dinoz(list[i].dinoz)])

(* Inserting the keys of the dinoz says nothing of a list.                 *)
LEMMA DinozTold ==
  ASSUME NEW list, IsSeq(list)
  PROVE  Whole(Dinozes(list))
<1> DEFINE n == Len(list)
           ss == [i \in 1 .. n |-> touch_dinoparc_dinoz(list[i].dinoz)]
<1>1. n \in Nat
  BY DEF IsSeq
<1>2. \A i \in 1 .. n : Whole(ss[i])
  BY WholeTouches
<1>3. n = Len(ss) /\ (n = 0 => ss = <<>>)
  BY <1>1
<1>4. Whole(FlattenSeq(ss))
  <2> HIDE DEF n, ss
  <2>1. QED
    BY <1>1, <1>2, <1>3, WholeEach
<1>5. QED
  BY <1>4 DEF Dinozes

(* The touches of s are whole, and tell the owner of each dinoz of list.   *)
Owned(s, user, list) ==
  /\ Whole(s)
  /\ \A i \in 1 .. Len(list) :
       \E w \in ToSet(s) : /\ w.kind = "archive" /\ w.key = <<DinozOwners, list[i].dinoz>>
                           /\ w.data[2] = user

(* A sequence of touches for each dinoz of a list that begins with its     *)
(* owner.                                                                  *)
LEMMA OwnersTold ==
  ASSUME NEW list, IsSeq(list), NEW user, NEW ss, NEW rest, Len(list) = Len(ss),
         Len(list) = 0 => ss = <<>>,
         \A i \in 1 .. Len(list) :
           /\ ss[i] = touch_dinoparc_dinoz_owner(list[i].dinoz, user) \o rest[i]
           /\ Whole(rest[i])
  PROVE  Owned(FlattenSeq(ss), user, list)
<1> DEFINE n == Len(list)
           o(i) == touch_dinoparc_dinoz_owner(list[i].dinoz, user)
<1>1. n \in Nat
  BY DEF IsSeq
<1>2. \A i \in 1 .. n : Whole(o(i)) /\ Whole(rest[i]) /\ ss[i] = o(i) \o rest[i]
  BY WholeTouches
<1>3. \A i \in 1 .. n : \E w \in ToSet(o(i)) :
        w.kind = "archive" /\ w.key = <<DinozOwners, list[i].dinoz>> /\ w.data[2] = user
  BY OwnerTouch
<1>4. n = Len(ss) /\ (n = 0 => ss = <<>>)
  OBVIOUS
<1> HIDE DEF o, n
<1>5. \A i \in 1 .. n : Whole(ss[i]) /\ ToSet(ss[i]) = ToSet(o(i)) \cup ToSet(rest[i])
  BY <1>2, WholeConcat, ConcatIsSeq DEF Whole
<1>6. Whole(FlattenSeq(ss)) /\ ToSet(FlattenSeq(ss)) = UNION {ToSet(ss[i]) : i \in 1 .. n}
  BY <1>1, <1>4, <1>5, WholeEach
<1>7. \A i \in 1 .. n : ToSet(o(i)) \subseteq ToSet(FlattenSeq(ss))
  BY <1>5, <1>6
<1>8. \A i \in 1 .. n : \E w \in ToSet(FlattenSeq(ss)) :
        w.kind = "archive" /\ w.key = <<DinozOwners, list[i].dinoz>> /\ w.data[2] = user
  <2> SUFFICES ASSUME NEW i \in 1 .. n
               PROVE  \E w \in ToSet(FlattenSeq(ss)) :
                        /\ w.kind = "archive" /\ w.key = <<DinozOwners, list[i].dinoz>>
                        /\ w.data[2] = user
    OBVIOUS
  <2>1. PICK w \in ToSet(o(i)) :
          w.kind = "archive" /\ w.key = <<DinozOwners, list[i].dinoz>> /\ w.data[2] = user
    BY <1>3
  <2>2. QED
    BY <2>1, <1>7
<1>9. QED
  BY <1>6, <1>8 DEF n, Owned

(* The sidebar: its list is archived when it is not cut off (fewer than    *)
(* MAX_SIDEBAR_DINOZ_COUNT dinoz), and its owners are always told.         *)
LEMMA SessionWhole ==
  ASSUME NEW s, IsSeq(s.dinoz)
  PROVE  Whole(touch_dinoparc_session_user(s))
<1> DEFINE list == s.dinoz
           user == s.user
           a == touch_dinoparc_user(user)
           b == touch_dinoparc_coins(user, s.coins)
           c == Dinozes(list)
           short == Len(list) < MAX_SIDEBAR_DINOZ_COUNT
           l == IF short THEN ListTouches(user, list) ELSE <<>>
           name(i) == touch_dinoparc_dinoz_name(list[i].dinoz, list[i].name)
           place(i) == IF list[i].location = None THEN <<>>
                       ELSE touch_dinoparc_dinoz_location(list[i].dinoz, list[i].location)
           owner(i) == touch_dinoparc_dinoz_owner(list[i].dinoz, user)
           ss == [i \in 1 .. Len(list) |-> owner(i) \o name(i) \o place(i)]
           rest == [i \in 1 .. Len(list) |-> name(i) \o place(i)]
           side == FlattenSeq(ss)
<1>1. touch_dinoparc_session_user(s) = a \o b \o c \o l \o side
  BY DEF touch_dinoparc_session_user, SidebarTouches, ForEach, Dinozes
<1>2. Whole(a) /\ Whole(b) /\ Whole(c)
  BY WholeTouches, DinozTold
<1>3. \A i \in 1 .. Len(list) : Whole(name(i)) /\ Whole(place(i)) /\ Whole(owner(i))
  BY WholeTouches, WholeEmpty
<1>4. Len(list) \in Nat
  BY DEF IsSeq
<1>5. Owned(side, user, list)
  <2> HIDE DEF name, place
  <2>1. ASSUME NEW i \in 1 .. Len(list)
        PROVE  /\ ss[i] = owner(i) \o rest[i]
               /\ Whole(rest[i])
    <3>1. ss[i] = owner(i) \o name(i) \o place(i) /\ rest[i] = name(i) \o place(i)
      <4> HIDE DEF owner
      <4>1. QED
        OBVIOUS
    <3> HIDE DEF owner, ss, rest
    <3>2. IsSeq(owner(i)) /\ IsSeq(name(i)) /\ IsSeq(place(i))
      BY <1>3 DEF Whole
    <3> DEFINE S == ToSet(owner(i)) \cup ToSet(name(i)) \cup ToSet(place(i))
    <3>3. owner(i) \in Seq(S) /\ name(i) \in Seq(S) /\ place(i) \in Seq(S)
      BY <3>2 DEF IsSeq
    <3> HIDE DEF S
    <3>4. (owner(i) \o name(i)) \o place(i) = owner(i) \o (name(i) \o place(i))
      BY <3>3
    <3>5. QED
      BY <1>3, <3>1, <3>4, WholeConcat
  <2>2. Len(list) = Len(ss) /\ (Len(list) = 0 => ss = <<>>)
    <3> HIDE DEF owner
    <3>1. QED
      BY <1>4
  <2>3. IsSeq(list)
    OBVIOUS
  <2> HIDE DEF ss, rest, list, user
  <2>4. \A i \in 1 .. Len(list) :
           /\ ss[i] = touch_dinoparc_dinoz_owner(list[i].dinoz, user) \o rest[i]
           /\ Whole(rest[i])
    BY <2>1
  <2>5. QED
    BY <2>2, <2>3, <2>4, OwnersTold
<1>6. IsSeq(list)
  OBVIOUS
<1> HIDE DEF a, b, c, side, list, user
<1>7. Whole(a \o b \o c)
  BY <1>2, WholeConcat
<1>8. CASE short
  <2> DEFINE h == a \o b \o c
  <2>1. Whole(h)
    BY <1>7
  <2> HIDE DEF h
  <2>2. Whole(h \o ListTouches(user, list) \o side)
    BY <1>5, <1>6, <2>1, ListWhole DEF Owned
  <2>3. QED
    BY <1>1, <1>8, <2>2 DEF h
<1>9. CASE ~short
  <2>1. l = <<>>
    BY <1>9
  <2>2. Whole(a \o b \o c \o <<>> \o side)
    BY <1>5, <1>7, WholeEmpty, WholeConcat DEF Owned
  <2>3. QED
    BY <1>1, <2>1, <2>2
<1>10. QED
  BY <1>8, <1>9

(* One side of the page of an exchange: a list, then the owner of each.    *)
LEMMA ExchangeWhole ==
  ASSUME NEW user, NEW list, IsSeq(list)
  PROVE  Whole(touch_dinoparc_exchange_dinoz(user, list))
<1> DEFINE a == Dinozes(list)
           name(i) == touch_dinoparc_dinoz_name(list[i].dinoz, list[i].name)
           level(i) == touch_dinoparc_dinoz_level(list[i].dinoz, list[i].level)
           owner(i) == touch_dinoparc_dinoz_owner(list[i].dinoz, user)
           ss == [i \in 1 .. Len(list) |-> owner(i) \o name(i) \o level(i)]
           rest == [i \in 1 .. Len(list) |-> name(i) \o level(i)]
           side == FlattenSeq(ss)
<1>1. touch_dinoparc_exchange_dinoz(user, list) = a \o ListTouches(user, list) \o side
  BY DEF touch_dinoparc_exchange_dinoz, ForEach, Dinozes
<1>2. Whole(a)
  BY DinozTold
<1>3. \A i \in 1 .. Len(list) : Whole(name(i)) /\ Whole(level(i)) /\ Whole(owner(i))
  BY WholeTouches
<1>4. Len(list) \in Nat
  BY DEF IsSeq
<1>5. Owned(side, user, list)
  <2> HIDE DEF name, level
  <2>1. ASSUME NEW i \in 1 .. Len(list)
        PROVE  /\ ss[i] = owner(i) \o rest[i]
               /\ Whole(rest[i])
    <3>1. ss[i] = owner(i) \o name(i) \o level(i) /\ rest[i] = name(i) \o level(i)
      <4> HIDE DEF owner
      <4>1. QED
        OBVIOUS
    <3> HIDE DEF owner, ss, rest
    <3>2. IsSeq(owner(i)) /\ IsSeq(name(i)) /\ IsSeq(level(i))
      BY <1>3 DEF Whole
    <3> DEFINE S == ToSet(owner(i)) \cup ToSet(name(i)) \cup ToSet(level(i))
    <3>3. owner(i) \in Seq(S) /\ name(i) \in Seq(S) /\ level(i) \in Seq(S)
      BY <3>2 DEF IsSeq
    <3> HIDE DEF S
    <3>4. (owner(i) \o name(i)) \o level(i) = owner(i) \o (name(i) \o level(i))
      BY <3>3
    <3>5. QED
      BY <1>3, <3>1, <3>4, WholeConcat
  <2>2. Len(list) = Len(ss) /\ (Len(list) = 0 => ss = <<>>)
    <3> HIDE DEF owner
    <3>1. QED
      BY <1>4
  <2> HIDE DEF ss, rest
  <2>3. \A i \in 1 .. Len(list) :
           /\ ss[i] = touch_dinoparc_dinoz_owner(list[i].dinoz, user) \o rest[i]
           /\ Whole(rest[i])
    BY <2>1
  <2>4. QED
    BY <2>2, <2>3, OwnersTold
<1> HIDE DEF a, side
<1>6. QED
  BY <1>1, <1>2, <1>5, ListWhole DEF Owned

(* Every page that the store archives that shows a list of dinoz shows all *)
(* its places and tells the owner of each, whatever the game shows.        *)
LEMMA DinoparcWhole == \A program \in DinoparcPrograms : Whole(program)
<1> SUFFICES ASSUME NEW r \in DinoparcResponses
             PROVE  Whole(DinoparcProgram(r))
  BY DEF DinoparcPrograms
<1> DEFINE s == touch_dinoparc_session_user(r.session_user)
<1>1. r.page # "short_user" => Whole(s)
  BY DinoparcAssumption, SessionWhole
<1>2. Whole(dinoparc_touch_short_user(r))
  BY WholeTouches DEF dinoparc_touch_short_user
<1> HIDE DEF s
<1>3. r.page = "inventory" => Whole(dinoparc_touch_inventory(r))
  BY <1>1, WholeTouches, WholeConcat DEF dinoparc_touch_inventory, s
<1>4. r.page = "collection" => Whole(touch_collection(r))
  BY <1>1, WholeTouches, WholeConcat DEF touch_collection, s
<1>5. r.page = "dinoz" => Whole(touch_dinoz(r))
  <2> DEFINE dinoz == r.dinoz
             x == IF r.name = None THEN <<>>
                  ELSE touch_dinoparc_dinoz_location(dinoz, r.location) \o
                       touch_dinoparc_skill_levels(r.skills) \o
                       touch_dinoparc_dinoz_profile(dinoz, r.profile, r.skills)
  <2>1. Whole(x)
    BY WholeTouches, WholeEmpty, WholeConcat
  <2>2. touch_dinoz(r) = s \o touch_dinoparc_dinoz(dinoz) \o
          touch_dinoparc_dinoz_level(dinoz, r.level) \o
          touch_dinoparc_dinoz_skin(dinoz, r.race, r.skin) \o
          touch_dinoparc_dinoz_name(dinoz, r.name) \o x
    BY DEF touch_dinoz, s
  <2> HIDE DEF x
  <2>3. QED
    BY <1>1, <2>1, <2>2, WholeTouches, WholeConcat
<1>6. r.page = "exchange_with" => Whole(touch_exchange_with(r))
  <2> SUFFICES ASSUME r.page = "exchange_with"
               PROVE  Whole(touch_exchange_with(r))
    OBVIOUS
  <2> DEFINE user == r.session_user.user
             b == touch_dinoparc_bills(user, r.own_bills)
             c == touch_dinoparc_user(r.other_user)
             d == touch_dinoparc_exchange_dinoz(user, r.own_dinoz)
             e == touch_dinoparc_exchange_dinoz(r.other_user, r.other_dinoz)
  <2>1. Whole(s) /\ Whole(b) /\ Whole(c) /\ Whole(d) /\ Whole(e)
    BY <1>1, DinoparcAssumption, WholeTouches, ExchangeWhole
  <2>2. touch_exchange_with(r) = s \o b \o c \o d \o e
    BY DEF touch_exchange_with, s
  <2> HIDE DEF b, c, d, e
  <2>3. QED
    BY <2>1, <2>2, WholeConcat
<1>7. r.page \in {"short_user", "inventory", "collection", "dinoz", "exchange_with"}
  BY DinoparcAssumption
<1>8. QED
  BY <1>2, <1>3, <1>4, <1>5, <1>6, <1>7 DEF DinoparcProgram

-----------------------------------------------------------------------------
(***************************************************************************)
(* What get_user reads back.                                               *)
(***************************************************************************)

LEMMA MaxNumber ==
  ASSUME NEW n \in Nat, NEW S, S \subseteq 0 .. n, S # {}
  PROVE  Max(S) \in S /\ \A k \in S : k <= Max(S)
<1> DEFINE T == {n - k : k \in S}
<1>1. T \in SUBSET Nat /\ T # {}
  OBVIOUS
<1> HIDE DEF T
<1>2. PICK m \in T : \A k \in T : m <= k
  BY <1>1, LeastNumber
<1>3. PICK x \in S : m = n - x
  BY <1>2 DEF T
<1>4. \A k \in S : n - k \in T
  BY DEF T
<1>5. \A k \in S : x >= k
  BY <1>2, <1>3, <1>4
<1>6. Max(S) \in S /\ \A k \in S : Max(S) >= k
  BY <1>5, Zenon DEF Max
<1>7. QED
  BY <1>6

(* The row of key that began last says data.                               *)
Latest(W, key, data) ==
  \E r \in W : /\ r.key = key /\ r.data = data
               /\ \A s \in W : s.key = key => s.lower <= r.lower

(* A touch makes what it says the latest of its key, and leaves what is    *)
(* the latest of another.                                                  *)
LEMMA LatestTouch ==
  ASSUME NEW W, Sound(W), NEW u \in Touch, u.kind = "archive",
         NEW t \in Instants, NEW W2 \in After(W, u, t)
  PROVE  /\ Latest(W2, u.key, u.data)
         /\ \A key, data : key # u.key /\ Latest(W, key, data) => Latest(W2, key, data)
<1>1. /\ Sound(W2)
      /\ \A r \in W : \E s \in W2 : SameRow(r, s)
  BY AfterVersions
<1>2. /\ \A s \in W2 : \/ \E r \in W : SameRow(r, s)
                       \/ s.key = u.key
      /\ \E s \in W2 : s.upper = Forever /\ s.key = u.key /\ s.data = u.data
  <2>1. NewRow(u, t).key = u.key
    BY DEF NewRow
  <2>2. \A r : SameRow(r, r)
    BY DEF SameRow
  <2>3. QED
    BY <2>1, <2>2, TouchRows
<1>3. PICK r \in W2 : r.upper = Forever /\ r.key = u.key /\ r.data = u.data
  BY <1>2
<1>4. ASSUME NEW s \in W2, s.key = u.key
      PROVE  s.lower <= r.lower
  <2>1. /\ r \in Row /\ s \in Row /\ s.lower < s.upper
        /\ s # r => Disjoint(s, r)
    BY <1>1, <1>3, <1>4 DEF Sound, Exclusive, Alike
  <2>2. /\ r.lower \in Nat /\ s.lower \in Nat /\ s.upper \in Nat
        /\ s.lower < Forever /\ Forever \in Nat
    BY <2>1, ArchiveAssumption DEF Row, Instants, Forever
  <2>3. QED
    BY <1>3, <2>1, <2>2 DEF Disjoint
<1>5. ASSUME NEW key, NEW data, key # u.key, Latest(W, key, data)
      PROVE  Latest(W2, key, data)
  <2>1. PICK x \in W : /\ x.key = key /\ x.data = data
                       /\ \A s \in W : s.key = key => s.lower <= x.lower
    BY <1>5 DEF Latest
  <2>2. PICK y \in W2 : SameRow(x, y)
    BY <1>1
  <2>3. \A s \in W2 : s.key = key => s.lower <= y.lower
    BY <1>2, <1>5, <2>1, <2>2 DEF SameRow
  <2>4. QED
    BY <2>1, <2>2, <2>3 DEF Latest, SameRow
<1>6. QED
  BY <1>3, <1>4, <1>5 DEF Latest

(* The page states the key, and only by archiving.                         *)
Stated(program, key) ==
  /\ Touches(program, key) # {}
  /\ \A i \in Touches(program, key) : program[i].kind = "archive"

(* What the page says last of the key.                                     *)
LastSaid(program, key) == program[Max(Touches(program, key))].data

(* After a page the latest of each key it states is what it said last of   *)
(* it.                                                                     *)
LEMMA LastSaidIsLatest ==
  ASSUME NEW path, NEW S, NEW program \in Seq(Touch), NEW t \in Instants,
         Path(path, S, program, t), Sound(S), NEW key, Stated(program, key)
  PROVE  Latest(path[Len(program)], key, LastSaid(program, key))
<1> DEFINE n == Len(program)
           T == Touches(program, key)
           m == Max(T)
           data == LastSaid(program, key)
           Good == {W \in SUBSET Row : Latest(W, key, data)}
<1>1. /\ n \in Nat /\ \A i \in 0 .. n : Sound(path[i])
      /\ \A i \in 1 .. n : /\ i - 1 \in 0 .. n /\ i \in 0 .. n /\ program[i] \in Touch
  BY PathSound
<1>2. T \subseteq 1 .. n /\ T # {}
  BY DEF Touches, Stated
<1>3. m \in T /\ \A k \in T : k <= m
  <2> HIDE DEF n, T
  <2>1. T \subseteq 0 .. n
    BY <1>1, <1>2
  <2>2. QED
    BY <1>1, <1>2, <2>1, MaxNumber
<1>4. /\ m \in 1 .. n /\ program[m].key = key /\ program[m].kind = "archive"
      /\ data = program[m].data
  BY <1>2, <1>3 DEF Touches, Stated, LastSaid
<1>5. \A i \in m + 1 .. n : program[i].key # key
  <2> SUFFICES ASSUME NEW i \in m + 1 .. n, program[i].key = key
               PROVE  FALSE
    OBVIOUS
  <2>1. i \in T /\ i > m
    BY <1>1, <1>4 DEF Touches
  <2> HIDE DEF m, T
  <2>2. QED
    BY <1>1, <1>3, <1>4, <2>1
<1> HIDE DEF m, T, data
<1>6. \A i \in 1 .. n : path[i] \in After(path[i - 1], program[i], t)
  BY DEF Path
<1>7. path[m] \in Good
  <2>1. m - 1 \in 0 .. n /\ m \in 0 .. n /\ program[m] \in Touch
    BY <1>1, <1>4
  <2>2. Latest(path[m], key, data)
    BY <1>1, <1>4, <1>6, <2>1, LatestTouch
  <2>3. QED
    BY <1>1, <2>1, <2>2 DEF Sound
<1>8. ASSUME NEW i \in m + 1 .. n, program[i].kind = "archive", path[i - 1] \in Good
      PROVE  path[i] \in Good
  <2>1. i \in 1 .. n /\ i - 1 \in 0 .. n /\ i \in 0 .. n /\ program[i] \in Touch
    BY <1>1, <1>4
  <2>2. Latest(path[i], key, data)
    BY <1>1, <1>5, <1>6, <1>8, <2>1, LatestTouch
  <2>3. QED
    BY <1>1, <2>1, <2>2 DEF Sound
<1> HIDE DEF Good
<1>9. m \in 0 .. n /\ n \in m .. n
  BY <1>1, <1>4
<1>10. path[n] \in Good
  BY <1>7, <1>8, <1>9, PathHolds
<1>11. QED
  BY <1>10 DEF Good, data

(* A commit keeps every row, and begins the others at its own instant.     *)
LEMMA CommitRows ==
  ASSUME Typed, Serial, TablesSound, NEW c \in Calls, Commit(c)
  PROVE  /\ \A r \in rows : \E s \in rows' : SameRow(r, s)
         /\ \A s \in rows' :
              \/ \E r \in rows : SameRow(r, s)
              \/ /\ s.lower = tx[c].now
                 /\ \E u \in ToSet(tx[c].program) : u.kind = "archive" /\ u.key = s.key
<1> DEFINE program == tx[c].program
           t == tx[c].now
           Begun(s) == /\ s.lower = t
                       /\ \E u \in ToSet(program) : u.kind = "archive" /\ u.key = s.key
           Good == {W \in SUBSET Row :
                      /\ \A r \in rows : \E s \in W : SameRow(r, s)
                      /\ \A s \in W : (\E r \in rows : SameRow(r, s)) \/ Begun(s)}
<1>1. rows \in Good
  BY DEF TablesSound, Sound, SameRow
<1>2. t \in Instants
  BY CommitWalks
<1>3. ASSUME NEW W \in Good, Sound(W), NEW u \in ToSet(program), u \in Touch,
             u.kind = "archive", NEW W2 \in After(W, u, t)
      PROVE  W2 \in Good
  <2>1. Sound(W2) /\ \A r \in W : \E s \in W2 : SameRow(r, s)
    BY <1>2, <1>3, AfterVersions
  <2>2. \A s \in W2 : (\E r \in W : SameRow(r, s)) \/ s = NewRow(u, t)
    BY <1>2, <1>3, TouchRows DEF SameRow
  <2>3. NewRow(u, t).lower = t /\ NewRow(u, t).key = u.key
    BY DEF NewRow
  <2>4. Begun(NewRow(u, t))
    BY <1>3, <2>3
  <2>5. \A r, s : SameRow(r, s) /\ Begun(r) => Begun(s)
    BY DEF SameRow
  <2>6. \A q, r, s : SameRow(q, r) /\ SameRow(r, s) => SameRow(q, s)
    BY DEF SameRow
  <2> HIDE DEF Begun, program, t
  <2>7. \A s \in W2 : (\E r \in rows : SameRow(r, s)) \/ Begun(s)
    BY <1>3, <2>2, <2>4, <2>5, <2>6
  <2>8. \A r \in rows : \E s \in W2 : SameRow(r, s)
    BY <1>3, <2>1, <2>6
  <2>9. QED
    BY <2>1, <2>7, <2>8 DEF Sound
<1> HIDE DEF Good
<1>4. rows' \in Good
  BY <1>1, <1>3, CommitKeeps
<1>5. QED
  BY <1>4 DEF Good

(* The tables still give what a page said last of an identifier, until the *)
(* instant of a later page that tells of it.                               *)
Remembered(i, program, key) ==
  \E r \in rows :
    /\ r.key = key /\ r.data = LastSaid(program, key) /\ r.lower <= log[i].at
    /\ \A s \in rows : s.key = key /\ s.lower > r.lower =>
         \E j \in i + 1 .. Len(log) :
           /\ log[j].at = s.lower
           /\ \E k \in DOMAIN log[j].program : log[j].program[k].key = key

(* When pages are committed in the order of their instants, each of them   *)
(* is remembered as it said.                                               *)
AsSaid == InOrder => \A i \in DOMAIN log : \A program, key :
            program = log[i].program /\ Stated(program, key) => Remembered(i, program, key)

(* A commit adds one entry to the log.                                     *)
LEMMA LogGrows ==
  ASSUME TypeOK, NEW p, NEW t, log' = Append(log, [program |-> p, at |-> t])
  PROVE  /\ Len(log) \in Nat
         /\ Len(log') = Len(log) + 1
         /\ DOMAIN log = 1 .. Len(log)
         /\ DOMAIN log' = 1 .. Len(log) + 1
         /\ \A i \in 1 .. Len(log) : log'[i] = log[i]
         /\ log'[Len(log) + 1].program = p
         /\ log'[Len(log) + 1].at = t
<1> DEFINE e == [program |-> p, at |-> t]
<1>1. e.program = p /\ e.at = t
  OBVIOUS
<1>2. log' = Append(log, e)
  OBVIOUS
<1>3. log \in Seq([program : Programs, at : Instants])
  BY DEF TypeOK
<1> HIDE DEF e
<1>4. QED
  BY <1>1, <1>2, <1>3

(* An entry of the log is a page and its instant.                          *)
LEMMA LogEntries ==
  ASSUME TypeOK
  PROVE  /\ Len(log) \in Nat /\ DOMAIN log = 1 .. Len(log)
         /\ \A i \in DOMAIN log : /\ log[i].program \in Programs
                                  /\ log[i].program \in Seq(Touch)
                                  /\ log[i].at \in Instants
<1> DEFINE E == [program : Programs, at : Instants]
<1>1. log \in Seq(E)
  BY DEF TypeOK
<1>2. \A x \in E : x.program \in Programs /\ x.at \in Instants
  OBVIOUS
<1> HIDE DEF E
<1>3. \A i \in 1 .. Len(log) : log[i] \in E
  BY <1>1
<1>4. Len(log) \in Nat /\ DOMAIN log = 1 .. Len(log)
  BY <1>1
<1>5. QED
  BY <1>2, <1>3, <1>4, ProgramsAssumption

(* A commit remembers its page, and each earlier page is remembered still: *)
(* a row of its key that began since is dated by the entry now added.      *)
LEMMA AsSaidStep ==
  Typed /\ Serial /\ TablesSound /\ Dated /\ AsSaid /\ [Next]_vars => AsSaid'
<1> SUFFICES ASSUME Typed, Serial, TablesSound, Dated, AsSaid, [Next]_vars
             PROVE  AsSaid'
  OBVIOUS
<1>1. ASSUME NEW c \in Calls, Commit(c)
      PROVE  AsSaid'
  <2> SUFFICES ASSUME InOrder', NEW i \in DOMAIN log', NEW key, NEW page,
                      page = log'[i].program, Stated(page, key)
               PROVE  \E r \in rows' :
                        /\ r.key = key /\ r.data = LastSaid(page, key)
                        /\ r.lower <= log'[i].at
                        /\ \A s \in rows' : s.key = key /\ s.lower > r.lower =>
                             \E j \in i + 1 .. Len(log') :
                               /\ log'[j].at = s.lower
                               /\ \E k \in DOMAIN log'[j].program :
                                    log'[j].program[k].key = key
    BY DEF AsSaid, Remembered
  <2> DEFINE program == tx[c].program
             t == tx[c].now
             n == Len(log)
  <2>1. /\ program \in Seq(Touch) /\ t \in Instants
        /\ log' = Append(log, [program |-> program, at |-> t])
    BY <1>1, CommitWalks
  <2>2. PICK path : Path(path, rows, program, t) /\ path[Len(program)] = rows'
    BY <1>1, CommitWalks
  <2>3. /\ \A r \in rows : \E s \in rows' : SameRow(r, s)
        /\ \A s \in rows' :
             \/ \E r \in rows : SameRow(r, s)
             \/ /\ s.lower = t
                /\ \E u \in ToSet(program) : u.kind = "archive" /\ u.key = s.key
    BY <1>1, CommitRows
  <2> HIDE DEF program, t
  <2>4. /\ n \in Nat /\ Len(log') = n + 1 /\ DOMAIN log = 1 .. n /\ DOMAIN log' = 1 .. n + 1
        /\ \A k \in 1 .. n : log'[k] = log[k]
        /\ log'[n + 1].program = program /\ log'[n + 1].at = t
    BY <2>1, LogGrows DEF Typed
  <2>5. InOrder /\ \A s \in Times : s <= t
    BY <2>1, LogAppend DEF Typed, TypeOK
  <2>6. \A r \in rows : r.lower <= t
    BY <2>5 DEF Dated, Dates
  <2>7. t \in Nat /\ \A r \in rows' : r.lower \in Nat /\ r.lower <= t
    <3>1. rows \in SUBSET Row /\ t \in Nat /\ \A r \in Row : r.lower \in Nat
      BY <2>1, ArchiveAssumption DEF TablesSound, Sound, Row, Instants
    <3>2. QED
      BY <2>3, <2>6, <3>1 DEF SameRow
  <2>8. \A u \in ToSet(program) : \E k \in DOMAIN program : program[k].key = u.key
    BY <2>1, SeqIsSeq
  <2>9. CASE i = n + 1
    <3>1. Latest(rows', key, LastSaid(program, key))
      BY <2>1, <2>2, <2>4, <2>9, LastSaidIsLatest DEF TablesSound
    <3>2. PICK r \in rows' : /\ r.key = key /\ r.data = LastSaid(program, key)
                             /\ \A s \in rows' : s.key = key => s.lower <= r.lower
      BY <3>1 DEF Latest
    <3>3. r.lower <= log'[i].at
      BY <2>4, <2>7, <2>9
    <3>4. \A s \in rows' : s.key = key => ~(s.lower > r.lower)
      BY <2>7, <3>2
    <3>5. QED
      BY <2>4, <2>9, <3>2, <3>3, <3>4
  <2>10. CASE i # n + 1
    <3>1. i \in 1 .. n /\ log'[i] = log[i]
      BY <2>4, <2>10
    <3>2. Remembered(i, page, key)
      BY <2>4, <2>5, <3>1 DEF AsSaid
    <3>3. PICK r \in rows :
            /\ r.key = key /\ r.data = LastSaid(page, key) /\ r.lower <= log[i].at
            /\ \A s \in rows : s.key = key /\ s.lower > r.lower =>
                 \E j \in i + 1 .. n :
                   /\ log[j].at = s.lower
                   /\ \E k \in DOMAIN log[j].program : log[j].program[k].key = key
      BY <3>2 DEF Remembered
    <3>4. PICK r2 \in rows' : SameRow(r, r2)
      BY <2>3
    <3>5. ASSUME NEW s \in rows', s.key = key, s.lower > r2.lower
          PROVE  \E j \in i + 1 .. n + 1 :
                   /\ log'[j].at = s.lower
                   /\ \E k \in DOMAIN log'[j].program : log'[j].program[k].key = key
      <4>1. CASE \E q \in rows : SameRow(q, s)
        <5>1. \E j \in i + 1 .. n :
                /\ log[j].at = s.lower
                /\ \E k \in DOMAIN log[j].program : log[j].program[k].key = key
          BY <3>3, <3>4, <3>5, <4>1 DEF SameRow
        <5>2. \A j \in i + 1 .. n : j \in 1 .. n /\ j \in i + 1 .. n + 1
          BY <2>4, <3>1
        <5>3. QED
          BY <2>4, <5>1, <5>2
      <4>2. CASE s.lower = t /\ \E u \in ToSet(program) : u.kind = "archive" /\ u.key = s.key
        <5>1. \E k \in DOMAIN program : program[k].key = key
          BY <2>8, <3>5, <4>2
        <5>2. n + 1 \in i + 1 .. n + 1
          BY <2>4, <3>1
        <5>3. QED
          BY <2>4, <4>2, <5>1, <5>2
      <4>3. QED
        BY <2>3, <4>1, <4>2
    <3>6. QED
      BY <2>4, <3>1, <3>3, <3>4, <3>5 DEF SameRow
  <2>11. QED
    BY <2>9, <2>10
<1>2. CASE rows' = rows /\ log' = log
  <2> SUFFICES ASSUME InOrder', NEW i \in DOMAIN log', NEW program, NEW key,
                      program = log'[i].program, Stated(program, key)
               PROVE  Remembered(i, program, key)'
    BY DEF AsSaid
  <2>1. InOrder
    BY <1>2 DEF InOrder
  <2>2. Remembered(i, program, key)
    BY <1>2, <2>1 DEF AsSaid
  <2>3. QED
    BY <1>2, <2>2 DEF Remembered
<1>3. QED
  BY <1>1, <1>2, OnlyCommits

(* Every row is dated by an entry of the log.                              *)
LEMMA Datedness == Spec => []Dated
BY DatedInit, DatedStep, Typing, PTL DEF Spec

(* Each page that was committed is remembered, at any time.                *)
LEMMA PagesRemembered == Spec => [](Typed /\ TablesSound /\ AsSaid)
<1>1. Init => AsSaid
  BY DEF Init, AsSaid
<1>2. QED
  BY <1>1, AsSaidStep, Soundness, Datedness, PTL DEF Spec

(* The first n offsets, in order.                                          *)
LEMMA AscendingOffsets ==
  ASSUME NEW n \in Nat
  PROVE  /\ Cardinality(0 .. n - 1) = n
         /\ \A k \in 1 .. n : Ascending(0 .. n - 1)[k] = k - 1
<1> DEFINE S == 0 .. n - 1
           s == Ascending(S)
<1>1. Cardinality(S) = n
  BY FS_Interval
<1> HIDE DEF S
<1>2. s \in [1 .. n -> S] /\ \A i, j \in DOMAIN s : i < j => s[i] < s[j]
  <2> DEFINE f == [k \in 1 .. n |-> k - 1]
  <2>1. f \in [1 .. n -> S] /\ \A i, j \in DOMAIN f : i < j => f[i] < f[j]
    BY DEF S
  <2> HIDE DEF f
  <2>2. \E g \in [1 .. Cardinality(S) -> S] : \A i, j \in DOMAIN g : i < j => g[i] < g[j]
    BY <1>1, <2>1
  <2>3. s \in [1 .. Cardinality(S) -> S] /\ \A i, j \in DOMAIN s : i < j => s[i] < s[j]
    BY <2>2, Zenon DEF Ascending
  <2>4. QED
    BY <1>1, <2>3
<1> HIDE DEF s
<1>3. /\ \A i \in 1 .. n : s[i] \in 0 .. n - 1
      /\ \A i, j \in 1 .. n : i < j => s[i] < s[j]
  BY <1>2 DEF S
<1>4. \A k \in 1 .. n : s[k] >= k - 1
  <2> DEFINE G == {k \in 0 .. n : k # 0 => s[k] >= k - 1}
  <2>1. 0 \in G
    OBVIOUS
  <2>2. ASSUME NEW i \in 1 .. n, i - 1 \in G
        PROVE  i \in G
    <3>1. s[i] \in 0 .. n - 1
      BY <1>3
    <3>2. CASE i = 1
      BY <3>1, <3>2
    <3>3. CASE i # 1
      <4>1. i - 1 \in 1 .. n /\ i - 1 < i
        BY <3>3
      <4>2. s[i - 1] < s[i] /\ s[i - 1] >= (i - 1) - 1 /\ s[i - 1] \in 0 .. n - 1
        BY <1>3, <2>2, <4>1
      <4>3. s[i] >= i - 1
        BY <3>1, <4>2
      <4>4. QED
        BY <4>3
    <3>4. QED
      BY <3>2, <3>3
  <2> HIDE DEF G
  <2>3. \A i \in 0 .. n : i \in G
    BY <2>1, <2>2, UpTo
  <2>4. QED
    BY <2>3 DEF G
<1>5. \A k \in 1 .. n : s[k] <= k - 1
  <2> DEFINE G == {k \in 0 .. n : k # n => s[n - k] <= (n - k) - 1}
  <2>1. 0 \in G
    <3>1. n # 0 => s[n] \in 0 .. n - 1
      BY <1>3
    <3>2. QED
      BY <3>1
  <2>2. ASSUME NEW i \in 1 .. n, i - 1 \in G
        PROVE  i \in G
    <3>1. CASE i # n
      <4>1. n - i \in 1 .. n /\ n - (i - 1) \in 1 .. n /\ n - i < n - (i - 1)
        BY <3>1
      <4>2. s[n - i] < s[n - (i - 1)] /\ s[n - i] \in Int /\ s[n - (i - 1)] \in Int
        BY <1>3, <4>1
      <4>3. s[n - (i - 1)] <= (n - (i - 1)) - 1
        BY <2>2
      <4>4. s[n - i] <= (n - i) - 1
        BY <4>2, <4>3
      <4>5. QED
        BY <4>4
    <3>2. QED
      BY <3>1
  <2> HIDE DEF G
  <2>3. \A i \in 0 .. n : i \in G
    BY <2>1, <2>2, UpTo
  <2>4. ASSUME NEW k \in 1 .. n
        PROVE  s[k] <= k - 1
    <3>1. n - k \in 0 .. n /\ n - k # n /\ n - (n - k) = k
      OBVIOUS
    <3>2. n - k \in G
      BY <2>3, <3>1
    <3>3. s[n - (n - k)] <= (n - (n - k)) - 1
      BY <3>1, <3>2 DEF G
    <3>4. QED
      BY <3>1, <3>3
  <2>5. QED
    BY <2>4
<1>6. \A k \in 1 .. n : s[k] = k - 1
  <2>1. \A k \in 1 .. n : s[k] \in Int
    BY <1>3
  <2>2. QED
    BY <1>4, <1>5, <2>1
<1>7. QED
  BY <1>1, <1>6 DEF s, S

(* The value read at t is the one of the last row that began by t.         *)
LEMMA Reads ==
  ASSUME TablesSound, NEW key, NEW t \in Nat, NEW r \in rows, r.key = key, r.lower <= t,
         \A s \in rows : s.key = key /\ s.lower > r.lower => s.lower > t
  PROVE  HasValueAt(key, t) /\ ValueAt(key, t) = r.data[2]
<1>1. rows \in SUBSET Row /\ \A s \in Row : s.lower \in Nat
  BY ArchiveAssumption DEF TablesSound, Sound, Row, Instants
<1>2. RowAt(rows, key, t) = {r}
  <2>1. \A s \in rows : s.key = key /\ s.lower <= t => s.lower <= r.lower
    BY <1>1
  <2>2. r \in RowAt(rows, key, t)
    BY <2>1 DEF RowAt
  <2>3. ASSUME NEW s \in RowAt(rows, key, t)
        PROVE  s = r
    <3>1. s \in rows /\ s.key = key /\ s.lower <= t /\ r.lower <= s.lower
      BY <2>3 DEF RowAt
    <3>2. s.lower = r.lower
      BY <1>1, <2>1, <3>1
    <3>3. QED
      BY <3>1, <3>2, SameStart DEF Alike, TablesSound
  <2>4. QED
    BY <2>2, <2>3
<1>3. QED
  BY <1>2 DEF HasValueAt, ValueAt

(* A read at t gives what the last page that stated the key by t said of   *)
(* it.                                                                     *)
LEMMA ReadsAsSaid ==
  ASSUME Typed, TablesSound, AsSaid, InOrder, NEW i \in DOMAIN log, NEW t \in Nat,
         log[i].at <= t, NEW program, program = log[i].program,
         NEW key, Stated(program, key),
         \A j \in i + 1 .. Len(log) :
           log[j].at > t \/ Touches(log[j].program, key) = {}
  PROVE  HasValueAt(key, t) /\ ValueAt(key, t) = Said(program, key)
<1>1. PICK r \in rows :
        /\ r.key = key /\ r.data = LastSaid(program, key) /\ r.lower <= log[i].at
        /\ \A s \in rows : s.key = key /\ s.lower > r.lower =>
             \E j \in i + 1 .. Len(log) :
               /\ log[j].at = s.lower
               /\ \E k \in DOMAIN log[j].program : log[j].program[k].key = key
  BY DEF AsSaid, Remembered
<1>2. rows \in SUBSET Row /\ \A s \in Row : s.lower \in Nat
  BY ArchiveAssumption DEF TablesSound, Sound, Row, Instants
<1>3. log[i].at \in Nat
  BY LogEntries, ArchiveAssumption DEF Typed, Instants
<1>4. r.lower <= t
  BY <1>1, <1>2, <1>3
<1>5. \A s \in rows : s.key = key /\ s.lower > r.lower => s.lower > t
  BY <1>1 DEF Touches
<1>6. HasValueAt(key, t) /\ ValueAt(key, t) = r.data[2]
  BY <1>1, <1>4, <1>5, Reads
<1>7. QED
  BY <1>1, <1>6 DEF Said, LastSaid

(* The keys of the length and of a place of a list.                        *)
CountOf(user) == <<DinozCounts, user>>
PlaceOf(user, k) == <<DinozPlaces, user, k>>

(* A page that counts the dinoz of a user gives each place of her list, and *)
(* no other page gives one.                                                *)
LEMMA ListInPage ==
  ASSUME NEW program, Whole(program), NEW user
  PROVE  /\ Touches(program, CountOf(user)) # {} =>
              /\ Stated(program, CountOf(user))
              /\ Said(program, CountOf(user)) \in Nat
              /\ \A k \in 0 .. Said(program, CountOf(user)) - 1 :
                   Stated(program, PlaceOf(user, k))
         /\ Touches(program, CountOf(user)) = {} =>
              \A k : Touches(program, PlaceOf(user, k)) = {}
<1>1. /\ IsSeq(program) /\ Len(program) \in Nat /\ DOMAIN program = 1 .. Len(program)
      /\ ToSet(program) = {program[i] : i \in 1 .. Len(program)}
  BY SeqIsSeq DEF Whole, IsSeq
<1>2. \A i \in DOMAIN program : program[i] \in ToSet(program) /\ Backed(program[i], ToSet(program))
  BY <1>1 DEF Whole, Complete
<1>3. \A key : (\E u \in ToSet(program) : u.key = key) <=> Touches(program, key) # {}
  BY <1>1 DEF Touches
<1>4. CountOf(user)[1] = DinozCounts /\ CountOf(user)[2] = user
  BY DEF CountOf
<1>5. \A k : PlaceOf(user, k)[1] = DinozPlaces /\ PlaceOf(user, k)[2] = user
  BY DEF PlaceOf
<1>6. \A k : \A i \in Touches(program, PlaceOf(user, k)) :
        program[i].kind = "archive" /\ Touches(program, CountOf(user)) # {}
  <2> SUFFICES ASSUME NEW k, NEW i \in Touches(program, PlaceOf(user, k))
               PROVE  program[i].kind = "archive" /\ Touches(program, CountOf(user)) # {}
    OBVIOUS
  <2>1. i \in DOMAIN program /\ program[i].key = PlaceOf(user, k)
    BY DEF Touches
  <2>2. /\ program[i].kind = "archive"
        /\ \E c \in ToSet(program) : c.key = <<DinozCounts, user>>
    BY <1>2, <1>5, <2>1 DEF Backed
  <2>3. QED
    BY <1>3, <2>2 DEF CountOf
<1>7. ASSUME Touches(program, CountOf(user)) # {}
      PROVE  /\ Stated(program, CountOf(user))
             /\ Said(program, CountOf(user)) \in Nat
             /\ \A k \in 0 .. Said(program, CountOf(user)) - 1 :
                  Stated(program, PlaceOf(user, k))
  <2> DEFINE T == Touches(program, CountOf(user))
             m == Max(T)
  <2>1. T \subseteq 0 .. Len(program)
    BY <1>1 DEF Touches
  <2>2. m \in T
    <3> HIDE DEF T
    <3>1. QED
      BY <1>1, <1>7, <2>1, MaxNumber DEF T
  <2>3. \A i \in T : i \in DOMAIN program /\ program[i].key = CountOf(user)
    BY DEF Touches
  <2>4. Said(program, CountOf(user)) = program[m].data[2]
    BY DEF Said
  <2> HIDE DEF m, T
  <2>5. \A i \in T : /\ program[i].kind = "archive" /\ program[i].data[2] \in Nat
                     /\ \A k \in 0 .. program[i].data[2] - 1 :
                          \E v \in ToSet(program) :
                            v.kind = "archive" /\ v.key = <<DinozPlaces, user, k>>
    BY <1>2, <1>4, <2>3 DEF Backed
  <2>6. \A k \in 0 .. program[m].data[2] - 1 : Touches(program, PlaceOf(user, k)) # {}
    BY <1>3, <2>2, <2>5 DEF PlaceOf
  <2>7. QED
    BY <1>6, <1>7, <2>2, <2>4, <2>5, <2>6 DEF Stated, T
<1>8. QED
  BY <1>6, <1>7

(* get_user_dinoz reads the whole list of the last page that listed it:    *)
(* every place below the length was said by that page, and a page that     *)
(* said one of them later would have said the length as well (Whole).      *)
LEMMA ListRead ==
  ASSUME Programs \subseteq DinoparcPrograms, Typed, TablesSound, AsSaid, InOrder,
         NEW i \in DOMAIN log, NEW t \in Nat, NEW user,
         log[i].at <= t, Touches(log[i].program, CountOf(user)) # {},
         \A j \in i + 1 .. Len(log) :
           log[j].at > t \/ Touches(log[j].program, CountOf(user)) = {}
  PROVE  get_user_dinoz(user, t) = ListIn(log[i].program, user)
<1> DEFINE program == log[i].program
           n == Said(program, CountOf(user))
           offsets == {k \in 0 .. ValueAt(CountOf(user), t) - 1 : HasValueAt(PlaceOf(user, k), t)}
<1>1. /\ Len(log) \in Nat /\ DOMAIN log = 1 .. Len(log)
      /\ \A j \in DOMAIN log : Whole(log[j].program)
  BY LogEntries, DinoparcWhole DEF Typed
<1>2. \A j \in i + 1 .. Len(log) : j \in DOMAIN log
  BY <1>1
<1>3. /\ Stated(program, CountOf(user))
      /\ n \in Nat
      /\ \A k \in 0 .. n - 1 : Stated(program, PlaceOf(user, k))
  BY <1>1, ListInPage
<1>4. ASSUME NEW j \in i + 1 .. Len(log), NEW k
      PROVE  log[j].at > t \/ Touches(log[j].program, PlaceOf(user, k)) = {}
  BY <1>1, <1>2, ListInPage
<1>0. program = log[i].program
  OBVIOUS
<1> HIDE DEF program, n
<1>14. ASSUME NEW key, Stated(program, key),
              \A j \in i + 1 .. Len(log) : log[j].at > t \/ Touches(log[j].program, key) = {}
       PROVE  HasValueAt(key, t) /\ ValueAt(key, t) = Said(program, key)
  BY <1>0, <1>14, ReadsAsSaid, SMTT(60)
<1>5. ValueAt(CountOf(user), t) = n
  BY <1>3, <1>14 DEF n
<1>6. ASSUME NEW k \in 0 .. n - 1
      PROVE  /\ HasValueAt(PlaceOf(user, k), t)
             /\ ValueAt(PlaceOf(user, k), t) = Said(program, PlaceOf(user, k))
  <2> DEFINE key == PlaceOf(user, k)
  <2>1. Stated(program, key)
    BY <1>3
  <2>2. \A j \in i + 1 .. Len(log) : log[j].at > t \/ Touches(log[j].program, key) = {}
    BY <1>4
  <2> HIDE DEF key
  <2>3. HasValueAt(key, t) /\ ValueAt(key, t) = Said(program, key)
    BY <1>14, <2>1, <2>2
  <2>4. QED
    BY <2>3 DEF key
<1>7. offsets = 0 .. n - 1
  BY <1>5, <1>6
<1>8. get_user_dinoz(user, t) =
        [k \in 1 .. Cardinality(offsets) |-> ValueAt(PlaceOf(user, Ascending(offsets)[k]), t)]
  BY DEF get_user_dinoz, CountOf, PlaceOf, DinozCounts, DinozPlaces
<1>9. ListIn(program, user) = [k \in 1 .. n |-> Said(program, PlaceOf(user, k - 1))]
  BY DEF ListIn, CountOf, PlaceOf, DinozCounts, DinozPlaces, n
<1> HIDE DEF offsets
<1>10. Cardinality(offsets) = n /\ \A k \in 1 .. n : Ascending(offsets)[k] = k - 1
  BY <1>3, <1>7, AscendingOffsets
<1>11. \A k \in 1 .. n : ValueAt(PlaceOf(user, Ascending(offsets)[k]), t)
                           = Said(program, PlaceOf(user, k - 1))
  <2>1. \A k \in 1 .. n : k - 1 \in 0 .. n - 1
    BY <1>3
  <2>2. QED
    BY <1>6, <1>10, <2>1
<1>12. get_user_dinoz(user, t) = ListIn(program, user)
  BY <1>8, <1>9, <1>10, <1>11
<1>13. QED
  BY <1>12 DEF program

(* get_user answers at every instant the list of the last page that listed *)
(* the dinoz of that user by then, whole and unmixed, although their       *)
(* number and each place are read from tables of their own. For any pages  *)
(* whose commits are in the order of their instants, any number of calls   *)
(* and any clock.                                                          *)
THEOREM DinoparcListsAsSeen ==
  ASSUME Programs \subseteq DinoparcPrograms
  PROVE  Spec => []ListsAsSeen
<1>1. Typed /\ TablesSound /\ AsSaid => ListsAsSeen
  <2> SUFFICES ASSUME Typed, TablesSound, AsSaid, InOrder, NEW t \in 0 .. now,
                      NEW i \in DOMAIN log, NEW user,
                      log[i].at <= t, Lists(log[i].program, user),
                      \A j \in i + 1 .. Len(log) :
                        log[j].at > t \/ ~Lists(log[j].program, user)
               PROVE  get_user_dinoz(user, t) = ListIn(log[i].program, user)
    BY DEF ListsAsSeen
  <2>1. t \in Nat
    OBVIOUS
  <2>2. \A p : Lists(p, user) <=> Touches(p, CountOf(user)) # {}
    BY DEF Lists, CountOf, DinozCounts
  <2>3. QED
    BY <2>1, <2>2, ListRead
<1>2. QED
  BY <1>1, PagesRemembered, PTL

-----------------------------------------------------------------------------
(***************************************************************************)
(* The owners of the dinoz that are listed.                                *)
(***************************************************************************)

(* A current row that did not begin at t was current at each step of the   *)
(* walk.                                                                   *)
LEMMA WasCurrent ==
  ASSUME NEW path, NEW S, NEW program \in Seq(Touch), NEW t \in Instants,
         Path(path, S, program, t), Sound(S), NEW k \in 0 .. Len(program),
         NEW y \in path[Len(program)], y.upper = Forever, y.lower # t
  PROVE  \E z \in path[k] : z.upper = Forever /\ SameRow(z, y)
<1> DEFINE n == Len(program)
           Good == {W \in SUBSET Row :
                      \A x \in W : x.upper = Forever /\ x.lower # t =>
                        \E z \in path[k] : z.upper = Forever /\ SameRow(z, x)}
<1>1. /\ n \in Nat /\ \A i \in 0 .. n : Sound(path[i])
      /\ \A i \in 1 .. n : i - 1 \in 0 .. n /\ i \in 0 .. n /\ program[i] \in Touch
  BY PathSound
<1>2. path[k] \in Good
  BY <1>1 DEF Sound, SameRow
<1>3. ASSUME NEW i \in k + 1 .. n, program[i].kind = "archive", path[i - 1] \in Good
      PROVE  path[i] \in Good
  <2>1. i \in 1 .. n
    BY <1>1
  <2>2. path[i] \in After(path[i - 1], program[i], t)
    BY <2>1 DEF Path
  <2>3. NewRow(program[i], t).lower = t
    BY DEF NewRow
  <2>4. t # Forever
    BY ArchiveAssumption DEF Instants, Forever
  <2>5. \A x \in path[i] :
          \/ x \in path[i - 1]
          \/ \E r \in path[i - 1] : r.upper = Forever /\ SameRow(r, x)
          \/ x.lower = t
    BY <1>1, <1>3, <2>1, <2>2, <2>3, TouchRows
  <2>6. \A x \in path[i] : x.upper = Forever /\ x.lower # t =>
          \E r \in path[i - 1] : r.upper = Forever /\ SameRow(r, x) /\ r.lower # t
    BY <2>5 DEF SameRow
  <2>7. ASSUME NEW x \in path[i], x.upper = Forever, x.lower # t
        PROVE  \E z \in path[k] : z.upper = Forever /\ SameRow(z, x)
    BY <1>3, <2>6, <2>7 DEF SameRow
  <2>8. QED
    BY <1>1, <2>1, <2>7 DEF Sound
<1> HIDE DEF Good
<1>4. n \in k .. n
  BY <1>1
<1>5. path[n] \in Good
  BY <1>2, <1>3, <1>4, PathHolds
<1>6. QED
  BY <1>5 DEF Good

(* A current row that was seen at s was so before the walk, or the page    *)
(* says so and s is its instant.                                           *)
LEMMA Seen ==
  ASSUME NEW path, NEW S, NEW program \in Seq(Touch), NEW t \in Instants,
         Path(path, S, program, t), Sound(S),
         NEW x \in path[Len(program)], x.upper = Forever, NEW s \in x.retrieved
  PROVE  \/ \E y \in S : y.upper = Forever /\ SameRow(y, x) /\ s \in y.retrieved
         \/ s = t /\ \E u \in ToSet(program) :
                       u.kind = "archive" /\ u.key = x.key /\ u.data = x.data
<1> DEFINE n == Len(program)
           Says(r) == \E u \in ToSet(program) :
                        u.kind = "archive" /\ u.key = r.key /\ u.data = r.data
           Good == {W \in SUBSET Row :
                      \A r \in W : \A d \in r.retrieved : r.upper = Forever =>
                        \/ \E y \in S : y.upper = Forever /\ SameRow(y, r) /\ d \in y.retrieved
                        \/ d = t /\ Says(r)}
<1>1. /\ n \in Nat /\ \A i \in 0 .. n : Sound(path[i])
      /\ \A i \in 1 .. n : /\ i - 1 \in 0 .. n /\ i \in 0 .. n
                           /\ program[i] \in Touch /\ program[i] \in ToSet(program)
  BY PathSound, SeqIsSeq
<1>2. 0 \in 0 .. n /\ n \in 0 .. n /\ path[0] = S
  BY <1>1 DEF Path
<1>3. path[0] \in Good
  BY <1>1, <1>2 DEF Sound, SameRow
<1>4. ASSUME NEW i \in 0 + 1 .. n, program[i].kind = "archive", path[i - 1] \in Good
      PROVE  path[i] \in Good
  <2>1. i \in 1 .. n
    OBVIOUS
  <2> DEFINE u == program[i]
             W == path[i - 1]
  <2>2. /\ path[i] \in After(W, u, t) /\ Sound(W) /\ Sound(path[i]) /\ W \in Good
        /\ u \in Touch /\ u \in ToSet(program) /\ u.kind = "archive"
    BY <1>1, <1>4, <2>1 DEF Path
  <2> HIDE DEF u, W
  <2>3. \A r \in path[i] :
          \/ r \in W
          \/ \E q \in Matching(W, u) : r = Refreshed(q, t)
          \/ r = NewRow(u, t)
          \/ \E q \in CurrentRows(W, u) : r = Closed(q, t)
    BY <2>2, AfterVersions
  <2>4. /\ W \in SUBSET Row /\ Matching(W, u) \subseteq W /\ CurrentRows(W, u) \subseteq W
        /\ \A q \in Matching(W, u) : q.upper = Forever /\ q.key = u.key /\ q.data = u.data
    BY <2>2, TakenOpen DEF Sound, Matching, CurrentPrimary, Open
  <2>5. \A q \in W : /\ SameRow(q, Refreshed(q, t))
                     /\ Refreshed(q, t).retrieved = q.retrieved \cup {t}
                     /\ Closed(q, t).upper = t
    BY <2>4, RowVersions DEF SameRow
  <2>6. /\ NewRow(u, t).retrieved = {t}
        /\ NewRow(u, t).key = u.key /\ NewRow(u, t).data = u.data
    BY DEF NewRow
  <2>7. t # Forever
    BY ArchiveAssumption DEF Instants, Forever
  <2>8. \A r : u.key = r.key /\ u.data = r.data => Says(r)
    BY <2>2
  <2>9. \A q, r : SameRow(q, r) /\ Says(q) => Says(r)
    BY DEF SameRow
  <2> HIDE DEF Says
  <2>10. ASSUME NEW r \in path[i], NEW d \in r.retrieved, r.upper = Forever
         PROVE  \/ \E y \in S : y.upper = Forever /\ SameRow(y, r) /\ d \in y.retrieved
                \/ d = t /\ Says(r)
    <3>1. CASE r \in W
      BY <2>2, <2>10, <3>1
    <3>2. CASE r = NewRow(u, t)
      BY <2>6, <2>8, <2>10, <3>2
    <3>3. CASE \E q \in Matching(W, u) : r = Refreshed(q, t)
      <4>1. PICK q \in Matching(W, u) : r = Refreshed(q, t)
        BY <3>3
      <4>2. q \in W /\ q.upper = Forever /\ SameRow(q, r) /\ (d = t \/ d \in q.retrieved)
        BY <2>4, <2>5, <2>10, <4>1
      <4>3. CASE d = t
        <5>1. Says(r)
          BY <2>4, <2>8, <4>1, <4>2 DEF SameRow
        <5>2. QED
          BY <4>3, <5>1
      <4>4. CASE d \in q.retrieved
        <5>1. \/ \E y \in S : y.upper = Forever /\ SameRow(y, q) /\ d \in y.retrieved
              \/ d = t /\ Says(q)
          BY <2>2, <4>2, <4>4
        <5>2. QED
          BY <2>9, <4>2, <5>1 DEF SameRow
      <4>5. QED
        BY <4>2, <4>3, <4>4
    <3>4. QED
      BY <2>3, <2>4, <2>5, <2>7, <2>10, <3>1, <3>2, <3>3
  <2>11. QED
    BY <2>2, <2>10 DEF Sound
<1> HIDE DEF Good
<1>5. path[n] \in Good
  BY <1>2, <1>3, <1>4, PathHolds
<1>6. QED
  BY <1>5 DEF Good

(* A page that lists a dinoz tells its owner (Whole), so the owner that is *)
(* current begins with the row of the list, at the latest; a later page    *)
(* that tells another owner does not refresh the row of the list.          *)
LEMMA OwnedStep ==
  ASSUME Programs \subseteq DinoparcPrograms
  PROVE  Typed /\ Serial /\ TablesSound /\ TablesSound' /\ Dated' /\ ListedIsOwned /\ [Next]_vars
           => ListedIsOwned'
<1> SUFFICES ASSUME Typed, Serial, TablesSound, TablesSound', Dated', ListedIsOwned, [Next]_vars
             PROVE  ListedIsOwned'
  OBVIOUS
<1>1. ASSUME NEW c \in Calls, Commit(c)
      PROVE  ListedIsOwned'
  <2> DEFINE program == tx[c].program
             t == tx[c].now
  <2>1. /\ program \in Programs /\ program \in Seq(Touch) /\ t \in Instants
        /\ log' = Append(log, [program |-> program, at |-> t])
    BY <1>1, CommitWalks
  <2>2. PICK path : Path(path, rows, program, t) /\ path[Len(program)] = rows'
    BY <1>1, CommitWalks
  <2>3. Whole(program)
    BY <2>1, DinoparcWhole
  <2> HIDE DEF program, t
  <2> SUFFICES ASSUME InOrder', NEW r \in rows', r.upper = Forever, r.key[1] = DinozPlaces,
                      NEW o \in rows', o.upper = Forever,
                      o.key = <<DinozOwners, r.data[2]>>, o.data[2] # r.key[2],
                      NEW s \in r.retrieved
               PROVE  s <= o.lower
    BY DEF ListedIsOwned, Open, DinozPlaces, DinozOwners
  <2>4. /\ InOrder
        /\ s \in Times' /\ Times' = Times \cup {t} /\ \A d \in Times : d <= t
        /\ Times \subseteq Instants
    BY <2>1, LogAppend DEF Typed, TypeOK, Dated, Dates
  <2>5. s \in Nat /\ t \in Nat /\ s <= t
    BY <2>1, <2>4, ArchiveAssumption DEF Instants
  <2>6. CASE o.lower = t
    BY <2>5, <2>6
  <2>7. CASE o.lower # t
    <3>1. \A k \in 0 .. Len(program) : \E z \in path[k] : z.upper = Forever /\ SameRow(z, o)
      BY <2>1, <2>2, <2>7, WasCurrent DEF TablesSound
    <3>2. path[0] = rows /\ 0 \in 0 .. Len(program)
      BY <2>1, <2>2 DEF Path
    <3>3. PICK o0 \in rows : o0.upper = Forever /\ SameRow(o0, o)
      BY <3>1, <3>2
    <3>4. CASE \E y \in rows : y.upper = Forever /\ SameRow(y, r) /\ s \in y.retrieved
      <4>1. PICK y \in rows : y.upper = Forever /\ SameRow(y, r) /\ s \in y.retrieved
        BY <3>4
      <4>2. /\ y.key[1] = DinozPlaces /\ o0.key = <<DinozOwners, y.data[2]>>
            /\ o0.data[2] # y.key[2] /\ o0.lower = o.lower
        BY <3>3, <4>1 DEF SameRow
      <4>3. QED
        BY <2>4, <3>3, <4>1, <4>2 DEF ListedIsOwned, Open, DinozPlaces, DinozOwners
    <3>5. CASE \E u \in ToSet(program) : u.kind = "archive" /\ u.key = r.key /\ u.data = r.data
      <4>1. PICK u \in ToSet(program) : u.kind = "archive" /\ u.key = r.key /\ u.data = r.data
        BY <3>5
      <4>2. PICK w \in ToSet(program) : /\ w.kind = "archive" /\ w.key = <<DinozOwners, r.data[2]>>
                                        /\ w.data[2] = r.key[2]
        BY <2>3, <4>1 DEF Whole, Complete, Backed
      <4>3. PICK j \in 1 .. Len(program) : program[j] = w
        BY <2>1, SeqIsSeq
      <4>4. PICK x \in path[j] : x.upper = Forever /\ x.key = w.key /\ x.data = w.data
        <5>1. program[j].kind = "archive"
          BY <4>2, <4>3
        <5>2. \E x \in path[j] : /\ x.upper = Forever /\ x.key = program[j].key
                                 /\ x.data = program[j].data
          BY <2>1, <2>2, <5>1, Shows DEF TablesSound
        <5>3. QED
          BY <4>3, <5>2
      <4>5. Sound(path[j]) /\ j \in 0 .. Len(program)
        BY <2>1, <2>2, PathSound DEF TablesSound
      <4>6. PICK z \in path[j] : z.upper = Forever /\ SameRow(z, o)
        BY <3>1, <4>5
      <4>7. z.key = x.key
        BY <4>2, <4>4, <4>6 DEF SameRow
      <4>8. z = x
        BY <4>4, <4>5, <4>6, <4>7, OneOpen DEF Alike
      <4>9. QED
        BY <4>2, <4>4, <4>6, <4>8 DEF SameRow
    <3>6. QED
      <4>1. /\ Path(path, rows, program, t) /\ Sound(rows) /\ r \in path[Len(program)]
            /\ program \in Seq(Touch) /\ t \in Instants
        BY <2>1, <2>2 DEF TablesSound
      <4>2. \/ \E y \in rows : y.upper = Forever /\ SameRow(y, r) /\ s \in y.retrieved
            \/ \E u \in ToSet(program) : u.kind = "archive" /\ u.key = r.key /\ u.data = r.data
        BY <4>1, Seen
      <4>3. QED
        BY <3>4, <3>5, <4>2
  <2>8. QED
    BY <2>6, <2>7
<1>2. CASE rows' = rows /\ log' = log
  <2>1. InOrder' => InOrder
    BY <1>2 DEF InOrder
  <2>2. QED
    BY <1>2, <2>1 DEF ListedIsOwned, Open
<1>3. QED
  BY <1>1, <1>2, OnlyCommits

(* What get_user lists and what get_dinoz says of the owner agree, though  *)
(* they are archived in tables of their own: a dinoz current in the list   *)
(* of a user has another owner only by a page no older than any retrieval  *)
(* of that list. For any pages and any interleaving in the order of their  *)
(* instants.                                                               *)
THEOREM DinoparcListedIsOwned ==
  ASSUME Programs \subseteq DinoparcPrograms
  PROVE  Spec => []ListedIsOwned
<1>1. Init => ListedIsOwned
  BY DEF Init, ListedIsOwned, Open
<1>2. Typed /\ Serial /\ TablesSound /\ TablesSound' /\ Dated' /\ ListedIsOwned /\ [Next]_vars
        => ListedIsOwned'
  BY OwnedStep
<1>3. QED
  BY <1>1, <1>2, Soundness, Datedness, PTL DEF Spec
=============================================================================

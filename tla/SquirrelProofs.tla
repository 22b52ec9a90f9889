--------------------------- MODULE SquirrelProofs ---------------------------
(***************************************************************************)
(* The schema manager, for any graph of scripts whose upgrades rise, any   *)
(* number of processes and any failures: a migration leaves no script of   *)
(* its plan out, and a schema created for a test is fresh.                 *)
(*                                                                         *)
(* The argument: only one call holds the locks of its first script         *)
(* (OneLock), and what it has made so far is either the committed schema   *)
(* with its tables emptied (Truncated), or the schema of the state it has  *)
(* reached, with every script of the path up to there (Advanced).  A call  *)
(* that does not hold them yet knows the committed schema only as long as  *)
(* nobody else commits (Promised).                                         *)
(***************************************************************************)
EXTENDS Squirrel, TLAPS, FiniteSetTheorems, WellFoundedInduction

Pcs     == {"idle", "truncate", "drop", "check", "script", "commit", "answered"}
Schemas == [version : Nat, ran : Seq(Nat \X Nat), rows : BOOLEAN]
CallSet == [pc : Pcs, path : SUBSET Nat, at : Nat, end : Nat \cup {None},
            work : Schemas, locked : BOOLEAN, alone : BOOLEAN]

Typed == /\ schema \in Schemas
         /\ cache \in [Processes -> Nat \cup {None}]
         /\ call \in [Processes -> CallSet]

Active(c) == c.pc \notin {"idle", "answered"}

(* The plan of a call: its path has a last state, and it begins at the     *)
(* first one, which is the empty schema when a schema is created.          *)
Planned(c) ==
  /\ c.at \in c.path
  /\ \E last \in c.path : \A s \in c.path : s <= last
  /\ ~c.locked => \A s \in c.path : c.at <= s
  /\ c.end # None => /\ c.end \in c.path /\ \A s \in c.path : s <= c.end
                     /\ ~c.locked => c.at = Empty

(* The scripts of the path up to a state.                                  *)
Done(path, at, ran) ==
  \A s \in path : s < at => <<s, NextOn(path, s)>> \in Range(ran)

(* What a transaction that has its locks has made so far: the schema of    *)
(* the state that it has reached, or the committed one with its tables     *)
(* emptied.                                                                *)
Advanced(c) == c.work.version = c.at /\ Done(c.path, c.at, c.work.ran)
Truncated(c) == /\ c.pc = "commit" /\ c.end # None
                /\ c.work.version = schema.version /\ c.work.ran = schema.ran

Working(c) ==
  /\ Advanced(c) \/ Truncated(c)
  /\ c.end # None => ~c.work.rows

(* Where a call is.                                                        *)
Placed(c) ==
  /\ c.pc = "truncate" => ~c.locked /\ c.end # None
  /\ c.pc = "drop" => ~c.locked /\ c.at = Empty
  /\ c.pc \in {"check", "script", "commit"} /\ c.end # None => c.locked
  /\ c.pc = "script" => \E s \in c.path : s > c.at
  /\ c.pc = "commit" => Truncated(c) \/ \A s \in c.path : s <= c.at

(* A schema that somebody was promised is there, or will be, while nobody  *)
(* else commits.                                                           *)
Promised(c) ==
  c.alone => /\ c.pc = "truncate" => schema.version = c.end
             /\ c.pc = "commit" /\ c.end # None => c.work.version = c.end

Sound(c) ==
  /\ Active(c) => Planned(c) /\ Placed(c) /\ Promised(c)
  /\ c.locked => Active(c) /\ Working(c)

OneLock == \A p, q \in Processes : call[p].locked /\ call[q].locked => p = q

Inv == /\ Typed /\ OneLock
       /\ \A p \in Processes : Sound(call[p])


-----------------------------------------------------------------------------
(* A set of numbers has a least one: the intervals from 0 are ordered by   *)
(* strict inclusion, which is well founded on finite sets.                 *)
LEMMA LeastNumber ==
  ASSUME NEW S \in SUBSET Nat, S # {}
  PROVE  \E m \in S : \A k \in S : m <= k
<1> DEFINE R == StrictSubsetOrdering(Nat)
           T == {0 .. n : n \in S}
<1>1. IsWellFoundedOn(R, FiniteSubsetsOf(Nat))
  BY FS_StrictSubsetOrderingWellFounded
<1>2. \A n \in Nat : IsFiniteSet(0 .. n) /\ 0 .. n \subseteq Nat
  BY FS_Interval
<1>3. T \subseteq FiniteSubsetsOf(Nat) /\ T # {}
  BY <1>2, Zenon DEF FiniteSubsetsOf
<1>4. \E x \in T : \A y \in T : <<y, x>> \notin R
  <2> HIDE DEF R, T
  <2>1. QED
    BY <1>1, <1>3, WFMin, Zenon
<1>5. PICK m \in S : \A k \in S : <<0 .. k, 0 .. m>> \notin R
  BY <1>4, Zenon
<1>6. ASSUME NEW k \in S, k < m
      PROVE  FALSE
  <2>1. m \in 0 .. m /\ m \notin 0 .. k /\ 0 .. k \subseteq 0 .. m
    BY <1>6
  <2>2. <<0 .. k, 0 .. m>> \in R
    BY <2>1, <1>2 DEF StrictSubsetOrdering
  <2>3. QED
    BY <2>2, <1>5
<1>7. QED
  BY <1>6

-----------------------------------------------------------------------------
(* The last state of a path is its greatest one.                           *)
LEMMA LastState ==
  ASSUME NEW path \in SUBSET Nat, NEW last \in path, \A s \in path : s <= last
  PROVE  Max(path) = last
<1>1. \A s \in path : last >= s
  OBVIOUS
<1>2. /\ Max(path) \in path /\ \A s \in path : Max(path) >= s
  BY <1>1 DEF Max
<1>3. Max(path) >= last /\ last >= Max(path)
  BY <1>1, <1>2
<1>4. Max(path) \in Nat /\ last \in Nat
  BY <1>2
<1>5. QED
  BY <1>3, <1>4

(* The first state of a path is its least one.                             *)
LEMMA FirstState ==
  ASSUME NEW path \in SUBSET Nat, path # {}
  PROVE  Min(path) \in path /\ \A s \in path : Min(path) <= s
BY LeastNumber DEF Min

(* The next state of a path.                                               *)
LEMMA NextState ==
  ASSUME NEW path \in SUBSET Nat, NEW s \in path, NEW last \in path, last > s
  PROVE  /\ NextOn(path, s) \in path /\ NextOn(path, s) > s
         /\ \A t \in path : t < NextOn(path, s) => t <= s
<1> DEFINE later == {t \in path : t > s}
<1>1. later \in SUBSET Nat /\ later # {}
  OBVIOUS
<1>2. NextOn(path, s) = Min(later)
  BY DEF NextOn
<1>3. Min(later) \in later /\ \A t \in later : Min(later) <= t
  BY <1>1, FirstState
<1>4. \A t \in path : t < Min(later) => ~(t > s)
  BY <1>1, <1>3
<1>5. QED
  BY <1>2, <1>3, <1>4

(* The states are versions, the empty one 0.                               *)
LEMMA StatesAreNumbers == States \in SUBSET Nat
<1>1. ASSUME NEW e \in Edges
      PROVE  e[1] \in Nat /\ e[2] \in Nat
  <2>1. CASE e \in {Empty} \X Creates
    <3>1. e[1] = Empty /\ e[2] \in Creates
      BY <2>1
    <3>2. Creates \subseteq Nat
      BY GraphAssumption
    <3>3. Empty \in Nat
      BY DEF Empty
    <3>4. QED
      BY <3>1, <3>2, <3>3
  <2>2. CASE e \in Upgrades
    BY <2>2, GraphAssumption
  <2>3. QED
    BY <2>1, <2>2 DEF Edges
<1>2. QED
  BY <1>1 DEF States, Empty

(* The paths of a plan.                                                    *)
LEMMA PlannedPath ==
  ASSUME NEW start \in Nat, NEW end \in Nat, NEW dir, NEW path \in Migrations(start, end, dir)
  PROVE  /\ path \in SUBSET Nat /\ start \in path /\ end \in path
         /\ \A s \in path : start <= s /\ s <= end
<1>1. CASE start = end
  BY <1>1 DEF Migrations
<1>2. CASE start # end
  <2>1. path \in SUBSET States /\ IsPath(path, start, end)
    BY <1>2 DEF Migrations
  <2>2. QED
    BY <2>1, StatesAreNumbers DEF IsPath
<1>3. QED
  BY <1>1, <1>2

(* A script is added to those that the schema has.                         *)
LEMMA Appending ==
  ASSUME NEW ran \in Seq(Nat \X Nat), NEW a \in Nat, NEW b \in Nat
  PROVE  /\ Append(ran, <<a, b>>) \in Seq(Nat \X Nat)
         /\ Range(Append(ran, <<a, b>>)) = Range(ran) \cup {<<a, b>>}
<1> DEFINE s == Append(ran, <<a, b>>)
<1>1. s \in Seq(Nat \X Nat) /\ Len(s) = Len(ran) + 1 /\ s[Len(s)] = <<a, b>>
      /\ \A i \in 1 .. Len(ran) : s[i] = ran[i]
  OBVIOUS
<1>2. DOMAIN s = 1 .. Len(ran) + 1 /\ DOMAIN ran = 1 .. Len(ran) /\ Len(ran) \in Nat
  BY <1>1
<1> HIDE DEF s
<1>5. DOMAIN s = DOMAIN ran \cup {Len(s)}
  BY <1>1, <1>2
<1>6. Range(s) = Range(ran) \cup {<<a, b>>}
  BY <1>1, <1>2, <1>5 DEF Range
<1>7. QED
  BY <1>1, <1>6 DEF s

(* What Init and an answer leave.                                          *)
LEMMA IdleCall == Idle \in CallSet /\ Idle.pc = "idle" /\ ~Idle.locked /\ EmptySchema \in Schemas
<1>1. EmptySchema \in Schemas
  BY DEF EmptySchema, Schemas, Empty
<1>2. QED
  BY <1>1 DEF Idle, CallSet, Pcs, Empty

(* A step of one call that leaves the schema.                              *)
LEMMA OneCall ==
  ASSUME Inv, NEW p \in Processes, NEW t \in CallSet, Become(p, t), UNCHANGED schema,
         cache' \in [Processes -> Nat \cup {None}],
         Sound(t), t.locked => call[p].locked \/ Unlocked(p)
  PROVE  Inv'
<1>1. call' \in [Processes -> CallSet] /\ call'[p] = t
      /\ \A q \in Processes \ {p} : call'[q] = call[q]
  BY DEF Become, Inv, Typed
<1>2. Typed'
  BY <1>1 DEF Inv, Typed
<1>3. OneLock'
  <2>1. \A q \in Processes \ {p} : ~(t.locked /\ call[q].locked)
    BY DEF Inv, OneLock, Unlocked
  <2>2. QED
    BY <1>1, <2>1 DEF Inv, OneLock
<1>4. ASSUME NEW q \in Processes
      PROVE  Sound(call[q])'
  <2>1. PICK u : u = call'[q]
    OBVIOUS
  <2>2. Sound(u)
    BY <1>1, <2>1 DEF Inv
  <2>3. Sound(u)'
    BY <2>2 DEF Sound, Planned, Placed, Promised, Working, Advanced, Truncated, Active
  <2>4. QED
    BY <2>1, <2>3
<1>5. QED
  BY <1>2, <1>3, <1>4 DEF Inv

(* create_migration begins with a plan for the version it has read.        *)
LEMMA Begins ==
  ASSUME Inv, NEW p \in Processes, NEW end \in Nat, NEW dir, Plan(p, end, dir)
  PROVE  Inv'
<1>1. PICK path \in Migrations(schema.version, end, dir) :
        Become(p, [Idle EXCEPT !.pc = "check", !.path = path, !.at = Min(path)])
  BY DEF Plan
<1> DEFINE t == [Idle EXCEPT !.pc = "check", !.path = path, !.at = Min(path)]
<1>2. schema.version \in Nat
  BY DEF Inv, Typed, Schemas
<1>3. path \in SUBSET Nat /\ path # {} /\ \E last \in path : \A s \in path : s <= last
  BY <1>2, PlannedPath
<1>4. Min(path) \in path /\ \A s \in path : Min(path) <= s
  BY <1>3, FirstState
<1>5. /\ t \in CallSet /\ t.pc = "check" /\ t.path = path /\ t.at = Min(path)
      /\ t.end = None /\ ~t.locked
  BY <1>3, <1>4, IdleCall DEF CallSet, Pcs, Idle
<1> HIDE DEF t
<1>6. Sound(t)
  BY <1>3, <1>4, <1>5 DEF Sound, Planned, Placed, Promised
<1>7. UNCHANGED schema /\ cache' \in [Processes -> Nat \cup {None}]
  BY DEF Plan, Inv, Typed
<1>8. QED
  BY <1>1, <1>5, <1>6, <1>7, OneCall DEF t

(* force_create begins with a plan from nothing, and what its cache promises.*)
LEMMA Forces ==
  ASSUME Inv, NEW p \in Processes, NEW state \in Nat \ {Empty}, NEW void,
         ForceCreate(p, state, void)
  PROVE  Inv'
<1> DEFINE pc == IF void /\ cache[p] = state /\ schema.version = state
                 THEN "truncate" ELSE "drop"
<1>1. PICK path \in Migrations(Empty, state, "UpgradeOnly") :
        Become(p, [Idle EXCEPT !.pc = pc, !.path = path, !.end = state])
  BY DEF ForceCreate
<1>2. pc \in {"truncate", "drop"} /\ (pc = "truncate" => schema.version = state)
  OBVIOUS
<1> HIDE DEF pc
<1> DEFINE t == [Idle EXCEPT !.pc = pc, !.path = path, !.end = state]
<1>3. path \in SUBSET Nat /\ Empty \in path /\ state \in path
      /\ \A s \in path : Empty <= s /\ s <= state
  BY PlannedPath DEF Empty
<1>4. /\ t \in CallSet /\ t.pc = pc /\ t.path = path /\ t.at = Empty
      /\ t.end = state /\ ~t.locked
  BY <1>2, <1>3, IdleCall DEF CallSet, Pcs, Idle
<1> HIDE DEF t
<1>5. state # None
  BY GraphAssumption
<1>6. Sound(t)
  BY <1>2, <1>3, <1>4, <1>5 DEF Sound, Planned, Placed, Promised
<1>7. UNCHANGED schema /\ cache' \in [Processes -> Nat \cup {None}]
  BY DEF ForceCreate, Inv, Typed
<1>8. QED
  BY <1>1, <1>4, <1>6, <1>7, OneCall DEF t

(* What is known of a call before its step.                                *)
LEMMA Before ==
  ASSUME Inv, NEW p \in Processes
  PROVE  /\ call[p] \in CallSet /\ Sound(call[p])
         /\ View(p) \in Schemas
         /\ schema \in Schemas /\ cache \in [Processes -> Nat \cup {None}]
         /\ ~call[p].locked => View(p) = schema
         /\ call[p].locked => View(p) = call[p].work /\ Working(call[p])
BY DEF Inv, Typed, View, Sound, Working, CallSet

(* empty begins with the empty schema as its plan.                         *)
LEMMA Empties ==
  ASSUME Inv, NEW p \in Processes, EmptyDatabase(p)
  PROVE  Inv'
<1> DEFINE t == [Idle EXCEPT !.pc = "drop", !.path = {Empty}]
<1>1. /\ t \in CallSet /\ t.pc = "drop" /\ t.path = {Empty} /\ t.at = Empty
      /\ t.end = None /\ ~t.locked
  BY IdleCall DEF CallSet, Pcs, Idle, Empty
<1> HIDE DEF t
<1>2. Sound(t)
  BY <1>1 DEF Sound, Planned, Placed, Promised, Empty
<1>3. /\ Become(p, t) /\ UNCHANGED schema
      /\ cache' \in [Processes -> Nat \cup {None}]
  BY Before DEF EmptyDatabase, t
<1>4. QED
  BY <1>1, <1>2, <1>3, OneCall

(* truncate_all: the tables of the promised version, emptied.              *)
LEMMA Truncates ==
  ASSUME Inv, NEW p \in Processes, TruncateAll(p)
  PROVE  Inv'
<1> DEFINE c == call[p]
           work == [View(p) EXCEPT !.rows = FALSE]
           t == [c EXCEPT !.pc = "commit", !.locked = TRUE, !.work = work]
<1>1. c \in CallSet /\ Sound(c) /\ c.pc = "truncate" /\ View(p) \in Schemas
  BY Before DEF TruncateAll, At
<1>2. Active(c) /\ ~c.locked /\ c.end # None
  BY <1>1 DEF Sound, Placed, Active
<1>3. View(p) = schema
  BY <1>2, Before
<1>4. /\ work \in Schemas /\ work.version = schema.version /\ work.ran = schema.ran
      /\ ~work.rows
  BY <1>1, <1>3 DEF Schemas
<1> HIDE DEF work
<1>5. /\ t \in CallSet /\ t.pc = "commit" /\ t.locked /\ t.work = work
      /\ t.path = c.path /\ t.at = c.at /\ t.end = c.end /\ t.alone = c.alone
  BY <1>1, <1>4 DEF CallSet, Pcs
<1> HIDE DEF t
<1>6. Planned(t)
  BY <1>1, <1>2, <1>5 DEF Sound, Planned
<1>7. Working(t) /\ Truncated(t)
  BY <1>2, <1>4, <1>5 DEF Working, Truncated, Inv
<1>8. Promised(t)
  BY <1>1, <1>2, <1>4, <1>5 DEF Sound, Promised
<1>9. Sound(t)
  BY <1>5, <1>6, <1>7, <1>8 DEF Sound, Placed, Active
<1>10. /\ Become(p, t) /\ UNCHANGED schema /\ Unlocked(p)
       /\ cache' \in [Processes -> Nat \cup {None}]
  BY Before DEF TruncateAll, t, work
<1>11. QED
  BY <1>5, <1>9, <1>10, OneCall

(* drop_all: the plan starts again from the empty schema.                  *)
LEMMA Drops ==
  ASSUME Inv, NEW p \in Processes, Drop(p)
  PROVE  Inv'
<1> DEFINE c == call[p]
           t == [c EXCEPT !.pc = "check", !.locked = TRUE, !.work = EmptySchema]
<1>1. c \in CallSet /\ Sound(c) /\ c.pc = "drop"
  BY Before DEF Drop, At
<1>2. Active(c) /\ ~c.locked /\ c.at = Empty
  BY <1>1 DEF Sound, Placed, Active
<1>3. /\ t \in CallSet /\ t.pc = "check" /\ t.locked /\ t.work = EmptySchema
      /\ t.path = c.path /\ t.at = c.at /\ t.end = c.end /\ t.alone = c.alone
  BY <1>1, IdleCall DEF CallSet, Pcs
<1> HIDE DEF t
<1>4. c.at = Empty /\ \A s \in c.path : s \in Nat /\ c.at <= s
  BY <1>1, <1>2 DEF Sound, Planned, CallSet
<1>5. Planned(t)
  BY <1>1, <1>2, <1>3 DEF Sound, Planned
<1>6. Advanced(t)
  BY <1>3, <1>4 DEF Advanced, Done, EmptySchema, Empty
<1>7. Working(t)
  BY <1>3, <1>6, IdleCall DEF Working, EmptySchema
<1>8. Sound(t)
  BY <1>3, <1>5, <1>7 DEF Sound, Placed, Promised, Active
<1>9. /\ Become(p, t) /\ UNCHANGED schema /\ Unlocked(p)
      /\ cache' \in [Processes -> Nat \cup {None}]
  BY Before DEF Drop, t
<1>10. QED
  BY <1>3, <1>8, <1>9, OneCall

(* The version is checked before each script.                              *)
LEMMA Checks ==
  ASSUME Inv, NEW p \in Processes, Check(p)
  PROVE  Inv'
<1> DEFINE c == call[p]
           t == [c EXCEPT !.pc = "script"]
<1>1. c \in CallSet /\ Sound(c) /\ c.pc = "check"
  BY Before DEF Check, At
<1>2. /\ t \in CallSet /\ t.pc = "script" /\ t.locked = c.locked /\ t.work = c.work
      /\ t.path = c.path /\ t.at = c.at /\ t.end = c.end /\ t.alone = c.alone
  BY <1>1 DEF CallSet, Pcs
<1> HIDE DEF t
<1>3. Planned(c) /\ c.path \in SUBSET Nat /\ c.at # Max(c.path)
  BY <1>1 DEF Sound, Active, Check, Target, CallSet
<1>4. \E s \in c.path : s > c.at
  <2>1. PICK last \in c.path : \A s \in c.path : s <= last
    BY <1>3 DEF Planned
  <2>2. last # c.at /\ c.at <= last
    BY <1>3, <2>1, LastState DEF Planned
  <2>3. last \in Nat /\ c.at \in Nat
    BY <1>3, <2>1 DEF Planned
  <2>4. QED
    BY <2>1, <2>2, <2>3
<1>5. Sound(t)
  BY <1>1, <1>2, <1>4 DEF Sound, Planned, Placed, Promised, Working, Advanced, Truncated, Active
<1>6. /\ Become(p, t) /\ UNCHANGED schema /\ cache' \in [Processes -> Nat \cup {None}]
  BY Before DEF Check, t
<1>7. QED
  BY <1>2, <1>5, <1>6, OneCall

(* A script that the version admits.                                       *)
LEMMA Runs ==
  ASSUME Inv, NEW p \in Processes, Run(p)
  PROVE  Inv'
<1> DEFINE c == call[p]
           next == NextOn(c.path, c.at)
           work == [View(p) EXCEPT !.version = next, !.ran = Append(@, <<c.at, next>>)]
           t == [c EXCEPT !.pc = "check", !.locked = TRUE, !.at = next, !.work = work]
<1>1. c \in CallSet /\ Sound(c) /\ c.pc = "script" /\ View(p) \in Schemas
  BY Before DEF Run, At
<1>2. Planned(c) /\ Placed(c) /\ c.path \in SUBSET Nat
  BY <1>1 DEF Sound, Active, CallSet
<1>3. PICK last \in c.path : \A s \in c.path : s <= last
  BY <1>2 DEF Planned
<1>4. c.at \in c.path /\ last \in Nat /\ c.at \in Nat /\ last > c.at
  BY <1>1, <1>2, <1>3 DEF Planned, Placed
<1>5. next \in c.path /\ next > c.at /\ \A s \in c.path : s < next => s <= c.at
  BY <1>2, <1>4, NextState
<1>6. next \in Nat /\ View(p).ran \in Seq(Nat \X Nat)
  BY <1>1, <1>2, <1>5 DEF Schemas
<1> HIDE DEF next
<1>7. /\ work \in Schemas /\ work.version = next
      /\ work.ran = Append(View(p).ran, <<c.at, next>>) /\ work.rows = View(p).rows
  BY <1>1, <1>4, <1>6, Appending DEF Schemas
<1> HIDE DEF work
<1>8. Range(work.ran) = Range(View(p).ran) \cup {<<c.at, next>>}
  BY <1>4, <1>6, <1>7, Appending
<1>9. /\ t \in CallSet /\ t.pc = "check" /\ t.locked /\ t.work = work
      /\ t.path = c.path /\ t.at = next /\ t.end = c.end /\ t.alone = c.alone
  BY <1>1, <1>6, <1>7 DEF CallSet, Pcs
<1> HIDE DEF t
<1>10. Planned(t)
  BY <1>2, <1>5, <1>9 DEF Planned
<1>11. Done(c.path, c.at, View(p).ran)
  <2>1. CASE c.locked
    BY <1>1, <2>1, Before DEF Working, Advanced, Truncated
  <2>2. CASE ~c.locked
    BY <1>2, <1>4, <2>2 DEF Planned, Done
  <2>3. QED
    BY <2>1, <2>2
<1>12. Done(c.path, next, work.ran)
  <2>1. ASSUME NEW s \in c.path, s < next
        PROVE  <<s, NextOn(c.path, s)>> \in Range(work.ran)
    <3>1. s = c.at \/ s < c.at
      BY <1>2, <1>4, <1>5, <2>1
    <3>2. CASE s = c.at
      BY <1>8, <3>2 DEF next
    <3>3. CASE s < c.at
      BY <1>8, <1>11, <3>3 DEF Done
    <3>4. QED
      BY <3>1, <3>2, <3>3
  <2>2. QED
    BY <2>1 DEF Done
<1>13. c.end # None => ~work.rows
  BY <1>1, <1>2, <1>7, Before DEF Placed, Working
<1>14. Working(t)
  BY <1>7, <1>8, <1>9, <1>12, <1>13 DEF Working, Advanced
<1>15. Sound(t)
  BY <1>9, <1>10, <1>14 DEF Sound, Placed, Promised, Active
<1>16. /\ Become(p, t) /\ UNCHANGED schema /\ Unlocked(p)
       /\ cache' \in [Processes -> Nat \cup {None}]
  BY Before DEF Run, Edge, t, work, next
<1>17. QED
  BY <1>9, <1>15, <1>16, OneCall

(* The end of the path.                                                    *)
LEMMA Applies ==
  ASSUME Inv, NEW p \in Processes, Applied(p)
  PROVE  Inv'
<1> DEFINE c == call[p]
           t == [c EXCEPT !.pc = "commit"]
<1>1. c \in CallSet /\ Sound(c) /\ c.pc = "check"
  BY Before DEF Applied, At
<1>2. /\ t \in CallSet /\ t.pc = "commit" /\ t.locked = c.locked /\ t.work = c.work
      /\ t.path = c.path /\ t.at = c.at /\ t.end = c.end /\ t.alone = c.alone
  BY <1>1 DEF CallSet, Pcs
<1> HIDE DEF t
<1>3. Planned(c) /\ Placed(c) /\ c.path \in SUBSET Nat /\ c.at = Max(c.path)
  BY <1>1 DEF Sound, Active, Applied, Target, CallSet
<1>4. \A s \in c.path : s <= c.at
  BY <1>3, LastState DEF Planned
<1>5. c.end # None => c.end = c.at
  BY <1>3, LastState DEF Planned
<1>6. c.locked => Working(c) /\ Advanced(c)
  BY <1>1 DEF Sound, Working, Truncated
<1>7. Sound(t)
  BY <1>1, <1>2, <1>3, <1>4, <1>5, <1>6
     DEF Sound, Planned, Placed, Promised, Working, Advanced, Active
<1>8. Become(p, t) /\ UNCHANGED schema
  BY DEF Applied, t
<1>9. cache' \in [Processes -> Nat \cup {None}]
  BY <1>1, Before DEF Applied, CallSet
<1>10. QED
  BY <1>2, <1>7, <1>8, <1>9, OneCall

(* A call that fails leaves the schema as it was.                          *)
LEMMA Fails ==
  ASSUME Inv, NEW p \in Processes, Fail(p)
  PROVE  Inv'
<1>1. Sound(Idle)
  BY IdleCall DEF Sound, Active
<1>2. QED
  BY <1>1, IdleCall, Before, OneCall DEF Fail

(* A commit publishes what the transaction has made, and breaks what was   *)
(* promised to the others.                                                 *)
LEMMA CommitEffect ==
  ASSUME Inv, NEW p \in Processes, Commit(p)
  PROVE  /\ schema' = View(p) /\ call[p].pc = "commit" /\ UNCHANGED cache
         /\ call' \in [Processes -> CallSet]
         /\ call'[p].pc = "answered" /\ ~call'[p].locked
         /\ \A q \in Processes \ {p} :
              /\ call'[q].pc = call[q].pc /\ call'[q].path = call[q].path
              /\ call'[q].at = call[q].at /\ call'[q].end = call[q].end
              /\ call'[q].work = call[q].work /\ call'[q].locked = call[q].locked
              /\ ~call'[q].alone
<1> DEFINE mine == [call[p] EXCEPT !.pc = "answered", !.locked = FALSE, !.work = EmptySchema]
           other(q) == [call[q] EXCEPT !.alone = FALSE]
<1>1. \A q \in Processes : call[q] \in CallSet
  BY Before
<1>2. mine \in CallSet /\ mine.pc = "answered" /\ ~mine.locked
  BY <1>1, IdleCall DEF CallSet, Pcs
<1>3. ASSUME NEW q \in Processes
      PROVE  /\ other(q) \in CallSet /\ ~other(q).alone
             /\ other(q).pc = call[q].pc /\ other(q).path = call[q].path
             /\ other(q).at = call[q].at /\ other(q).end = call[q].end
             /\ other(q).work = call[q].work /\ other(q).locked = call[q].locked
  BY <1>1 DEF CallSet
<1>4. call' = [q \in Processes |-> IF q = p THEN mine ELSE other(q)]
  BY DEF Commit
<1> HIDE DEF mine, other
<1>5. call' \in [Processes -> CallSet] /\ call'[p] = mine
      /\ \A q \in Processes \ {p} : call'[q] = other(q)
  BY <1>2, <1>3, <1>4
<1>6. schema' = View(p) /\ call[p].pc = "commit" /\ UNCHANGED cache
  BY DEF Commit, At
<1>7. QED
  BY <1>2, <1>3, <1>5, <1>6

(* A commit, as the other calls see it.                                    *)
LEMMA Commits ==
  ASSUME Inv, NEW p \in Processes, Commit(p)
  PROVE  Inv'
<1>1. View(p) \in Schemas
  BY Before
<1>2. Typed'
  BY <1>1, CommitEffect DEF Typed, Inv
<1>3. \A q \in Processes : call'[q].locked => q # p /\ call[q].locked
  BY CommitEffect
<1>4. OneLock'
  BY <1>3 DEF Inv, OneLock
<1>5. \A q \in Processes \ {p} : call[q].locked => UNCHANGED schema
  BY CommitEffect, Before DEF Inv, OneLock
<1>6. ASSUME NEW q \in Processes
      PROVE  Sound(call[q])'
  <2>1. PICK t : t = call'[q]
    OBVIOUS
  <2>2. CASE q = p
    BY <2>1, <2>2, CommitEffect DEF Sound, Active
  <2>3. CASE q # p
    <3>1. PICK c : c = call[q] /\ Sound(c)
      BY Before
    <3>2. /\ t.pc = c.pc /\ t.path = c.path /\ t.at = c.at /\ t.end = c.end
          /\ t.work = c.work /\ t.locked = c.locked /\ ~t.alone
      BY <2>1, <2>3, <3>1, CommitEffect
    <3>3. Active(t) => Planned(t) /\ Promised(t)'
      BY <3>1, <3>2 DEF Sound, Active, Planned, Promised
    <3>4. c.locked => (Truncated(c) => Truncated(t)')
      BY <1>5, <2>3, <3>1, <3>2 DEF Truncated
    <3>5. Active(t) => Placed(t)'
      <4>1. Truncated(c) /\ Active(c) => c.locked
        BY <3>1 DEF Truncated, Sound, Placed
      <4>2. QED
        BY <3>1, <3>2, <3>4, <4>1 DEF Sound, Active, Placed
    <3>6. t.locked => Active(t) /\ Working(t)'
      BY <3>1, <3>2, <3>4 DEF Sound, Active, Working, Advanced
    <3>7. Sound(t)'
      BY <3>3, <3>5, <3>6 DEF Sound, Active, Planned
    <3>8. QED
      BY <2>1, <3>7
  <2>4. QED
    BY <2>2, <2>3
<1>7. QED
  BY <1>2, <1>4, <1>6 DEF Inv

(* The server's own writes change no version.                              *)
LEMMA Writes ==
  ASSUME Inv, Write
  PROVE  Inv'
<1>1. /\ schema' \in Schemas /\ schema'.version = schema.version /\ schema'.ran = schema.ran
      /\ UNCHANGED <<cache, call>>
  BY DEF Write, Inv, Typed, Schemas
<1>2. Typed' /\ OneLock'
  BY <1>1 DEF Inv, Typed, OneLock
<1>3. ASSUME NEW q \in Processes
      PROVE  Sound(call[q])'
  <2>1. PICK c : c = call[q] /\ c = call'[q] /\ Sound(c)
    BY <1>1, Before
  <2>2. Sound(c)'
    BY <1>1, <2>1
       DEF Sound, Planned, Placed, Promised, Working, Advanced, Truncated, Active
  <2>3. QED
    BY <2>1, <2>2
<1>4. QED
  BY <1>2, <1>3 DEF Inv

-----------------------------------------------------------------------------
(* The invariant holds at first, and every step keeps it.                  *)
LEMMA InitInv == Init => Inv
<1> SUFFICES ASSUME Init
             PROVE  Inv
  OBVIOUS
<1>1. /\ \A p \in Processes : call[p] = Idle
      /\ call \in [Processes -> CallSet]
  BY IdleCall DEF Init
<1>2. Typed
  BY <1>1, IdleCall DEF Init, Typed
<1>3. OneLock /\ \A p \in Processes : Sound(call[p])
  BY <1>1, IdleCall DEF OneLock, Sound, Active
<1>4. QED
  BY <1>2, <1>3 DEF Inv

LEMMA Step == Inv /\ [Next]_vars => Inv'
<1> SUFFICES ASSUME Inv, Next
             PROVE  Inv'
  <2>1. CASE UNCHANGED vars
    BY <2>1 DEF vars, Inv, Typed, OneLock, Sound, Planned, Placed, Promised, Working,
                Advanced, Truncated, Active
  <2>2. QED
    BY <2>1
<1>1. ASSUME NEW p \in Processes, NEW end \in States \ {Empty}, NEW dir, Plan(p, end, dir)
      PROVE  Inv'
  BY <1>1, Begins, StatesAreNumbers
<1>2. ASSUME NEW p \in Processes, NEW state \in States \ {Empty}, NEW void,
             ForceCreate(p, state, void)
      PROVE  Inv'
  BY <1>2, Forces, StatesAreNumbers
<1>3. QED
  BY <1>1, <1>2, Writes, Empties, Truncates, Drops, Checks, Runs, Applies, Commits, Fails DEF Next

-----------------------------------------------------------------------------
(* What a commit leaves.                                                   *)
LEMMA CommitLeaves ==
  ASSUME Inv, NEW p \in Processes, Commit(p), schema'.version # schema.version
  PROVE  /\ call'[p].pc = "answered" /\ schema'.version = Target(p)
         /\ \A s \in call[p].path \ {Target(p)} :
              <<s, NextOn(call[p].path, s)>> \in Range(schema'.ran)
<1> DEFINE c == call[p]
<1>1. /\ schema' = View(p) /\ c.pc = "commit" /\ call'[p].pc = "answered"
      /\ c \in CallSet /\ Sound(c)
  BY CommitEffect, Before
<1>2. c.locked /\ schema' = c.work /\ Working(c)
  BY <1>1, Before
<1>3. Planned(c) /\ Placed(c) /\ c.path \in SUBSET Nat
  BY <1>1 DEF Sound, Active, CallSet
<1>4. ~Truncated(c)
  BY <1>2 DEF Truncated
<1>5. Advanced(c) /\ \A s \in c.path : s <= c.at
  BY <1>1, <1>2, <1>3, <1>4 DEF Working, Placed
<1>6. c.at = Target(p) /\ c.at \in Nat
  BY <1>3, <1>5, LastState DEF Target, Planned
<1>7. \A s \in c.path \ {Target(p)} : s < c.at
  BY <1>3, <1>5, <1>6
<1>8. QED
  BY <1>1, <1>2, <1>5, <1>6, <1>7 DEF Advanced, Done

(* WholeMigrations: the version of the database only becomes the end of    *)
(* the plan of a create_migration or a force_create, and then every script *)
(* of its path is part of the schema.                                      *)
THEOREM MigrationsAreWhole == Spec => WholeMigrations
<1>1. Inv /\ [Next]_vars =>
        [schema'.version # schema.version =>
           \E p \in Processes :
             /\ call'[p].pc = "answered" /\ schema'.version = Target(p)
             /\ \A s \in call[p].path \ {Target(p)} :
                  <<s, NextOn(call[p].path, s)>> \in Range(schema'.ran)]_vars
  <2> SUFFICES ASSUME Inv, Next, schema'.version # schema.version
               PROVE  \E p \in Processes :
                        /\ call'[p].pc = "answered" /\ schema'.version = Target(p)
                        /\ \A s \in call[p].path \ {Target(p)} :
                             <<s, NextOn(call[p].path, s)>> \in Range(schema'.ran)
    OBVIOUS
  <2>1. ~Write
    BY DEF Write, Inv, Typed, Schemas
  <2>2. PICK p \in Processes : Commit(p)
    BY <2>1 DEF Next, Plan, ForceCreate, EmptyDatabase, TruncateAll, Drop, Check, Run, Applied, Fail
  <2>3. QED
    BY <2>2, CommitLeaves
<1>2. QED
  BY <1>1, InitInv, Step, PTL DEF Spec, WholeMigrations

(* ForcedFresh: a force_create that nobody else's commit disturbs leaves   *)
(* the version it was asked for and no row of an earlier test, whether it  *)
(* truncates the tables or runs the scripts again.                         *)
THEOREM CreationsAreFresh == Spec => ForcedFresh
<1>1. Inv /\ [Next]_vars =>
        [\A p \in Processes :
           (At(p, "commit") /\ call'[p].pc = "answered" /\ call[p].end # None /\ call[p].alone)
             => schema'.version = call[p].end /\ ~schema'.rows]_vars
  <2> SUFFICES ASSUME Inv, Next, NEW p \in Processes, call[p].pc = "commit",
                      call'[p].pc = "answered", call[p].end # None, call[p].alone
               PROVE  schema'.version = call[p].end /\ ~schema'.rows
    BY DEF At
  <2>1. Sound(call[p]) /\ Active(call[p])
    BY Before DEF Active
  <2>2. call[p].locked /\ Working(call[p])
    BY <2>1 DEF Sound, Placed
  <2>3. ASSUME NEW q \in Processes, NEW t \in CallSet, Become(q, t), t.pc # "answered"
        PROVE  FALSE
    BY <2>3 DEF Become, Inv, Typed
  <2>4. Commit(p)
    <3>1. ~Write
      BY <2>2 DEF Write
    <3>2. ASSUME NEW q \in Processes, q # p, Commit(q)
          PROVE  FALSE
      BY <3>2, CommitEffect
    <3>3. ASSUME NEW q \in Processes, q # p, NEW t, Become(q, t)
          PROVE  FALSE
      BY <3>3 DEF Become, Inv, Typed
    <3>4. PICK q \in Processes :
            \/ \E end, dir : Plan(q, end, dir)
            \/ \E state, void : ForceCreate(q, state, void)
            \/ EmptyDatabase(q) \/ TruncateAll(q) \/ Drop(q) \/ Check(q) \/ Run(q) \/ Applied(q)
            \/ Commit(q) \/ Fail(q)
      BY <3>1 DEF Next
    <3>5. CASE q # p
      BY <3>2, <3>3, <3>4, <3>5
         DEF Plan, ForceCreate, EmptyDatabase, TruncateAll, Drop, Check, Run, Applied, Fail
    <3>6. CASE q = p /\ Fail(p)
      BY <3>6, IdleCall DEF Fail, Become, Inv, Typed
    <3>7. QED
      BY <3>4, <3>5, <3>6 DEF Plan, ForceCreate, EmptyDatabase, TruncateAll, Drop, Check, Run, Applied, At
  <2>5. schema' = call[p].work
    BY <2>2, <2>4, CommitEffect, Before
  <2>6. QED
    BY <2>1, <2>2, <2>5 DEF Sound, Promised, Working
<1>2. QED
  BY <1>1, InitInv, Step, PTL DEF Spec, ForcedFresh

=============================================================================

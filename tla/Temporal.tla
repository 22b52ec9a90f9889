------------------------------ MODULE Temporal ------------------------------
(***************************************************************************)
(* Values over time (crates/core/src/temporal.rs): Temporal for data of    *)
(* our own, SnapshotLog and CheckedSnapshotLog for data of the games.      *)
(* A BTreeMap is a function on a finite set of instants.                   *)
(***************************************************************************)
EXTENDS Naturals, FiniteSets, SequencesExt

CONSTANTS None,
          MaxNow \* bound of the clock

ASSUME MaxNowAssumption == MaxNow \in Nat
ASSUME NoneAssumption   == None \notin Nat

VARIABLE now     \* the clock of the stores

NoHistory == [t \in {} |-> None]
Insert(map, t, v) == [u \in DOMAIN map \cup {t} |-> IF u = t THEN v ELSE map[u]]

-----------------------------------------------------------------------------
(* Temporal                                                                *)

New(time, value) == [start |-> time, current |-> value, old |-> NoHistory]

\* The value at an instant, None before the first; without an instant, now
ValueAt(T, time) ==
  LET before == {t \in DOMAIN T.old : t <= time}
  IN  IF time = None \/ time >= T.start THEN T.current
      ELSE IF before = {} THEN None ELSE T.old[Max(before)]

\* set asserts this
CanSet(T, time) == time > T.start

Set(T, time, value) ==
  IF value = T.current THEN T
  ELSE [start |-> time, current |-> value, old |-> Insert(T.old, T.start, T.current)]

\* map: the first value is mapped, and each later one whose image is not the
\* one before it is set at its instant
MapValues(T, f) ==
  LET at == Insert(T.old, T.start, T.current)
      SameAsBefore(t) == \E u \in DOMAIN at :
        /\ u < t /\ f[at[u]] = f[at[t]]
        /\ \A v \in DOMAIN at : v <= u \/ t <= v
      kept == {t \in DOMAIN at : ~SameAsBefore(t)}
      start == Max(kept)
  IN  [start |-> start, current |-> f[at[start]],
       old |-> [t \in kept \ {start} |-> f[at[t]]]]

Values(T) == {T.current} \cup {T.old[t] : t \in DOMAIN T.old}

-----------------------------------------------------------------------------
(* SnapshotLog; a CheckedSnapshotLog that nothing invalidates is the same  *)

NoSnapshot == [start |-> None, latest |-> None, value |-> None, over |-> FALSE]

\* Mutant: the loop does not stop at another value
TurnPast(acc, t, value) ==
  IF acc.latest = None THEN [acc EXCEPT !.start = t, !.latest = t, !.value = value]
  ELSE IF value = acc.value THEN [acc EXCEPT !.start = t]
  ELSE acc

\* One turn of the loop of latest(), which goes from the last snapshot back
Turn(acc, t, value) ==
  IF acc.over THEN acc
  ELSE IF acc.latest = None THEN [acc EXCEPT !.start = t, !.latest = t, !.value = value]
  ELSE IF value = acc.value THEN [acc EXCEPT !.start = t]
  ELSE [acc EXCEPT !.over = TRUE]

LatestOf(log) ==
  LET turns[t \in 0 .. MaxNow + 1] ==
        IF t = MaxNow + 1 THEN NoSnapshot
        ELSE IF t \in DOMAIN log THEN Turn(turns[t + 1], t, log[t])
        ELSE turns[t + 1]
  IN  turns[0]
=============================================================================

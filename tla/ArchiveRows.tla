----------------------------- MODULE ArchiveRows -----------------------------
(***************************************************************************)
(* The archive tables of the game stores and the one query that writes     *)
(* them, upsert_archive_query (crates/postgres_tools/src/lib.rs).          *)
(*                                                                         *)
(* A row says what a page of the game showed: its data held from lower to  *)
(* upper and was seen at the instants in retrieved.  An identifier begins  *)
(* with the name of its table, so one set holds the rows of all tables.    *)
(***************************************************************************)
EXTENDS Naturals, Sequences, SequencesExt

CONSTANTS Ids,    \* values of the primary columns
          Datas,  \* values of the data columns
          MaxNow, \* bound on the clock
          None

ASSUME ArchiveAssumption == MaxNow \in Nat /\ None \notin Ids

Instants == 0 .. MaxNow
Forever  == MaxNow + 1 \* the upper bound of the row that is current

\* A step of a transaction.  "archive" is the upsert; "lock" an upsert that
\* only overwrites (INSERT .. ON CONFLICT DO UPDATE); "insert" an INSERT ..
\* ON CONFLICT DO NOTHING.  mid is the value of the column that has an EXCLUDE
\* constraint of its own, looked whether the query declares it unique(..).
Touch == [kind : {"lock", "insert", "archive"}, key : Ids,
          data : Datas \cup {None}, mid : Ids \cup {None}, looked : BOOLEAN]

Row == [key : Ids, data : Datas \cup {None}, mid : Ids \cup {None},
        lower : Instants, upper : 0 .. Forever, retrieved : SUBSET Instants]

\* Rows that an EXCLUDE constraint compares
Alike(r, s) == \/ r.key = s.key
               \/ r.mid = s.mid /\ r.mid # None

Disjoint(r, s) == r.upper <= s.lower \/ s.upper <= r.lower

\* No two rows give one identifier two values at one instant
Exclusive(S) == \A r, s \in S : r # s /\ Alike(r, s) => Disjoint(r, s)

-----------------------------------------------------------------------------
Open(S) == {r \in S : r.upper = Forever}

CurrentPrimary(S, u) == {r \in Open(S) : r.key = u.key}

\* A NULL equals nothing
CurrentUnique(S, u) ==
  {r \in Open(S) : u.looked /\ u.mid # None /\ r.mid = u.mid}

\* Mutant: a row found through a unique value never matches
MatchingPrimary(S, u) ==
  {r \in CurrentPrimary(S, u) : r.data = u.data /\ ~u.looked}

Matching(S, u) ==
  {r \in CurrentPrimary(S, u) :
     r.data = u.data /\ (u.looked => r \in CurrentUnique(S, u))}

CurrentRows(S, u) == CurrentPrimary(S, u) \cup CurrentUnique(S, u)

NewRow(u, t) == [key |-> u.key, data |-> u.data, mid |-> u.mid,
                 lower |-> t, upper |-> Forever, retrieved |-> {t}]

\* The rows an upsert updates
Taken(S, u) ==
  IF Matching(S, u) # {} THEN Matching(S, u) ELSE CurrentRows(S, u)

\* Mutant: a row that is seen again begins again
RefreshedMoved(r, t) == [r EXCEPT !.lower = t, !.retrieved = @ \cup {t}]

Refreshed(r, t) == [r EXCEPT !.retrieved = @ \cup {t}]

Closed(r, t) == [r EXCEPT !.upper = t]

\* Mutant: the rows a new one replaces are deleted
PutOverwritten(S, u, t) ==
  IF Matching(S, u) # {}
  THEN {Refreshed(r, t) : r \in Matching(S, u)}
  ELSE {NewRow(u, t)}

\* The versions it writes
Put(S, u, t) ==
  IF Matching(S, u) # {}
  THEN {Refreshed(r, t) : r \in Matching(S, u)}
  ELSE {Closed(r, t) : r \in CurrentRows(S, u)} \cup {NewRow(u, t)}

\* Mutant: no constraint is checked
UncheckedAllowed(S, u, t) == TRUE

\* A period is not empty, and the EXCLUDE constraints hold
Allowed(S, u, t) ==
  \/ Matching(S, u) # {}
  \/ /\ \A r \in CurrentRows(S, u) : r.lower < t
     /\ \A r \in S \ CurrentRows(S, u) :
          Alike(r, NewRow(u, t)) => r.upper <= t

\* The states of the tables after u: none if the database refuses it
After(S, u, t) ==
  IF u.kind # "archive" THEN {S}
  ELSE IF Allowed(S, u, t) THEN {(S \ Taken(S, u)) \cup Put(S, u, t)} ELSE {}

\* The states after a step of any of some states
AfterAny(Ss, u, t) == UNION {After(W, u, t) : W \in Ss}

\* The states after the steps of a whole program
Replay(S, program, t) ==
  LET reached[i \in 0 .. Len(program)] ==
        IF i = 0 THEN {S} ELSE AfterAny(reached[i - 1], program[i], t)
  IN  reached[Len(program)]

\* What the tables said of an identifier at instant t: the reads order the
\* rows by lower(period) and take the last one that began by t
RowAt(S, key, t) ==
  LET begun == {r \in S : r.key = key /\ r.lower <= t}
  IN  {r \in begun : \A s \in begun : s.lower <= r.lower}

-----------------------------------------------------------------------------
\* The touches that the stores build their programs from
Archived(table, id, data) ==
  [kind |-> "archive", key |-> <<table>> \o id, data |-> <<table>> \o data,
   mid |-> None, looked |-> FALSE]

Written(kind, table, id) ==
  [kind |-> kind, key |-> <<table>> \o id, data |-> None, mid |-> None,
   looked |-> FALSE]

\* One touch sequence for each element of a list
ForEach(list, Op(_)) == FlattenSeq([i \in 1 .. Len(list) |-> Op(i)])

\* What a list in a page is
IsSeq(s) == s \in Seq(ToSet(s))
=============================================================================

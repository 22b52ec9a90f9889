------------------------------ MODULE PgArchive ------------------------------
(***************************************************************************)
(* The transactions that archive a page of a game: every touch_* method of *)
(* the PostgreSQL Dinoparc and Hammerfest stores reads the clock, begins a *)
(* READ COMMITTED transaction, runs a fixed sequence of statements and     *)
(* commits.                                                                *)
(*                                                                         *)
(* A statement waits for the transactions that hold a row it touches.  One *)
(* that waited then runs as if it started after the other transaction, or  *)
(* is refused: the rows it chose have changed, an EXCLUDE constraint or    *)
(* the check of its row count fails.  A failed statement, a lost           *)
(* connection or a crash ends the transaction (Rollback), and the          *)
(* deadlock detector of PostgreSQL ends one of those that wait for each    *)
(* other (Fail).  Foreign keys never wait here: their parents are rows the *)
(* transaction has inserted, locked or found committed.                    *)
(***************************************************************************)
EXTENDS ArchiveRows

CONSTANTS Calls,    \* calls of touch_* methods
          Programs  \* for each page, the touches that archive it

ASSUME ProgramsAssumption == Programs \subseteq Seq(Touch)

VARIABLES now,   \* the clock
          rows,  \* committed rows of the archive tables
          known, \* committed rows of the tables that are only inserted into
          tx,    \* the transaction of each call
          log    \* the commits so far (history variable)

vars == <<now, rows, known, tx, log>>

Tx == [pc      : {"idle", "run", "over"},
       now     : Instants,       \* the time it read
       program : Seq(Touch),
       todo    : Seq(Touch),     \* what is left of its program
       gone    : SUBSET Row,     \* committed rows it has updated, and locks
       made    : SUBSET Row,     \* versions it has written
       held    : SUBSET Ids]     \* other rows it has written, and locks

TypeOK == /\ now \in Instants
          /\ rows \subseteq Row
          /\ known \subseteq Ids
          /\ tx \in [Calls -> Tx]
          /\ log \in Seq([program : Programs, at : Instants])

NoTx == [pc |-> "idle", now |-> 0, program |-> <<>>, todo |-> <<>>,
         gone |-> {}, made |-> {}, held |-> {}]

Init == /\ now = 0
        /\ rows = {}
        /\ known = {}
        /\ tx = [c \in Calls |-> NoTx]
        /\ log = <<>>

-----------------------------------------------------------------------------
Running(c) == tx[c].pc = "run"

View(c) == (rows \ tx[c].gone) \cup tx[c].made

Step(c) == Head(tx[c].todo)

Holds(d, r) == \E s \in tx[d].gone \cup tx[d].made : Alike(r, s)

\* The transactions c has to wait for
WaitsFor(c) ==
  IF ~Running(c) \/ tx[c].todo = <<>> THEN {}
  ELSE LET u == Step(c)
       IN  {d \in Calls \ {c} :
              CASE u.kind = "lock" -> u.key \in tx[d].held
                [] u.kind = "insert" -> u.key \notin known /\ u.key \in tx[d].held
                [] u.kind = "archive" ->
                     \E r \in Taken(View(c), u) \cup Put(View(c), u, tx[c].now) :
                       Holds(d, r)}

\* Some transactions wait for each other, c among them
Deadlocked(c) ==
  \E S \in SUBSET Calls : c \in S /\ \A d \in S : WaitsFor(d) \cap S # {}

Ready(c, kind) == /\ Running(c)
                  /\ tx[c].todo # <<>>
                  /\ Step(c).kind = kind
                  /\ WaitsFor(c) = {}

Begin(c) == /\ tx[c].pc = "idle"
            /\ \E program \in Programs :
                 tx' = [tx EXCEPT ![c] = [NoTx EXCEPT !.pc = "run", !.now = now,
                                            !.program = program, !.todo = program]]
            /\ UNCHANGED <<now, rows, known, log>>

\* INSERT .. ON CONFLICT DO UPDATE
Lock(c) == /\ Ready(c, "lock")
           /\ tx' = [tx EXCEPT ![c].todo = Tail(@),
                               ![c].held = @ \cup {Step(c).key}]
           /\ UNCHANGED <<now, rows, known, log>>

\* INSERT .. ON CONFLICT DO NOTHING
Insert(c) == /\ Ready(c, "insert")
             /\ tx' = [tx EXCEPT ![c].todo = Tail(@),
                                 ![c].held = @ \cup ({Step(c).key} \ known)]
             /\ UNCHANGED <<now, rows, known, log>>

\* Mutant: the query runs on the pool instead of the transaction
ArchiveAutocommit(c) == LET u == Step(c)
                            V == View(c)
                        IN  /\ Ready(c, "archive")
                            /\ Allowed(V, u, tx[c].now)
                            /\ rows' = (V \ Taken(V, u)) \cup Put(V, u, tx[c].now)
                            /\ tx' = [tx EXCEPT ![c].todo = Tail(@)]
                            /\ UNCHANGED <<now, known, log>>

\* upsert_archive_query!
Archive(c) == LET u == Step(c)
                  V == View(c)
              IN  /\ Ready(c, "archive")
                  /\ Allowed(V, u, tx[c].now)
                  /\ tx' = [tx EXCEPT
                       ![c].todo = Tail(@),
                       ![c].gone = @ \cup (Taken(V, u) \cap rows),
                       ![c].made = (@ \ Taken(V, u)) \cup Put(V, u, tx[c].now)]
                  /\ UNCHANGED <<now, rows, known, log>>

Over(c) == tx' = [tx EXCEPT ![c] = [NoTx EXCEPT !.pc = "over"]]

Commit(c) == /\ Running(c)
             /\ tx[c].todo = <<>>
             /\ rows' = View(c)
             /\ known' = known \cup tx[c].held
             /\ log' = Append(log, [program |-> tx[c].program, at |-> tx[c].now])
             /\ Over(c)
             /\ UNCHANGED now

Refused(c) == /\ Ready(c, "archive")
              /\ ~Allowed(View(c), Step(c), tx[c].now)

\* Mutant: transactions that wait for each other are left waiting
FailRefused(c) == /\ Refused(c)
                  /\ Over(c)
                  /\ UNCHANGED <<now, rows, known, log>>

\* PostgreSQL ends the transaction
Fail(c) == /\ Refused(c) \/ Deadlocked(c)
           /\ Over(c)
           /\ UNCHANGED <<now, rows, known, log>>

\* The connection or the server is lost, or a statement that waited fails
Rollback(c) == /\ Running(c)
               /\ Over(c)
               /\ UNCHANGED <<now, rows, known, log>>

Tick == /\ now < MaxNow
        /\ now' = now + 1
        /\ UNCHANGED <<rows, known, tx, log>>

Advance(c) == Lock(c) \/ Insert(c) \/ Archive(c) \/ Commit(c)

Next == \/ Tick
        \/ \E c \in Calls :
             Begin(c) \/ Advance(c) \/ Fail(c) \/ Rollback(c)

Spec == Init /\ [][Next]_vars

\* A client awaits its statements and its commit one after the other, and
\* the database runs them and detects deadlocks
FairSpec == Spec /\ \A c \in Calls : WF_vars(Advance(c)) /\ WF_vars(Fail(c))

-----------------------------------------------------------------------------
\* The transactions, interleaved statement by statement, leave what some order
\* of whole pages, archived one at a time, would leave.
Abstract == INSTANCE ArchiveSpec WITH history <- rows
Serializable == Abstract!Spec

\* At no instant do the tables give two values for one identifier, or one
\* unique value to two identifiers: neither as committed, nor as a running
\* transaction sees them.
OneValueAtATime == /\ Exclusive(rows)
                   /\ \A c \in Calls : Exclusive(View(c))

\* What the tables said of the instants before t
Told(S, t) == {[key |-> r.key, data |-> r.data, lower |-> r.lower] :
                 r \in {s \in S : s.lower < t}}

\* A transaction changes no answer about an instant before the time it read,
\* however long it has been running.
HistoryKept ==
  [][\A t \in Instants :
       (\A c \in Calls : Running(c) /\ ~Running(c)' => t <= tx[c].now)
         => Told(rows', t) = Told(rows, t)]_vars

\* The commits happened in the order of the times they carry
InOrder == \A i, j \in DOMAIN log : i < j => log[i].at <= log[j].at

\* While no transaction is overtaken by a later one, every instant a page was
\* retrieved at lies in the period of its row.
RetrievedInPeriod ==
  InOrder => \A r \in rows, t \in Instants :
               t \in r.retrieved => r.lower <= t /\ t <= r.upper

\* A call ends, whatever locks the other calls take.
EveryCallEnds == \A c \in Calls : tx[c].pc = "run" ~> tx[c].pc = "over"
=============================================================================

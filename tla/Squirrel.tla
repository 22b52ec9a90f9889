------------------------------ MODULE Squirrel ------------------------------
(***************************************************************************)
(* The schema manager (crates/squirrel/src/lib.rs): a graph of SQL scripts *)
(* between schema states, migrations along its shortest paths, and schemas *)
(* created from nothing for tests.                                         *)
(*                                                                         *)
(* Each process has its own resolver, and makes one call at a time: the    *)
(* write lock on its latest_force_created_state is held while a schema is  *)
(* created.  A call is one READ COMMITTED transaction; its first script    *)
(* takes locks for which the scripts of other transactions wait.           *)
(***************************************************************************)
EXTENDS Naturals, FiniteSets, SequencesExt

CONSTANTS Processes,
          Creates,    \* versions that have a script in create/
          Upgrades,   \* pairs of versions that have a script in upgrade/
          Rerunnable, \* scripts that succeed a second time, as 019-020.sql
          Standalone, \* scripts that ask nothing of the schema but not to
                      \* have been run, as 022-023.sql
          MaxScripts, \* bound on the scripts run on one schema
          None

Empty == 0
Edges == ({Empty} \X Creates) \cup Upgrades

ASSUME GraphAssumption == /\ Creates \subseteq Nat \ {0} /\ IsFiniteSet(Creates)
                          /\ IsFiniteSet(Upgrades)
                          /\ \A e \in Upgrades : e[1] \in Nat \ {0} /\ e[2] \in Nat
                          /\ \A e \in Upgrades : e[1] < e[2] \* SchemaResolver::new
                          /\ Edges # {}
                          /\ Rerunnable \cup Standalone \subseteq Upgrades
                          /\ MaxScripts \in Nat /\ None \notin Nat

States == {Empty} \cup {e[1] : e \in Edges} \cup {e[2] : e \in Edges}
Latest == Max(States)

VARIABLES schema, \* the committed schema
          cache,  \* latest_force_created_state of each process
          call    \* the call each process is making

vars == <<schema, cache, call>>

\* version: what get_schema_meta() returns (Empty when there is no such
\* function); ran: the scripts that made the schema; rows: there is data
Schema == [version : States, ran : Seq(Edges), rows : BOOLEAN]
EmptySchema == [version |-> Empty, ran |-> <<>>, rows |-> FALSE]

\* path: the plan; at: the state it has reached; end: the state that a
\* force_create was asked for; alone: nobody else committed since
Idle == [pc |-> "idle", path |-> {}, at |-> Empty, end |-> None,
         work |-> EmptySchema, locked |-> FALSE, alone |-> TRUE]

Init == /\ schema = EmptySchema
        /\ cache = [p \in Processes |-> None]
        /\ call = [p \in Processes |-> Idle]

-----------------------------------------------------------------------------
\* Paths are sets of states: every script leads to a later version
NextOn(path, s) == Min({t \in path : t > s})

IsPath(path, start, end) ==
  /\ {start, end} \subseteq path
  /\ \A s \in path : s >= start /\ s <= end
  /\ \A s \in path \ {end} : <<s, NextOn(path, s)>> \in Edges

\* inner_create_migration: astar with a cost of 1 for each step in the
\* direction and u32::MAX, which saturates and means no migration, for each
\* step against it
Migrations(start, end, dir) ==
  LET paths == {P \in SUBSET States : IsPath(P, start, end)}
  IN  IF start = end THEN {{start}}
      ELSE IF dir = "DowngradeOnly" THEN {}
      ELSE {P \in paths : \A Q \in paths : Cardinality(P) <= Cardinality(Q)}

\* The state of the schema that a sequence of scripts makes
Reached(ran) == IF ran = <<>> THEN Empty ELSE Last(ran)[2]

\* Whether a script succeeds on a schema
Fits(edge, s) == IF edge \in Range(s.ran) THEN edge \in Rerunnable
                 ELSE Reached(s.ran) = edge[1] \/ edge \in Standalone

-----------------------------------------------------------------------------
At(p, pc) == call[p].pc = pc
Become(p, c) == call' = [call EXCEPT ![p] = c]

View(p) == IF call[p].locked THEN call[p].work ELSE schema
Unlocked(p) == \A q \in Processes \ {p} : ~call[q].locked

Target(p) == Max(call[p].path)

\* get_state and create_migration, before apply_migration opens the transaction
Plan(p, end, dir) ==
  /\ At(p, "idle") \/ At(p, "answered")
  /\ \E path \in Migrations(schema.version, end, dir) :
       Become(p, [Idle EXCEPT !.pc = "check", !.path = path, !.at = Min(path)])
  /\ UNCHANGED <<schema, cache>>

\* inner_force_create: with void, a schema this process has created before is
\* truncated when it still is the current one
\* Mutant: what is cached is not compared with the current state
RecreateCached(p, state, void) ==
  /\ At(p, "idle") \/ At(p, "answered")
  /\ \E path \in Migrations(Empty, state, "UpgradeOnly") :
       Become(p, [Idle EXCEPT !.pc = IF void /\ cache[p] = state
                                     THEN "truncate" ELSE "drop",
                              !.path = path, !.end = state])
  /\ UNCHANGED <<schema, cache>>

ForceCreate(p, state, void) ==
  /\ At(p, "idle") \/ At(p, "answered")
  /\ \E path \in Migrations(Empty, state, "UpgradeOnly") :
       Become(p, [Idle EXCEPT !.pc = IF void /\ cache[p] = state /\ schema.version = state
                                     THEN "truncate" ELSE "drop",
                              !.path = path, !.end = state])
  /\ UNCHANGED <<schema, cache>>

\* empty: the plan is the empty schema, which Drop makes
EmptyDatabase(p) ==
  /\ At(p, "idle") \/ At(p, "answered")
  /\ Become(p, [Idle EXCEPT !.pc = "drop", !.path = {Empty}])
  /\ UNCHANGED <<schema, cache>>

\* tx_truncate_all; TRUNCATE TABLE without a table is a syntax error
TruncateAll(p) ==
  /\ At(p, "truncate")
  /\ Unlocked(p)
  /\ View(p).ran # <<>>
  /\ Become(p, [call[p] EXCEPT !.pc = "commit", !.locked = TRUE,
                               !.work = [View(p) EXCEPT !.rows = FALSE]])
  /\ UNCHANGED <<schema, cache>>

\* tx_empty: DROP SCHEMA public CASCADE
Drop(p) ==
  /\ At(p, "drop")
  /\ Unlocked(p)
  /\ Become(p, [call[p] EXCEPT !.pc = "check", !.locked = TRUE, !.work = EmptySchema])
  /\ UNCHANGED <<schema, cache>>

\* tx_apply_edge compares the state with the start of the edge, runs the
\* script, and creates get_schema_meta() again
Check(p) ==
  /\ At(p, "check")
  /\ call[p].at # Target(p)
  /\ View(p).version = call[p].at \* assert_eq!
  /\ Become(p, [call[p] EXCEPT !.pc = "script"])
  /\ UNCHANGED <<schema, cache>>

Edge(p) == <<call[p].at, NextOn(call[p].path, call[p].at)>>

Run(p) ==
  /\ At(p, "script")
  /\ Unlocked(p)
  /\ Fits(Edge(p), View(p)) /\ Len(View(p).ran) < MaxScripts
  /\ Become(p, [call[p] EXCEPT !.pc = "check", !.locked = TRUE, !.at = Edge(p)[2],
                  !.work = [View(p) EXCEPT !.version = Edge(p)[2],
                                           !.ran = Append(@, Edge(p))]])
  /\ UNCHANGED <<schema, cache>>

\* The end of the path; inner_force_create remembers the state before it
\* commits
Applied(p) ==
  /\ At(p, "check")
  /\ call[p].at = Target(p)
  /\ Become(p, [call[p] EXCEPT !.pc = "commit"])
  /\ cache' = IF call[p].end = None THEN cache ELSE [cache EXCEPT ![p] = call[p].end]
  /\ UNCHANGED schema

\* Mutant: each script is committed with its version
CommitEach(p) ==
  /\ At(p, "commit") \/ At(p, "check")
  /\ schema' = View(p)
  /\ call' = [q \in Processes |->
       IF q = p THEN [call[p] EXCEPT !.pc = IF @ = "check" THEN @ ELSE "answered",
                                     !.locked = FALSE]
       ELSE [call[q] EXCEPT !.alone = FALSE]]
  /\ UNCHANGED cache

Commit(p) ==
  /\ At(p, "commit")
  /\ schema' = View(p)
  /\ call' = [q \in Processes |->
       IF q = p THEN [call[p] EXCEPT !.pc = "answered", !.locked = FALSE, !.work = EmptySchema]
       ELSE [call[q] EXCEPT !.alone = FALSE]]
  /\ UNCHANGED cache

\* A script or an assertion that fails, a lost connection, a failed commit
Fail(p) ==
  /\ ~At(p, "idle") /\ ~At(p, "answered")
  /\ Become(p, Idle)
  /\ UNCHANGED <<schema, cache>>

\* The server, or a test, writes to the tables
Write == /\ schema.ran # <<>> /\ \A p \in Processes : ~call[p].locked
         /\ schema' = [schema EXCEPT !.rows = TRUE]
         /\ UNCHANGED <<cache, call>>

Next == \/ Write
        \/ \E p \in Processes :
             \/ \E end \in States \ {Empty}, dir \in {"UpgradeOnly", "DowngradeOnly"} :
                  Plan(p, end, dir)
             \/ \E state \in States \ {Empty}, void \in BOOLEAN : ForceCreate(p, state, void)
             \/ EmptyDatabase(p) \/ TruncateAll(p) \/ Drop(p) \/ Check(p) \/ Run(p) \/ Applied(p)
             \/ Commit(p) \/ Fail(p)

Spec == Init /\ [][Next]_vars

-----------------------------------------------------------------------------
\* A migration is done as a whole or not at all: the version only changes to
\* the end of a plan, whose every script is then part of the schema.
WholeMigrations ==
  [][schema'.version # schema.version =>
       \E p \in Processes :
         /\ call'[p].pc = "answered" /\ schema'.version = Target(p)
         /\ \A s \in call[p].path \ {Target(p)} :
              <<s, NextOn(call[p].path, s)>> \in Range(schema'.ran)]_vars

\* Who was promised a fresh schema has it: of the version they asked for, with
\* no row of an earlier test, as long as no other process commits meanwhile.
ForcedFresh ==
  [][\A p \in Processes :
       (At(p, "commit") /\ call'[p].pc = "answered" /\ call[p].end # None /\ call[p].alone)
         => schema'.version = call[p].end /\ ~schema'.rows]_vars
=============================================================================

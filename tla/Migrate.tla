------------------------------ MODULE Migrate ------------------------------
(***************************************************************************)
(* Starting the server: Migrate and applyMigration (postgres/migrate.go)    *)
(* and main (cmd/server/main.go).                                           *)
(*                                                                         *)
(* A process reads the recorded versions once, then applies each missing    *)
(* file in order, in a transaction that ends by recording the version.  An  *)
(* error ends the process; it is started again.  Nothing keeps a second     *)
(* process, the new instance of a deployment or a migrate-only job, from    *)
(* doing the same at the same time: the primary key of schema_migrations is *)
(* all there is between them.                                               *)
(*                                                                         *)
(* PostgreSQL is modelled by what this use of it shows: the effects of a    *)
(* transaction appear at its commit; inserting a key another transaction    *)
(* has inserted waits for that transaction, and fails if it commits.        *)
(*                                                                         *)
(* Right before some definitions stands a faulty variant of them, used only *)
(* to show that the properties notice the fault.                            *)
(***************************************************************************)
EXTENDS Naturals, FiniteSets, FiniteSetsExt

CONSTANTS Processes,   \* server processes
          Files,       \* Files[p]: how many migrations its binary embeds, in order
          MigrateOnly, \* processes started with MigrateOnly
          MaxFaults    \* bound on the number of crashes and failed statements

ASSUME MigrateAssumption ==
    /\ IsFiniteSet(Processes)
    /\ Files \in [Processes -> Nat]
    /\ MigrateOnly \subseteq Processes
    /\ MaxFaults \in Nat

VARIABLES recorded,  \* table schema_migrations
          effects,   \* how many times each migration's statements took effect
          order,     \* history: the greatest version at the time each was recorded
          process,   \* where each process is
          faults     \* how many faults have happened

migrateVars == <<recorded, effects, order, process, faults>>

-----------------------------------------------------------------------------
Versions == 1 .. Max({Files[p] : p \in Processes} \union {0})
Down == [phase |-> "down", applied |-> {}, version |-> 0]

Step(p, next) == process' = [process EXCEPT ![p] = next]

MigrateInit ==
    /\ recorded = {}
    /\ effects = [v \in Versions |-> 0]
    /\ order = [v \in Versions |-> 0]
    /\ process = [p \in Processes |-> Down]
    /\ faults = 0

\* main up to the read of schema_migrations.
StartProcess(p) ==
    /\ process[p].phase = "down"
    /\ Step(p, [phase |-> "next", applied |-> recorded, version |-> 0])
    /\ UNCHANGED <<recorded, effects, order, faults>>

\* The loop of Migrate: the next file that was not recorded when it was read;
\* without one, main goes on to serve, or returns.
GoOn(p, missing, next) ==
    LET q == process[p]
    IN /\ q.phase = "next"
       /\ Step(p, IF missing # {}
                  THEN [q EXCEPT !.phase = "statements", !.version = next]
                  ELSE [Down EXCEPT !.phase = IF p \in MigrateOnly THEN "done" ELSE "serving"])
       /\ UNCHANGED <<recorded, effects, order, faults>>
Missing(p, n) == {v \in 1 .. n : v > process[p].version /\ v \notin process[p].applied}
NextUnsorted(p) == LET M == (1 .. Files[p]) \ recorded IN GoOn(p, M, Max(M))
NextMigration(p) == LET M == Missing(p, Files[p]) IN GoOn(p, M, Min(M))

\* The statements of the file.  Against a schema that has them already they
\* may succeed or fail.
ExecStatementsOnPool(p) ==
    /\ process[p].phase = "statements"
    /\ Step(p, [process[p] EXCEPT !.phase = "record"])
    /\ effects' = [effects EXCEPT ![process[p].version] = @ + 1]
    /\ UNCHANGED <<recorded, order, faults>>
ExecStatements(p) ==
    /\ process[p].phase = "statements"
    /\ Step(p, [process[p] EXCEPT !.phase = "record"])
    /\ UNCHANGED <<recorded, effects, order, faults>>
StatementsExist(p) ==
    /\ process[p].phase = "statements"
    /\ process[p].version \in recorded
    /\ Step(p, Down)
    /\ UNCHANGED <<recorded, effects, order, faults>>

\* INSERT INTO schema_migrations.
Recording(v) == \E q \in Processes : process[q].phase = "commit" /\ process[q].version = v
RecordRetrying(p) ==
    LET q == process[p]
    IN /\ q.phase = "record"
       /\ ~Recording(q.version)
       /\ Step(p, IF q.version \in recorded THEN q ELSE [q EXCEPT !.phase = "commit"])
       /\ UNCHANGED <<recorded, effects, order, faults>>
Record(p) ==
    LET q == process[p]
    IN /\ q.phase = "record"
       /\ ~Recording(q.version)
       /\ Step(p, IF q.version \in recorded THEN Down ELSE [q EXCEPT !.phase = "commit"])
       /\ UNCHANGED <<recorded, effects, order, faults>>

Commit(p) ==
    LET v == process[p].version
    IN /\ process[p].phase = "commit"
       /\ recorded' = recorded \union {v}
       /\ effects' = [effects EXCEPT ![v] = @ + 1]
       /\ order' = [order EXCEPT ![v] = Max(recorded')]
       /\ Step(p, [process[p] EXCEPT !.phase = "next"])
       /\ UNCHANGED faults

\* A statement fails or the process dies: the transaction is rolled back and
\* the process ends (log.Fatalf).  A serving process can only die.
Fail(p) ==
    /\ process[p].phase \notin {"down", "done"}
    /\ faults < MaxFaults
    /\ faults' = faults + 1
    /\ Step(p, Down)
    /\ UNCHANGED <<recorded, effects, order>>

ProcessStep(p) ==
    \/ StartProcess(p) \/ NextMigration(p) \/ ExecStatements(p) \/ StatementsExist(p)
    \/ Record(p) \/ Commit(p)

MigrateNext == \E p \in Processes : ProcessStep(p) \/ Fail(p)

\* A process goes on when it can, and a failed one is started again.
MigrateSpec == MigrateInit /\ [][MigrateNext]_migrateVars
               /\ \A p \in Processes : WF_migrateVars(ProcessStep(p))

-----------------------------------------------------------------------------

\* Each migration takes effect exactly once, namely when it is recorded, however
\* many processes apply it at once and wherever they fail (applyMigration).
MigrationsTakeEffectOnce ==
    \A v \in Versions : effects[v] = IF v \in recorded THEN 1 ELSE 0

\* Migrations are applied in order, without gaps: when one is recorded, all
\* earlier ones and no later ones are (Migrate reads the table only once).
MigrationsAreInOrder ==
    /\ recorded = 1 .. Cardinality(recorded)
    /\ \A v \in recorded : order[v] = v

\* A process that has been started gets through its migrations in the end: being
\* overtaken by another one costs a restart, not the start (main).
EveryProcessStarts ==
    \A p \in Processes :
        process[p].phase # "down" ~> process[p].phase \in {"serving", "done"}
=============================================================================

----------------------------- MODULE Migrations -----------------------------
(***************************************************************************)
(* migrate.Runner: the migrations of the backend applied in the order of   *)
(* their names, each in a transaction that also records its name.  Whether *)
(* one is missing is read before that transaction begins, and every server *)
(* that starts runs them, so several runners share one database.           *)
(***************************************************************************)
EXTENDS Naturals, Process

CONSTANT Migrations     \* how many migrations the backend has

ASSUME MigrationsAssumption == Migrations \in Nat \ {0}

VARIABLES
    catalog,    \* the table elephas_migrations, and what has taken effect
    runner      \* the state of each server's Runner

migrationVars == <<catalog, runner>>

\* A migration is its place in the order of the file names.
Migration == 1..Migrations

FreshCatalog == [tracked |-> FALSE, recorded |-> {}, schema |-> {}]

UpToDateCatalog == [tracked |-> TRUE, recorded |-> Migration, schema |-> Migration]

\* raced is history: another runner created the table or recorded a migration
\* during this run.
NewRunner(pc) == [pc |-> pc, at |-> 1, raced |-> FALSE]

IdleRunner == NewRunner("idle")

RunnerStages == {"idle", "ensure", "check", "apply", "record", "commit", "finished", "failed"}

Advance(s, pc) == runner' = [runner EXCEPT ![s].pc = pc]

\* CREATE TABLE IF NOT EXISTS: of two that begin together on a new database one
\* may find the table's name taken.
EnsureTable(s) ==
    /\ runner[s].pc = "ensure"
    /\ \/ /\ catalog' = [catalog EXCEPT !.tracked = TRUE]
          /\ runner' = [t \in Server |->
                          IF t = s THEN [runner[s] EXCEPT !.pc = "check"]
                          ELSE IF catalog.tracked THEN runner[t]
                          ELSE [runner[t] EXCEPT !.raced = TRUE]]
       \/ /\ runner[s].raced
          /\ Advance(s, "failed")
          /\ UNCHANGED catalog

\* Mutant: any row counts as the migration's own.
AppliedAny(n) == catalog.recorded # {}

\* Mutant: the answer of the query is not used.
AppliedNever(n) == FALSE /\ n = 0

Applied(n) == n \in catalog.recorded

\* The loop of Run up to BeginTx, or its end.
CheckMigration(s) ==
    LET r == runner[s] IN
    /\ r.pc = "check"
    /\ runner' = [runner EXCEPT ![s] =
                    IF r.at > Migrations THEN [r EXCEPT !.pc = "finished"]
                    ELSE IF Applied(r.at) THEN [r EXCEPT !.at = @ + 1]
                    ELSE [r EXCEPT !.pc = "apply"]]
    /\ UNCHANGED catalog

\* Another transaction has executed the same migration and is still open: the
\* engine makes this one wait for its locks.
AppliedElsewhere(s) ==
    \E other \in Server \ {s} :
        runner[other].at = runner[s].at /\ runner[other].pc \in {"record", "commit"}

\* Mutant: the statements run on the pool, outside the transaction.
ApplyOutsideTx(s) ==
    /\ runner[s].pc = "apply"
    /\ ~AppliedElsewhere(s)
    /\ catalog' = [catalog EXCEPT !.schema = @ \cup {runner[s].at}]
    /\ Advance(s, "record")

\* The statements of the migration, most of them IF NOT EXISTS.  Their effect
\* is the transaction's until it commits.
ApplyMigration(s) ==
    /\ runner[s].pc = "apply"
    /\ ~AppliedElsewhere(s)
    /\ \/ Advance(s, "record")
       \/ /\ runner[s].at \in catalog.schema
          /\ Advance(s, "failed")
    /\ UNCHANGED catalog

\* The name is UNIQUE.
RecordMigration(s) ==
    /\ runner[s].pc = "record"
    /\ Advance(s, IF Applied(runner[s].at) THEN "failed" ELSE "commit")
    /\ UNCHANGED catalog

CommitMigration(s) ==
    LET r == runner[s] IN
    /\ r.pc = "commit"
    /\ catalog' = [catalog EXCEPT !.recorded = @ \cup {r.at}, !.schema = @ \cup {r.at}]
    /\ runner' = [t \in Server |->
                    IF t = s THEN [r EXCEPT !.pc = "check", !.at = @ + 1]
                    ELSE [runner[t] EXCEPT !.raced = TRUE]]

RunMigrations(s) ==
    \/ EnsureTable(s) \/ CheckMigration(s) \/ ApplyMigration(s)
    \/ RecordMigration(s) \/ CommitMigration(s)

\* Runner.Current, which the readiness endpoint asks.
Current == \A n \in Migration : Applied(n)

\* Whoever died or collided in the middle of a migration, what the table says
\* is what the schema is, and no migration came before an earlier one: a start
\* that finds one recorded may skip it, one that does not may apply it.
SchemaIsRecorded ==
    /\ catalog.recorded = catalog.schema
    /\ \A n \in catalog.recorded : 1..n \subseteq catalog.recorded
=============================================================================

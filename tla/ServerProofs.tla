---------------------------- MODULE ServerProofs ----------------------------
(***************************************************************************)
(* Starts, requests and deaths of any number of servers on one AGE         *)
(* database, of any size: the graph mirrors the tables, a start fails only *)
(* because of what others did, and a process that is gone leaves no        *)
(* transaction.  The invariant says of a Reconcile in progress that every  *)
(* row is in the graph, listed, or on a page still to come: an update that *)
(* did not wait for an earlier one only takes its row forward, past rows   *)
(* that are then further back, and writes the graph itself.                *)
(***************************************************************************)
EXTENDS Server, TLAPS, FiniteSetTheorems

-----------------------------------------------------------------------------
(* Migrations: the table records what the schema is, no server serves from *)
(* an older one, and a runner fails only when another was at work.  The    *)
(* rest of Server matters only in that it leaves the catalog and the       *)
(* runners alone.                                                          *)

Runner == [pc : RunnerStages, at : 1..(Migrations + 1), raced : BOOLEAN]

Catalog == [tracked : BOOLEAN, recorded : SUBSET Migration, schema : SUBSET Migration]

\* What a runner knows of the catalog: the migrations before the one it is at
\* are recorded, and that one only if another server has recorded it since.
RunnerAgrees(r, recorded) ==
    /\ r.pc \in {"idle", "ensure"} => r.at = 1
    /\ r.pc \in {"check", "apply", "record", "commit", "finished"} => 1..(r.at - 1) \subseteq recorded
    /\ r.pc \in {"apply", "record", "commit"} =>
          r.at <= Migrations /\ (r.at \in recorded => r.raced)
    /\ r.pc = "finished" => r.at = Migrations + 1
    /\ r.pc = "failed" => r.raced

SchemaInv ==
    /\ catalog \in Catalog
    /\ runner \in [Server -> Runner]
    /\ stage \in [Server -> Stages]
    /\ SchemaIsRecorded
    /\ \A s \in Server : RunnerAgrees(runner[s], catalog.recorded)
    /\ \A s \in Server : stage[s] \in {"reconciling", "serving", "stopping"} => Migration \subseteq catalog.recorded

\* A runner that fails by itself has met another one: only a migration recorded
\* between its look at the table and its own statements can make them collide.
RunnerFailsOnlyRaced == \A s \in Server : runner[s].pc = "failed" => runner[s].raced

-----------------------------------------------------------------------------

\* What a runner knows stays true while migrations are recorded by others.
LEMMA AgreementSurvives ==
    ASSUME NEW r \in Runner, NEW old, NEW new, old \subseteq new, RunnerAgrees(r, old)
    PROVE  /\ [r EXCEPT !.raced = TRUE] \in Runner
           /\ RunnerAgrees([r EXCEPT !.raced = TRUE], new)
<1> DEFINE q == [r EXCEPT !.raced = TRUE]
<1>1. q.pc = r.pc /\ q.at = r.at /\ q.raced = TRUE /\ q \in Runner
  BY DEF Runner
<1> QED
  BY <1>1 DEF RunnerAgrees

\* A server with a new database, or one that was served before.
LEMMA InitSchema == ServerInit => SchemaInv
<1> SUFFICES ASSUME ServerInit PROVE SchemaInv
  OBVIOUS
<1> USE MigrationsAssumption
<1>1. runner \in [Server -> Runner] /\ \A s \in Server : runner[s].pc = "idle" /\ runner[s].at = 1
  BY DEF ServerInit, IdleRunner, NewRunner, Runner, RunnerStages
<1>2. \A s \in Server : RunnerAgrees(runner[s], catalog.recorded)
  BY <1>1 DEF RunnerAgrees
<1>3. CASE catalog = FreshCatalog /\ stage = [s \in Server |-> "down"]
  <2>1. catalog \in Catalog /\ SchemaIsRecorded
    BY <1>3 DEF FreshCatalog, Catalog, SchemaIsRecorded
  <2> QED
    BY <1>1, <1>2, <1>3, <2>1 DEF SchemaInv, Stages
<1>4. CASE catalog = UpToDateCatalog /\ stage \in [Server -> {"down", "serving"}]
  <2>1. catalog \in Catalog /\ SchemaIsRecorded /\ catalog.recorded = Migration
    BY <1>4 DEF UpToDateCatalog, Catalog, SchemaIsRecorded, Migration
  <2>2. stage \in [Server -> Stages]
    BY <1>4 DEF Stages
  <2> QED
    BY <1>1, <1>2, <2>1, <2>2 DEF SchemaInv
<1> QED
  BY <1>3, <1>4 DEF ServerInit

-----------------------------------------------------------------------------
(* The steps of Run *)

\* Steps that change one runner and not what is recorded.
LEMMA OneRunnerMoves ==
    ASSUME SchemaInv, NEW s \in Server, NEW r \in Runner, RunnerAgrees(r, catalog.recorded),
           runner' = [runner EXCEPT ![s] = r], UNCHANGED <<catalog, stage>>
    PROVE  SchemaInv'
<1>1. runner' \in [Server -> Runner]
  BY DEF SchemaInv
<1>2. \A t \in Server : RunnerAgrees(runner[t]', catalog.recorded')
  BY DEF SchemaInv
<1>3. SchemaIsRecorded'
  BY DEF SchemaInv, SchemaIsRecorded
<1> QED
  BY <1>1, <1>2, <1>3 DEF SchemaInv

LEMMA EnsureKeepsSchema ==
    ASSUME SchemaInv, NEW s \in Server, EnsureTable(s), UNCHANGED stage
    PROVE  SchemaInv'
<1> USE MigrationsAssumption
<1> DEFINE failing == [runner[s] EXCEPT !.pc = "failed"]
<1>1. runner[s] \in Runner /\ RunnerAgrees(runner[s], catalog.recorded) /\ runner[s].pc = "ensure"
  BY DEF SchemaInv, EnsureTable
<1>2. CASE /\ catalog' = [catalog EXCEPT !.tracked = TRUE]
           /\ runner' = [t \in Server |->
                          IF t = s THEN [runner[s] EXCEPT !.pc = "check"]
                          ELSE IF catalog.tracked THEN runner[t]
                          ELSE [runner[t] EXCEPT !.raced = TRUE]]
  <2>1. catalog' \in Catalog /\ catalog'.recorded = catalog.recorded /\ catalog'.schema = catalog.schema
    BY <1>2 DEF SchemaInv, Catalog
  <2>2. ASSUME NEW t \in Server
        PROVE  runner'[t] \in Runner /\ RunnerAgrees(runner'[t], catalog.recorded)
    <3>1. runner[t] \in Runner /\ RunnerAgrees(runner[t], catalog.recorded)
      BY DEF SchemaInv
    <3>2. CASE t = s
      <4>1. runner'[t] = [runner[s] EXCEPT !.pc = "check"]
        BY <1>2, <3>2
      <4>2. 1..(runner[s].at - 1) = {}
        BY <1>1 DEF RunnerAgrees
      <4> QED
        BY <1>1, <4>1, <4>2 DEF Runner, RunnerStages, RunnerAgrees
    <3>3. CASE t # s
      <4>1. runner'[t] \in {runner[t], [runner[t] EXCEPT !.raced = TRUE]}
        BY <1>2, <3>3
      <4> QED
        BY <3>1, <4>1, AgreementSurvives
    <3> QED
      BY <3>2, <3>3
  <2>3. runner' \in [Server -> Runner]
    <3>1. runner' = [t \in Server |-> runner'[t]]
      BY <1>2
    <3> QED
      BY <2>2, <3>1
  <2>4. SchemaIsRecorded'
    BY <2>1 DEF SchemaInv, SchemaIsRecorded
  <2> QED
    BY <2>1, <2>2, <2>3, <2>4 DEF SchemaInv
<1>3. CASE runner[s].raced /\ Advance(s, "failed") /\ UNCHANGED catalog
  <2>1. failing \in Runner /\ RunnerAgrees(failing, catalog.recorded)
    BY <1>1, <1>3 DEF Runner, RunnerStages, RunnerAgrees
  <2>2. runner' = [runner EXCEPT ![s] = failing]
    BY <1>3 DEF Advance
  <2> QED
    BY <1>3, <2>1, <2>2, OneRunnerMoves
<1> QED
  BY <1>2, <1>3 DEF EnsureTable

LEMMA CheckKeepsSchema ==
    ASSUME SchemaInv, NEW s \in Server, CheckMigration(s), UNCHANGED stage
    PROVE  SchemaInv'
<1> USE MigrationsAssumption
<1> DEFINE r == runner[s]
           next == IF r.at > Migrations THEN [r EXCEPT !.pc = "finished"]
                   ELSE IF Applied(r.at) THEN [r EXCEPT !.at = @ + 1]
                   ELSE [r EXCEPT !.pc = "apply"]
<1>1. r \in Runner /\ RunnerAgrees(r, catalog.recorded) /\ r.pc = "check"
  BY DEF SchemaInv, CheckMigration
<1>2. runner' = [runner EXCEPT ![s] = next] /\ UNCHANGED catalog
  BY DEF CheckMigration
<1>3. 1..(r.at - 1) \subseteq catalog.recorded
  BY <1>1 DEF RunnerAgrees
<1>4. next \in Runner /\ RunnerAgrees(next, catalog.recorded)
  <2>1. CASE r.at > Migrations
    BY <1>1, <1>3, <2>1 DEF Runner, RunnerStages, RunnerAgrees
  <2>2. CASE r.at \in Migration /\ Applied(r.at)
    <3>1. next.pc = "check" /\ next.at = r.at + 1 /\ next \in Runner
      BY <1>1, <2>2 DEF Runner, RunnerStages, Migration
    <3>2. 1..(next.at - 1) = 1..(r.at - 1) \cup {r.at}
      BY <1>1, <3>1 DEF Runner
    <3> QED
      BY <1>3, <2>2, <3>1, <3>2 DEF RunnerAgrees, Applied
  <2>3. CASE r.at \in Migration /\ ~Applied(r.at)
    BY <1>1, <1>3, <2>3 DEF Runner, RunnerStages, RunnerAgrees, Applied, Migration
  <2> QED
    BY <1>1, <2>1, <2>2, <2>3 DEF Runner, Migration
<1> QED
  BY <1>2, <1>4, OneRunnerMoves

LEMMA ApplyKeepsSchema ==
    ASSUME SchemaInv, NEW s \in Server, ApplyMigration(s), UNCHANGED stage
    PROVE  SchemaInv'
<1> DEFINE recording == [runner[s] EXCEPT !.pc = "record"]
           failing == [runner[s] EXCEPT !.pc = "failed"]
<1>1. runner[s] \in Runner /\ RunnerAgrees(runner[s], catalog.recorded) /\ runner[s].pc = "apply"
  BY DEF SchemaInv, ApplyMigration
<1>2. recording \in Runner /\ RunnerAgrees(recording, catalog.recorded)
  BY <1>1 DEF Runner, RunnerStages, RunnerAgrees
<1>3. CASE Advance(s, "record")
  BY <1>2, <1>3, OneRunnerMoves DEF Advance, ApplyMigration
<1>4. CASE runner[s].at \in catalog.schema /\ Advance(s, "failed")
  <2>1. runner[s].raced
    BY <1>1, <1>4 DEF SchemaInv, SchemaIsRecorded, RunnerAgrees
  <2>2. failing \in Runner /\ RunnerAgrees(failing, catalog.recorded)
    BY <1>1, <2>1 DEF Runner, RunnerStages, RunnerAgrees
  <2> QED
    BY <1>4, <2>2, OneRunnerMoves DEF Advance, ApplyMigration
<1> QED
  BY <1>3, <1>4 DEF ApplyMigration

LEMMA RecordKeepsSchema ==
    ASSUME SchemaInv, NEW s \in Server, RecordMigration(s), UNCHANGED stage
    PROVE  SchemaInv'
<1> DEFINE next == [runner[s] EXCEPT !.pc = IF Applied(runner[s].at) THEN "failed" ELSE "commit"]
<1>1. runner[s] \in Runner /\ RunnerAgrees(runner[s], catalog.recorded) /\ runner[s].pc = "record"
  BY DEF SchemaInv, RecordMigration
<1>2. next \in Runner /\ RunnerAgrees(next, catalog.recorded)
  <2>1. CASE Applied(runner[s].at)
    BY <1>1, <2>1 DEF Runner, RunnerStages, RunnerAgrees, Applied
  <2>2. CASE ~Applied(runner[s].at)
    BY <1>1, <2>2 DEF Runner, RunnerStages, RunnerAgrees, Applied
  <2> QED
    BY <2>1, <2>2
<1> QED
  BY <1>2, OneRunnerMoves DEF RecordMigration, Advance

LEMMA CommitKeepsSchema ==
    ASSUME SchemaInv, NEW s \in Server, CommitMigration(s), UNCHANGED stage
    PROVE  SchemaInv'
<1> USE MigrationsAssumption
<1> DEFINE r == runner[s]
           n == r.at
<1>1. r \in Runner /\ RunnerAgrees(r, catalog.recorded) /\ r.pc = "commit"
  BY DEF SchemaInv, CommitMigration
<1>2. n \in Migration /\ 1..(n - 1) \subseteq catalog.recorded
  BY <1>1 DEF Runner, RunnerAgrees, Migration
<1>3. catalog \in Catalog
  BY DEF SchemaInv
<1>4. /\ catalog' \in Catalog
      /\ catalog'.recorded = catalog.recorded \cup {n}
      /\ catalog'.schema = catalog.schema \cup {n}
  BY <1>2, <1>3 DEF CommitMigration, Catalog
<1>5. SchemaIsRecorded'
  <2>1. catalog'.recorded = catalog'.schema
    BY <1>4 DEF SchemaInv, SchemaIsRecorded
  <2>2. ASSUME NEW m \in catalog'.recorded PROVE 1..m \subseteq catalog'.recorded
    <3>1. CASE m \in catalog.recorded
      BY <1>4, <3>1 DEF SchemaInv, SchemaIsRecorded
    <3>2. CASE m = n
      <4>1. 1..n = 1..(n - 1) \cup {n}
        BY <1>2 DEF Migration
      <4> QED
        BY <1>2, <1>4, <3>2, <4>1
    <3> QED
      BY <1>4, <3>1, <3>2
  <2> QED
    BY <2>1, <2>2 DEF SchemaIsRecorded
<1>6. ASSUME NEW t \in Server
      PROVE  runner'[t] \in Runner /\ RunnerAgrees(runner'[t], catalog'.recorded)
  <2>1. CASE t = s
    <3>1. runner'[t] = [r EXCEPT !.pc = "check", !.at = n + 1]
      BY <2>1 DEF CommitMigration
    <3>a. runner'[t] = [pc |-> "check", at |-> n + 1, raced |-> r.raced]
      BY <1>1, <3>1 DEF Runner
    <3>b. n + 1 \in 1..(Migrations + 1) /\ "check" \in RunnerStages /\ r.raced \in BOOLEAN
      BY <1>1, <1>2 DEF Runner, RunnerStages, Migration
    <3>2. runner'[t] \in Runner /\ runner'[t].pc = "check" /\ runner'[t].at = n + 1
      BY <3>a, <3>b DEF Runner
    <3>3. 1..((n + 1) - 1) = 1..(n - 1) \cup {n}
      BY <1>2 DEF Migration
    <3> QED
      BY <1>2, <1>4, <3>2, <3>3 DEF RunnerAgrees
  <2>2. CASE t # s
    <3>1. runner[t] \in Runner /\ RunnerAgrees(runner[t], catalog.recorded)
      BY DEF SchemaInv
    <3>2. runner'[t] = [runner[t] EXCEPT !.raced = TRUE]
      BY <2>2 DEF CommitMigration
    <3> QED
      BY <1>4, <3>1, <3>2, AgreementSurvives
  <2> QED
    BY <2>1, <2>2
<1>7. runner' \in [Server -> Runner]
  <2>1. runner' = [t \in Server |-> runner'[t]]
    BY DEF CommitMigration
  <2> QED
    BY <1>6, <2>1
<1>8. \A t \in Server : stage'[t] \in {"reconciling", "serving", "stopping"} => Migration \subseteq catalog'.recorded
  BY <1>4 DEF SchemaInv
<1> QED
  BY <1>4, <1>5, <1>6, <1>7, <1>8 DEF SchemaInv

-----------------------------------------------------------------------------
(* The life of a process *)

\* A process changes its stage; it may reach one that uses the schema only if
\* that is complete.
LEMMA StageMoves ==
    ASSUME SchemaInv, NEW s \in Server, NEW next \in Stages, Enter(s, next),
           next \in {"reconciling", "serving", "stopping"} => Migration \subseteq catalog.recorded,
           NEW r \in Runner, RunnerAgrees(r, catalog.recorded),
           runner' = [runner EXCEPT ![s] = r], UNCHANGED catalog
    PROVE  SchemaInv'
<1>1. stage' \in [Server -> Stages] /\ runner' \in [Server -> Runner]
  BY DEF SchemaInv, Enter
<1>2. \A t \in Server : RunnerAgrees(runner'[t], catalog'.recorded)
  BY DEF SchemaInv
<1>3. \A t \in Server : stage'[t] \in {"reconciling", "serving", "stopping"} => Migration \subseteq catalog'.recorded
  BY DEF SchemaInv, Enter
<1>4. SchemaIsRecorded'
  BY DEF SchemaInv, SchemaIsRecorded
<1> QED
  BY <1>1, <1>2, <1>3, <1>4 DEF SchemaInv

\* The same, for steps that leave the runner where it is.
LEMMA StageMovesAlone ==
    ASSUME SchemaInv, NEW s \in Server, NEW next \in Stages, Enter(s, next),
           next \in {"reconciling", "serving", "stopping"} => Migration \subseteq catalog.recorded,
           UNCHANGED migrationVars
    PROVE  SchemaInv'
<1>1. runner[s] \in Runner /\ RunnerAgrees(runner[s], catalog.recorded)
  BY DEF SchemaInv
<1>2. runner' = [runner EXCEPT ![s] = runner[s]]
  BY DEF SchemaInv, migrationVars
<1> QED
  BY <1>1, <1>2, StageMoves DEF migrationVars

LEMMA SchemaStutters ==
    ASSUME SchemaInv, UNCHANGED <<catalog, runner, stage>>
    PROVE  SchemaInv'
  BY DEF SchemaInv, SchemaIsRecorded

LEMMA SchemaInvariant == SchemaInv /\ [ServerNext]_serverVars => SchemaInv'
<1> SUFFICES ASSUME SchemaInv, [ServerNext]_serverVars PROVE SchemaInv'
  OBVIOUS
<1> USE MigrationsAssumption
<1>a. ASSUME NEW s \in Server
      PROVE  runner[s] \in Runner /\ RunnerAgrees(runner[s], catalog.recorded)
  BY DEF SchemaInv
<1>b. /\ IdleRunner \in Runner /\ RunnerAgrees(IdleRunner, catalog.recorded)
      /\ NewRunner("ensure") \in Runner /\ RunnerAgrees(NewRunner("ensure"), catalog.recorded)
  <2>1. 1 \in 1..(Migrations + 1) /\ "idle" \in RunnerStages /\ "ensure" \in RunnerStages
    BY DEF RunnerStages
  <2>2. ASSUME NEW pc \in RunnerStages PROVE NewRunner(pc) \in Runner
    BY <2>1, SMT DEF NewRunner, Runner
  <2> QED
    BY <2>1, <2>2 DEF IdleRunner, NewRunner, RunnerAgrees
<1>1. ASSUME NEW s \in Server, Boot(s) PROVE SchemaInv'
  BY <1>1, <1>b, StageMoves DEF Boot, Stages
<1>2. ASSUME NEW s \in Server, MigrationStep(s) PROVE SchemaInv'
  BY <1>2, EnsureKeepsSchema, CheckKeepsSchema, ApplyKeepsSchema, RecordKeepsSchema, CommitKeepsSchema
     DEF MigrationStep, RunMigrations
<1>3. ASSUME NEW s \in Server, StartReconcile(s) PROVE SchemaInv'
  <2>1. runner[s].at = Migrations + 1 /\ 1..(runner[s].at - 1) \subseteq catalog.recorded
    BY <1>3, <1>a DEF StartReconcile, RunnerAgrees
  <2>2. Migration \subseteq catalog.recorded
    BY <2>1 DEF Migration
  <2> QED
    BY <1>3, <2>2, StageMovesAlone DEF StartReconcile, Stages
<1>4. ASSUME NEW s \in Server, ReconcileStep(s) PROVE SchemaInv'
  BY <1>4, SchemaStutters DEF ReconcileStep, migrationVars
<1>5. ASSUME NEW s \in Server, Serve(s) \/ BootFails(s) \/ Signal(s) PROVE SchemaInv'
  <2>1. CASE Serve(s)
    BY <2>1, StageMovesAlone DEF Serve, Stages, SchemaInv
  <2>2. CASE BootFails(s)
    BY <2>2, StageMovesAlone DEF BootFails, Stages
  <2>3. CASE Signal(s)
    BY <2>3, StageMovesAlone DEF Signal, Stages, SchemaInv
  <2> QED
    BY <1>5, <2>1, <2>2, <2>3
<1>6. ASSUME NEW s \in Server, Exit(s) PROVE SchemaInv'
  BY <1>6, <1>b, StageMoves DEF Exit, Stages
<1>7. ASSUME NEW s \in Server, ServeWrite(s) PROVE SchemaInv'
  BY <1>7, SchemaStutters DEF ServeWrite, migrationVars
<1>8. ASSUME NEW n \in Transaction, StartWrite(n) \/ FinishWrite(n) \/ WriteFails(n) PROVE SchemaInv'
  BY <1>8, SchemaStutters DEF StartWrite, FinishWrite, WriteFails, migrationVars
<1>9. CASE UNCHANGED serverVars
  BY <1>9, SchemaStutters DEF serverVars
<1> QED
  BY <1>1, <1>2, <1>3, <1>4, <1>5, <1>6, <1>7, <1>8, <1>9 DEF ServerNext, BootStep

LEMMA SchemaInvAlways == ServerSpec => []SchemaInv
<1> QED
  BY InitSchema, SchemaInvariant, PTL DEF ServerSpec

-----------------------------------------------------------------------------

\* However many servers start, collide and die, the table of migrations says
\* what the schema is, and they took effect in order.
THEOREM RecordedIsApplied == ServerSpec => []SchemaIsRecorded
<1>1. SchemaInv => SchemaIsRecorded
  BY DEF SchemaInv
<1> QED
  BY <1>1, SchemaInvAlways, PTL

\* No request reaches a schema that is not the server's own.
THEOREM ServedIsCurrent == ServerSpec => []ServesCurrentSchema
<1>1. SchemaInv => ServesCurrentSchema
  <2> SUFFICES ASSUME SchemaInv, NEW s \in Server, stage[s] \in {"serving", "stopping"}
               PROVE  Current /\ catalog.schema = Migration
    BY DEF ServesCurrentSchema
  <2>1. Migration \subseteq catalog.recorded /\ catalog.recorded \subseteq Migration
    BY DEF SchemaInv, Catalog
  <2> QED
    BY <2>1 DEF SchemaInv, SchemaIsRecorded, Current, Applied
<1> QED
  BY <1>1, SchemaInvAlways, PTL

\* A server whose migrations fail by themselves met another server at work.
THEOREM OnlyRacesFailMigrations == ServerSpec => []RunnerFailsOnlyRaced
<1>1. SchemaInv => RunnerFailsOnlyRaced
  BY DEF SchemaInv, RunnerAgrees, RunnerFailsOnlyRaced
<1> QED
  BY <1>1, SchemaInvAlways, PTL

-----------------------------------------------------------------------------
(* The invariant of the projection and of the starts *)

WriteRecord ==
    [pc : {"graph", "commit"}, server : Server, op : {"create", "update", "delete"}, id : ID,
     add : SUBSET ID, remove : SUBSET ID]

ScanRecord ==
    [pc : ScanStages, kind : 1..3, total : Nat, listed : Seq(ID), deleted : BOOLEAN, moved : BOOLEAN]

ProjectionTyped ==
    /\ rows \in [Table -> SUBSET ID]
    /\ \A kind \in Table : IsFiniteSet(rows[kind]) /\ rows[kind] \subseteq {x \in issued : KindOf(x) = kind}
    /\ updatedAt \in [ID -> Int]
    /\ issued \subseteq ID
    /\ graph \subseteq issued
    /\ writes \in 0..MaxWrites
    /\ begun \in [Transaction -> Server \cup {None}]
    /\ write \in [Transaction -> WriteRecord \cup {None}]
    /\ scan \in [Server -> ScanRecord]
    /\ rebuild \in Server \cup {None, Spoiled}

Begun == {n \in Transaction : begun[n] # None}

\* Foreign keys, also of what was deleted: no id was issued before its anchors.
RowsRefer ==
    /\ \A kind \in Table : \A x \in rows[kind] : Anchors(x) \subseteq rows["entities"]
    /\ \A x \in issued : Anchors(x) \subseteq issued

\* No two rows were written at one time, and none by a transaction in progress.
TimesDiffer ==
    /\ \A x, y \in ID : updatedAt[x] = updatedAt[y] => x = y
    /\ \A x \in ID : updatedAt[x] <= writes /\ updatedAt[x] \notin Open \cup Begun
    /\ Open \cup Begun \subseteq 1..writes /\ Open \cap Begun = {}

\* What an open transaction may count on: its row, what that refers to, and that
\* nobody else's locks what it locks.
WriteOK(n) ==
    LET w == write[n] IN
    /\ w.id \in issued
    /\ w.op = "create" => ~Exists(w.id) /\ \A x \in issued : w.id \in Synced(x) => x = w.id
    /\ w.op # "create" => Exists(w.id)
    /\ w.op # "delete" => Anchors(w.id) \ {w.id} \subseteq rows["entities"]
    /\ w.op # "delete" => w.remove = {} /\ w.add \subseteq Synced(w.id)
    /\ w.op = "delete" => w.add = {} /\ w.remove \subseteq Detached(w.id)
    /\ w.op # "delete" /\ w.pc = "commit" => w.add = Synced(w.id)

WritesOK ==
    /\ \A n \in Open : WriteOK(n)
    /\ \A m, n \in Open : m # n => ~Conflict(write[m], write[n])

\* A Reconcile during which no row was deleted.
Intact(r) == r.pc \in {"count", "page", "sync"} /\ ~r.deleted

\* A Reconcile during which nothing happened that it does not cope with.
Clean(r) == Intact(r) /\ ~r.moved

ScanOK(r) ==
    /\ \A x \in Range(r.listed) : x \in issued /\ KindOf(x) = Kinds[r.kind]
    /\ r.pc \in {"idle", "clear"} => r.kind = 1 /\ r.listed = <<>>
    /\ r.pc = "failed" => r.deleted
    /\ Intact(r) => /\ \A n \in Open : write[n].op # "delete"
                    /\ Range(r.listed) \subseteq rows[Kinds[r.kind]]

\* The graph has nothing that is not in the tables, and a deletion that is about
\* to commit has matched all it should.
GraphWithinRows ==
    /\ graph \cap EntityID \subseteq rows["entities"]
    /\ graph \cap RelationshipID \subseteq rows["relationships"]
    /\ \A m \in (graph \cap MemoryID) \ rows["memories"] : OwnerOf[m] \notin rows["entities"]
    /\ \A n \in Open : write[n].op = "delete" /\ write[n].pc = "commit" =>
          Detached(write[n].id) \cap graph \subseteq write[n].remove

\* Every row of the tables that are done is in the graph; of the table in hand
\* every row that is not is listed or has its page still to come.
Rebuilding(r) ==
    LET table == Kinds[r.kind] IN
    /\ \A k \in 1..(r.kind - 1) : rows[Kinds[k]] \subseteq graph
    /\ r.pc \in {"count", "page"} =>
          \A x \in rows[table] \ graph : x \in Range(r.listed) \/ Rank(table, x) >= Len(r.listed)
    /\ r.pc = "page" => r.total = Cardinality(rows[table])
    /\ r.pc = "sync" => rows[table] \ graph \subseteq Range(r.listed)

GraphOK ==
    /\ rebuild = None => GraphWithinRows /\ \A kind \in Table : rows[kind] \subseteq graph
    /\ \A s \in Server : rebuild = s /\ Clean(scan[s]) => GraphWithinRows /\ Rebuilding(scan[s])

ProjectionInv ==
    /\ ProjectionTyped /\ RowsRefer /\ TimesDiffer /\ WritesOK
    /\ \A s \in Server : ScanOK(scan[s])
    /\ GraphOK

\* Only a process that serves, or ends what it served, has transactions.
OpenServed ==
    /\ \A n \in Begun : stage[begun[n]] \in {"serving", "stopping"}
    /\ \A n \in Open : stage[write[n].server] \in {"serving", "stopping"}

ScanWaits == \A s \in Server : stage[s] = "migrating" => scan[s].pc = "idle"

CatalogTracked ==
    /\ \A s \in Server : runner[s].pc \in {"check", "apply", "record", "commit", "finished"} => catalog.tracked
    /\ catalog.recorded # {} => catalog.tracked

\* Where the processes are.
StagesOK == OpenServed /\ ScanWaits /\ FailedStartHasCause /\ CatalogTracked

ServerInv == SchemaInv /\ ProjectionInv /\ StagesOK

-----------------------------------------------------------------------------
(* Ids and tables *)

\* There are three tables, and each row is in one of them.
LEMMA TableFacts ==
    /\ Table = {"entities", "memories", "relationships"}
    /\ DOMAIN Kinds = 1..3 /\ Len(Kinds) = 3
    /\ Kinds[1] = "entities" /\ Kinds[2] = "memories" /\ Kinds[3] = "relationships"
  <1>1. /\ DOMAIN Kinds = 1..3 /\ Len(Kinds) = 3
        /\ Kinds[1] = "entities" /\ Kinds[2] = "memories" /\ Kinds[3] = "relationships"
    BY DEF Kinds
  <1>2. QED
    BY <1>1 DEF Table, Range

LEMMA KindFacts ==
    /\ \A k \in 1..3 : Kinds[k] \in Table
    /\ \A x \in ID : /\ KindOf(x) \in Table
                     /\ KindOf(x) = "entities" <=> x \in EntityID
                     /\ KindOf(x) = "memories" <=> x \in MemoryID
                     /\ KindOf(x) = "relationships" <=> x \in RelationshipID
  BY TableFacts, ProjectionAssumption DEF KindOf, ID

\* What a row refers to are entities.
LEMMA AnchorFacts ==
    ASSUME NEW x \in ID
    PROVE  /\ Anchors(x) \subseteq EntityID /\ Anchors(x) # {}
           /\ x \in EntityID => Anchors(x) = {x}
           /\ x \in MemoryID => Anchors(x) = {OwnerOf[x]} /\ OwnerOf[x] \in EntityID
           /\ Synced(x) \subseteq ID /\ x \in Synced(x)
           /\ Cascade(x) \subseteq ID /\ x \in Cascade(x)
           /\ Detached(x) \subseteq ID /\ x \in Detached(x)
  <1>1. CASE x \in EntityID
    BY <1>1, ProjectionAssumption DEF Anchors, Synced, Cascade, Detached, ID
  <1>2. CASE x \in MemoryID
    BY <1>2, ProjectionAssumption DEF Anchors, Synced, Cascade, Detached, ID
  <1>3. CASE x \in RelationshipID
    <2>1. EndsOf[x][1] \in EntityID /\ EndsOf[x][2] \in EntityID
      BY <1>3, ProjectionAssumption
    <2>2. x \notin EntityID /\ x \notin MemoryID
      BY <1>3, ProjectionAssumption
    <2>3. QED
      BY <2>1, <2>2 DEF Anchors, Synced, Cascade, Detached, ID
  <1>4. QED
    BY <1>1, <1>2, <1>3 DEF ID

\* Two locks meet whichever came first.
LEMMA ConflictSymmetric == ASSUME NEW a, NEW b, ~Conflict(a, b) PROVE ~Conflict(b, a)
  BY DEF Conflict

-----------------------------------------------------------------------------
(* The order of a table *)

\* A part of a finite set that lacks something is smaller.
LEMMA SmallerPart ==
    ASSUME NEW S, IsFiniteSet(S), NEW T \in SUBSET S, NEW x \in S, x \notin T
    PROVE  Cardinality(T) < Cardinality(S) /\ Cardinality(T) \in Nat /\ Cardinality(S) \in Nat
  <1>1. /\ IsFiniteSet(T) /\ Cardinality(T) <= Cardinality(S)
        /\ Cardinality(T) = Cardinality(S) => S = T
    BY FS_Subset
  <1>2. Cardinality(T) \in Nat /\ Cardinality(S) \in Nat
    BY <1>1, FS_CardinalityType
  <1>3. QED
    BY <1>1, <1>2

Ahead(kind, x) == {y \in rows[kind] : updatedAt[y] > updatedAt[x]}

\* A row has a place in its table, and no other row has it.
LEMMA RankFacts ==
    ASSUME ProjectionTyped, TimesDiffer, NEW kind \in Table
    PROVE  /\ Cardinality(rows[kind]) \in Nat
           /\ \A x \in rows[kind] : Rank(kind, x) \in 0..(Cardinality(rows[kind]) - 1)
           /\ \A x, y \in rows[kind] : Rank(kind, x) = Rank(kind, y) => x = y
  <1>1. IsFiniteSet(rows[kind]) /\ rows[kind] \subseteq ID
    BY DEF ProjectionTyped
  <1>2. Cardinality(rows[kind]) \in Nat
    BY <1>1, FS_CardinalityType
  <1>3. ASSUME NEW x \in rows[kind]
        PROVE  /\ IsFiniteSet(Ahead(kind, x)) /\ Rank(kind, x) = Cardinality(Ahead(kind, x))
               /\ Rank(kind, x) \in 0..(Cardinality(rows[kind]) - 1)
    <2>1. Ahead(kind, x) \in SUBSET rows[kind] /\ x \notin Ahead(kind, x)
      BY <1>1 DEF Ahead, ProjectionTyped
    <2>2. Rank(kind, x) = Cardinality(Ahead(kind, x))
      BY DEF Rank, Ahead
    <2>3. /\ Cardinality(Ahead(kind, x)) < Cardinality(rows[kind])
          /\ Cardinality(Ahead(kind, x)) \in Nat
      BY <1>1, <2>1, SmallerPart
    <2>4. IsFiniteSet(Ahead(kind, x))
      BY <1>1, <2>1, FS_Subset
    <2>5. QED
      BY <1>2, <2>2, <2>3, <2>4
  <1>4. ASSUME NEW x \in rows[kind], NEW y \in rows[kind], updatedAt[x] > updatedAt[y]
        PROVE  Rank(kind, x) < Rank(kind, y)
    <2>1. Ahead(kind, x) \in SUBSET Ahead(kind, y)
      BY <1>1, <1>4 DEF Ahead, ProjectionTyped
    <2>2. x \in Ahead(kind, y) /\ x \notin Ahead(kind, x)
      BY <1>1, <1>4 DEF Ahead, ProjectionTyped
    <2>3. QED
      BY <1>3, <2>1, <2>2, SmallerPart
  <1>5. ASSUME NEW x \in rows[kind], NEW y \in rows[kind], Rank(kind, x) = Rank(kind, y)
        PROVE  x = y
    <2>1. updatedAt[x] \in Int /\ updatedAt[y] \in Int
      BY <1>1 DEF ProjectionTyped
    <2>2. Rank(kind, x) \in Int /\ Rank(kind, y) \in Int
      BY <1>2, <1>3
    <2>3. ~(updatedAt[x] > updatedAt[y]) /\ ~(updatedAt[y] > updatedAt[x])
      BY <1>4, <1>5, <2>2
    <2>4. updatedAt[x] = updatedAt[y]
      BY <2>1, <2>3
    <2>5. QED
      BY <1>1, <2>4 DEF TimesDiffer
  <1>6. QED
    BY <1>2, <1>3, <1>5

\* Every place of a table is taken.
LEMMA RankOnto ==
    ASSUME ProjectionTyped, TimesDiffer, NEW kind \in Table,
           NEW r \in 0..(Cardinality(rows[kind]) - 1)
    PROVE  \E x \in rows[kind] : Rank(kind, x) = r
  <1> DEFINE T == rows[kind]
             n == Cardinality(T)
             f == [x \in T |-> Rank(kind, x)]
             places == {f[x] : x \in T}
  <1>1. IsFiniteSet(T) /\ n \in Nat
    BY RankFacts DEF ProjectionTyped
  <1>2. \A x \in T : f[x] = Rank(kind, x) /\ f[x] \in 0..(n - 1)
    BY RankFacts
  <1>3. \A x, y \in T : f[x] = f[y] => x = y
    BY <1>2, RankFacts
  <1>4. f \in Bijection(T, places)
    <2>1. f \in [T -> places]
      OBVIOUS
    <2> HIDE DEF f
    <2>2. QED
      BY <1>3, <2>1 DEF Bijection, Injection, Surjection, IsInjective
  <1>5. Cardinality(places) = n
    <2>1. ExistsBijection(T, places)
      BY <1>4 DEF ExistsBijection
    <2>2. QED
      BY <1>1, <2>1, FS_Bijection
  <1>6. IsFiniteSet(0..(n - 1)) /\ Cardinality(0..(n - 1)) = n
    <2>1. 0 \in Int /\ n - 1 \in Int
      BY <1>1
    <2>2. /\ IsFiniteSet(0..(n - 1))
          /\ Cardinality(0..(n - 1)) = IF 0 > n - 1 THEN 0 ELSE (n - 1) - 0 + 1
      BY <2>1, FS_Interval, Zenon
    <2> HIDE DEF n
    <2>3. QED
      BY <1>1, <2>2
  <1>7. places \in SUBSET (0..(n - 1))
    BY <1>2
  <1> HIDE DEF places
  <1>8. places = 0..(n - 1)
    BY <1>5, <1>6, <1>7, FS_Subset
  <1>9. PICK x \in T : f[x] = r
    BY <1>8 DEF places
  <1>10. QED
    BY <1>2, <1>9

\* A page lists the rows in its window.
LEMMA PageLists ==
    ASSUME ProjectionTyped, TimesDiffer, NEW kind \in Table, NEW offset \in Nat
    PROVE  /\ Page(kind, offset) \in Seq(ID)
           /\ Range(Page(kind, offset)) \subseteq rows[kind]
           /\ \A x \in rows[kind] :
                 offset <= Rank(kind, x) /\ Rank(kind, x) < offset + Len(Page(kind, offset))
                    => x \in Range(Page(kind, offset))
  <1> DEFINE n == Cardinality(rows[kind])
             left == n - offset
             size == IF left < PageSize THEN left ELSE PageSize
             at(i) == CHOOSE id \in rows[kind] : Rank(kind, id) = offset + i - 1
             page == [i \in 1..size |-> at(i)]
  <1>1. n \in Nat /\ size \in Int /\ size <= left /\ rows[kind] \subseteq ID
    BY RankFacts, ProjectionAssumption DEF ProjectionTyped
  <1>2. ASSUME NEW i \in 1..size
        PROVE  at(i) \in rows[kind] /\ Rank(kind, at(i)) = offset + i - 1
    <2>1. offset + i - 1 \in 0..(n - 1)
      BY <1>1
    <2>2. \E id \in rows[kind] : Rank(kind, id) = offset + i - 1
      BY <2>1, RankOnto
    <2>3. QED
      BY <2>2
  <1>3. Page(kind, offset) = page
    BY DEF Page
  <1> HIDE DEF at, size
  <1>4. /\ DOMAIN page = 1..size /\ \A i \in 1..size : page[i] = at(i)
        /\ page \in Seq(ID)
        /\ Len(page) = IF size < 0 THEN 0 ELSE size
    <2>1. DOMAIN page = 1..size /\ \A i \in 1..size : page[i] = at(i)
      OBVIOUS
    <2>2. CASE size < 0
      <3>1. 1..size = {} /\ page = <<>>
        BY <1>1, <2>2
      <3> HIDE DEF page
      <3>2. page \in Seq(ID) /\ Len(page) = 0
        BY <3>1
      <3>3. QED
        BY <2>1, <2>2, <3>2
    <2>3. CASE size >= 0
      <3>1. page \in [1..size -> ID] /\ size \in Nat
        BY <1>1, <1>2, <2>3
      <3>2. page \in Seq(ID) /\ Len(page) = size
        BY <3>1
      <3> HIDE DEF page
      <3>3. QED
        BY <1>1, <2>1, <2>3, <3>2
    <2> HIDE DEF page
    <2>4. QED
      BY <1>1, <2>2, <2>3
  <1> HIDE DEF page
  <1>5. Range(page) \subseteq rows[kind]
    BY <1>2, <1>4 DEF Range
  <1>6. ASSUME NEW x \in rows[kind], offset <= Rank(kind, x), Rank(kind, x) < offset + Len(page)
        PROVE  x \in Range(page)
    <2> DEFINE i == Rank(kind, x) - offset + 1
    <2>1. Rank(kind, x) \in Int
      BY RankFacts, <1>1
    <2>2. i \in 1..size
      BY <1>1, <1>4, <1>6, <2>1
    <2>3. Rank(kind, at(i)) = Rank(kind, x) /\ at(i) \in rows[kind]
      BY <1>2, <2>1, <2>2
    <2>4. page[i] = x
      BY <1>4, <2>2, <2>3, RankFacts
    <2>5. QED
      BY <1>4, <2>2, <2>4 DEF Range
  <1>7. QED
    BY <1>3, <1>4, <1>5, <1>6

-----------------------------------------------------------------------------
(* Steps that leave the tables and the graph alone *)

\* What a scan is found in may replace the one of t.
Fine(r, t) == ScanOK(r) /\ (rebuild = t /\ Clean(r) => GraphWithinRows /\ Rebuilding(r))

\* Transactions that end without a commit, and steps of one Reconcile.
LEMMA QuietStep ==
    ASSUME ProjectionInv, UNCHANGED <<rows, updatedAt, issued, graph, writes, rebuild>>,
           begun' \in [Transaction -> Server \cup {None}],
           write' \in [Transaction -> WriteRecord \cup {None}],
           \A n \in Transaction : begun'[n] \in {begun[n], None} /\ write'[n] \in {write[n], None},
           scan' \in [Server -> ScanRecord],
           \A t \in Server : scan'[t] = scan[t] \/ Fine(scan'[t], t)
    PROVE  ProjectionInv'
  <1>1. Open' \subseteq Open /\ Begun' \subseteq Begun /\ \A n \in Open' : write'[n] = write[n]
    BY DEF Open, Begun
  <1>2. ProjectionTyped'
    BY DEF ProjectionInv, ProjectionTyped
  <1>3. RowsRefer'
    BY DEF ProjectionInv, RowsRefer
  <1>4. TimesDiffer'
    BY <1>1 DEF ProjectionInv, TimesDiffer
  <1>5. WritesOK'
    <2>1. ASSUME NEW n \in Open'
          PROVE  WriteOK(n)'
      <3>1. WriteOK(n) /\ write'[n] = write[n]
        BY <1>1, <2>1 DEF ProjectionInv, WritesOK
      <3>2. QED
        BY <3>1 DEF WriteOK, Exists
    <2>2. \A m, n \in Open' : m # n => ~Conflict(write'[m], write'[n])
      BY <1>1 DEF ProjectionInv, WritesOK
    <2>3. QED
      BY <2>1, <2>2 DEF WritesOK
  <1>6. GraphWithinRows => GraphWithinRows'
    BY <1>1 DEF GraphWithinRows
  <1>7. ASSUME NEW t \in Server
        PROVE  ScanOK(scan[t])' /\ (rebuild' = t /\ Clean(scan'[t]) => GraphWithinRows' /\ Rebuilding(scan[t])')
    <2>1. Fine(scan'[t], t)
      BY DEF ProjectionInv, GraphOK, Fine
    <2>2. ScanOK(scan[t])'
      BY <1>1, <2>1 DEF Fine, ScanOK
    <2>3. Rebuilding(scan'[t]) => Rebuilding(scan[t])'
      BY DEF Rebuilding, Rank
    <2>4. QED
      BY <1>6, <2>1, <2>2, <2>3 DEF Fine
  <1>8. GraphOK'
    <2>1. rebuild' = None => GraphWithinRows' /\ \A kind \in Table : rows'[kind] \subseteq graph'
      BY <1>6 DEF ProjectionInv, GraphOK
    <2>2. QED
      BY <1>7, <2>1 DEF GraphOK
  <1>9. QED
    BY <1>2, <1>3, <1>4, <1>5, <1>7, <1>8 DEF ProjectionInv

\* Replacing one scan.
LEMMA OneScanMoves ==
    ASSUME ProjectionInv, UNCHANGED <<rows, updatedAt, issued, graph, writes, begun, write, rebuild>>,
           NEW s \in Server, NEW r \in ScanRecord, Fine(r, s), scan' = [scan EXCEPT ![s] = r]
    PROVE  ProjectionInv'
  <1>1. /\ scan \in [Server -> ScanRecord] /\ write \in [Transaction -> WriteRecord \cup {None}]
        /\ begun \in [Transaction -> Server \cup {None}]
    BY DEF ProjectionInv, ProjectionTyped
  <1>2. scan' \in [Server -> ScanRecord] /\ \A t \in Server : scan'[t] = scan[t] \/ Fine(scan'[t], t)
    BY <1>1
  <1>3. QED
    BY <1>1, <1>2, QuietStep

\* A process that is not yet, or no longer, in Reconcile.
LEMMA IdleIsFine ==
    ASSUME ProjectionInv, NEW t, NEW r \in {IdleScan, [IdleScan EXCEPT !.pc = "clear"]}
    PROVE  r \in ScanRecord /\ Fine(r, t)
  <1>1. r.pc \in {"idle", "clear"} /\ r.kind = 1 /\ r.listed = <<>> /\ r.deleted = FALSE /\ r.total = 0
    BY DEF IdleScan
  <1>2. Range(r.listed) = {}
    BY <1>1 DEF Range
  <1>3. r \in ScanRecord
    <2>1. <<>> \in Seq(ID)
      OBVIOUS
    <2>2. IdleScan \in ScanRecord
      BY <2>1 DEF IdleScan, ScanRecord, ScanStages
    <2>3. [IdleScan EXCEPT !.pc = "clear"] \in ScanRecord
      BY <2>2 DEF ScanRecord, ScanStages
    <2>4. QED
      BY <2>2, <2>3
  <1>4. QED
    BY <1>1, <1>2, <1>3 DEF Fine, ScanOK, Clean, Intact

-----------------------------------------------------------------------------
(* Writes *)

\* What marks a scan leaves the rest of it alone.
LEMMA DeletionMarks ==
    ASSUME NEW r \in ScanRecord, NEW b \in BOOLEAN, NEW q, q = [r EXCEPT !.deleted = @ \/ b]
    PROVE  /\ q \in ScanRecord
           /\ q.pc = r.pc /\ q.kind = r.kind /\ q.total = r.total /\ q.listed = r.listed
           /\ r.deleted => q.deleted
           /\ Clean(q) => Clean(r)
           /\ Intact(q) => Intact(r) /\ ~b
  <1>1. /\ q \in ScanRecord
        /\ q.pc = r.pc /\ q.kind = r.kind /\ q.total = r.total /\ q.listed = r.listed
        /\ q.deleted = (r.deleted \/ b) /\ q.moved = r.moved
    BY DEF ScanRecord
  <1>2. QED
    BY <1>1 DEF Clean, Intact

LEMMA MoveMarks ==
    ASSUME NEW r \in ScanRecord, NEW b \in BOOLEAN, NEW q, q = [r EXCEPT !.moved = @ \/ b]
    PROVE  /\ q \in ScanRecord
           /\ q.pc = r.pc /\ q.kind = r.kind /\ q.total = r.total /\ q.listed = r.listed
           /\ r.deleted => q.deleted
           /\ Clean(q) => Clean(r) /\ ~b
           /\ Intact(q) => Intact(r)
  <1>1. /\ q \in ScanRecord
        /\ q.pc = r.pc /\ q.kind = r.kind /\ q.total = r.total /\ q.listed = r.listed
        /\ q.deleted = r.deleted /\ q.moved = (r.moved \/ b)
    BY DEF ScanRecord
  <1>2. QED
    BY <1>1 DEF Clean, Intact

\* A transaction that begins has the latest time.
LEMMA BeginKeeps ==
    ASSUME ProjectionInv, NEW s \in Server, BeginTx(s)
    PROVE  ProjectionInv'
  <1> DEFINE b == writes + 1
  <1>1. /\ writes < MaxWrites /\ writes' = b /\ begun' = [begun EXCEPT ![b] = s]
        /\ UNCHANGED <<rows, updatedAt, issued, graph, write, scan, rebuild>>
    BY DEF BeginTx
  <1>2. ProjectionTyped /\ TimesDiffer /\ writes \in Nat /\ MaxWrites \in Nat
    BY ProjectionAssumption DEF ProjectionInv, ProjectionTyped
  <1>3. b \in Transaction /\ writes' \in 0..MaxWrites
    BY <1>1, <1>2 DEF Transaction
  <1>4. /\ begun' \in [Transaction -> Server \cup {None}]
        /\ \A m \in Transaction \ {b} : begun'[m] = begun[m]
    BY <1>1, <1>2, <1>3 DEF ProjectionTyped
  <1>5. Open' = Open /\ Begun' \subseteq Begun \cup {b}
    BY <1>1, <1>4 DEF Open, Begun
  <1>6. ProjectionTyped' /\ RowsRefer'
    BY <1>1, <1>2, <1>3, <1>4 DEF ProjectionInv, ProjectionTyped, RowsRefer
  <1>7. TimesDiffer'
    <2>1. ASSUME NEW x \in ID
          PROVE  updatedAt'[x] <= writes' /\ updatedAt'[x] \notin Open' \cup Begun'
      <3>1. updatedAt[x] \in Int /\ updatedAt[x] <= writes /\ updatedAt[x] \notin Open \cup Begun
        BY <1>2 DEF ProjectionTyped, TimesDiffer
      <3>2. updatedAt[x] # b
        BY <1>2, <3>1
      <3>3. QED
        BY <1>1, <1>2, <1>5, <3>1, <3>2
    <2>2. Open \cup Begun \subseteq 1..writes /\ Open \cap Begun = {}
      BY <1>2 DEF TimesDiffer
    <2>3. b \in 1..writes' /\ b \notin 1..writes /\ 1..writes \subseteq 1..writes'
      BY <1>1, <1>2
    <2>4. Open' \cup Begun' \subseteq 1..writes' /\ Open' \cap Begun' = {}
      BY <1>5, <2>2, <2>3
    <2>5. QED
      BY <1>1, <1>2, <2>1, <2>4 DEF TimesDiffer
  <1>8. WritesOK'
    BY <1>1, <1>5 DEF ProjectionInv, WritesOK, WriteOK, Exists
  <1>9. \A t \in Server : ScanOK(scan[t])'
    BY <1>1, <1>5 DEF ProjectionInv, ScanOK
  <1>10. GraphOK'
    <2>1. GraphWithinRows => GraphWithinRows'
      BY <1>1, <1>5 DEF GraphWithinRows
    <2>2. \A t \in Server : Rebuilding(scan[t]) => Rebuilding(scan[t])'
      BY <1>1 DEF Rebuilding, Rank
    <2>3. QED
      BY <1>1, <2>1, <2>2 DEF ProjectionInv, GraphOK
  <1>11. QED
    BY <1>6, <1>7, <1>8, <1>9, <1>10 DEF ProjectionInv

\* The statement on the table: what it locks nobody else has locked.
LEMMA WriteRowKeeps ==
    ASSUME ProjectionInv, NEW b \in Transaction, NEW op \in {"create", "update", "delete"}, NEW id \in ID,
           WriteRow(b, op, id)
    PROVE  ProjectionInv'
  <1> DEFINE new == [pc |-> "graph", server |-> begun[b], op |-> op, id |-> id, add |-> {}, remove |-> {}]
  <1>1. /\ begun[b] # None /\ Possible(op, id)
        /\ \A other \in Open : ~Conflict(new, write[other])
        /\ begun' = [begun EXCEPT ![b] = None]
        /\ write' = [write EXCEPT ![b] = new]
        /\ issued' = issued \cup {id}
        /\ UNCHANGED <<rows, updatedAt, graph, writes, rebuild>>
    BY Zenon DEF WriteRow
  <1>2. scan' = [t \in Server |-> [scan[t] EXCEPT !.deleted = @ \/ (op = "delete" /\ Scanning(t))]]
    BY Zenon DEF WriteRow
  <1>3. ProjectionTyped
    BY DEF ProjectionInv
  <1>0. new \in WriteRecord /\ new.pc = "graph" /\ new.op = op /\ new.id = id /\ new.add = {} /\ new.remove = {}
    <2>1. begun[b] \in Server
      BY <1>1, <1>3 DEF ProjectionTyped
    <2>2. QED
      BY <2>1 DEF WriteRecord
  <1> HIDE DEF new
  <1>4. /\ b \notin Open /\ b \in Begun
        /\ write'[b] = new /\ \A m \in Transaction \ {b} : write'[m] = write[m]
        /\ write' \in [Transaction -> WriteRecord \cup {None}]
        /\ begun' \in [Transaction -> Server \cup {None}]
        /\ Begun' \subseteq Begun \ {b}
    <2>1. b \in Begun
      BY <1>1 DEF Begun
    <2>2. b \notin Open
      BY <2>1 DEF ProjectionInv, TimesDiffer
    <2>3. /\ write \in [Transaction -> WriteRecord \cup {None}]
          /\ begun \in [Transaction -> Server \cup {None}]
      BY <1>3 DEF ProjectionTyped
    <2>4. Begun' \subseteq Begun \ {b}
      BY <1>1, <2>3 DEF Begun
    <2>5. QED
      BY <1>0, <1>1, <2>1, <2>2, <2>3, <2>4
  <1>5. Open' \subseteq Open \cup {b} /\ \A m \in Open' : m # b => m \in Open /\ write'[m] = write[m]
    BY <1>4 DEF Open
  <1>6. ASSUME NEW t \in Server
        PROVE  LET q == scan'[t] r == scan[t] IN
               /\ q \in ScanRecord
               /\ q.pc = r.pc /\ q.kind = r.kind /\ q.total = r.total /\ q.listed = r.listed
               /\ Clean(q) => Clean(r)
               /\ Intact(q) => Intact(r) /\ op # "delete"
               /\ r.deleted => q.deleted
    <2> DEFINE marks == op = "delete" /\ Scanning(t)
    <2>1. scan[t] \in ScanRecord /\ marks \in BOOLEAN
      BY <1>3 DEF ProjectionTyped
    <2>2. scan'[t] = [scan[t] EXCEPT !.deleted = @ \/ marks]
      BY <1>2
    <2> HIDE DEF marks
    <2>3. /\ scan'[t] \in ScanRecord /\ scan'[t].pc = scan[t].pc /\ scan'[t].kind = scan[t].kind
          /\ scan'[t].total = scan[t].total /\ scan'[t].listed = scan[t].listed
      BY <2>1, <2>2, DeletionMarks
    <2>4. /\ Clean(scan'[t]) => Clean(scan[t])
          /\ Intact(scan'[t]) => Intact(scan[t]) /\ ~marks
      BY <2>1, <2>2, DeletionMarks, Zenon
    <2>5. scan[t].deleted => scan'[t].deleted
      BY <2>1, <2>2, DeletionMarks
    <2>6. Intact(scan[t]) /\ ~marks => op # "delete"
      BY DEF Intact, Scanning, marks
    <2>7. QED
      BY <2>3, <2>4, <2>5, <2>6
  <1>7. /\ op = "create" => id \notin issued
        /\ op # "create" => Exists(id) /\ id \in issued
        /\ Anchors(id) \ {id} \subseteq rows["entities"]
        /\ rows["entities"] \subseteq issued
    <2>1. rows["entities"] \subseteq issued /\ \A x \in ID : rows[KindOf(x)] \subseteq issued
      BY <1>3, TableFacts, KindFacts DEF ProjectionTyped
    <2>2. CASE op = "create"
      <3>1. id \notin issued /\ \A e \in Anchors(id) \ {id} : Exists(e)
        BY <1>1, <2>2 DEF Possible
      <3>2. \A e \in Anchors(id) : e \in EntityID /\ e \in ID
        BY AnchorFacts DEF ID
      <3>3. QED
        BY <2>1, <2>2, <3>1, <3>2, KindFacts DEF Exists
    <2>3. CASE op # "create"
      <3>1. id \in rows[KindOf(id)]
        BY <1>1, <2>3 DEF Possible, Exists
      <3>2. Anchors(id) \subseteq rows["entities"]
        BY <3>1, KindFacts DEF ProjectionInv, RowsRefer
      <3>3. QED
        BY <2>1, <2>3, <3>1, <3>2 DEF Exists
    <2>4. QED
      BY <2>2, <2>3
  <1>8. ProjectionTyped'
    <2>1. scan' \in [Server -> ScanRecord]
      BY <1>2, <1>6
    <2>2. QED
      BY <1>1, <1>3, <1>4, <2>1 DEF ProjectionTyped
  <1>9. RowsRefer'
    <2>1. \A x \in issued : Anchors(x) \subseteq issued'
      BY <1>1 DEF ProjectionInv, RowsRefer
    <2>2. Anchors(id) \subseteq issued'
      BY <1>1, <1>7
    <2>3. QED
      BY <1>1, <2>1, <2>2 DEF ProjectionInv, RowsRefer
  <1>10. TimesDiffer'
    <2>1. Open' \cup Begun' \subseteq Open \cup Begun /\ Open' \cap Begun' \subseteq Open \cap Begun
      BY <1>4, <1>5
    <2>2. QED
      BY <1>1, <2>1 DEF ProjectionInv, TimesDiffer
  <1>11. WritesOK'
    <2>1. ASSUME NEW n \in Open', n = b
          PROVE  WriteOK(n)'
      <3>1. write'[n] = new
        BY <1>4, <2>1
      <3>2. op = "create" => ~Exists(id)' /\ \A x \in issued' : id \in Synced(x) => x = id
        <4>1. rows' = rows /\ (op = "create" => id \notin rows[KindOf(id)])
          BY <1>1, <1>3, <1>7, KindFacts DEF ProjectionTyped
        <4>2. \A x \in issued : Synced(x) \subseteq issued
          BY DEF ProjectionInv, RowsRefer, Synced
        <4>3. QED
          BY <1>1, <1>7, <4>1, <4>2 DEF Exists
      <3>3. QED
        BY <1>0, <1>1, <1>7, <3>1, <3>2 DEF WriteOK, Exists
    <2>2. ASSUME NEW n \in Open', n # b
          PROVE  WriteOK(n)'
      <3> DEFINE w == write[n]
      <3>1. n \in Open /\ write'[n] = w /\ WriteOK(n) /\ w \in WriteRecord
        BY <1>3, <1>5, <2>2 DEF ProjectionInv, WritesOK, Open, ProjectionTyped
      <3>2. w.id # id /\ w.id \in ID
        BY <1>0, <1>1, <3>1 DEF Conflict, WriteRecord
      <3>3. ASSUME w.op = "create"
            PROVE  w.id \notin Synced(id)
        <4>1. w.id \notin rows[KindOf(w.id)]
          BY <3>1, <3>3 DEF WriteOK, Exists
        <4>2. SUFFICES ASSUME w.id \in Anchors(id) PROVE FALSE
          BY <3>2 DEF Synced
        <4>3. w.id \in rows["entities"] /\ KindOf(w.id) = "entities"
          BY <1>7, <3>2, <4>2, AnchorFacts, KindFacts
        <4>4. QED
          BY <4>1, <4>3
      <3> HIDE DEF w
      <3>4. QED
        BY <1>1, <3>1, <3>3 DEF WriteOK, Exists, w
    <2>3. ASSUME NEW m \in Open', NEW n \in Open', m # n
          PROVE  ~Conflict(write'[m], write'[n])
      <3>1. CASE m = b
        BY <1>1, <1>4, <1>5, <2>3, <3>1
      <3>2. CASE n = b
        <4>1. ~Conflict(new, write[m]) /\ write'[m] = write[m] /\ write'[n] = new
          BY <1>1, <1>4, <1>5, <2>3, <3>2
        <4>2. QED
          BY <4>1, ConflictSymmetric
      <3>3. CASE m # b /\ n # b
        BY <1>5, <2>3, <3>3 DEF ProjectionInv, WritesOK
      <3>4. QED
        BY <3>1, <3>2, <3>3
    <2>4. QED
      BY <2>1, <2>2, <2>3 DEF WritesOK
  <1>12. ASSUME NEW t \in Server
         PROVE  ScanOK(scan[t])'
    <2>1. ScanOK(scan[t])
      BY DEF ProjectionInv
    <2>2. Intact(scan'[t]) => \A n \in Open' : write'[n].op # "delete"
      BY <1>0, <1>4, <1>5, <1>6, <2>1 DEF ScanOK
    <2>3. QED
      BY <1>1, <1>6, <2>1, <2>2 DEF ScanOK
  <1>13. GraphOK'
    <2>1. GraphWithinRows => GraphWithinRows'
      <3>1. ASSUME NEW n \in Open', write'[n].op = "delete", write'[n].pc = "commit"
            PROVE  n \in Open /\ write'[n] = write[n]
        BY <1>0, <1>4, <1>5, <3>1
      <3>2. QED
        BY <1>1, <3>1 DEF GraphWithinRows
    <2>2. \A t \in Server : Rebuilding(scan[t]) => Rebuilding(scan[t])'
      BY <1>1, <1>6 DEF Rebuilding, Rank
    <2>3. QED
      BY <1>1, <1>6, <2>1, <2>2 DEF ProjectionInv, GraphOK
  <1>14. QED
    BY <1>8, <1>9, <1>10, <1>11, <1>12, <1>13 DEF ProjectionInv

\* The cypher statements: what they will add and remove is known from here on.
LEMMA WriteGraphKeeps ==
    ASSUME ProjectionInv, NEW n \in Transaction, WriteGraph(n)
    PROVE  ProjectionInv'
  <1> DEFINE w == write[n]
             q == write'[n]
  <1>1. /\ w # None /\ w.pc = "graph"
        /\ UNCHANGED <<rows, updatedAt, issued, graph, writes, begun, scan, rebuild>>
    BY DEF WriteGraph
  <1>2. ProjectionTyped /\ n \in Open /\ w \in WriteRecord /\ WriteOK(n)
    BY <1>1 DEF ProjectionInv, ProjectionTyped, WritesOK, Open
  <1>3. \/ w.op = "delete" /\ write' = [write EXCEPT ![n].pc = "commit", ![n].remove = Detached(w.id) \cap graph]
        \/ w.op # "delete" /\ write' = [write EXCEPT ![n].pc = "commit", ![n].add = Synced(w.id)]
    BY Zenon DEF WriteGraph
  <1>4. /\ q \in WriteRecord
        /\ q.pc = "commit" /\ q.server = w.server /\ q.op = w.op /\ q.id = w.id
        /\ w.op = "delete" => q.add = w.add /\ q.remove = Detached(w.id) \cap graph
        /\ w.op # "delete" => q.add = Synced(w.id) /\ q.remove = w.remove
        /\ \A m \in Transaction \ {n} : write'[m] = write[m]
        /\ write' \in [Transaction -> WriteRecord \cup {None}]
    <2>1. w.id \in ID /\ Synced(w.id) \subseteq ID /\ Detached(w.id) \subseteq ID
      BY <1>2, AnchorFacts DEF WriteRecord
    <2>2. write \in [Transaction -> WriteRecord \cup {None}]
      BY <1>2 DEF ProjectionTyped
    <2>3. CASE w.op = "delete"
      <3>1. q = [w EXCEPT !.pc = "commit", !.remove = Detached(w.id) \cap graph]
        BY <1>3, <2>2, <2>3
      <3>2. q \in WriteRecord
        BY <1>2, <2>1, <3>1 DEF WriteRecord
      <3>3. QED
        BY <1>2, <1>3, <2>2, <2>3, <3>1, <3>2 DEF WriteRecord
    <2>4. CASE w.op # "delete"
      <3>1. q = [w EXCEPT !.pc = "commit", !.add = Synced(w.id)]
        BY <1>3, <2>2, <2>4
      <3>2. q \in WriteRecord
        BY <1>2, <2>1, <3>1 DEF WriteRecord
      <3>3. QED
        BY <1>2, <1>3, <2>2, <2>4, <3>1, <3>2 DEF WriteRecord
    <2>5. QED
      BY <2>3, <2>4
  <1> HIDE DEF w, q
  <1>5. Open' \subseteq Open /\ Begun' = Begun /\ \A m \in Open' : m # n => write'[m] = write[m]
    BY <1>1, <1>2, <1>4 DEF Open, Begun
  <1>6. ProjectionTyped' /\ RowsRefer'
    BY <1>1, <1>2, <1>4 DEF ProjectionInv, ProjectionTyped, RowsRefer
  <1>7. \A m \in Open' : write'[m].id = write[m].id /\ write'[m].op = write[m].op
    BY <1>4, <1>5 DEF w, q
  <1>8. TimesDiffer'
    BY <1>1, <1>5, <1>7 DEF ProjectionInv, TimesDiffer
  <1>9. WritesOK'
    <2>1. ASSUME NEW m \in Open'
          PROVE  WriteOK(m)'
      <3>1. CASE m = n
        <4>1. write'[m] = q /\ write[m] = w
          BY <3>1 DEF q, w
        <4>2. Detached(w.id) \cap graph \subseteq Detached(w.id)
          OBVIOUS
        <4>3. QED
          BY <1>1, <1>2, <1>4, <3>1, <4>1, <4>2 DEF WriteOK, Exists
      <3>2. CASE m # n
        <4>1. WriteOK(m) /\ write'[m] = write[m]
          BY <1>5, <2>1, <3>2 DEF ProjectionInv, WritesOK
        <4>2. QED
          BY <1>1, <4>1 DEF WriteOK, Exists
      <3>3. QED
        BY <3>1, <3>2
    <2>2. \A m, k \in Open' : Conflict(write'[m], write'[k]) => Conflict(write[m], write[k])
      BY <1>7 DEF Conflict
    <2>3. QED
      BY <1>5, <2>1, <2>2 DEF ProjectionInv, WritesOK
  <1>10. \A t \in Server : ScanOK(scan[t])'
    BY <1>1, <1>5, <1>7 DEF ProjectionInv, ScanOK
  <1>11. GraphOK'
    <2>1. GraphWithinRows => GraphWithinRows'
      <3>1. ASSUME GraphWithinRows, NEW m \in Open', write'[m].op = "delete", write'[m].pc = "commit"
            PROVE  Detached(write'[m].id) \cap graph' \subseteq write'[m].remove
        <4>1. CASE m = n
          BY <1>1, <1>4, <3>1, <4>1 DEF w, q
        <4>2. CASE m # n
          BY <1>1, <1>5, <3>1, <4>2 DEF GraphWithinRows
        <4>3. QED
          BY <4>1, <4>2
      <3>2. QED
        BY <1>1, <3>1 DEF GraphWithinRows
    <2>2. \A t \in Server : Rebuilding(scan[t]) => Rebuilding(scan[t])'
      BY <1>1 DEF Rebuilding, Rank
    <2>3. QED
      BY <1>1, <2>1, <2>2 DEF ProjectionInv, GraphOK
  <1>12. QED
    BY <1>6, <1>8, <1>9, <1>10, <1>11 DEF ProjectionInv

\* A row's own commit takes nothing from another's place in the list, unless
\* the row is taken back in it.
LEMMA RankGrows ==
    ASSUME ProjectionTyped, ProjectionTyped', NEW kind \in Table, NEW id \in ID, NEW n \in Int,
           updatedAt' = [updatedAt EXCEPT ![id] = n], id \in rows[kind] => updatedAt[id] < n,
           rows[kind] \subseteq rows'[kind], NEW x \in rows[kind], x # id
    PROVE  Rank(kind, x)' >= Rank(kind, x) /\ Rank(kind, x) \in Nat /\ Rank(kind, x)' \in Nat
  <1>1. IsFiniteSet(rows'[kind]) /\ Ahead(kind, x)' \in SUBSET rows'[kind]
    BY DEF ProjectionTyped, Ahead
  <1>2. Ahead(kind, x) \in SUBSET Ahead(kind, x)'
    <2> SUFFICES ASSUME NEW y \in Ahead(kind, x)
                 PROVE  y \in Ahead(kind, x)'
      OBVIOUS
    <2>1. x \in ID /\ y \in ID /\ y \in rows[kind] /\ y \in rows'[kind] /\ updatedAt[y] > updatedAt[x]
      BY DEF ProjectionTyped, Ahead
    <2>2. updatedAt \in [ID -> Int] /\ updatedAt'[x] = updatedAt[x]
      BY <2>1 DEF ProjectionTyped
    <2>3. updatedAt'[y] > updatedAt'[x]
      <3>1. CASE y = id
        BY <2>1, <2>2, <3>1
      <3>2. CASE y # id
        BY <2>1, <2>2, <3>2
      <3>3. QED
        BY <3>1, <3>2
    <2>4. QED
      BY <2>1, <2>3 DEF Ahead
  <1>3. IsFiniteSet(Ahead(kind, x)')
    BY <1>1, FS_Subset
  <1>4. /\ IsFiniteSet(Ahead(kind, x))
        /\ Cardinality(Ahead(kind, x)) <= Cardinality(Ahead(kind, x)')
    BY <1>2, <1>3, FS_Subset
  <1>5. Cardinality(Ahead(kind, x)) \in Nat /\ Cardinality(Ahead(kind, x)') \in Nat
    BY <1>3, <1>4, FS_CardinalityType
  <1>6. Rank(kind, x) = Cardinality(Ahead(kind, x)) /\ Rank(kind, x)' = Cardinality(Ahead(kind, x)')
    BY DEF Rank, Ahead
  <1>7. QED
    BY <1>4, <1>5, <1>6

\* What one transaction merges, no deletion that is open with it detaches.
LEMMA DetachedApart ==
    ASSUME NEW a, NEW b, a.id \in ID, b.id \in ID, b.op = "delete", ~Conflict(a, b)
    PROVE  Detached(b.id) \cap Synced(a.id) = {}
  <1>1. a.id # b.id /\ a.id \notin Cascade(b.id)
    BY DEF Conflict
  <1>2. b.id \notin Synced(a.id)
    BY <1>1 DEF Cascade
  <1>3. ASSUME NEW z \in Cascade(b.id), z \in Synced(a.id)
        PROVE  FALSE
    <2>1. z \in ID /\ b.id \in Synced(z)
      BY DEF Cascade
    <2>2. z # a.id
      BY <1>1, <1>3
    <2>3. z \in EntityID
      BY <1>3, <2>2, AnchorFacts DEF Synced
    <2>4. Synced(z) = {z}
      BY <2>1, <2>3, AnchorFacts DEF Synced
    <2>5. QED
      BY <1>2, <1>3, <2>1, <2>4
  <1>4. QED
    BY <1>2, <1>3 DEF Detached

\* What every commit does besides its row.
LEMMA CommitFacts ==
    ASSUME ProjectionInv, NEW n \in Transaction, CommitWrite(n)
    PROVE  /\ n \in Open /\ write[n] \in WriteRecord /\ WriteOK(n) /\ write[n].id \in ID
           /\ UNCHANGED <<issued, writes, begun, rebuild>>
           /\ graph' = (graph \ write[n].remove) \cup write[n].add
           /\ write' \in [Transaction -> WriteRecord \cup {None}]
           /\ Open' = Open \ {n} /\ \A m \in Open' : write'[m] = write[m]
           /\ scan' \in [Server -> ScanRecord]
           /\ \A t \in Server :
                 LET q == scan'[t] r == scan[t] IN
                 /\ q.pc = r.pc /\ q.kind = r.kind /\ q.total = r.total /\ q.listed = r.listed
                 /\ Clean(q) => Clean(r)
                 /\ Intact(q) => Intact(r)
                 /\ r.deleted => q.deleted
                 /\ Clean(q) => ~Disturbs(n, r)
  <1> DEFINE w == write[n]
             marks(t) == Disturbs(n, scan[t])
  <1>1. /\ w # None /\ w.pc = "commit"
        /\ UNCHANGED <<issued, writes, begun, rebuild>>
        /\ graph' = (graph \ w.remove) \cup w.add
        /\ write' = [write EXCEPT ![n] = None]
    BY Zenon DEF CommitWrite
  <1>2. scan' = [t \in Server |-> [scan[t] EXCEPT !.moved = @ \/ marks(t)]]
    BY Zenon DEF CommitWrite
  <1>3. ProjectionTyped /\ n \in Open /\ w \in WriteRecord /\ WriteOK(n) /\ w.id \in ID
    BY <1>1 DEF ProjectionInv, ProjectionTyped, WritesOK, Open, WriteRecord
  <1>4. write \in [Transaction -> WriteRecord \cup {None}]
    BY <1>3 DEF ProjectionTyped
  <1>5. /\ write' \in [Transaction -> WriteRecord \cup {None}]
        /\ write'[n] = None /\ \A m \in Transaction \ {n} : write'[m] = write[m]
    BY <1>1, <1>4
  <1>6. Open' = Open \ {n} /\ \A m \in Open' : write'[m] = write[m]
    BY <1>5 DEF Open
  <1>7. ASSUME NEW t \in Server
        PROVE  /\ scan'[t] \in ScanRecord /\ scan'[t].pc = scan[t].pc /\ scan'[t].kind = scan[t].kind
               /\ scan'[t].total = scan[t].total /\ scan'[t].listed = scan[t].listed
               /\ scan[t].deleted => scan'[t].deleted
               /\ Intact(scan'[t]) => Intact(scan[t])
               /\ Clean(scan'[t]) => Clean(scan[t]) /\ ~marks(t)
    <2>1. scan[t] \in ScanRecord /\ marks(t) \in BOOLEAN
      BY <1>3 DEF ProjectionTyped, Disturbs
    <2>2. scan'[t] = [scan[t] EXCEPT !.moved = @ \/ marks(t)]
      BY <1>2
    <2> HIDE DEF marks
    <2>3. QED
      BY <2>1, <2>2, MoveMarks
  <1>8. scan' \in [Server -> ScanRecord]
    BY <1>2, <1>7
  <1> HIDE DEF w
  <1>9. QED
    BY <1>1, <1>3, <1>5, <1>6, <1>7, <1>8 DEF w

\* A deletion that commits: rows and graph lose the same.
LEMMA CommitDeletes ==
    ASSUME ProjectionInv, NEW n \in Transaction, CommitWrite(n), write[n].op = "delete"
    PROVE  ProjectionInv'
  <1> DEFINE w == write[n]
             d == w.id
  <1>1. ProjectionTyped /\ d \in ID
    BY CommitFacts DEF ProjectionInv
  <1>2. /\ n \in Open /\ WriteOK(n) /\ w.pc = "commit"
        /\ UNCHANGED <<issued, writes, begun, rebuild>>
        /\ Open' = Open \ {n} /\ \A m \in Open' : write'[m] = write[m]
    BY CommitFacts DEF CommitWrite
  <1>3. rows' = [kind \in Table |-> rows[kind] \ Cascade(d)] /\ updatedAt' = updatedAt
    BY DEF CommitWrite, CommitRow
  <1>4. graph' = graph \ w.remove /\ w.remove \subseteq Detached(d)
    BY <1>2, CommitFacts DEF WriteOK
  <1>5. \A kind \in Table : rows'[kind] = rows[kind] \ Cascade(d)
    BY <1>3
  <1>6. ASSUME NEW e \in EntityID, e \in Cascade(d)
        PROVE  e = d
    <2>1. e \in ID /\ d \in Synced(e)
      BY <1>6 DEF Cascade
    <2>2. QED
      BY <2>1, AnchorFacts DEF Synced
  <1>7. ASSUME NEW x \in ID, NEW e \in Anchors(x), x \notin Cascade(d), e \in rows["entities"]
        PROVE  e \in rows'["entities"]
    <2>1. e \in EntityID
      BY AnchorFacts
    <2>2. e # d
      BY <1>7 DEF Cascade, Synced
    <2>3. QED
      BY <1>5, <1>6, <1>7, <2>1, <2>2, TableFacts
  <1>8. ProjectionTyped'
    <2>1. \A kind \in Table : IsFiniteSet(rows'[kind])
      BY <1>1, <1>5, FS_Subset DEF ProjectionTyped
    <2>2. rows' \in [Table -> SUBSET ID]
      BY <1>1, <1>3 DEF ProjectionTyped
    <2>3. scan' \in [Server -> ScanRecord] /\ write' \in [Transaction -> WriteRecord \cup {None}]
      BY CommitFacts
    <2>4. QED
      BY <1>1, <1>2, <1>3, <1>4, <1>5, <2>1, <2>2, <2>3 DEF ProjectionTyped
  <1>9. RowsRefer'
    <2>1. ASSUME NEW kind \in Table, NEW x \in rows'[kind]
          PROVE  Anchors(x) \subseteq rows'["entities"]
      <3>1. x \in rows[kind] /\ x \in ID /\ x \notin Cascade(d)
        BY <1>1, <1>5 DEF ProjectionTyped
      <3>2. Anchors(x) \subseteq rows["entities"]
        BY <3>1 DEF ProjectionInv, RowsRefer
      <3>3. QED
        BY <1>7, <3>1, <3>2
    <2>2. QED
      BY <1>2, <2>1 DEF ProjectionInv, RowsRefer
  <1>10. TimesDiffer'
    BY <1>2, <1>3 DEF ProjectionInv, TimesDiffer, Begun
  <1>11. WritesOK'
    <2>1. ASSUME NEW m \in Open'
          PROVE  WriteOK(m)'
      <3> DEFINE v == write[m]
      <3>1. m \in Open /\ m # n /\ write'[m] = v /\ WriteOK(m) /\ v \in WriteRecord /\ v.id \in ID
        BY <1>1, <1>2 DEF ProjectionInv, WritesOK, ProjectionTyped, Open, WriteRecord
      <3>2. v.id \notin Cascade(d)
        BY <1>2, <3>1 DEF ProjectionInv, WritesOK, Conflict
      <3> HIDE DEF v
      <3>3. v.id \in rows'[KindOf(v.id)] <=> v.id \in rows[KindOf(v.id)]
        BY <1>5, <3>1, <3>2, KindFacts
      <3>4. Anchors(v.id) \ {v.id} \subseteq rows["entities"] => Anchors(v.id) \ {v.id} \subseteq rows'["entities"]
        BY <1>7, <3>1, <3>2
      <3>5. QED
        BY <1>2, <3>1, <3>3, <3>4 DEF WriteOK, Exists, v
    <2>2. QED
      BY <1>2, <2>1 DEF ProjectionInv, WritesOK
  <1>12. ASSUME NEW t \in Server
         PROVE  ScanOK(scan[t])' /\ ~Intact(scan'[t])
    <2>1. ScanOK(scan[t])
      BY DEF ProjectionInv
    <2>2. ~Intact(scan[t])
      BY <1>2, <2>1 DEF ScanOK
    <2>3. /\ scan'[t].pc = scan[t].pc /\ scan'[t].kind = scan[t].kind /\ scan'[t].listed = scan[t].listed
          /\ scan[t].deleted => scan'[t].deleted
          /\ Intact(scan'[t]) => Intact(scan[t])
      BY CommitFacts
    <2>4. QED
      BY <1>2, <2>1, <2>2, <2>3 DEF ScanOK
  <1>13. ASSUME rebuild = None
         PROVE  GraphWithinRows' /\ \A kind \in Table : rows'[kind] \subseteq graph'
    <2>1. GraphWithinRows /\ \A kind \in Table : rows[kind] \subseteq graph
      BY <1>13 DEF ProjectionInv, GraphOK
    <2>2. Detached(d) \cap graph \subseteq w.remove
      BY <1>2, <2>1 DEF GraphWithinRows
    <2>3. graph' = graph \ Detached(d)
      BY <1>4, <2>2
    <2>4. Detached(d) \subseteq Cascade(d)
      BY <1>1, AnchorFacts DEF Detached
    <2>5. \A kind \in Table : rows'[kind] \subseteq graph'
      BY <1>5, <2>1, <2>3, <2>4
    <2>6. graph' \cap EntityID \subseteq rows'["entities"]
      BY <1>1, <1>5, <1>6, <2>1, <2>3, AnchorFacts, TableFacts DEF GraphWithinRows
    <2>7. graph' \cap RelationshipID \subseteq rows'["relationships"]
      <3>1. ASSUME NEW x \in graph', x \in RelationshipID
            PROVE  x \in rows["relationships"] /\ x \notin Cascade(d)
        BY <2>1, <2>3, <3>1, ProjectionAssumption DEF GraphWithinRows, Detached
      <3>2. QED
        BY <1>5, <3>1, TableFacts
    <2>8. ASSUME NEW m \in (graph' \cap MemoryID) \ rows'["memories"]
          PROVE  OwnerOf[m] \notin rows'["entities"]
      <3>1. m \in graph /\ m # d /\ m \in MemoryID /\ m \in ID
        BY <1>1, <2>3, AnchorFacts DEF ID
      <3>2. rows'["entities"] \subseteq rows["entities"]
        BY <1>5, TableFacts
      <3>3. CASE m \notin rows["memories"]
        BY <2>1, <3>1, <3>2, <3>3 DEF GraphWithinRows
      <3>4. CASE m \in rows["memories"]
        <4>1. m \in Cascade(d)
          BY <1>5, <2>8, <3>4, TableFacts
        <4>2. d = OwnerOf[m]
          BY <3>1, <4>1, AnchorFacts DEF Cascade, Synced
        <4>3. QED
          BY <1>1, <1>5, <4>2, AnchorFacts, TableFacts
      <3>5. QED
        BY <3>3, <3>4
    <2>9. \A m \in Open' : write'[m].op = "delete" /\ write'[m].pc = "commit" =>
              Detached(write'[m].id) \cap graph' \subseteq write'[m].remove
      BY <1>2, <2>1, <2>3 DEF GraphWithinRows
    <2>10. QED
      BY <2>5, <2>6, <2>7, <2>8, <2>9 DEF GraphWithinRows
  <1>14. GraphOK'
    BY <1>2, <1>12, <1>13 DEF GraphOK, Clean
  <1>15. QED
    BY <1>8, <1>9, <1>10, <1>11, <1>12, <1>14 DEF ProjectionInv

\* A row that is created or updated: it and what it refers to are in the graph.
LEMMA CommitStores ==
    ASSUME ProjectionInv, NEW n \in Transaction, CommitWrite(n), write[n].op # "delete"
    PROVE  ProjectionInv'
  <1> DEFINE w == write[n]
             id == w.id
             home == KindOf(id)
  <1>1. ProjectionTyped /\ id \in ID /\ home \in Table /\ n \in Int
    BY CommitFacts, KindFacts DEF ProjectionInv, Transaction
  <1>2. /\ n \in Open /\ WriteOK(n) /\ w.pc = "commit"
        /\ UNCHANGED <<issued, writes, begun, rebuild>>
        /\ Open' = Open \ {n} /\ \A m \in Open' : write'[m] = write[m]
    BY CommitFacts DEF CommitWrite
  <1>3. rows' = [rows EXCEPT ![home] = @ \cup {id}] /\ updatedAt' = [updatedAt EXCEPT ![id] = n]
    BY DEF CommitWrite, CommitRow
  <1>4. graph' = graph \cup Synced(id) /\ id \in issued
    BY <1>2, CommitFacts DEF WriteOK
  <1>5. /\ rows'[home] = rows[home] \cup {id}
        /\ \A kind \in Table \ {home} : rows'[kind] = rows[kind]
        /\ rows' \in [Table -> SUBSET ID]
    BY <1>1, <1>3 DEF ProjectionTyped
  <1>6. /\ updatedAt'[id] = n /\ updatedAt' \in [ID -> Int]
        /\ \A x \in ID \ {id} : updatedAt'[x] = updatedAt[x]
    BY <1>1, <1>3 DEF ProjectionTyped
  <1>7. /\ w.op = "create" => /\ id \notin rows[home]
                              /\ \A x \in issued : id \in Synced(x) => x = id
        /\ w.op # "create" => rows' = rows
        /\ Anchors(id) \ {id} \subseteq rows["entities"]
    <2>1. w.op # "create" => id \in rows[home]
      BY <1>2 DEF WriteOK, Exists
    <2>2. w.op # "create" => rows' = rows
      BY <1>1, <1>3, <2>1 DEF ProjectionTyped
    <2>3. QED
      BY <1>2, <2>2 DEF WriteOK, Exists
  <1> HIDE DEF w, id, home
  <1>8. /\ \A kind \in Table : rows[kind] \subseteq rows'[kind]
        /\ id \in rows'[home] /\ id \in graph'
        /\ Anchors(id) \subseteq rows'["entities"]
        /\ \A kind \in Table : \A x \in rows'[kind] : (x = id /\ kind = home) \/ x \in rows[kind]
    <2>1. \A kind \in Table : rows[kind] \subseteq rows'[kind]
      BY <1>5
    <2>2. id \in rows'[home] /\ id \in graph'
      BY <1>1, <1>4, <1>5, AnchorFacts
    <2>3. id \in Anchors(id) => home = "entities"
      BY <1>1, AnchorFacts, KindFacts DEF home
    <2>4. QED
      BY <1>5, <1>7, <2>1, <2>2, <2>3, TableFacts
  <1>9. ProjectionTyped'
    <2>1. \A kind \in Table : IsFiniteSet(rows'[kind])
      <3>1. IsFiniteSet(rows[home] \cup {id})
        BY <1>1, FS_AddElement DEF ProjectionTyped
      <3>2. QED
        BY <1>1, <1>5, <3>1 DEF ProjectionTyped
    <2>2. \A kind \in Table : rows'[kind] \subseteq {x \in issued' : KindOf(x) = kind}
      BY <1>1, <1>2, <1>4, <1>8 DEF ProjectionTyped, home
    <2>3. Synced(id) \subseteq issued
      BY <1>4 DEF ProjectionInv, RowsRefer, Synced
    <2>4. scan' \in [Server -> ScanRecord] /\ write' \in [Transaction -> WriteRecord \cup {None}]
      BY CommitFacts
    <2>5. QED
      BY <1>1, <1>2, <1>4, <1>5, <1>6, <2>1, <2>2, <2>3, <2>4 DEF ProjectionTyped
  <1>10. RowsRefer'
    <2>1. ASSUME NEW kind \in Table, NEW x \in rows'[kind]
          PROVE  Anchors(x) \subseteq rows'["entities"]
      <3>1. CASE x \in rows[kind]
        <4>1. Anchors(x) \subseteq rows["entities"]
          BY <3>1 DEF ProjectionInv, RowsRefer
        <4>2. QED
          BY <1>8, <4>1, TableFacts
      <3>2. QED
        BY <1>8, <3>1
    <2>2. QED
      BY <1>2, <2>1 DEF ProjectionInv, RowsRefer
  <1>11. ASSUME NEW m \in Open'
         PROVE  /\ m \in Open /\ m # n /\ write'[m] = write[m] /\ WriteOK(m)
                /\ write[m] \in WriteRecord /\ write[m].id \in ID /\ write[m].id # id
                /\ ~Conflict(w, write[m])
    <2>1. m \in Open /\ m # n /\ write'[m] = write[m] /\ WriteOK(m) /\ ~Conflict(w, write[m])
      BY <1>2 DEF ProjectionInv, WritesOK, w
    <2>2. write[m] \in WriteRecord
      BY <1>1, <2>1 DEF ProjectionTyped, Open
    <2>3. QED
      BY <2>1, <2>2 DEF WriteRecord, Conflict, id
  <1>12. TimesDiffer'
    <2>1. \A x \in ID : updatedAt[x] <= writes /\ updatedAt[x] # n /\ updatedAt[x] \notin Open \cup Begun
      BY <1>2 DEF ProjectionInv, TimesDiffer
    <2>2. n <= writes /\ n \notin Begun /\ n \notin Open'
      BY <1>2 DEF ProjectionInv, TimesDiffer
    <2>3. \A x, y \in ID : updatedAt'[x] = updatedAt'[y] => x = y
      BY <1>6, <2>1 DEF ProjectionInv, TimesDiffer
    <2>4. Begun' = Begun /\ writes' = writes
      BY <1>2 DEF Begun
    <2>5. ASSUME NEW x \in ID
          PROVE  updatedAt'[x] <= writes' /\ updatedAt'[x] \notin Open' \cup Begun'
      <3>1. CASE x = id
        BY <1>6, <2>2, <2>4, <3>1
      <3>2. CASE x # id
        BY <1>2, <1>6, <2>1, <2>4, <3>2
      <3>3. QED
        BY <3>1, <3>2
    <2>6. Open' \cup Begun' \subseteq 1..writes' /\ Open' \cap Begun' = {}
      BY <1>2, <2>4 DEF ProjectionInv, TimesDiffer
    <2>7. QED
      BY <2>3, <2>5, <2>6 DEF TimesDiffer
  <1>13. WritesOK'
    <2>1. ASSUME NEW m \in Open'
          PROVE  WriteOK(m)'
      <3>1. write[m].id \in rows'[KindOf(write[m].id)] <=> write[m].id \in rows[KindOf(write[m].id)]
        BY <1>8, <1>11, KindFacts
      <3>2. rows["entities"] \subseteq rows'["entities"]
        BY <1>8, TableFacts
      <3>3. QED
        BY <1>2, <1>11, <3>1, <3>2 DEF WriteOK, Exists
    <2>2. QED
      BY <1>2, <1>11, <2>1 DEF ProjectionInv, WritesOK
  <1>14. ASSUME NEW t \in Server
         PROVE  LET q == scan'[t] r == scan[t] IN
                /\ q.pc = r.pc /\ q.kind = r.kind /\ q.total = r.total /\ q.listed = r.listed
                /\ Clean(q) => Clean(r)
                /\ Intact(q) => Intact(r)
                /\ r.deleted => q.deleted
                /\ Clean(q) => ~Disturbs(n, r)
                /\ Kinds[r.kind] \in Table /\ r.kind \in 1..3
    <2>1. scan[t].kind \in 1..3
      BY <1>1 DEF ProjectionTyped, ScanRecord
    <2>2. QED
      BY <2>1, CommitFacts, KindFacts DEF w, id, home
  <1>15. ASSUME NEW t \in Server
         PROVE  ScanOK(scan[t])'
    <2>1. ScanOK(scan[t])
      BY DEF ProjectionInv
    <2>2. Intact(scan'[t]) => \A m \in Open' : write'[m].op # "delete"
      BY <1>11, <1>14, <2>1 DEF ScanOK
    <2>3. Intact(scan'[t]) => Range(scan'[t].listed) \subseteq rows'[Kinds[scan'[t].kind]]
      BY <1>8, <1>14, <2>1 DEF ScanOK
    <2>4. QED
      BY <1>2, <1>14, <2>1, <2>2, <2>3 DEF ScanOK
  <1>16. ASSUME GraphWithinRows
         PROVE  GraphWithinRows'
    <2>1. graph' \cap EntityID \subseteq rows'["entities"]
      <3>1. id \in EntityID => home = "entities"
        BY <1>1, KindFacts DEF home
      <3>2. QED
        BY <1>4, <1>8, <1>16, <3>1, TableFacts DEF GraphWithinRows, Synced
    <2>2. graph' \cap RelationshipID \subseteq rows'["relationships"]
      <3>1. id \in RelationshipID => home = "relationships"
        BY <1>1, KindFacts DEF home
      <3>2. Synced(id) \cap RelationshipID \subseteq {id}
        BY <1>1, AnchorFacts, ProjectionAssumption DEF Synced
      <3>3. QED
        BY <1>4, <1>8, <1>16, <3>1, <3>2, TableFacts DEF GraphWithinRows
    <2>3. ASSUME NEW m \in (graph' \cap MemoryID) \ rows'["memories"]
          PROVE  OwnerOf[m] \notin rows'["entities"]
      <3>1. m # id
        BY <1>1, <1>8, <2>3, KindFacts DEF home
      <3>2. m \notin Synced(id)
        BY <1>1, <2>3, <3>1, AnchorFacts, ProjectionAssumption DEF Synced
      <3>3. m \in graph /\ m \in MemoryID /\ m \in ID /\ m \notin rows["memories"]
        BY <1>4, <1>8, <2>3, <3>2, TableFacts DEF ID
      <3>4. OwnerOf[m] \notin rows["entities"] /\ m \in issued
        BY <1>1, <1>16, <3>3 DEF GraphWithinRows, ProjectionTyped
      <3>5. OwnerOf[m] = id => w.op # "create"
        BY <1>7, <3>1, <3>3, <3>4, AnchorFacts DEF Synced
      <3>6. QED
        BY <1>7, <1>8, <3>4, <3>5, TableFacts
    <2>4. ASSUME NEW m \in Open', write'[m].op = "delete", write'[m].pc = "commit"
          PROVE  Detached(write'[m].id) \cap graph' \subseteq write'[m].remove
      <3>1. Detached(write[m].id) \cap graph \subseteq write[m].remove
        BY <1>11, <1>16, <2>4 DEF GraphWithinRows
      <3>2. Detached(write[m].id) \cap Synced(w.id) = {}
        BY <1>1, <1>11, <2>4, DetachedApart DEF id
      <3>3. QED
        BY <1>4, <1>11, <3>1, <3>2 DEF id
    <2>5. QED
      BY <2>1, <2>2, <2>3, <2>4 DEF GraphWithinRows
  <1>17. ASSUME NEW kind \in Table, kind = home => ~Overtaken(n), NEW x \in rows[kind], x # id
         PROVE  Rank(kind, x)' >= Rank(kind, x) /\ Rank(kind, x) \in Nat
    <2>1. ASSUME id \in rows[kind]
          PROVE  updatedAt[id] < n
      <3>1. kind = home
        BY <1>1, <2>1 DEF ProjectionTyped, home
      <3>2. w.op = "update"
        BY <1>7, <2>1, <3>1, CommitFacts DEF WriteRecord, w
      <3>3. ~(updatedAt[id] > n)
        BY <1>17, <3>1, <3>2 DEF Overtaken, id, w
      <3>4. updatedAt[id] # n /\ updatedAt[id] \in Int
        BY <1>1, <1>2 DEF ProjectionInv, TimesDiffer, ProjectionTyped
      <3>5. QED
        BY <1>1, <3>3, <3>4
    <2>2. rows[kind] \subseteq rows'[kind]
      BY <1>8
    <2>3. QED
      BY <1>1, <1>3, <1>9, <1>17, <2>1, <2>2, RankGrows
  <1>18. \A kind \in Table : \A x : Rank(kind, x)' \in Nat
    <2>1. ASSUME NEW kind \in Table, NEW x
          PROVE  Rank(kind, x)' \in Nat
      <3>1. IsFiniteSet(rows'[kind]) /\ Ahead(kind, x)' \in SUBSET rows'[kind]
        BY <1>9 DEF ProjectionTyped, Ahead
      <3>2. Cardinality(Ahead(kind, x)') \in Nat
        BY <3>1, FS_Subset, FS_CardinalityType
      <3>3. QED
        BY <3>2 DEF Rank, Ahead
    <2>2. QED
      BY <2>1
  <1>19. ASSUME NEW t \in Server, Clean(scan'[t]), Rebuilding(scan[t])
         PROVE  Rebuilding(scan[t])'
    <2> DEFINE r == scan[t]
               table == Kinds[r.kind]
    <2>1. /\ scan'[t].pc = r.pc /\ scan'[t].kind = r.kind /\ scan'[t].total = r.total
          /\ scan'[t].listed = r.listed
          /\ table \in Table /\ r.kind \in 1..3
          /\ ~(w.op = "create" /\ r.pc = "page" /\ table = home)
          /\ table = home /\ Overtaken(n) /\ r.pc \in {"count", "page"} => r.listed = <<>>
      BY <1>14, <1>19 DEF Disturbs, w, id, home
    <2>2. \A k \in 1..(r.kind - 1) : rows'[Kinds[k]] \subseteq graph'
      <3>1. ASSUME NEW k \in 1..(r.kind - 1)
            PROVE  rows'[Kinds[k]] \subseteq graph'
        <4>1. k \in 1..3 /\ Kinds[k] \in Table
          BY <2>1, KindFacts
        <4>2. rows[Kinds[k]] \subseteq graph
          BY <1>19 DEF Rebuilding
        <4>3. QED
          BY <1>4, <1>8, <4>1, <4>2
      <3>2. QED
        BY <3>1
    <2>3. ASSUME r.pc \in {"count", "page"}, NEW x \in rows'[table] \ graph'
          PROVE  x \in Range(r.listed) \/ Rank(table, x)' >= Len(r.listed)
      <3>1. x # id /\ x \in rows[table] /\ x \notin graph
        BY <1>4, <1>8, <2>1, <2>3
      <3>2. x \in Range(r.listed) \/ Rank(table, x) >= Len(r.listed)
        BY <1>19, <2>3, <3>1 DEF Rebuilding
      <3>3. Len(r.listed) \in Nat
        BY <1>1 DEF ProjectionTyped, ScanRecord
      <3>4. Rank(table, x)' \in Nat
        BY <1>18, <2>1
      <3>5. CASE table = home /\ Overtaken(n)
        <4>1. Len(r.listed) = 0
          BY <2>1, <2>3, <3>5
        <4>2. QED
          BY <3>4, <4>1
      <3>6. CASE ~(table = home /\ Overtaken(n))
        <4>1. \A kind \in Table : (kind = home => ~Overtaken(n)) => \A y \in rows[kind] : y # id =>
                 Rank(kind, y)' >= Rank(kind, y) /\ Rank(kind, y) \in Nat
          BY <1>17
        <4>2. Rank(table, x)' >= Rank(table, x) /\ Rank(table, x) \in Nat
          BY <2>1, <3>1, <3>6, <4>1
        <4>3. QED
          BY <3>2, <3>3, <3>4, <4>2
      <3>7. QED
        BY <3>5, <3>6
    <2>4. r.pc = "page" => r.total = Cardinality(rows'[table])
      <3>1. r.pc = "page" => rows'[table] = rows[table]
        BY <1>5, <1>7, <2>1
      <3>2. QED
        BY <1>19, <3>1 DEF Rebuilding
    <2>5. r.pc = "sync" => rows'[table] \ graph' \subseteq Range(r.listed)
      <3>1. r.pc = "sync" => rows[table] \ graph \subseteq Range(r.listed)
        BY <1>19 DEF Rebuilding
      <3>2. QED
        BY <1>4, <1>8, <2>1, <3>1
    <2>6. QED
      BY <2>1, <2>2, <2>3, <2>4, <2>5 DEF Rebuilding
  <1>20. GraphOK'
    <2>1. (\A kind \in Table : rows[kind] \subseteq graph) => \A kind \in Table : rows'[kind] \subseteq graph'
      BY <1>4, <1>8
    <2>2. QED
      BY <1>2, <1>14, <1>16, <1>19, <2>1 DEF ProjectionInv, GraphOK
  <1>21. QED
    BY <1>9, <1>10, <1>12, <1>13, <1>15, <1>20 DEF ProjectionInv

-----------------------------------------------------------------------------
(* Reconcile *)

\* An empty graph is where every rebuild begins.
LEMMA ClearKeeps ==
    ASSUME ProjectionInv, NEW s \in Server, ClearGraph(s)
    PROVE  ProjectionInv'
  <1> DEFINE r == scan[s]
             q == [r EXCEPT !.pc = "count", !.deleted = \E n \in Open : write[n].op = "delete"]
  <1>1. /\ r.pc = "clear" /\ graph' = {} /\ rebuild' = s /\ scan' = [scan EXCEPT ![s] = q]
        /\ UNCHANGED <<rows, updatedAt, issued, writes, begun, write>>
    BY Zenon DEF ClearGraph, Scan
  <1>2. /\ ProjectionTyped /\ r \in ScanRecord /\ ScanOK(r)
        /\ scan \in [Server -> ScanRecord]
    BY DEF ProjectionInv, ProjectionTyped
  <1>3. r.kind = 1 /\ r.listed = <<>>
    BY <1>1, <1>2 DEF ScanOK
  <1>4. /\ q \in ScanRecord
        /\ q.pc = "count" /\ q.kind = 1 /\ q.listed = <<>>
        /\ Intact(q) => \A n \in Open : write[n].op # "delete"
    BY <1>2, <1>3 DEF ScanRecord, ScanStages, Intact
  <1> HIDE DEF q
  <1>5. /\ scan'[s] = q /\ scan' \in [Server -> ScanRecord]
        /\ \A t \in Server \ {s} : scan'[t] = scan[t]
    BY <1>1, <1>2, <1>4
  <1>6. Open' = Open
    BY <1>1 DEF Open
  <1>7. ProjectionTyped'
    BY <1>1, <1>2, <1>5 DEF ProjectionTyped
  <1>8. RowsRefer' /\ TimesDiffer'
    BY <1>1, <1>6 DEF ProjectionInv, RowsRefer, TimesDiffer, Begun
  <1>9. WritesOK'
    BY <1>1, <1>6 DEF ProjectionInv, WritesOK, WriteOK, Exists
  <1>10. ASSUME NEW t \in Server
         PROVE  ScanOK(scan[t])'
    <2>1. CASE t = s
      <3>1. Range(q.listed) = {}
        BY <1>4 DEF Range
      <3>2. QED
        BY <1>1, <1>4, <1>5, <1>6, <2>1, <3>1 DEF ScanOK
    <2>2. CASE t # s
      BY <1>1, <1>5, <1>6, <2>2 DEF ProjectionInv, ScanOK
    <2>3. QED
      BY <2>1, <2>2
  <1>11. GraphWithinRows'
    BY <1>1 DEF GraphWithinRows
  <1>12. Rebuilding(scan[s])'
    <2>1. /\ scan'[s].pc = "count" /\ scan'[s].kind = 1 /\ scan'[s].listed = <<>>
          /\ Kinds[1] \in Table
      BY <1>4, <1>5, KindFacts
    <2>2. TimesDiffer /\ \A x \in rows[Kinds[1]] : Rank(Kinds[1], x)' = Rank(Kinds[1], x)
      BY <1>1 DEF ProjectionInv, Rank
    <2>3. \A x \in rows[Kinds[1]] : Rank(Kinds[1], x) \in 0..(Cardinality(rows[Kinds[1]]) - 1)
      BY <1>2, <2>1, <2>2, RankFacts
    <2>4. Len(scan'[s].listed) = 0
      BY <2>1
    <2>5. \A x \in rows'[Kinds[1]] : Rank(Kinds[1], x)' >= 0
      BY <1>1, <2>2, <2>3
    <2>6. QED
      BY <2>1, <2>4, <2>5 DEF Rebuilding
  <1>13. GraphOK'
    BY <1>1, <1>11, <1>12, ProjectionAssumption DEF GraphOK
  <1>14. QED
    BY <1>7, <1>8, <1>9, <1>10, <1>13 DEF ProjectionInv

\* The total is that of the table as it is.
LEMMA CountKeeps ==
    ASSUME ProjectionInv, NEW s \in Server, CountRows(s)
    PROVE  ProjectionInv'
  <1> DEFINE r == scan[s]
             q == [r EXCEPT !.pc = "page", !.total = Cardinality(rows[Kinds[r.kind]])]
  <1>1. /\ r.pc = "count" /\ scan' = [scan EXCEPT ![s] = q]
        /\ UNCHANGED <<rows, updatedAt, issued, graph, writes, begun, write, rebuild>>
    BY Zenon DEF CountRows, Scan
  <1>2. /\ ProjectionTyped /\ TimesDiffer /\ r \in ScanRecord /\ ScanOK(r)
        /\ rebuild = s /\ Clean(r) => GraphWithinRows /\ Rebuilding(r)
    BY DEF ProjectionInv, ProjectionTyped, GraphOK
  <1>3. Kinds[r.kind] \in Table
    BY <1>2, KindFacts DEF ScanRecord
  <1>4. Cardinality(rows[Kinds[r.kind]]) \in Nat
    BY <1>2, <1>3, RankFacts
  <1>5. /\ q \in ScanRecord
        /\ q.pc = "page" /\ q.kind = r.kind /\ q.listed = r.listed /\ q.deleted = r.deleted /\ q.moved = r.moved
        /\ q.total = Cardinality(rows[Kinds[r.kind]])
    BY <1>2, <1>4 DEF ScanRecord, ScanStages
  <1> HIDE DEF q
  <1>6. (Clean(q) => Clean(r)) /\ (Intact(q) => Intact(r))
    BY <1>1, <1>5 DEF Clean, Intact
  <1>7. ScanOK(q)
    BY <1>2, <1>5, <1>6 DEF ScanOK
  <1>8. Rebuilding(r) => Rebuilding(q)
    BY <1>1, <1>5 DEF Rebuilding
  <1>9. Fine(q, s)
    BY <1>2, <1>6, <1>7, <1>8 DEF Fine
  <1>10. QED
    BY <1>1, <1>5, <1>9, OneScanMoves

\* The rows of two lists are those of the one they make.
LEMMA RangeOfBoth ==
    ASSUME NEW a \in Seq(ID), NEW b \in Seq(ID)
    PROVE  /\ a \o b \in Seq(ID) /\ Len(a \o b) = Len(a) + Len(b)
           /\ Range(a \o b) = Range(a) \cup Range(b)
  <1>1. a \o b \in Seq(ID) /\ Len(a \o b) = Len(a) + Len(b)
    OBVIOUS
  <1>2. ASSUME NEW x \in Range(a \o b)
        PROVE  x \in Range(a) \cup Range(b)
    <2>1. PICK i \in 1..(Len(a) + Len(b)) : (a \o b)[i] = x
      BY <1>1 DEF Range
    <2>2. CASE i <= Len(a)
      BY <2>1, <2>2 DEF Range
    <2>3. CASE i > Len(a)
      <3>1. i - Len(a) \in 1..Len(b) /\ b[i - Len(a)] = x
        BY <2>1, <2>3
      <3>2. QED
        BY <3>1 DEF Range
    <2>4. QED
      BY <2>1, <2>2, <2>3
  <1>3. ASSUME NEW i \in 1..Len(a)
        PROVE  a[i] \in Range(a \o b)
    <2>1. (a \o b)[i] = a[i] /\ i \in 1..Len(a \o b)
      BY <1>1
    <2>2. QED
      BY <1>1, <2>1 DEF Range
  <1>4. ASSUME NEW i \in 1..Len(b)
        PROVE  b[i] \in Range(a \o b)
    <2>1. (a \o b)[Len(a) + i] = b[i] /\ Len(a) + i \in 1..Len(a \o b)
      BY <1>1
    <2>2. QED
      BY <1>1, <2>1 DEF Range
  <1>5. Range(a) \subseteq Range(a \o b) /\ Range(b) \subseteq Range(a \o b)
    <2>1. Range(a) = {a[i] : i \in 1..Len(a)} /\ Range(b) = {b[i] : i \in 1..Len(b)}
      BY DEF Range
    <2>2. QED
      BY <1>3, <1>4, <2>1
  <1>6. QED
    BY <1>1, <1>2, <1>5

\* After the page a row that is not listed is on a later one, if there is any;
\* the last page is known by a total nobody has added to since.
LEMMA ReadPageKeeps ==
    ASSUME ProjectionInv, NEW s \in Server, ReadPage(s)
    PROVE  ProjectionInv'
  <1> DEFINE r == scan[s]
             table == Kinds[r.kind]
             page == Page(table, Len(r.listed))
             all == r.listed \o page
             q == [r EXCEPT !.listed = all, !.pc = IF HasMore(all, r.total) THEN "count" ELSE "sync"]
  <1>1. /\ r.pc = "page" /\ scan' = [scan EXCEPT ![s] = q]
        /\ UNCHANGED <<rows, updatedAt, issued, graph, writes, begun, write, rebuild>>
    BY Zenon DEF ReadPage, Scan
  <1>2. /\ ProjectionTyped /\ TimesDiffer /\ r \in ScanRecord /\ ScanOK(r)
        /\ rebuild = s /\ Clean(r) => GraphWithinRows /\ Rebuilding(r)
    BY DEF ProjectionInv, ProjectionTyped, GraphOK
  <1>3. table \in Table /\ r.listed \in Seq(ID) /\ Len(r.listed) \in Nat /\ r.total \in Nat
    BY <1>2, KindFacts DEF ScanRecord
  <1>4. /\ page \in Seq(ID) /\ Range(page) \subseteq rows[table]
        /\ \A x \in rows[table] :
              Len(r.listed) <= Rank(table, x) /\ Rank(table, x) < Len(r.listed) + Len(page)
                 => x \in Range(page)
    BY <1>2, <1>3, PageLists
  <1>5. \A x \in rows[table] : Rank(table, x) \in Nat /\ Rank(table, x) < Cardinality(rows[table])
    <2>1. /\ Cardinality(rows[table]) \in Nat
          /\ \A x \in rows[table] : Rank(table, x) \in 0..(Cardinality(rows[table]) - 1)
      BY <1>2, <1>3, RankFacts
    <2>2. QED
      BY <2>1
  <1> HIDE DEF page
  <1>6. /\ all \in Seq(ID) /\ Len(all) = Len(r.listed) + Len(page) /\ Len(page) \in Nat
        /\ Range(all) = Range(r.listed) \cup Range(page)
    BY <1>3, <1>4, RangeOfBoth
  <1> HIDE DEF all
  <1>7. /\ q \in ScanRecord
        /\ q.kind = r.kind /\ q.listed = all /\ q.deleted = r.deleted /\ q.moved = r.moved /\ q.total = r.total
        /\ q.pc = IF HasMore(all, r.total) THEN "count" ELSE "sync"
    BY <1>2, <1>6 DEF ScanRecord, ScanStages
  <1> HIDE DEF q
  <1>8. (Clean(q) => Clean(r)) /\ (Intact(q) => Intact(r))
    BY <1>1, <1>7 DEF Clean, Intact
  <1>9. ScanOK(q)
    <2>1. \A x \in Range(q.listed) : x \in issued /\ KindOf(x) = Kinds[q.kind]
      <3>1. \A x \in Range(r.listed) : x \in issued /\ KindOf(x) = table
        BY <1>2 DEF ScanOK
      <3>2. \A x \in rows[table] : x \in issued /\ KindOf(x) = table
        BY <1>2, <1>3 DEF ProjectionTyped
      <3>3. QED
        BY <1>4, <1>6, <1>7, <3>1, <3>2
    <2>2. Intact(q) => Range(q.listed) \subseteq rows[Kinds[q.kind]]
      BY <1>2, <1>4, <1>6, <1>7, <1>8 DEF ScanOK
    <2>3. Intact(q) => \A n \in Open : write[n].op # "delete"
      BY <1>2, <1>8 DEF ScanOK
    <2>4. q.pc \notin {"idle", "clear", "failed"}
      BY <1>7
    <2>5. QED
      BY <2>1, <2>2, <2>3, <2>4 DEF ScanOK
  <1>10. ASSUME Rebuilding(r)
         PROVE  Rebuilding(q)
    <2>1. \A x \in rows[table] \ graph : x \in Range(r.listed) \/ Rank(table, x) >= Len(r.listed)
      BY <1>1, <1>10 DEF Rebuilding
    <2>2. \A x \in rows[table] \ graph : x \in Range(all) \/ Rank(table, x) >= Len(all)
      <3>1. ASSUME NEW x \in rows[table] \ graph, Rank(table, x) < Len(all)
            PROVE  x \in Range(all)
        BY <1>3, <1>4, <1>5, <1>6, <2>1, <3>1
      <3>2. QED
        BY <1>5, <1>6, <1>3, <3>1
    <2>3. r.total = Cardinality(rows[table])
      BY <1>1, <1>10 DEF Rebuilding
    <2>4. ~HasMore(all, r.total) => \A x \in rows[table] \ graph : x \in Range(all)
      BY <1>3, <1>5, <1>6, <2>2, <2>3 DEF HasMore
    <2>5. \A k \in 1..(q.kind - 1) : rows[Kinds[k]] \subseteq graph
      BY <1>7, <1>10 DEF Rebuilding
    <2>6. QED
      BY <1>7, <2>2, <2>4, <2>5 DEF Rebuilding
  <1>11. Fine(q, s)
    BY <1>2, <1>8, <1>9, <1>10 DEF Fine
  <1>12. QED
    BY <1>1, <1>7, <1>11, OneScanMoves

\* A listed row that is still there brings what it refers to; when a row may be
\* gone the graph is given up instead.
LEMMA SyncKeeps ==
    ASSUME ProjectionInv, NEW s \in Server, SyncRow(s)
    PROVE  ProjectionInv'
  <1> DEFINE r == scan[s]
             id == Head(r.listed)
  <1>1. /\ r.pc = "sync" /\ r.listed # <<>>
        /\ UNCHANGED <<rows, updatedAt, issued, writes, begun, write>>
    BY DEF SyncRow
  <1>2. /\ ProjectionTyped /\ r \in ScanRecord /\ ScanOK(r)
        /\ scan \in [Server -> ScanRecord]
        /\ rebuild = s /\ Clean(r) => GraphWithinRows /\ Rebuilding(r)
    BY DEF ProjectionInv, ProjectionTyped, GraphOK
  <1>3. /\ r.listed \in Seq(ID) /\ Tail(r.listed) \in Seq(ID)
        /\ id \in Range(r.listed) /\ Range(r.listed) \subseteq {id} \cup Range(Tail(r.listed))
        /\ Range(Tail(r.listed)) \subseteq Range(r.listed)
    <2> DEFINE l == r.listed
    <2>1. l \in Seq(ID) /\ l # <<>>
      BY <1>1, <1>2 DEF ScanRecord
    <2> HIDE DEF l
    <2>2. /\ Tail(l) \in Seq(ID) /\ Len(l) > 0 /\ Len(Tail(l)) = Len(l) - 1 /\ Head(l) = l[1]
          /\ \A i \in 1..Len(Tail(l)) : Tail(l)[i] = l[i + 1]
      BY <2>1
    <2>3. Range(l) = {l[i] : i \in 1..Len(l)} /\ Range(Tail(l)) = {Tail(l)[i] : i \in 1..Len(Tail(l))}
      <3>1. ASSUME NEW m \in Seq(ID)
            PROVE  Range(m) = {m[i] : i \in 1..Len(m)}
        BY DEF Range
      <3>2. QED
        BY <2>1, <2>2, <3>1
    <2>4. Head(l) \in Range(l)
      BY <2>1, <2>2, <2>3
    <2>5. ASSUME NEW i \in 1..Len(l), i # 1
          PROVE  l[i] \in Range(Tail(l))
      <3>1. i - 1 \in 1..Len(Tail(l)) /\ Tail(l)[i - 1] = l[i]
        BY <2>1, <2>2, <2>5
      <3>2. QED
        BY <2>3, <3>1
    <2>6. Range(l) \subseteq {Head(l)} \cup Range(Tail(l))
      BY <2>2, <2>3, <2>5
    <2>7. Range(Tail(l)) \subseteq Range(l)
      <3>1. ASSUME NEW i \in 1..Len(Tail(l))
            PROVE  Tail(l)[i] \in Range(l)
        <4>1. i + 1 \in 1..Len(l) /\ Tail(l)[i] = l[i + 1]
          BY <2>1, <2>2
        <4>2. QED
          BY <2>3, <4>1
      <3>2. QED
        BY <2>3, <3>1
    <2>8. QED
      BY <2>1, <2>2, <2>4, <2>6, <2>7 DEF l
  <1>4. id \in ID /\ id \in issued /\ KindOf(id) = Kinds[r.kind] /\ r.kind \in 1..3
    BY <1>2, <1>3 DEF ScanOK, ProjectionTyped, ScanRecord
  <1>5. CASE /\ id \notin EntityID /\ \E e \in Anchors(id) : ~Exists(e)
             /\ Scan(s, [r EXCEPT !.pc = "failed"]) /\ UNCHANGED <<graph, rebuild>>
    <2> DEFINE q == [r EXCEPT !.pc = "failed"]
    <2>1. r.deleted
      <3>1. SUFFICES ASSUME ~r.deleted
                     PROVE  FALSE
        OBVIOUS
      <3>2. id \in rows[Kinds[r.kind]]
        BY <1>1, <1>2, <1>3, <3>1 DEF ScanOK, Intact
      <3>3. Anchors(id) \subseteq rows["entities"]
        BY <1>4, <3>2, KindFacts DEF ProjectionInv, RowsRefer
      <3>4. \A e \in Anchors(id) : KindOf(e) = "entities"
        BY <1>4, AnchorFacts, KindFacts DEF ID
      <3>5. QED
        BY <1>5, <3>3, <3>4 DEF Exists
    <2>2. q \in ScanRecord /\ q.pc = "failed" /\ q.deleted /\ q.listed = r.listed /\ q.kind = r.kind
      BY <1>2, <2>1 DEF ScanRecord, ScanStages
    <2>3. scan' = [scan EXCEPT ![s] = q]
      BY <1>5, Zenon DEF Scan
    <2> HIDE DEF q
    <2>4. Fine(q, s)
      BY <1>2, <2>2 DEF Fine, ScanOK, Clean, Intact
    <2>5. QED
      BY <1>1, <1>5, <2>2, <2>3, <2>4, OneScanMoves
  <1>6. CASE /\ id \in EntityID \/ \A e \in Anchors(id) : Exists(e)
             /\ ~Locked(Synced(id), Open)
             /\ graph' = graph \cup Synced(id)
             /\ Scan(s, [r EXCEPT !.listed = Tail(@)])
             /\ rebuild' = IF Stale(r) THEN Spoiled ELSE rebuild
    <2> DEFINE q == [r EXCEPT !.listed = Tail(@)]
    <2>1. /\ q \in ScanRecord
          /\ q.pc = "sync" /\ q.listed = Tail(r.listed) /\ q.kind = r.kind /\ q.deleted = r.deleted /\ q.moved = r.moved
      BY <1>1, <1>2, <1>3 DEF ScanRecord
    <2>2. scan' = [scan EXCEPT ![s] = q]
      BY <1>6, Zenon DEF Scan
    <2> HIDE DEF q
    <2>3. /\ scan'[s] = q /\ scan' \in [Server -> ScanRecord]
          /\ \A t \in Server \ {s} : scan'[t] = scan[t]
      BY <1>2, <2>1, <2>2
    <2>4. Open' = Open
      BY <1>1 DEF Open
    <2>5. graph' = graph \cup Anchors(id) \cup {id} /\ Anchors(id) \subseteq issued
      BY <1>4, <1>6 DEF Synced, ProjectionInv, RowsRefer
    <2>6. ProjectionTyped'
      BY <1>1, <1>2, <1>4, <1>6, <2>3, <2>5 DEF ProjectionTyped
    <2>7. RowsRefer' /\ TimesDiffer'
      BY <1>1, <2>4 DEF ProjectionInv, RowsRefer, TimesDiffer, Begun
    <2>8. WritesOK'
      BY <1>1, <2>4 DEF ProjectionInv, WritesOK, WriteOK, Exists
    <2>9. ScanOK(q) /\ (Clean(q) <=> Clean(r))
      BY <1>1, <1>2, <1>3, <2>1 DEF ScanOK, Clean, Intact
    <2>10. \A t \in Server : ScanOK(scan[t])'
      <3>1. ASSUME NEW t \in Server
            PROVE  ScanOK(scan'[t])
        BY <2>3, <2>9 DEF ProjectionInv
      <3>2. QED
        BY <1>1, <2>4, <3>1 DEF ScanOK
    <2>11. CASE Stale(r)
      <3>1. rebuild' = Spoiled
        BY <1>6, <2>11
      <3>2. GraphOK'
        BY <3>1, ProjectionAssumption DEF GraphOK
      <3>3. QED
        BY <2>6, <2>7, <2>8, <2>10, <3>2 DEF ProjectionInv
    <2>12. CASE ~Stale(r)
      <3>1. Clean(r) /\ Intact(r) /\ rebuild' = rebuild
        BY <1>1, <1>6, <2>12 DEF Clean, Intact, Stale
      <3>2. /\ id \in rows[Kinds[r.kind]] /\ \A n \in Open : write[n].op # "delete"
        BY <1>2, <1>3, <3>1 DEF ScanOK
      <3>3. Anchors(id) \subseteq rows["entities"] /\ Anchors(id) \subseteq EntityID
        BY <1>4, <3>2, KindFacts, AnchorFacts DEF ProjectionInv, RowsRefer
      <3>4. /\ id \in EntityID => id \in rows["entities"]
            /\ id \in RelationshipID => id \in rows["relationships"]
            /\ id \in MemoryID => id \in rows["memories"]
        BY <1>4, <3>2, KindFacts
      <3>5. GraphWithinRows => GraphWithinRows'
        <4>1. ASSUME GraphWithinRows
              PROVE  /\ graph' \cap EntityID \subseteq rows["entities"]
                     /\ graph' \cap RelationshipID \subseteq rows["relationships"]
                     /\ (graph' \cap MemoryID) \ rows["memories"] \subseteq (graph \cap MemoryID) \ rows["memories"]
          BY <2>5, <3>3, <3>4, <4>1, ProjectionAssumption DEF GraphWithinRows
        <4>2. \A n \in Open : write[n].op # "delete"
          BY <3>2
        <4>3. QED
          BY <1>1, <2>4, <4>1, <4>2 DEF GraphWithinRows
      <3>6. ASSUME NEW t \in Server, t # s, Rebuilding(scan[t])
            PROVE  Rebuilding(scan[t])'
        <4>1. scan'[t] = scan[t] /\ graph \subseteq graph'
          BY <2>3, <2>5, <3>6
        <4>2. \A kind, x : Rank(kind, x)' = Rank(kind, x)
          BY <1>1 DEF Rank
        <4>3. QED
          BY <1>1, <3>6, <4>1, <4>2 DEF Rebuilding
      <3>7. ASSUME Rebuilding(r)
            PROVE  Rebuilding(scan[s])'
        <4>1. /\ \A k \in 1..(r.kind - 1) : rows[Kinds[k]] \subseteq graph
              /\ rows[Kinds[r.kind]] \ graph \subseteq Range(r.listed)
          BY <1>1, <3>7 DEF Rebuilding
        <4>2. /\ \A k \in 1..(r.kind - 1) : rows[Kinds[k]] \subseteq graph'
              /\ rows[Kinds[r.kind]] \ graph' \subseteq Range(Tail(r.listed))
          BY <1>3, <2>5, <4>1
        <4>3. QED
          BY <1>1, <2>1, <2>3, <4>2 DEF Rebuilding
      <3>8. GraphOK'
        <4>1. rebuild' = None => GraphWithinRows' /\ \A kind \in Table : rows'[kind] \subseteq graph'
          BY <1>1, <2>5, <3>1, <3>5 DEF ProjectionInv, GraphOK
        <4>2. ASSUME NEW t \in Server, rebuild' = t, Clean(scan'[t])
              PROVE  GraphWithinRows' /\ Rebuilding(scan[t])'
          <5>1. Clean(scan[t])
            BY <2>3, <2>9, <4>2
          <5>2. GraphWithinRows /\ Rebuilding(scan[t])
            BY <3>1, <4>2, <5>1 DEF ProjectionInv, GraphOK
          <5>3. QED
            BY <3>5, <3>6, <3>7, <5>2
        <4>3. QED
          BY <4>1, <4>2 DEF GraphOK
      <3>9. QED
        BY <2>6, <2>7, <2>8, <2>10, <3>8 DEF ProjectionInv
    <2>13. QED
      BY <2>11, <2>12
  <1>7. QED
    BY <1>5, <1>6, Zenon DEF SyncRow

\* A table that is done is in the graph, and so are all after the last.
LEMMA EndTableKeeps ==
    ASSUME ProjectionInv, NEW s \in Server, EndTable(s)
    PROVE  ProjectionInv'
  <1> DEFINE r == scan[s]
             last == r.kind = Len(Kinds)
             q == [r EXCEPT !.pc = IF last THEN "done" ELSE "count",
                            !.kind = IF last THEN 1 ELSE @ + 1, !.total = 0]
  <1>1. /\ r.pc = "sync" /\ r.listed = <<>>
        /\ scan' = [scan EXCEPT ![s] = q]
        /\ rebuild' = IF Stale(r) THEN Spoiled ELSE IF last /\ rebuild = s THEN None ELSE rebuild
        /\ UNCHANGED <<rows, updatedAt, issued, graph, writes, begun, write>>
    BY Zenon DEF EndTable, Scan
  <1>2. /\ ProjectionTyped /\ r \in ScanRecord /\ ScanOK(r)
        /\ scan \in [Server -> ScanRecord] /\ TimesDiffer
        /\ rebuild = s /\ Clean(r) => GraphWithinRows /\ Rebuilding(r)
    BY DEF ProjectionInv, ProjectionTyped, GraphOK
  <1>3. r.kind \in 1..3 /\ (last <=> r.kind = 3)
    BY <1>2, TableFacts DEF ScanRecord
  <1> HIDE DEF last
  <1>4. /\ q \in ScanRecord
        /\ q.listed = <<>> /\ q.deleted = r.deleted /\ q.moved = r.moved /\ q.kind \in 1..3
        /\ last => q.pc = "done"
        /\ ~last => q.pc = "count" /\ q.kind = r.kind + 1
    <2>1. CASE last
      <3>1. q = [r EXCEPT !.pc = "done", !.kind = 1, !.total = 0]
        BY <2>1
      <3> HIDE DEF q
      <3>2. q.pc = "done" /\ q.kind = 1 /\ q.total = 0 /\ q.listed = <<>> /\ q.deleted = r.deleted /\ q.moved = r.moved
        BY <1>1, <1>2, <3>1 DEF ScanRecord
      <3>3. q \in ScanRecord
        <4>1. "done" \in ScanStages /\ 1 \in 1..3 /\ 0 \in Nat
          BY DEF ScanStages
        <4>2. r \in ScanRecord
          BY <1>2
        <4> HIDE DEF r
        <4>3. QED
          BY <3>1, <4>1, <4>2 DEF ScanRecord
      <3>4. QED
        BY <2>1, <3>2, <3>3
    <2>2. CASE ~last
      <3>1. r.kind + 1 \in 1..3
        BY <1>3, <2>2
      <3>2. q = [r EXCEPT !.pc = "count", !.kind = r.kind + 1, !.total = 0]
        BY <2>2
      <3> HIDE DEF q
      <3>3. QED
        BY <1>1, <1>2, <2>2, <3>1, <3>2 DEF ScanRecord, ScanStages
    <2>3. QED
      BY <2>1, <2>2
  <1> HIDE DEF q
  <1>5. /\ scan'[s] = q /\ scan' \in [Server -> ScanRecord]
        /\ \A t \in Server \ {s} : scan'[t] = scan[t]
    BY <1>1, <1>2, <1>4
  <1>6. Open' = Open
    BY <1>1 DEF Open
  <1>7. rebuild' \in Server \cup {None, Spoiled}
    BY <1>1, <1>2 DEF ProjectionTyped
  <1>8. ProjectionTyped'
    BY <1>1, <1>2, <1>5, <1>7 DEF ProjectionTyped
  <1>9. RowsRefer' /\ TimesDiffer'
    BY <1>1, <1>6 DEF ProjectionInv, RowsRefer, TimesDiffer, Begun
  <1>10. WritesOK'
    BY <1>1, <1>6 DEF ProjectionInv, WritesOK, WriteOK, Exists
  <1>11. (Clean(q) => Clean(r) /\ ~last) /\ (Intact(q) => Intact(r) /\ ~last)
    BY <1>1, <1>4 DEF Clean, Intact
  <1>12. ScanOK(q)
    <2>1. Range(q.listed) = {}
      BY <1>4 DEF Range
    <2>2. q.pc \in {"done", "count"}
      BY <1>4
    <2>3. QED
      BY <1>2, <1>11, <2>1, <2>2 DEF ScanOK
  <1>13. \A t \in Server : ScanOK(scan[t])'
    <2>1. ASSUME NEW t \in Server
          PROVE  ScanOK(scan'[t])
      BY <1>5, <1>12 DEF ProjectionInv
    <2>2. QED
      BY <1>1, <1>6, <2>1 DEF ScanOK
  <1>14. GraphWithinRows => GraphWithinRows'
    BY <1>1, <1>6 DEF GraphWithinRows
  <1>15. Rebuilding(r) => \A k \in 1..r.kind : rows[Kinds[k]] \subseteq graph
    <2>1. Range(r.listed) = {}
      BY <1>1 DEF Range
    <2>2. QED
      BY <1>1, <1>3, <2>1 DEF Rebuilding
  <1>16. ASSUME Rebuilding(r), ~last
         PROVE  Rebuilding(scan[s])'
    <2>1. \A k \in 1..(q.kind - 1) : rows[Kinds[k]] \subseteq graph
      BY <1>3, <1>4, <1>15, <1>16
    <2>2. Len(q.listed) = 0 /\ Kinds[q.kind] \in Table
      BY <1>4, KindFacts
    <2>3. \A x \in rows[Kinds[q.kind]] : Rank(Kinds[q.kind], x) \in 0..(Cardinality(rows[Kinds[q.kind]]) - 1)
      BY <1>2, <2>2, RankFacts
    <2>4. \A kind, x : Rank(kind, x)' = Rank(kind, x)
      BY <1>1 DEF Rank
    <2>5. \A x \in rows[Kinds[q.kind]] : Rank(Kinds[q.kind], x) >= Len(q.listed)
      BY <2>2, <2>3
    <2>6. q.pc = "count"
      BY <1>4, <1>16
    <2>7. QED
      BY <1>1, <1>5, <2>1, <2>4, <2>5, <2>6 DEF Rebuilding
  <1>17. ASSUME NEW t \in Server, t # s, Rebuilding(scan[t])
         PROVE  Rebuilding(scan[t])'
    <2>1. scan'[t] = scan[t]
      BY <1>5, <1>17
    <2>2. \A kind, x : Rank(kind, x)' = Rank(kind, x)
      BY <1>1 DEF Rank
    <2>3. QED
      BY <1>1, <1>17, <2>1, <2>2 DEF Rebuilding
  <1>18. ASSUME rebuild' = None
         PROVE  GraphWithinRows' /\ \A kind \in Table : rows'[kind] \subseteq graph'
    <2>1. CASE rebuild = None
      BY <1>1, <1>14, <2>1 DEF ProjectionInv, GraphOK
    <2>2. CASE rebuild # None
      <3>1. ~Stale(r) /\ last /\ rebuild = s
        BY <1>1, <1>18, <2>2, ProjectionAssumption
      <3>2. GraphWithinRows /\ Rebuilding(r)
        BY <1>1, <1>2, <3>1 DEF Clean, Intact, Stale
      <3>3. \A k \in 1..3 : rows[Kinds[k]] \subseteq graph
        BY <1>3, <1>15, <3>1, <3>2
      <3>4. QED
        BY <1>1, <1>14, <3>2, <3>3, TableFacts
    <2>3. QED
      BY <2>1, <2>2
  <1>19. ASSUME NEW t \in Server, rebuild' = t, Clean(scan'[t])
         PROVE  GraphWithinRows' /\ Rebuilding(scan[t])'
    <2>1. rebuild = t
      BY <1>1, <1>19, ProjectionAssumption
    <2>2. Clean(scan[t]) /\ (t = s => ~last)
      BY <1>5, <1>11, <1>19
    <2>3. GraphWithinRows /\ Rebuilding(scan[t])
      BY <2>1, <2>2 DEF ProjectionInv, GraphOK
    <2>4. QED
      BY <1>14, <1>16, <1>17, <2>2, <2>3
  <1>20. GraphOK'
    BY <1>18, <1>19 DEF GraphOK
  <1>21. QED
    BY <1>8, <1>9, <1>10, <1>13, <1>20 DEF ProjectionInv

-----------------------------------------------------------------------------
(* The invariant holds *)

LEMMA InitProjection == ServerInit => ProjectionInv
  <1> SUFFICES ASSUME ServerInit
               PROVE  ProjectionInv
    OBVIOUS
  <1>1. /\ scan = [s \in Server |-> IdleScan] /\ write = [n \in Transaction |-> None]
        /\ writes = 0 /\ begun = [n \in Transaction |-> None] /\ rebuild = None
        /\ rows = NoRows \/ rows = InitialRows
        /\ graph = UNION {rows[kind] : kind \in Table}
        /\ issued = graph /\ updatedAt = InitialTimes
    BY DEF ServerInit
  <1>2. Open = {} /\ Begun = {}
    BY <1>1 DEF Open, Begun
  <1>3. /\ rows \in [Table -> SUBSET ID]
        /\ \A kind \in Table : /\ IsFiniteSet(rows[kind]) /\ rows[kind] \subseteq graph
                               /\ \A x \in rows[kind] : KindOf(x) = kind /\ Anchors(x) \subseteq rows["entities"]
    <2>1. CASE rows = NoRows
      BY <1>1, <2>1, FS_EmptySet DEF NoRows
    <2>2. CASE rows = InitialRows
      BY <1>1, <2>2, ServerAssumption
    <2>3. QED
      BY <1>1, <2>1, <2>2
  <1>4. \A x \in graph : x \in ID /\ x \in rows[KindOf(x)] /\ Anchors(x) \subseteq rows["entities"]
    <2>1. ASSUME NEW x \in graph
          PROVE  x \in ID /\ x \in rows[KindOf(x)] /\ Anchors(x) \subseteq rows["entities"]
      <3>1. PICK kind \in Table : x \in rows[kind]
        BY <1>1
      <3>2. QED
        BY <1>3, <3>1
    <2>2. QED
      BY <2>1
  <1>5. rows["entities"] \subseteq graph
    BY <1>3, TableFacts
  <1>6. IdleScan \in ScanRecord /\ IdleScan.pc = "idle" /\ IdleScan.kind = 1 /\ IdleScan.listed = <<>>
    <2>1. <<>> \in Seq(ID) /\ "idle" \in ScanStages
      BY DEF ScanStages
    <2>2. QED
      BY <2>1 DEF IdleScan, ScanRecord
  <1>7. ProjectionTyped
    <2>1. updatedAt \in [ID -> Int]
      BY <1>1, ServerAssumption
    <2>2. writes \in 0..MaxWrites
      BY <1>1, ProjectionAssumption
    <2>3. /\ begun \in [Transaction -> Server \cup {None}]
          /\ write \in [Transaction -> WriteRecord \cup {None}] /\ scan \in [Server -> ScanRecord]
      BY <1>1, <1>6
    <2>4. QED
      BY <1>1, <1>3, <1>4, <2>1, <2>2, <2>3 DEF ProjectionTyped
  <1>8. RowsRefer
    BY <1>1, <1>3, <1>4, <1>5 DEF RowsRefer
  <1>9. TimesDiffer
    <2>1. \A x \in ID : updatedAt[x] <= 0 /\ updatedAt[x] \in Int
      BY <1>1, ServerAssumption
    <2>2. \A x, y \in ID : updatedAt[x] = updatedAt[y] => x = y
      <3>1. IsInjective(InitialTimes) /\ DOMAIN InitialTimes = ID
        BY ServerAssumption
      <3>2. QED
        BY <1>1, <3>1 DEF IsInjective
    <2>3. QED
      BY <1>1, <1>2, <2>1, <2>2 DEF TimesDiffer
  <1>10. WritesOK
    BY <1>2 DEF WritesOK
  <1>11. \A s \in Server : ScanOK(scan[s])
    <2>1. Range(IdleScan.listed) = {}
      BY <1>6 DEF Range
    <2>2. ScanOK(IdleScan)
      BY <1>6, <2>1 DEF ScanOK, Intact
    <2>3. QED
      BY <1>1, <2>2
  <1>12. GraphWithinRows
    <2>1. graph \cap EntityID \subseteq rows["entities"]
      BY <1>4, KindFacts
    <2>2. graph \cap RelationshipID \subseteq rows["relationships"]
      BY <1>4, KindFacts
    <2>3. graph \cap MemoryID \subseteq rows["memories"]
      BY <1>4, KindFacts
    <2>4. QED
      BY <1>2, <2>1, <2>2, <2>3 DEF GraphWithinRows
  <1>13. GraphOK
    BY <1>1, <1>3, <1>12, ProjectionAssumption DEF GraphOK
  <1>14. QED
    BY <1>7, <1>8, <1>9, <1>10, <1>11, <1>13 DEF ProjectionInv

\* The connections of a process that is gone close.
LEMMA ExitKeeps ==
    ASSUME ProjectionInv, NEW s \in Server, Exit(s)
    PROVE  ProjectionInv'
  <1>1. /\ begun' = [n \in Transaction |-> IF begun[n] = s THEN None ELSE begun[n]]
        /\ write' = [n \in Transaction |-> IF n \in Open /\ write[n].server = s THEN None ELSE write[n]]
        /\ scan' = [scan EXCEPT ![s] = IdleScan]
        /\ UNCHANGED <<rows, updatedAt, issued, graph, writes, rebuild>>
    BY DEF Exit, DropConnections
  <1>2. /\ write \in [Transaction -> WriteRecord \cup {None}]
        /\ begun \in [Transaction -> Server \cup {None}]
        /\ scan \in [Server -> ScanRecord]
    BY DEF ProjectionInv, ProjectionTyped
  <1>3. /\ write' \in [Transaction -> WriteRecord \cup {None}]
        /\ begun' \in [Transaction -> Server \cup {None}]
        /\ \A n \in Transaction : begun'[n] \in {begun[n], None} /\ write'[n] \in {write[n], None}
    BY <1>1, <1>2
  <1>4. IdleScan \in ScanRecord /\ Fine(IdleScan, s)
    BY IdleIsFine
  <1>5. scan' \in [Server -> ScanRecord] /\ \A t \in Server : scan'[t] = scan[t] \/ Fine(scan'[t], t)
    BY <1>1, <1>2, <1>4
  <1>6. QED
    BY <1>1, <1>3, <1>5, QuietStep

LEMMA BootKeeps ==
    ASSUME ProjectionInv, NEW s \in Server, Boot(s)
    PROVE  ProjectionInv'
  <1>1. /\ scan' = [scan EXCEPT ![s] = IdleScan]
        /\ UNCHANGED <<rows, updatedAt, issued, graph, writes, begun, write, rebuild>>
    BY DEF Boot
  <1>2. IdleScan \in ScanRecord /\ Fine(IdleScan, s)
    BY IdleIsFine
  <1>3. QED
    BY <1>1, <1>2, OneScanMoves

LEMMA StartReconcileKeeps ==
    ASSUME ProjectionInv, ScanWaits, NEW s \in Server, StartReconcile(s)
    PROVE  ProjectionInv'
  <1> DEFINE q == [scan[s] EXCEPT !.pc = "clear"]
  <1>1. /\ scan' = [scan EXCEPT ![s].pc = "clear"] /\ stage[s] = "migrating"
        /\ UNCHANGED <<rows, updatedAt, issued, graph, writes, begun, write, rebuild>>
    BY DEF StartReconcile
  <1>2. /\ scan \in [Server -> ScanRecord] /\ scan[s] \in ScanRecord /\ ScanOK(scan[s])
        /\ scan[s].pc = "idle"
    BY <1>1 DEF ProjectionInv, ProjectionTyped, ScanWaits
  <1>3. scan' = [scan EXCEPT ![s] = q]
    BY <1>1, <1>2
  <1>4. q \in ScanRecord /\ q.pc = "clear" /\ q.kind = scan[s].kind /\ q.listed = scan[s].listed
    BY <1>2 DEF ScanRecord, ScanStages
  <1> HIDE DEF q
  <1>5. Fine(q, s)
    BY <1>2, <1>4 DEF Fine, ScanOK, Clean, Intact
  <1>6. QED
    BY <1>1, <1>3, <1>4, <1>5, OneScanMoves

\* A request that ends without a commit.
LEMMA AbortKeeps ==
    ASSUME ProjectionInv, NEW n \in Transaction, AbortWrite(n)
    PROVE  ProjectionInv'
  <1>1. /\ write' = [write EXCEPT ![n] = None] /\ begun' = [begun EXCEPT ![n] = None]
        /\ UNCHANGED <<rows, updatedAt, issued, graph, writes, scan, rebuild>>
    BY DEF AbortWrite
  <1>2. /\ write \in [Transaction -> WriteRecord \cup {None}] /\ scan \in [Server -> ScanRecord]
        /\ begun \in [Transaction -> Server \cup {None}]
    BY DEF ProjectionInv, ProjectionTyped
  <1>3. /\ write' \in [Transaction -> WriteRecord \cup {None}]
        /\ begun' \in [Transaction -> Server \cup {None}]
        /\ \A m \in Transaction : begun'[m] \in {begun[m], None} /\ write'[m] \in {write[m], None}
    BY <1>1, <1>2
  <1>4. QED
    BY <1>1, <1>2, <1>3, QuietStep

LEMMA ProjectionStutters ==
    ASSUME ProjectionInv, UNCHANGED projectionVars
    PROVE  ProjectionInv'
  <1>1. UNCHANGED <<rows, updatedAt, issued, graph, writes, begun, write, scan, rebuild>>
    BY DEF projectionVars
  <1>2. /\ write \in [Transaction -> WriteRecord \cup {None}] /\ scan \in [Server -> ScanRecord]
        /\ begun \in [Transaction -> Server \cup {None}]
    BY DEF ProjectionInv, ProjectionTyped
  <1>3. QED
    BY <1>1, <1>2, QuietStep

LEMMA ProjectionInvariant == ProjectionInv /\ ScanWaits /\ [ServerNext]_serverVars => ProjectionInv'
  <1> SUFFICES ASSUME ProjectionInv, ScanWaits, [ServerNext]_serverVars
               PROVE  ProjectionInv'
    OBVIOUS
  <1>1. ASSUME NEW s \in Server, Boot(s) \/ Exit(s) \/ StartReconcile(s)
        PROVE  ProjectionInv'
    BY <1>1, BootKeeps, ExitKeeps, StartReconcileKeeps
  <1>2. ASSUME NEW s \in Server, MigrationStep(s) \/ Serve(s) \/ BootFails(s) \/ Signal(s)
        PROVE  ProjectionInv'
    <2>1. UNCHANGED projectionVars
      BY <1>2 DEF MigrationStep, Serve, BootFails, Signal
    <2>2. QED
      BY <2>1, ProjectionStutters
  <1>3. ASSUME NEW s \in Server, ReconcileStep(s)
        PROVE  ProjectionInv'
    BY <1>3, ClearKeeps, CountKeeps, ReadPageKeeps, SyncKeeps, EndTableKeeps DEF ReconcileStep, Reconcile
  <1>4. ASSUME NEW s \in Server, ServeWrite(s)
        PROVE  ProjectionInv'
    BY <1>4, BeginKeeps DEF ServeWrite
  <1>5. ASSUME NEW n \in Transaction, StartWrite(n) \/ FinishWrite(n)
        PROVE  ProjectionInv'
    BY <1>5, WriteRowKeeps, WriteGraphKeeps, CommitDeletes, CommitStores DEF StartWrite, FinishWrite
  <1>6. ASSUME NEW n \in Transaction, WriteFails(n)
        PROVE  ProjectionInv'
    BY <1>6, AbortKeeps DEF WriteFails
  <1>7. CASE UNCHANGED serverVars
    BY <1>7, ProjectionStutters DEF serverVars, projectionVars
  <1>8. QED
    BY <1>1, <1>2, <1>3, <1>4, <1>5, <1>6, <1>7 DEF ServerNext, BootStep

\* A write step moves no process, and takes no deletion back.
LEMMA WriteMoves ==
    ASSUME ProjectionInv, NEW n \in Transaction,
           \/ \E op \in {"create", "update", "delete"}, id \in ID : WriteRow(n, op, id)
           \/ WriteGraph(n) \/ CommitWrite(n) \/ AbortWrite(n)
    PROVE  \A t \in Server : scan'[t].pc = scan[t].pc /\ (scan[t].deleted => scan'[t].deleted)
  <1>1. scan \in [Server -> ScanRecord]
    BY DEF ProjectionInv, ProjectionTyped
  <1>2. ASSUME NEW op \in {"create", "update", "delete"}, NEW id \in ID, WriteRow(n, op, id), NEW t \in Server
        PROVE  scan'[t].pc = scan[t].pc /\ (scan[t].deleted => scan'[t].deleted)
    <2>1. scan' = [u \in Server |-> [scan[u] EXCEPT !.deleted = @ \/ (op = "delete" /\ Scanning(u))]]
      BY <1>2, Zenon DEF WriteRow
    <2> DEFINE b == op = "delete" /\ Scanning(t)
    <2>2. scan'[t] = [scan[t] EXCEPT !.deleted = @ \/ b]
      BY <2>1
    <2>3. scan[t] \in ScanRecord /\ b \in BOOLEAN
      BY <1>1
    <2> HIDE DEF b
    <2>4. QED
      BY <2>2, <2>3, DeletionMarks
  <1>3. ASSUME CommitWrite(n), NEW t \in Server
        PROVE  scan'[t].pc = scan[t].pc /\ (scan[t].deleted => scan'[t].deleted)
    BY <1>3, CommitFacts
  <1>4. ASSUME WriteGraph(n) \/ AbortWrite(n), NEW t \in Server
        PROVE  scan'[t] = scan[t]
    BY <1>4 DEF WriteGraph, AbortWrite
  <1>5. QED
    BY <1>2, <1>3, <1>4

\* A transaction stays with the process that began it.
LEMMA WriteServers ==
    ASSUME ProjectionInv, NEW n \in Transaction,
           \/ \E op \in {"create", "update", "delete"}, id \in ID : WriteRow(n, op, id)
           \/ WriteGraph(n) \/ CommitWrite(n) \/ AbortWrite(n)
    PROVE  /\ \A m \in Begun' : m \in Begun /\ begun'[m] = begun[m]
           /\ \A m \in Open' :
                 \/ m \in Open /\ write'[m].server = write[m].server
                 \/ m \in Begun /\ write'[m].server = begun[m]
  <1>1. /\ write \in [Transaction -> WriteRecord \cup {None}]
        /\ begun \in [Transaction -> Server \cup {None}]
    BY DEF ProjectionInv, ProjectionTyped
  <1>2. CASE \E op \in {"create", "update", "delete"}, id \in ID : WriteRow(n, op, id)
    <2>1. PICK op \in {"create", "update", "delete"}, id \in ID : WriteRow(n, op, id)
      BY <1>2
    <2> DEFINE new == [pc |-> "graph", server |-> begun[n], op |-> op, id |-> id, add |-> {}, remove |-> {}]
    <2>2. begun[n] # None /\ begun' = [begun EXCEPT ![n] = None] /\ write' = [write EXCEPT ![n] = new]
      BY <2>1, Zenon DEF WriteRow
    <2>3. new.server = begun[n]
      OBVIOUS
    <2> HIDE DEF new
    <2>4. QED
      BY <1>1, <2>2, <2>3 DEF Open, Begun
  <1>3. CASE WriteGraph(n)
    <2>1. /\ write[n] # None /\ begun' = begun
          /\ \/ write' = [write EXCEPT ![n].pc = "commit", ![n].remove = Detached(write[n].id) \cap graph]
             \/ write' = [write EXCEPT ![n].pc = "commit", ![n].add = Synced(write[n].id)]
      BY <1>3, Zenon DEF WriteGraph
    <2>2. write[n] \in WriteRecord
      BY <1>1, <2>1
    <2>3. \A k \in Transaction \ {n} : write'[k] = write[k]
      BY <1>1, <2>1
    <2>4. write'[n].server = write[n].server
      BY <1>1, <2>1, <2>2 DEF WriteRecord
    <2>5. QED
      BY <1>1, <2>1, <2>3, <2>4 DEF Open, Begun
  <1>4. CASE CommitWrite(n)
    BY <1>4, CommitFacts DEF Begun
  <1>5. CASE AbortWrite(n)
    <2>1. write' = [write EXCEPT ![n] = None] /\ begun' = [begun EXCEPT ![n] = None]
      BY <1>5 DEF AbortWrite
    <2>2. QED
      BY <1>1, <2>1 DEF Open, Begun
  <1>6. QED
    BY <1>2, <1>3, <1>4, <1>5

\* Of the other runners a migration step only moves what they raced with.
LEMMA MigrationMoves ==
    ASSUME SchemaInv, CatalogTracked, NEW s \in Server, RunMigrations(s)
    PROVE  /\ \A t \in Server : runner[t].raced => runner'[t].raced
           /\ CatalogTracked'
  <1>1. runner \in [Server -> Runner] /\ catalog \in Catalog
    BY DEF SchemaInv
  <1>2. CASE EnsureTable(s)
    <2>1. CASE /\ catalog' = [catalog EXCEPT !.tracked = TRUE]
               /\ runner' = [t \in Server |->
                               IF t = s THEN [runner[s] EXCEPT !.pc = "check"]
                               ELSE IF catalog.tracked THEN runner[t]
                               ELSE [runner[t] EXCEPT !.raced = TRUE]]
      <3>1. catalog'.tracked = TRUE
        BY <1>1, <2>1 DEF Catalog
      <3>2. \A t \in Server : runner[t].raced => runner'[t].raced
        BY <1>1, <2>1 DEF Runner
      <3>3. QED
        BY <3>1, <3>2 DEF CatalogTracked
    <2>2. CASE Advance(s, "failed") /\ UNCHANGED catalog
      BY <1>1, <2>2 DEF Advance, Runner, CatalogTracked
    <2>3. QED
      BY <1>2, <2>1, <2>2, Zenon DEF EnsureTable
  <1>3. CASE CheckMigration(s)
    <2>1. /\ runner[s].pc = "check" /\ UNCHANGED catalog
          /\ \/ runner' = [runner EXCEPT ![s] = [runner[s] EXCEPT !.pc = "finished"]]
             \/ runner' = [runner EXCEPT ![s] = [runner[s] EXCEPT !.at = @ + 1]]
             \/ runner' = [runner EXCEPT ![s] = [runner[s] EXCEPT !.pc = "apply"]]
      BY <1>3 DEF CheckMigration
    <2>2. \A t \in Server : /\ runner[t].raced => runner'[t].raced
                            /\ runner'[t].pc = runner[t].pc \/ (t = s /\ catalog.tracked)
      BY <1>1, <2>1 DEF Runner, CatalogTracked
    <2>3. QED
      BY <2>1, <2>2 DEF CatalogTracked
  <1>4. CASE ApplyMigration(s) \/ RecordMigration(s)
    <2>1. /\ runner[s].pc \in {"apply", "record"} /\ UNCHANGED catalog
          /\ \E pc \in {"record", "failed", "commit"} : Advance(s, pc)
      BY <1>4 DEF ApplyMigration, RecordMigration
    <2>2. \A t \in Server : /\ runner[t].raced => runner'[t].raced
                            /\ runner'[t].pc = runner[t].pc \/ (t = s /\ catalog.tracked)
      BY <1>1, <2>1 DEF Runner, Advance, CatalogTracked
    <2>3. QED
      BY <2>1, <2>2 DEF CatalogTracked
  <1>5. CASE CommitMigration(s)
    <2>1. /\ runner[s].pc = "commit"
          /\ catalog' = [catalog EXCEPT !.recorded = @ \cup {runner[s].at}, !.schema = @ \cup {runner[s].at}]
          /\ runner' = [t \in Server |->
                          IF t = s THEN [runner[s] EXCEPT !.pc = "check", !.at = @ + 1]
                          ELSE [runner[t] EXCEPT !.raced = TRUE]]
      BY <1>5 DEF CommitMigration
    <2>2. catalog.tracked /\ catalog'.tracked = catalog.tracked
      BY <1>1, <2>1 DEF Catalog, CatalogTracked
    <2>3. \A t \in Server : runner[t].raced => runner'[t].raced
      BY <1>1, <2>1 DEF Runner
    <2>4. QED
      BY <2>2, <2>3 DEF CatalogTracked
  <1>6. QED
    BY <1>2, <1>3, <1>4, <1>5 DEF RunMigrations

\* A Reconcile moves itself only.
LEMMA ReconcileMoves ==
    ASSUME ProjectionTyped, NEW s \in Server, Reconcile(s)
    PROVE  UNCHANGED <<begun, write>> /\ \A t \in Server \ {s} : scan'[t] = scan[t]
  <1>1. UNCHANGED <<begun, write>> /\ \E r : scan' = [scan EXCEPT ![s] = r]
    <2>1. CASE ClearGraph(s)
      BY <2>1 DEF ClearGraph, Scan
    <2>2. CASE CountRows(s)
      BY <2>2 DEF CountRows, Scan
    <2>3. CASE ReadPage(s)
      BY <2>3 DEF ReadPage, Scan
    <2>4. CASE SyncRow(s)
      BY <2>4 DEF SyncRow, Scan
    <2>5. CASE EndTable(s)
      BY <2>5 DEF EndTable, Scan
    <2>6. QED
      BY <2>1, <2>2, <2>3, <2>4, <2>5 DEF Reconcile
  <1>2. QED
    BY <1>1 DEF ProjectionTyped

LEMMA InitStages == ServerInit => StagesOK
  <1> SUFFICES ASSUME ServerInit
               PROVE  StagesOK
    OBVIOUS
  <1>1. Open = {} /\ Begun = {}
    BY DEF ServerInit, Open, Begun
  <1>2. /\ \A s \in Server : stage[s] \in {"down", "serving"} /\ runner[s].pc = "idle"
        /\ catalog = FreshCatalog \/ catalog = UpToDateCatalog
    BY DEF ServerInit, IdleRunner, NewRunner
  <1>3. QED
    BY <1>1, <1>2 DEF StagesOK, OpenServed, ScanWaits, FailedStartHasCause, CatalogTracked, FreshCatalog, UpToDateCatalog

\* Steps of one process that touch neither its transactions nor the others.
LEMMA StageStep ==
    ASSUME ServerInv, CatalogTracked', NEW s \in Server, NEW next,
           stage' = [stage EXCEPT ![s] = next],
           Begun' \subseteq Begun, \A n \in Begun' : begun'[n] = begun[n],
           Open' \subseteq Open, \A n \in Open' : write'[n].server = write[n].server,
           s \in {begun[n] : n \in Begun'} \cup {write[n].server : n \in Open'} => next \in {"serving", "stopping"},
           \A t \in Server \ {s} : scan'[t] = scan[t] /\ runner'[t] = runner[t],
           next = "migrating" => scan'[s].pc = "idle",
           next = "failed" => runner'[s].raced \/ scan'[s].deleted
    PROVE  StagesOK'
  <1>1. stage \in [Server -> Stages] /\ stage'[s] = next /\ \A t \in Server \ {s} : stage'[t] = stage[t]
    BY DEF ServerInv, SchemaInv
  <1>2. /\ \A n \in Open : write[n].server \in Server
        /\ \A n \in Begun : begun[n] \in Server
    BY DEF ServerInv, ProjectionInv, ProjectionTyped, Open, Begun, WriteRecord
  <1>3. OpenServed'
    BY <1>1, <1>2 DEF ServerInv, StagesOK, OpenServed
  <1>4. ScanWaits'
    BY <1>1 DEF ServerInv, StagesOK, ScanWaits
  <1>5. FailedStartHasCause'
    BY <1>1 DEF ServerInv, StagesOK, FailedStartHasCause
  <1>6. QED
    BY <1>3, <1>4, <1>5 DEF StagesOK

\* Nothing that happens to a process that is not starting takes the cause of its
\* failure back.
LEMMA StayingStep ==
    ASSUME ServerInv, CatalogTracked', UNCHANGED stage,
           \A n \in Begun' : stage[begun'[n]] \in {"serving", "stopping"},
           \A n \in Open' : stage[write'[n].server] \in {"serving", "stopping"},
           \A t \in Server : stage[t] = "migrating" => scan'[t].pc = scan[t].pc,
           \A t \in Server : stage[t] = "failed" =>
              (runner[t].raced => runner'[t].raced) /\ (scan[t].deleted => scan'[t].deleted)
    PROVE  StagesOK'
  <1>1. OpenServed'
    BY DEF OpenServed
  <1>2. ScanWaits'
    BY DEF ServerInv, StagesOK, ScanWaits
  <1>3. FailedStartHasCause'
    BY DEF ServerInv, StagesOK, FailedStartHasCause
  <1>4. QED
    BY <1>1, <1>2, <1>3 DEF StagesOK

LEMMA StagesInvariant == ServerInv /\ ProjectionInv' /\ [ServerNext]_serverVars => StagesOK'
  <1> SUFFICES ASSUME ServerInv, ProjectionInv', [ServerNext]_serverVars
               PROVE  StagesOK'
    OBVIOUS
  <1>1. /\ SchemaInv /\ ProjectionInv /\ StagesOK
        /\ OpenServed /\ CatalogTracked /\ ProjectionTyped /\ ScanWaits
    BY DEF ServerInv, StagesOK, ProjectionInv
  <1>2. /\ runner \in [Server -> Runner] /\ catalog \in Catalog
        /\ scan \in [Server -> ScanRecord]
        /\ begun \in [Transaction -> Server \cup {None}]
        /\ write \in [Transaction -> WriteRecord \cup {None}]
    BY <1>1 DEF SchemaInv, ProjectionTyped
  <1>3. ASSUME UNCHANGED <<catalog, runner>>
        PROVE  CatalogTracked'
    BY <1>1, <1>3 DEF CatalogTracked
  <1>4. ASSUME UNCHANGED <<begun, write>>
        PROVE  /\ Open' = Open /\ Begun' = Begun
               /\ \A n \in Begun' : begun'[n] = begun[n]
               /\ \A n \in Open' : write'[n].server = write[n].server
    BY <1>4 DEF Open, Begun
  <1>5. ASSUME NEW s \in Server, Boot(s)
        PROVE  StagesOK'
    <2>1. /\ stage[s] \in {"down", "failed"} /\ stage' = [stage EXCEPT ![s] = "migrating"]
          /\ runner' = [runner EXCEPT ![s] = NewRunner("ensure")]
          /\ scan' = [scan EXCEPT ![s] = IdleScan]
          /\ UNCHANGED <<catalog, begun, write>>
      BY <1>5 DEF Boot, Enter
    <2>2. CatalogTracked'
      BY <1>1, <1>2, <2>1 DEF CatalogTracked, NewRunner
    <2>3. s \notin {begun[n] : n \in Begun} \cup {write[n].server : n \in Open}
      BY <1>1, <2>1 DEF OpenServed
    <2>4. scan'[s].pc = "idle"
      BY <1>2, <2>1 DEF IdleScan
    <2>5. \A t \in Server \ {s} : scan'[t] = scan[t] /\ runner'[t] = runner[t]
      BY <1>2, <2>1
    <2>6. QED
      BY <1>4, <2>1, <2>2, <2>3, <2>4, <2>5, StageStep
  <1>6. ASSUME NEW s \in Server, MigrationStep(s)
        PROVE  StagesOK'
    <2>1. RunMigrations(s) /\ UNCHANGED <<begun, write, scan, stage>>
      BY <1>6 DEF MigrationStep, projectionVars
    <2>2. CatalogTracked' /\ \A t \in Server : runner[t].raced => runner'[t].raced
      BY <1>1, <2>1, MigrationMoves
    <2>3. /\ \A n \in Begun' : stage[begun'[n]] \in {"serving", "stopping"}
          /\ \A n \in Open' : stage[write'[n].server] \in {"serving", "stopping"}
      BY <1>1, <1>4, <2>1 DEF OpenServed
    <2>4. QED
      BY <2>1, <2>2, <2>3, StayingStep
  <1>7. ASSUME NEW s \in Server, StartReconcile(s)
        PROVE  StagesOK'
    <2>1. /\ stage[s] = "migrating" /\ stage' = [stage EXCEPT ![s] = "reconciling"]
          /\ scan' = [scan EXCEPT ![s].pc = "clear"]
          /\ UNCHANGED <<catalog, runner, begun, write>>
      BY <1>7 DEF StartReconcile, Enter, migrationVars
    <2>2. s \notin {begun[n] : n \in Begun} \cup {write[n].server : n \in Open}
      BY <1>1, <2>1 DEF OpenServed
    <2>3. \A t \in Server \ {s} : scan'[t] = scan[t] /\ runner'[t] = runner[t]
      BY <1>2, <2>1
    <2>4. QED
      BY <1>3, <1>4, <2>1, <2>2, <2>3, StageStep
  <1>8. ASSUME NEW s \in Server, ReconcileStep(s)
        PROVE  StagesOK'
    <2>1. stage[s] = "reconciling" /\ Reconcile(s) /\ UNCHANGED <<catalog, runner, stage>>
      BY <1>8 DEF ReconcileStep, migrationVars
    <2>2. UNCHANGED <<begun, write>> /\ \A t \in Server \ {s} : scan'[t] = scan[t]
      BY <1>1, <2>1, ReconcileMoves
    <2>3. /\ \A n \in Begun' : stage[begun'[n]] \in {"serving", "stopping"}
          /\ \A n \in Open' : stage[write'[n].server] \in {"serving", "stopping"}
      BY <1>1, <1>4, <2>2 DEF OpenServed
    <2>4. QED
      BY <1>3, <2>1, <2>2, <2>3, StayingStep
  <1>9. ASSUME NEW s \in Server, Serve(s) \/ Signal(s) \/ BootFails(s)
        PROVE  StagesOK'
    <2>1. /\ UNCHANGED <<catalog, runner, begun, write, scan>>
          /\ \/ stage[s] \in {"reconciling", "serving"} /\ stage' = [stage EXCEPT ![s] = "serving"]
             \/ stage[s] = "serving" /\ stage' = [stage EXCEPT ![s] = "stopping"]
             \/ /\ stage[s] \in {"migrating", "reconciling"} /\ stage' = [stage EXCEPT ![s] = "failed"]
                /\ runner[s].pc = "failed" \/ scan[s].pc = "failed"
      BY <1>9 DEF Serve, Signal, BootFails, Booting, Enter, migrationVars, projectionVars
    <2>2. CASE \E next \in {"serving", "stopping"} : stage' = [stage EXCEPT ![s] = next]
      BY <1>3, <1>4, <2>1, <2>2, StageStep
    <2>3. CASE /\ stage[s] \in {"migrating", "reconciling"} /\ stage' = [stage EXCEPT ![s] = "failed"]
               /\ runner[s].pc = "failed" \/ scan[s].pc = "failed"
      <3>1. runner[s].raced \/ scan[s].deleted
        BY <1>1, <2>3 DEF SchemaInv, RunnerAgrees, ProjectionInv, ScanOK
      <3>2. s \notin {begun[n] : n \in Begun} \cup {write[n].server : n \in Open}
        BY <1>1, <2>3 DEF OpenServed
      <3>3. QED
        BY <1>3, <1>4, <2>1, <2>3, <3>1, <3>2, StageStep
    <2>4. QED
      BY <2>1, <2>2, <2>3
  <1>10. ASSUME NEW s \in Server, ServeWrite(s)
         PROVE  StagesOK'
    <2>1. /\ stage[s] = "serving" /\ UNCHANGED <<catalog, runner, stage, scan, write>>
          /\ begun' = [begun EXCEPT ![writes + 1] = s]
      BY <1>10 DEF ServeWrite, BeginTx, migrationVars
    <2>2. \A n \in Begun' : begun'[n] = s \/ (n \in Begun /\ begun'[n] = begun[n])
      BY <1>2, <2>1 DEF Begun
    <2>3. \A n \in Begun' : stage[begun'[n]] \in {"serving", "stopping"}
      BY <1>1, <2>1, <2>2 DEF OpenServed
    <2>4. \A n \in Open' : stage[write'[n].server] \in {"serving", "stopping"}
      BY <1>1, <2>1 DEF OpenServed, Open
    <2>5. QED
      BY <1>3, <2>1, <2>3, <2>4, StayingStep
  <1>11. ASSUME NEW n \in Transaction, StartWrite(n) \/ FinishWrite(n) \/ WriteFails(n)
         PROVE  StagesOK'
    <2>1. /\ UNCHANGED <<catalog, runner, stage>>
          /\ \/ \E op \in {"create", "update", "delete"}, id \in ID : WriteRow(n, op, id)
             \/ WriteGraph(n) \/ CommitWrite(n) \/ AbortWrite(n)
      BY <1>11 DEF StartWrite, FinishWrite, WriteFails, migrationVars
    <2>2. \A t \in Server : scan'[t].pc = scan[t].pc /\ (scan[t].deleted => scan'[t].deleted)
      BY <1>1, <2>1, WriteMoves
    <2>3. /\ \A m \in Begun' : m \in Begun /\ begun'[m] = begun[m]
          /\ \A m \in Open' :
                \/ m \in Open /\ write'[m].server = write[m].server
                \/ m \in Begun /\ write'[m].server = begun[m]
      BY <1>1, <2>1, WriteServers
    <2>4. /\ \A m \in Begun' : stage[begun'[m]] \in {"serving", "stopping"}
          /\ \A m \in Open' : stage[write'[m].server] \in {"serving", "stopping"}
      BY <1>1, <2>3 DEF OpenServed
    <2>5. QED
      BY <1>3, <2>1, <2>2, <2>4, StayingStep
  <1>12. ASSUME NEW s \in Server, Exit(s)
         PROVE  StagesOK'
    <2>1. /\ stage' = [stage EXCEPT ![s] = "down"]
          /\ begun' = [n \in Transaction |-> IF begun[n] = s THEN None ELSE begun[n]]
          /\ write' = [n \in Transaction |-> IF n \in Open /\ write[n].server = s THEN None ELSE write[n]]
          /\ runner' = [runner EXCEPT ![s] = IdleRunner] /\ scan' = [scan EXCEPT ![s] = IdleScan]
          /\ UNCHANGED catalog
      BY <1>12 DEF Exit, Enter, DropConnections
    <2>2. CatalogTracked'
      BY <1>1, <1>2, <2>1 DEF CatalogTracked, IdleRunner, NewRunner
    <2>3. /\ Begun' \subseteq Begun /\ \A n \in Begun' : begun'[n] = begun[n]
          /\ Open' \subseteq Open /\ \A n \in Open' : write'[n].server = write[n].server
          /\ s \notin {begun[n] : n \in Begun'} \cup {write[n].server : n \in Open'}
      BY <2>1 DEF Open, Begun
    <2>4. \A t \in Server \ {s} : scan'[t] = scan[t] /\ runner'[t] = runner[t]
      BY <1>2, <2>1
    <2>5. QED
      BY <2>1, <2>2, <2>3, <2>4, StageStep
  <1>13. CASE UNCHANGED serverVars
    <2>1. UNCHANGED <<catalog, runner, begun, write, scan, stage>>
      BY <1>13 DEF serverVars
    <2>2. /\ \A n \in Begun' : stage[begun'[n]] \in {"serving", "stopping"}
          /\ \A n \in Open' : stage[write'[n].server] \in {"serving", "stopping"}
      BY <1>1, <1>4, <2>1 DEF OpenServed
    <2>3. QED
      BY <1>3, <2>1, <2>2, StayingStep
  <1>14. QED
    BY <1>5, <1>6, <1>7, <1>8, <1>9, <1>10, <1>11, <1>12, <1>13 DEF ServerNext, BootStep

-----------------------------------------------------------------------------

\* The whole invariant: what the tables refer to, what open transactions may
\* count on, how far every Reconcile is, and where the processes are.
THEOREM ServerInvariant == ServerSpec => []ServerInv
  <1>1. ServerInit => ServerInv
    BY InitSchema, InitProjection, InitStages DEF ServerInv
  <1>2. ServerInv /\ [ServerNext]_serverVars => ServerInv'
    <2> SUFFICES ASSUME ServerInv, [ServerNext]_serverVars
                 PROVE  ServerInv'
      OBVIOUS
    <2>1. SchemaInv'
      BY SchemaInvariant DEF ServerInv
    <2>2. ProjectionInv'
      BY ProjectionInvariant DEF ServerInv, StagesOK
    <2>3. StagesOK'
      BY <2>2, StagesInvariant
    <2>4. QED
      BY <2>1, <2>2, <2>3 DEF ServerInv
  <1>3. QED
    BY <1>1, <1>2, PTL DEF ServerSpec

\* Everything keeps its type: no row and no vertex has an id that was not handed
\* out, a list of Reconcile holds rows of its own table, and a transaction is
\* open only in a process that serves or ends what it served.
THEOREM ServerTypeCorrect == ServerSpec => []ServerTypeOK
  <1>1. ServerInv => ServerTypeOK
    <2> SUFFICES ASSUME ServerInv
                 PROVE  ServerTypeOK
      OBVIOUS
    <2>1. /\ catalog.tracked \in BOOLEAN /\ catalog.recorded \cup catalog.schema \subseteq Migration
          /\ catalog.recorded # {} => catalog.tracked
          /\ \A s \in Server : /\ stage[s] \in Stages /\ runner[s].pc \in RunnerStages
                               /\ runner[s].at \in 1..(Migrations + 1)
      BY DEF ServerInv, SchemaInv, Catalog, Runner, StagesOK, CatalogTracked
    <2>2. ASSUME NEW s \in Server
          PROVE  /\ scan[s].pc \in ScanStages /\ scan[s].kind \in DOMAIN Kinds
                 /\ Range(scan[s].listed) \subseteq {x \in issued : KindOf(x) = Kinds[scan[s].kind]}
      <3>1. scan[s] \in ScanRecord /\ ScanOK(scan[s])
        BY DEF ServerInv, ProjectionInv, ProjectionTyped
      <3>2. QED
        BY <3>1, TableFacts DEF ScanRecord, ScanOK
    <2>3. /\ graph \subseteq issued /\ rebuild \in Server \cup {None, Spoiled}
          /\ \A kind \in Table : rows[kind] \subseteq {x \in issued : KindOf(x) = kind}
      BY DEF ServerInv, ProjectionInv, ProjectionTyped
    <2>4. /\ \A n \in Transaction : begun[n] # None => stage[begun[n]] \in {"serving", "stopping"}
          /\ \A n \in Open : stage[write[n].server] \in {"serving", "stopping"}
      BY DEF ServerInv, StagesOK, OpenServed, Begun
    <2>5. QED
      BY <2>1, <2>2, <2>3, <2>4 DEF ServerTypeOK
  <1>2. QED
    BY <1>1, ServerInvariant, PTL

\* A start fails by itself only because of what others did meanwhile, whatever
\* an earlier start left behind.
THEOREM FailedStartsHaveCause == ServerSpec => []FailedStartHasCause
  <1>1. ServerInv => FailedStartHasCause
    BY DEF ServerInv, StagesOK
  <1>2. QED
    BY <1>1, ServerInvariant, PTL

\* Whatever commits, fails or dies half way, in whichever order updates put the
\* pages Reconcile reads, the graph mirrors the tables, memories that were
\* deleted with their entity apart; excepted is a graph some server has cleared
\* and not yet rebuilt, or rebuilt while a row was deleted, created, or taken
\* back in the order by an update that waited.
THEOREM GraphAlwaysMirrorsRows == ServerSpec => []GraphMirrorsRows
  <1>1. ServerInv => GraphMirrorsRows
    <2> SUFFICES ASSUME ServerInv, rebuild = None
                 PROVE  /\ graph \cap EntityID = rows["entities"]
                        /\ graph \cap RelationshipID = rows["relationships"]
                        /\ rows["memories"] \subseteq graph
                        /\ \A m \in (graph \cap MemoryID) \ rows["memories"] : ~Exists(OwnerOf[m])
      BY DEF GraphMirrorsRows
    <2>1. /\ ProjectionTyped /\ GraphWithinRows
          /\ \A kind \in Table : rows[kind] \subseteq graph
      BY DEF ServerInv, ProjectionInv, GraphOK
    <2>2. /\ rows["entities"] \subseteq graph /\ rows["relationships"] \subseteq graph
          /\ rows["memories"] \subseteq graph
      BY <2>1, TableFacts
    <2>3. rows["entities"] \subseteq EntityID /\ rows["relationships"] \subseteq RelationshipID
      BY <2>1, TableFacts, KindFacts DEF ProjectionTyped
    <2>4. ASSUME NEW m \in (graph \cap MemoryID) \ rows["memories"]
          PROVE  ~Exists(OwnerOf[m])
      <3>1. OwnerOf[m] \in EntityID /\ OwnerOf[m] \in ID /\ OwnerOf[m] \notin rows["entities"]
        BY <2>1, <2>4, ProjectionAssumption DEF GraphWithinRows, ID
      <3>2. QED
        BY <3>1, KindFacts DEF Exists
    <2>5. QED
      BY <2>1, <2>2, <2>3, <2>4 DEF GraphWithinRows
  <1>2. QED
    BY <1>1, ServerInvariant, PTL
=============================================================================

------------------------------- MODULE Server -------------------------------
(***************************************************************************)
(* The life of the processes that share one AGE database: each start runs  *)
(* the migrations, rebuilds the graph and then serves; a signal lets the   *)
(* process end with requests in flight; a start that fails exits and may   *)
(* be repeated.  One server boots while another serves.                    *)
(***************************************************************************)
EXTENDS Migrations, GraphProjection

CONSTANTS
    InitialRows,    \* the tables an earlier deployment left
    InitialTimes,   \* and when it wrote what is in them
    MaxEvents       \* bound on starts and writes together

\* The tables satisfy the keys and foreign keys of the schema.  Transactions
\* count from 1; rows with one time are taken to be listed in a fixed order.
ASSUME ServerAssumption ==
    /\ InitialRows \in [Table -> SUBSET ID]
    /\ \A kind \in Table : /\ IsFiniteSet(InitialRows[kind])
                           /\ \A id \in InitialRows[kind] : /\ KindOf(id) = kind
                                                            /\ Anchors(id) \subseteq InitialRows["entities"]
    /\ InitialTimes \in [ID -> {t \in Int : t <= 0}]
    /\ IsInjective(InitialTimes)
    /\ MaxEvents \in Nat

VARIABLE starts     \* how many starts there have been

serverVars ==
    <<catalog, runner, rows, updatedAt, issued, graph, writes, begun, write, scan, rebuild, stage, starts>>

NoRows == [kind \in Table |-> {}]

\* A new database and no server, or one that some servers are serving from.
ServerInit ==
    /\ runner = [s \in Server |-> IdleRunner]
    /\ scan = [s \in Server |-> IdleScan]
    /\ writes = 0
    /\ begun = [n \in Transaction |-> None]
    /\ write = [n \in Transaction |-> None]
    /\ starts = 0
    /\ rebuild = None
    /\ \/ /\ catalog = FreshCatalog
          /\ rows = NoRows
          /\ stage = [s \in Server |-> "down"]
       \/ /\ catalog = UpToDateCatalog
          /\ rows = InitialRows
          /\ stage \in [Server -> {"down", "serving"}]
    /\ graph = UNION {rows[kind] : kind \in Table}
    /\ issued = graph
    /\ updatedAt = InitialTimes

-----------------------------------------------------------------------------
(* Bootstrap *)

Boot(s) ==
    /\ stage[s] \in {"down", "failed"}
    /\ starts + writes < MaxEvents
    /\ starts' = starts + 1
    /\ Enter(s, "migrating")
    /\ runner' = [runner EXCEPT ![s] = NewRunner("ensure")]
    /\ scan' = [scan EXCEPT ![s] = IdleScan]
    /\ UNCHANGED <<catalog, rows, updatedAt, issued, graph, writes, begun, write, rebuild>>

MigrationStep(s) ==
    /\ stage[s] = "migrating"
    /\ RunMigrations(s)
    /\ UNCHANGED <<projectionVars, stage, starts>>

StartReconcile(s) ==
    /\ stage[s] = "migrating"
    /\ runner[s].pc = "finished"
    /\ Enter(s, "reconciling")
    /\ scan' = [scan EXCEPT ![s].pc = "clear"]
    /\ UNCHANGED <<migrationVars, rows, updatedAt, issued, graph, writes, begun, write, rebuild, starts>>

ReconcileStep(s) ==
    /\ stage[s] = "reconciling"
    /\ Reconcile(s)
    /\ UNCHANGED <<migrationVars, stage, starts>>

Serve(s) ==
    /\ stage[s] = "reconciling"
    /\ scan[s].pc = "done"
    /\ Enter(s, "serving")
    /\ UNCHANGED <<migrationVars, projectionVars, starts>>

\* fatalBootstrap after an error the program itself met.
BootFails(s) ==
    /\ Booting(s)
    /\ "failed" \in {runner[s].pc, scan[s].pc}
    /\ Enter(s, "failed")
    /\ UNCHANGED <<migrationVars, projectionVars, starts>>

-----------------------------------------------------------------------------
(* Requests, and the end of a process *)

ServeWrite(s) ==
    /\ stage[s] = "serving"
    /\ starts + writes < MaxEvents
    /\ BeginTx(s)
    /\ UNCHANGED <<migrationVars, stage, starts>>

\* A request in flight goes on although its server is stopping.
StartWrite(n) ==
    /\ \E op \in {"create", "update", "delete"}, id \in ID : WriteRow(n, op, id)
    /\ UNCHANGED <<migrationVars, stage, starts>>

FinishWrite(n) ==
    /\ WriteGraph(n) \/ CommitWrite(n)
    /\ UNCHANGED <<migrationVars, stage, starts>>

WriteFails(n) ==
    /\ AbortWrite(n)
    /\ UNCHANGED <<migrationVars, stage, starts>>

\* Shutdown makes ListenAndServe return at once; main goes on to Close and exit.
Signal(s) ==
    /\ stage[s] = "serving"
    /\ Enter(s, "stopping")
    /\ UNCHANGED <<migrationVars, projectionVars, starts>>

\* Mutant: the transactions stay open after their process is gone.
KeepConnections(s) == UNCHANGED <<begun, write, rows, graph>> /\ s \in Server

\* The connections close: open transactions of the process are rolled back.
DropConnections(s) ==
    /\ begun' = [n \in Transaction |-> IF begun[n] = s THEN None ELSE begun[n]]
    /\ write' = [n \in Transaction |-> IF n \in Open /\ write[n].server = s THEN None ELSE write[n]]
    /\ UNCHANGED <<rows, graph>>

\* main returns, or the process is killed; during a start also a signal, which
\* cancels the context of the statement in progress, or a database that fails.
Exit(s) ==
    /\ stage[s] \in {"migrating", "reconciling", "serving", "stopping"}
    /\ Enter(s, "down")
    /\ DropConnections(s)
    /\ runner' = [runner EXCEPT ![s] = IdleRunner]
    /\ scan' = [scan EXCEPT ![s] = IdleScan]
    /\ UNCHANGED <<catalog, updatedAt, issued, writes, rebuild, starts>>

BootStep(s) ==
    MigrationStep(s) \/ StartReconcile(s) \/ ReconcileStep(s) \/ Serve(s) \/ BootFails(s)

ServerNext ==
    \/ \E s \in Server : Boot(s) \/ BootStep(s) \/ ServeWrite(s) \/ Signal(s) \/ Exit(s)
    \/ \E n \in Transaction : StartWrite(n) \/ FinishWrite(n) \/ WriteFails(n)

\* A process that starts goes on, and so does a request whose locks are free.
\* Clients, signals and faults owe nothing.
ServerSpec ==
    /\ ServerInit /\ [][ServerNext]_serverVars
    /\ \A s \in Server : WF_serverVars(BootStep(s))
    /\ \A n \in Transaction : WF_serverVars(FinishWrite(n))

-----------------------------------------------------------------------------
(* Properties *)

ServerTypeOK ==
    /\ catalog.tracked \in BOOLEAN
    /\ catalog.recorded \cup catalog.schema \subseteq Migration
    /\ catalog.recorded # {} => catalog.tracked
    /\ \A s \in Server :
          /\ stage[s] \in Stages
          /\ runner[s].pc \in RunnerStages
          /\ runner[s].at \in 1..(Migrations + 1)
          /\ scan[s].pc \in ScanStages
          /\ scan[s].kind \in DOMAIN Kinds
          /\ Range(scan[s].listed) \subseteq {x \in issued : KindOf(x) = Kinds[scan[s].kind]}
    /\ graph \subseteq issued
    /\ \A kind \in Table : rows[kind] \subseteq {x \in issued : KindOf(x) = kind}
    /\ \A n \in Transaction : begun[n] # None => stage[begun[n]] \in {"serving", "stopping"}
    /\ \A n \in Open : stage[write[n].server] \in {"serving", "stopping"}
    /\ rebuild \in Server \cup {None, Spoiled}

\* No request reaches a schema that is not the server's own, whichever of
\* several servers that started together applied which migration.
ServesCurrentSchema ==
    \A s \in Server : stage[s] \in {"serving", "stopping"} => Current /\ catalog.schema = Migration

\* A start fails by itself only because of what others did meanwhile: another
\* server recorded a migration, or a row was being deleted while Reconcile read.
\* Whatever an earlier start left behind, half a graph included, the next one
\* that runs alone succeeds.
FailedStartHasCause ==
    \A s \in Server : stage[s] = "failed" => runner[s].raced \/ scan[s].deleted

\* Every start ends, in a server that serves or an exit: neither a page list
\* that others keep changing nor a lock of a request holds it for ever.
EveryStartSettles == \A s \in Server : Booting(s) ~> ~Booting(s)
=============================================================================

---------------------------- MODULE MemoryStore ----------------------------
(***************************************************************************)
(* The Store interface over the sqlite backend: several requests execute   *)
(* statements through one pooled connection (SetMaxOpenConns(1)), either   *)
(* each in a transaction of its own (autocommit) or inside RunInTx, which  *)
(* keeps the connection until it commits or rolls back.                    *)
(***************************************************************************)
EXTENDS Tables

CONSTANT Request        \* the goroutines serving requests

ASSUME RequestAssumption == None \notin Request

VARIABLES
    db,     \* the committed database
    tx      \* the open transaction, or None

vars == <<db, tx>>

\* base is a history field: the committed database the transaction began from.
Transaction == [owner : Request, work : Database, base : Database]

ASSUME TransactionAssumption == None \notin Transaction

TypeOK ==
    /\ db \in Database
    /\ tx \in Transaction \cup {None}

Init ==
    /\ db = EmptyDatabase
    /\ tx = None

-----------------------------------------------------------------------------
(* The connection *)

Owns(q) == tx # None /\ tx.owner = q

\* A statement needs the connection: its own transaction's, or the idle one.
CanRun(q) == tx = None \/ Owns(q)

\* The database a statement of q reads.
View(q) == IF Owns(q) THEN tx.work ELSE db

\* Mutant: the store RunInTx passes to its callback still runs on the pool.
WriteThroughPool(q, d) ==
    /\ db' = d
    /\ UNCHANGED tx

\* A write lands in the open transaction, or commits at once.
Write(q, d) ==
    \/ /\ Owns(q)
       /\ tx' = [tx EXCEPT !.work = d]
       /\ UNCHANGED db
    \/ /\ tx = None
       /\ db' = d
       /\ UNCHANGED tx

-----------------------------------------------------------------------------
(* Mutating methods of the store.  One that finds no row or meets a        *)
(* constraint returns an error and writes nothing.                         *)

CreateEntity(q, row) ==
    /\ CanRun(q)
    /\ NextEntity(View(q)) \in EntityID
    /\ CanInsertEntity(View(q), row)
    /\ Write(q, InsertEntity(View(q), row))

UpdateEntity(q, e, row) ==
    /\ CanRun(q)
    /\ CanUpdateEntity(View(q), e, row)
    /\ Write(q, UpdateEntityRow(View(q), e, row))

DeleteEntity(q, e) ==
    /\ CanRun(q)
    /\ HasEntity(View(q), e)
    /\ Write(q, DeleteEntityRow(View(q), e))

CreateMemory(q, row) ==
    /\ CanRun(q)
    /\ NextMemory(View(q)) \in MemoryID
    /\ CanInsertMemory(View(q), row)
    /\ Write(q, InsertMemory(View(q), row))

UpdateMemory(q, m, content, confidence, source, expires) ==
    /\ CanRun(q)
    /\ CanUpdateMemory(View(q), m, source)
    /\ Write(q, UpdateMemoryRow(View(q), m, content, confidence, source, expires))

DeleteMemory(q, m) ==
    /\ CanRun(q)
    /\ HasMemory(View(q), m)
    /\ Write(q, DeleteMemoryRow(View(q), m))

CreateRelationship(q, row) ==
    /\ CanRun(q)
    /\ NextRelationship(View(q)) \in RelationshipID
    /\ CanInsertRelationship(View(q), row)
    /\ Write(q, InsertRelationship(View(q), row))

DeleteRelationship(q, r) ==
    /\ CanRun(q)
    /\ HasRelationship(View(q), r)
    /\ Write(q, DeleteRelationshipRow(View(q), r))

CreateIngestSource(q, row) ==
    /\ CanRun(q)
    /\ NextSource(View(q)) \in SourceID
    /\ CanInsertSource(View(q), row)
    /\ Write(q, InsertSource(View(q), row))

-----------------------------------------------------------------------------
(* RunInTx *)

BeginTx(q) ==
    /\ tx = None
    /\ tx' = [owner |-> q, work |-> db, base |-> db]
    /\ UNCHANGED db

Commit(q) ==
    /\ Owns(q)
    /\ db' = tx.work
    /\ tx' = None

\* The callback returned an error, or the commit itself failed.
Rollback(q) ==
    /\ Owns(q)
    /\ tx' = None
    /\ UNCHANGED db

\* The process dies: the engine discards what was not committed.
Crash ==
    /\ tx # None
    /\ tx' = None
    /\ UNCHANGED db

-----------------------------------------------------------------------------

Statement(q) ==
    \/ \E row \in EntityRow : CreateEntity(q, row)
    \/ \E e \in EntityID, row \in EntityRow : UpdateEntity(q, e, row)
    \/ \E e \in EntityID : DeleteEntity(q, e)
    \/ \E row \in MemoryRow : CreateMemory(q, row)
    \/ \E m \in MemoryID, content \in Content, confidence \in Confidence,
          source \in SourceID \cup {None}, expires \in Time \cup {None} :
             UpdateMemory(q, m, content, confidence, source, expires)
    \/ \E m \in MemoryID : DeleteMemory(q, m)
    \/ \E row \in RelationshipRow : CreateRelationship(q, row)
    \/ \E r \in RelationshipID : DeleteRelationship(q, r)
    \/ \E row \in SourceRow : CreateIngestSource(q, row)

Next ==
    \/ \E q \in Request : Statement(q) \/ BeginTx(q) \/ Commit(q) \/ Rollback(q)
    \/ Crash

Spec == Init /\ [][Next]_vars

-----------------------------------------------------------------------------
(* Properties *)

\* What every reader, inside or outside the transaction, may rely on.
Consistent(d) ==
    /\ MemoriesHaveOwners(d)
    /\ EdgesHaveEndpoints(d)
    /\ SourcesResolve(d)
    /\ OneEntityPerExternalID(d)
    /\ OneEdgePerTriple(d)

\* Deleting an entity with memories and edges, however it interleaves with
\* transactions that write about it, leaves no row that names a missing row,
\* and no two edges or external ids collide: the cascades and constraints of
\* migration 0001 suffice for every sequence of store calls.
StoreConsistent == Consistent(db) /\ (tx # None => Consistent(tx.work))

\* Full-text search can neither miss a live memory nor return a dead or
\* outdated one: the three triggers keep the index equal to the table.
SearchIndexExact ==
    IndexMirrorsMemories(db) /\ (tx # None => IndexMirrorsMemories(tx.work))

\* A commit never overwrites a write it did not see: as long as RunInTx holds
\* the only connection, nobody else changes what it started from.
NoLostUpdate == tx # None => tx.base = db

\* From d1 to d2, no row changes whose it is and no deleted row comes back.
KeepsIdentity(d1, d2) ==
    /\ \A m \in MemoryID :
          HasMemory(d1, m) /\ HasMemory(d2, m) =>
             /\ d2.memories[m].entity_id = d1.memories[m].entity_id
             /\ d2.memories[m].category = d1.memories[m].category
    /\ \A m \in MemoryID : HasMemory(d2, m) => HasMemory(d1, m) \/ m > d1.issued.memory
    /\ \A e \in EntityID : HasEntity(d2, e) => HasEntity(d1, e) \/ e > d1.issued.entity
    /\ \A r \in RelationshipID :
          HasRelationship(d2, r) => \/ d2.relationships[r] = d1.relationships[r]
                                    \/ r > d1.issued.relationship

\* A committed step keeps each surviving memory with its entity and category
\* and each surviving edge as it was, and never brings a deleted row back,
\* whatever statements the transaction was made of.
RowsKeepIdentity == [][KeepsIdentity(db, db')]_vars

\* From d1 to d2, no ingest source is lost or attributed to another entity.
AuditExtends(d1, d2) ==
    \A s \in SourceID : HasSource(d1, s) =>
        /\ HasSource(d2, s)
        /\ d2.ingest_sources[s].subject_entity_id
             \in {None, d1.ingest_sources[s].subject_entity_id}

\* The audit log only grows: no deletion, cascade or rollback removes an
\* ingest source, and the only change to one is that it forgets a deleted subject.
AuditOnlyGrows == [][AuditExtends(db, db')]_vars
=============================================================================

------------------------- MODULE MemoryStoreProofs -------------------------
(***************************************************************************)
(* What the schema and the single connection guarantee for every number of *)
(* rows and requests.  Each statement preserves the predicate Good, which  *)
(* adds to the promises of the schema the fact that an unissued id names   *)
(* no row; the state machine inherits it for the committed database and    *)
(* for the transaction in progress.                                        *)
(***************************************************************************)
EXTENDS MemoryStore, TLAPS

Good(d) ==
    /\ MemoriesHaveOwners(d)
    /\ EdgesHaveEndpoints(d)
    /\ SourcesResolve(d)
    /\ OneEntityPerExternalID(d)
    /\ OneEdgePerTriple(d)
    /\ IndexMirrorsMemories(d)
    /\ RowsWereIssued(d)

\* Issued ids are never taken back.
IssuedGrows(d1, d2) ==
    /\ d1.issued.entity <= d2.issued.entity
    /\ d1.issued.memory <= d2.issued.memory
    /\ d1.issued.relationship <= d2.issued.relationship
    /\ d1.issued.source <= d2.issued.source

\* What one statement, and any sequence of them, does to a database.
Evolves(d1, d2) == KeepsIdentity(d1, d2) /\ AuditExtends(d1, d2) /\ IssuedGrows(d1, d2)

\* A statement applied to a good database.
Sound(d1, d2) == d2 \in Database /\ Good(d2) /\ Evolves(d1, d2)

-----------------------------------------------------------------------------
(* The statements on entities *)

\* The empty database satisfies every constraint of the schema.
LEMMA EmptyIsGood == EmptyDatabase \in Database /\ Good(EmptyDatabase)
  <1>1. EmptyDatabase \in Database
    BY DEF EmptyDatabase, Database, Issued
  <1>2. Good(EmptyDatabase)
    BY DEF EmptyDatabase, Good, MemoriesHaveOwners, EdgesHaveEndpoints, SourcesResolve,
           OneEntityPerExternalID, OneEdgePerTriple, IndexMirrorsMemories, RowsWereIssued,
           HasEntity, HasMemory, HasRelationship, HasSource, ExternalIDFree
  <1>3. QED
    BY <1>1, <1>2

\* INSERT INTO entities adds a row that nothing refers to yet.
LEMMA InsertEntitySound ==
    ASSUME NEW d \in Database, Good(d), NEW row \in EntityRow,
           NextEntity(d) \in EntityID, CanInsertEntity(d, row)
    PROVE  Sound(d, InsertEntity(d, row))
  <1> DEFINE n == NextEntity(d)
             d2 == InsertEntity(d, row)
  <1>1. /\ d2.entities = [d.entities EXCEPT ![n] = row]
        /\ d2.memories = d.memories
        /\ d2.relationships = d.relationships
        /\ d2.ingest_sources = d.ingest_sources
        /\ d2.memories_fts = d.memories_fts
        /\ d2.issued = [d.issued EXCEPT !.entity = n]
    BY DEF InsertEntity, Database
  <1>2. d2 \in Database
    <2>1. d2.entities \in [EntityID -> EntityRow \cup {None}]
      BY <1>1 DEF Database
    <2>2. d2.issued \in Issued
      BY <1>1 DEF Database, Issued, NextEntity
    <2>3. QED
      BY <1>1, <2>1, <2>2 DEF InsertEntity, Database
  <1>3. d.issued.entity \in Nat /\ n = d.issued.entity + 1 /\ d2.issued.entity = n
    BY <1>1 DEF Database, Issued, NextEntity
  <1>4. row # None
    BY NoneAssumption DEF EntityRow
  <1>5. ~HasEntity(d, n)
    BY <1>3, IDAssumption DEF Good, RowsWereIssued
  <1>6. \A e \in EntityID : HasEntity(d2, e) <=> (e = n \/ HasEntity(d, e))
    BY <1>1, <1>4 DEF HasEntity, Database
  <1>7. Good(d2)
    <2>1. MemoriesHaveOwners(d2) /\ EdgesHaveEndpoints(d2) /\ SourcesResolve(d2)
      BY <1>1, <1>6
         DEF Good, MemoriesHaveOwners, EdgesHaveEndpoints, SourcesResolve, Database,
             HasMemory, HasRelationship, HasSource, MemoryRow, RelationshipRow, SourceRow
    <2>2. OneEntityPerExternalID(d2)
      BY <1>1, <1>5, <1>6
         DEF Good, OneEntityPerExternalID, ExternalIDFree, CanInsertEntity, HasEntity, Database
    <2>3. OneEdgePerTriple(d2) /\ IndexMirrorsMemories(d2)
      BY <1>1 DEF Good, OneEdgePerTriple, IndexMirrorsMemories, HasRelationship, HasMemory
    <2>4. RowsWereIssued(d2)
      BY <1>1, <1>3, <1>6, IDAssumption
         DEF Good, RowsWereIssued, HasMemory, HasRelationship, HasSource, Database, Issued
    <2>5. QED
      BY <2>1, <2>2, <2>3, <2>4 DEF Good
  <1>8. Evolves(d, d2)
    BY <1>1, <1>3, <1>6
       DEF Evolves, KeepsIdentity, AuditExtends, IssuedGrows, HasMemory, HasRelationship,
           HasSource, Database, Issued
  <1>9. QED
    BY <1>2, <1>7, <1>8 DEF Sound

\* UPDATE entities keeps the id, so everything that referred to the row still does.
LEMMA UpdateEntitySound ==
    ASSUME NEW d \in Database, Good(d), NEW e \in EntityID, NEW row \in EntityRow,
           CanUpdateEntity(d, e, row)
    PROVE  Sound(d, UpdateEntityRow(d, e, row))
  <1> DEFINE d2 == UpdateEntityRow(d, e, row)
  <1>1. /\ d2.entities = [d.entities EXCEPT ![e] = row]
        /\ d2.memories = d.memories
        /\ d2.relationships = d.relationships
        /\ d2.ingest_sources = d.ingest_sources
        /\ d2.memories_fts = d.memories_fts
        /\ d2.issued = d.issued
    BY DEF UpdateEntityRow, Database
  <1>2. d2 \in Database
    <2>1. d2.entities \in [EntityID -> EntityRow \cup {None}]
      BY <1>1 DEF Database
    <2>2. QED
      BY <1>1, <2>1 DEF UpdateEntityRow, Database
  <1>3. row # None
    BY NoneAssumption DEF EntityRow
  <1>4. \A x \in EntityID : HasEntity(d2, x) <=> HasEntity(d, x)
    BY <1>1, <1>3 DEF HasEntity, Database, CanUpdateEntity
  <1>5. Good(d2)
    <2>1. MemoriesHaveOwners(d2) /\ EdgesHaveEndpoints(d2) /\ SourcesResolve(d2)
      BY <1>1, <1>4
         DEF Good, MemoriesHaveOwners, EdgesHaveEndpoints, SourcesResolve, Database,
             HasMemory, HasRelationship, HasSource, MemoryRow, RelationshipRow, SourceRow
    <2>2. OneEntityPerExternalID(d2)
      BY <1>1, <1>4
         DEF Good, OneEntityPerExternalID, ExternalIDFree, CanUpdateEntity, HasEntity, Database
    <2>3. OneEdgePerTriple(d2) /\ IndexMirrorsMemories(d2)
      BY <1>1 DEF Good, OneEdgePerTriple, IndexMirrorsMemories, HasRelationship, HasMemory
    <2>4. RowsWereIssued(d2)
      BY <1>1, <1>4
         DEF Good, RowsWereIssued, HasMemory, HasRelationship, HasSource
    <2>5. QED
      BY <2>1, <2>2, <2>3, <2>4 DEF Good
  <1>6. Evolves(d, d2)
    BY <1>1, <1>4
       DEF Evolves, KeepsIdentity, AuditExtends, IssuedGrows, HasMemory, HasRelationship,
           HasSource, Database, Issued
  <1>7. QED
    BY <1>2, <1>5, <1>6 DEF Sound

\* DELETE FROM entities: the cascades remove exactly the rows that would dangle.
LEMMA DeleteEntitySound ==
    ASSUME NEW d \in Database, Good(d), NEW e \in EntityID
    PROVE  Sound(d, DeleteEntityRow(d, e))
  <1> DEFINE d2 == DeleteEntityRow(d, e)
  <1>1. /\ d2.entities = [d.entities EXCEPT ![e] = None]
        /\ d2.memories = [m \in MemoryID |->
              IF d.memories[m] # None /\ d.memories[m].entity_id = e
              THEN None ELSE d.memories[m]]
        /\ d2.memories_fts = {entry \in d.memories_fts :
              ~(d.memories[entry[1]] # None /\ d.memories[entry[1]].entity_id = e)}
        /\ d2.relationships = [r \in RelationshipID |->
              IF d.relationships[r] # None
                 /\ e \in {d.relationships[r].from, d.relationships[r].to}
              THEN None ELSE d.relationships[r]]
        /\ d2.ingest_sources = [s \in SourceID |->
              IF d.ingest_sources[s] # None /\ d.ingest_sources[s].subject_entity_id = e
              THEN [subject_entity_id |-> None] ELSE d.ingest_sources[s]]
        /\ d2.issued = d.issued
    BY DEF DeleteEntityRow, Database
  <1>2. d2 \in Database
    <2>1. d2.entities \in [EntityID -> EntityRow \cup {None}]
      BY <1>1 DEF Database
    <2>2. d2.memories \in [MemoryID -> MemoryRow \cup {None}]
      BY <1>1 DEF Database
    <2>3. d2.relationships \in [RelationshipID -> RelationshipRow \cup {None}]
      BY <1>1 DEF Database
    <2>4. d2.ingest_sources \in [SourceID -> SourceRow \cup {None}]
      BY <1>1 DEF Database, SourceRow
    <2>5. d2.memories_fts \in SUBSET (MemoryID \X Content)
      BY <1>1 DEF Database
    <2>6. QED
      BY <1>1, <2>1, <2>2, <2>3, <2>4, <2>5 DEF DeleteEntityRow, Database
  <1>3. \A x \in EntityID : HasEntity(d2, x) <=> HasEntity(d, x) /\ x # e
    BY <1>1 DEF HasEntity, Database
  <1>4. \A m \in MemoryID :
           /\ HasMemory(d2, m) <=> HasMemory(d, m) /\ d.memories[m].entity_id # e
           /\ HasMemory(d2, m) => d2.memories[m] = d.memories[m]
    BY <1>1 DEF HasMemory
  <1>5. \A r \in RelationshipID :
           /\ HasRelationship(d2, r) <=> /\ HasRelationship(d, r)
                                         /\ e # d.relationships[r].from
                                         /\ e # d.relationships[r].to
           /\ HasRelationship(d2, r) => d2.relationships[r] = d.relationships[r]
    BY <1>1 DEF HasRelationship
  <1>6. \A s \in SourceID :
           /\ HasSource(d2, s) <=> HasSource(d, s)
           /\ HasSource(d, s) =>
                d2.ingest_sources[s].subject_entity_id =
                  IF d.ingest_sources[s].subject_entity_id = e
                  THEN None ELSE d.ingest_sources[s].subject_entity_id
    BY <1>1, NoneAssumption DEF HasSource, Database, SourceRow
  <1>7. Good(d2)
    <2>1. MemoriesHaveOwners(d2)
      BY <1>3, <1>4 DEF Good, MemoriesHaveOwners, HasMemory, Database, MemoryRow
    <2>2. EdgesHaveEndpoints(d2)
      BY <1>3, <1>5 DEF Good, EdgesHaveEndpoints, HasRelationship, Database, RelationshipRow
    <2>3. SourcesResolve(d2)
      <3>1. ASSUME NEW m \in MemoryID, HasMemory(d2, m), d2.memories[m].source_id # None
            PROVE  HasSource(d2, d2.memories[m].source_id)
        BY <3>1, <1>4, <1>6 DEF Good, SourcesResolve, HasMemory, Database, MemoryRow
      <3>2. ASSUME NEW s \in SourceID, HasSource(d2, s),
                   d2.ingest_sources[s].subject_entity_id # None
            PROVE  HasEntity(d2, d2.ingest_sources[s].subject_entity_id)
        BY <3>2, <1>3, <1>6 DEF Good, SourcesResolve, HasSource, Database, SourceRow
      <3>3. QED
        BY <3>1, <3>2 DEF SourcesResolve
    <2>4. OneEntityPerExternalID(d2)
      BY <1>1, <1>3 DEF Good, OneEntityPerExternalID, ExternalIDFree, Database
    <2>5. OneEdgePerTriple(d2)
      BY <1>5 DEF Good, OneEdgePerTriple, HasRelationship
    <2>6. IndexMirrorsMemories(d2)
      BY <1>1, <1>4 DEF Good, IndexMirrorsMemories, HasMemory
    <2>7. RowsWereIssued(d2)
      BY <1>1, <1>3, <1>4, <1>5, <1>6 DEF Good, RowsWereIssued
    <2>8. QED
      BY <2>1, <2>2, <2>3, <2>4, <2>5, <2>6, <2>7 DEF Good
  <1>8. Evolves(d, d2)
    <2>1. KeepsIdentity(d, d2)
      BY <1>3, <1>4, <1>5 DEF KeepsIdentity, HasRelationship
    <2>2. AuditExtends(d, d2)
      BY <1>6 DEF AuditExtends
    <2>3. IssuedGrows(d, d2)
      BY <1>1 DEF IssuedGrows, Database, Issued
    <2>4. QED
      BY <2>1, <2>2, <2>3 DEF Evolves
  <1>9. QED
    BY <1>2, <1>7, <1>8 DEF Sound

-----------------------------------------------------------------------------
(* The statements on memories *)

\* INSERT INTO memories: the foreign keys are checked and the trigger indexes it.
LEMMA InsertMemorySound ==
    ASSUME NEW d \in Database, Good(d), NEW row \in MemoryRow,
           NextMemory(d) \in MemoryID, CanInsertMemory(d, row)
    PROVE  Sound(d, InsertMemory(d, row))
  <1> DEFINE n == NextMemory(d)
             d2 == InsertMemory(d, row)
  <1>1. /\ d2.memories = [d.memories EXCEPT ![n] = row]
        /\ d2.memories_fts = d.memories_fts \cup {<<n, row.content>>}
        /\ d2.entities = d.entities
        /\ d2.relationships = d.relationships
        /\ d2.ingest_sources = d.ingest_sources
        /\ d2.issued = [d.issued EXCEPT !.memory = n]
    BY DEF InsertMemory, Database
  <1>2. d2 \in Database
    <2>1. d2.memories \in [MemoryID -> MemoryRow \cup {None}]
      BY <1>1 DEF Database
    <2>2. d2.memories_fts \in SUBSET (MemoryID \X Content)
      BY <1>1 DEF Database, MemoryRow
    <2>3. d2.issued \in Issued
      BY <1>1 DEF Database, Issued, NextMemory
    <2>4. QED
      BY <1>1, <2>1, <2>2, <2>3 DEF InsertMemory, Database
  <1>3. d.issued.memory \in Nat /\ n = d.issued.memory + 1 /\ d2.issued.memory = n
    BY <1>1 DEF Database, Issued, NextMemory
  <1>4. row # None
    BY NoneAssumption DEF MemoryRow
  <1>5. ~HasMemory(d, n)
    BY <1>3, IDAssumption DEF Good, RowsWereIssued
  <1>6. \A m \in MemoryID : /\ HasMemory(d2, m) <=> (m = n \/ HasMemory(d, m))
                            /\ m # n => d2.memories[m] = d.memories[m]
    BY <1>1, <1>4 DEF HasMemory, Database
  <1>7. d2.memories[n] = row
    BY <1>1 DEF Database
  <1>8. Good(d2)
    <2>1. MemoriesHaveOwners(d2)
      BY <1>1, <1>6, <1>7 DEF Good, MemoriesHaveOwners, CanInsertMemory, HasEntity
    <2>2. SourcesResolve(d2)
      BY <1>1, <1>6, <1>7 DEF Good, SourcesResolve, CanInsertMemory, HasEntity, HasSource
    <2>3. EdgesHaveEndpoints(d2) /\ OneEdgePerTriple(d2) /\ OneEntityPerExternalID(d2)
      BY <1>1 DEF Good, EdgesHaveEndpoints, OneEdgePerTriple, OneEntityPerExternalID,
                  HasRelationship, HasEntity, ExternalIDFree
    <2>4. IndexMirrorsMemories(d2)
      BY <1>1, <1>5, <1>6, <1>7 DEF Good, IndexMirrorsMemories, MemoryRow
    <2>5. RowsWereIssued(d2)
      BY <1>1, <1>3, <1>6, IDAssumption
         DEF Good, RowsWereIssued, HasEntity, HasRelationship, HasSource, Database, Issued
    <2>6. QED
      BY <2>1, <2>2, <2>3, <2>4, <2>5 DEF Good
  <1>9. Evolves(d, d2)
    BY <1>1, <1>3, <1>5, <1>6
       DEF Evolves, KeepsIdentity, AuditExtends, IssuedGrows, HasEntity, HasRelationship,
           HasSource, Database, Issued
  <1>10. QED
    BY <1>2, <1>8, <1>9 DEF Sound

\* UPDATE memories: entity and category stay, the trigger re-indexes the content.
LEMMA UpdateMemorySound ==
    ASSUME NEW d \in Database, Good(d), NEW m \in MemoryID, NEW content \in Content,
           NEW confidence \in Confidence, NEW source \in SourceID \cup {None},
           NEW expires \in Time \cup {None}, CanUpdateMemory(d, m, source)
    PROVE  Sound(d, UpdateMemoryRow(d, m, content, confidence, source, expires))
  <1> DEFINE d2 == UpdateMemoryRow(d, m, content, confidence, source, expires)
             row == [d.memories[m] EXCEPT !.content = content,
                                          !.confidence = confidence,
                                          !.source_id = source,
                                          !.expires_at = expires]
  <1>1. d.memories[m] \in MemoryRow
    BY DEF CanUpdateMemory, HasMemory, Database
  <1>2. /\ d2.memories = [d.memories EXCEPT ![m] = row]
        /\ d2.memories_fts = {entry \in d.memories_fts : entry[1] # m} \cup {<<m, content>>}
        /\ d2.entities = d.entities
        /\ d2.relationships = d.relationships
        /\ d2.ingest_sources = d.ingest_sources
        /\ d2.issued = d.issued
    BY DEF UpdateMemoryRow, Database
  <1>3. /\ row \in MemoryRow
        /\ row.entity_id = d.memories[m].entity_id
        /\ row.category = d.memories[m].category
        /\ row.content = content
        /\ row.source_id = source
    BY <1>1 DEF MemoryRow
  <1>4. row # None
    BY <1>3, NoneAssumption DEF MemoryRow
  <1>5. /\ d2.memories[m] = row
        /\ \A x \in MemoryID : /\ HasMemory(d2, x) <=> HasMemory(d, x)
                               /\ x # m => d2.memories[x] = d.memories[x]
    BY <1>2, <1>4 DEF HasMemory, Database, CanUpdateMemory
  <1> HIDE DEF row
  <1>6. d2 \in Database
    <2>1. d2.memories \in [MemoryID -> MemoryRow \cup {None}]
      BY <1>2, <1>3 DEF Database
    <2>2. d2.memories_fts \in SUBSET (MemoryID \X Content)
      BY <1>2 DEF Database
    <2>3. QED
      BY <1>2, <2>1, <2>2 DEF UpdateMemoryRow, Database
  <1>7. Good(d2)
    <2>1. MemoriesHaveOwners(d2)
      BY <1>2, <1>3, <1>5 DEF Good, MemoriesHaveOwners, HasEntity, CanUpdateMemory
    <2>2. SourcesResolve(d2)
      BY <1>2, <1>3, <1>5 DEF Good, SourcesResolve, CanUpdateMemory, HasEntity, HasSource
    <2>3. EdgesHaveEndpoints(d2) /\ OneEdgePerTriple(d2) /\ OneEntityPerExternalID(d2)
      BY <1>2 DEF Good, EdgesHaveEndpoints, OneEdgePerTriple, OneEntityPerExternalID,
                  HasRelationship, HasEntity, ExternalIDFree
    <2>4. IndexMirrorsMemories(d2)
      BY <1>2, <1>3, <1>5 DEF Good, IndexMirrorsMemories, CanUpdateMemory
    <2>5. RowsWereIssued(d2)
      BY <1>2, <1>5 DEF Good, RowsWereIssued, HasEntity, HasRelationship, HasSource
    <2>6. QED
      BY <2>1, <2>2, <2>3, <2>4, <2>5 DEF Good
  <1>8. Evolves(d, d2)
    BY <1>2, <1>3, <1>5
       DEF Evolves, KeepsIdentity, AuditExtends, IssuedGrows, HasEntity, HasRelationship,
           HasSource, Database, Issued
  <1>9. QED
    BY <1>6, <1>7, <1>8 DEF Sound

\* DELETE FROM memories: no row refers to a memory, and the trigger unindexes it.
LEMMA DeleteMemorySound ==
    ASSUME NEW d \in Database, Good(d), NEW m \in MemoryID
    PROVE  Sound(d, DeleteMemoryRow(d, m))
  <1> DEFINE d2 == DeleteMemoryRow(d, m)
  <1>1. /\ d2.memories = [d.memories EXCEPT ![m] = None]
        /\ d2.memories_fts = {entry \in d.memories_fts : entry[1] # m}
        /\ d2.entities = d.entities
        /\ d2.relationships = d.relationships
        /\ d2.ingest_sources = d.ingest_sources
        /\ d2.issued = d.issued
    BY DEF DeleteMemoryRow, Database
  <1>2. d2 \in Database
    <2>1. d2.memories \in [MemoryID -> MemoryRow \cup {None}]
      BY <1>1 DEF Database
    <2>2. d2.memories_fts \in SUBSET (MemoryID \X Content)
      BY <1>1 DEF Database
    <2>3. QED
      BY <1>1, <2>1, <2>2 DEF DeleteMemoryRow, Database
  <1>3. \A x \in MemoryID : /\ HasMemory(d2, x) <=> HasMemory(d, x) /\ x # m
                            /\ HasMemory(d2, x) => d2.memories[x] = d.memories[x]
    BY <1>1 DEF HasMemory, Database
  <1>4. Good(d2)
    <2>1. MemoriesHaveOwners(d2) /\ SourcesResolve(d2)
      BY <1>1, <1>3 DEF Good, MemoriesHaveOwners, SourcesResolve, HasEntity, HasSource
    <2>2. EdgesHaveEndpoints(d2) /\ OneEdgePerTriple(d2) /\ OneEntityPerExternalID(d2)
      BY <1>1 DEF Good, EdgesHaveEndpoints, OneEdgePerTriple, OneEntityPerExternalID,
                  HasRelationship, HasEntity, ExternalIDFree
    <2>3. IndexMirrorsMemories(d2)
      BY <1>1, <1>3 DEF Good, IndexMirrorsMemories
    <2>4. RowsWereIssued(d2)
      BY <1>1, <1>3 DEF Good, RowsWereIssued, HasEntity, HasRelationship, HasSource
    <2>5. QED
      BY <2>1, <2>2, <2>3, <2>4 DEF Good
  <1>5. Evolves(d, d2)
    BY <1>1, <1>3
       DEF Evolves, KeepsIdentity, AuditExtends, IssuedGrows, HasEntity, HasRelationship,
           HasSource, Database, Issued
  <1>6. QED
    BY <1>2, <1>4, <1>5 DEF Sound

-----------------------------------------------------------------------------
(* The statements on relationships and ingest sources *)

\* INSERT INTO relationships: both foreign keys and the UNIQUE triple are checked.
LEMMA InsertRelationshipSound ==
    ASSUME NEW d \in Database, Good(d), NEW row \in RelationshipRow,
           NextRelationship(d) \in RelationshipID, CanInsertRelationship(d, row)
    PROVE  Sound(d, InsertRelationship(d, row))
  <1> DEFINE n == NextRelationship(d)
             d2 == InsertRelationship(d, row)
  <1>1. /\ d2.relationships = [d.relationships EXCEPT ![n] = row]
        /\ d2.entities = d.entities
        /\ d2.memories = d.memories
        /\ d2.memories_fts = d.memories_fts
        /\ d2.ingest_sources = d.ingest_sources
        /\ d2.issued = [d.issued EXCEPT !.relationship = n]
    BY DEF InsertRelationship, Database
  <1>2. d2 \in Database
    <2>1. d2.relationships \in [RelationshipID -> RelationshipRow \cup {None}]
      BY <1>1 DEF Database
    <2>2. d2.issued \in Issued
      BY <1>1 DEF Database, Issued, NextRelationship
    <2>3. QED
      BY <1>1, <2>1, <2>2 DEF InsertRelationship, Database
  <1>3. /\ d.issued.relationship \in Nat
        /\ n = d.issued.relationship + 1
        /\ d2.issued.relationship = n
    BY <1>1 DEF Database, Issued, NextRelationship
  <1>4. row # None
    BY NoneAssumption DEF RelationshipRow
  <1>5. ~HasRelationship(d, n)
    BY <1>3, IDAssumption DEF Good, RowsWereIssued
  <1>6. \A r \in RelationshipID :
           /\ HasRelationship(d2, r) <=> (r = n \/ HasRelationship(d, r))
           /\ r # n => d2.relationships[r] = d.relationships[r]
    BY <1>1, <1>4 DEF HasRelationship, Database
  <1>7. d2.relationships[n] = row
    BY <1>1 DEF Database
  <1>8. \A r \in RelationshipID : d.relationships[r] # row
    BY DEF CanInsertRelationship, RelationshipExists, RelationshipRow
  <1>9. Good(d2)
    <2>1. MemoriesHaveOwners(d2) /\ SourcesResolve(d2) /\ OneEntityPerExternalID(d2)
              /\ IndexMirrorsMemories(d2)
      BY <1>1 DEF Good, MemoriesHaveOwners, SourcesResolve, OneEntityPerExternalID,
                  IndexMirrorsMemories, HasEntity, HasMemory, HasSource, ExternalIDFree
    <2>2. EdgesHaveEndpoints(d2)
      BY <1>1, <1>6, <1>7 DEF Good, EdgesHaveEndpoints, CanInsertRelationship, HasEntity
    <2>3. OneEdgePerTriple(d2)
      BY <1>6, <1>7, <1>8 DEF Good, OneEdgePerTriple
    <2>4. RowsWereIssued(d2)
      BY <1>1, <1>3, <1>6, IDAssumption
         DEF Good, RowsWereIssued, HasEntity, HasMemory, HasSource, Database, Issued
    <2>5. QED
      BY <2>1, <2>2, <2>3, <2>4 DEF Good
  <1>10. Evolves(d, d2)
    BY <1>1, <1>3, <1>5, <1>6
       DEF Evolves, KeepsIdentity, AuditExtends, IssuedGrows, HasEntity, HasMemory,
           HasSource, Database, Issued
  <1>11. QED
    BY <1>2, <1>9, <1>10 DEF Sound

\* DELETE FROM relationships: no row refers to an edge.
LEMMA DeleteRelationshipSound ==
    ASSUME NEW d \in Database, Good(d), NEW r \in RelationshipID
    PROVE  Sound(d, DeleteRelationshipRow(d, r))
  <1> DEFINE d2 == DeleteRelationshipRow(d, r)
  <1>1. /\ d2.relationships = [d.relationships EXCEPT ![r] = None]
        /\ d2.entities = d.entities
        /\ d2.memories = d.memories
        /\ d2.memories_fts = d.memories_fts
        /\ d2.ingest_sources = d.ingest_sources
        /\ d2.issued = d.issued
    BY DEF DeleteRelationshipRow, Database
  <1>2. d2 \in Database
    <2>1. d2.relationships \in [RelationshipID -> RelationshipRow \cup {None}]
      BY <1>1 DEF Database
    <2>2. QED
      BY <1>1, <2>1 DEF DeleteRelationshipRow, Database
  <1>3. \A x \in RelationshipID :
           /\ HasRelationship(d2, x) <=> HasRelationship(d, x) /\ x # r
           /\ HasRelationship(d2, x) => d2.relationships[x] = d.relationships[x]
    BY <1>1 DEF HasRelationship, Database
  <1>4. Good(d2)
    <2>1. MemoriesHaveOwners(d2) /\ SourcesResolve(d2) /\ OneEntityPerExternalID(d2)
              /\ IndexMirrorsMemories(d2)
      BY <1>1 DEF Good, MemoriesHaveOwners, SourcesResolve, OneEntityPerExternalID,
                  IndexMirrorsMemories, HasEntity, HasMemory, HasSource, ExternalIDFree
    <2>2. EdgesHaveEndpoints(d2) /\ OneEdgePerTriple(d2)
      BY <1>1, <1>3 DEF Good, EdgesHaveEndpoints, OneEdgePerTriple, HasEntity, HasRelationship
    <2>3. RowsWereIssued(d2)
      BY <1>1, <1>3 DEF Good, RowsWereIssued, HasEntity, HasMemory, HasSource
    <2>4. QED
      BY <2>1, <2>2, <2>3 DEF Good
  <1>5. Evolves(d, d2)
    BY <1>1, <1>3
       DEF Evolves, KeepsIdentity, AuditExtends, IssuedGrows, HasEntity, HasMemory,
           HasRelationship, HasSource, Database, Issued
  <1>6. QED
    BY <1>2, <1>4, <1>5 DEF Sound

\* INSERT INTO ingest_sources: the subject, when there is one, must exist.
LEMMA InsertSourceSound ==
    ASSUME NEW d \in Database, Good(d), NEW row \in SourceRow,
           NextSource(d) \in SourceID, CanInsertSource(d, row)
    PROVE  Sound(d, InsertSource(d, row))
  <1> DEFINE n == NextSource(d)
             d2 == InsertSource(d, row)
  <1>1. /\ d2.ingest_sources = [d.ingest_sources EXCEPT ![n] = row]
        /\ d2.entities = d.entities
        /\ d2.memories = d.memories
        /\ d2.memories_fts = d.memories_fts
        /\ d2.relationships = d.relationships
        /\ d2.issued = [d.issued EXCEPT !.source = n]
    BY DEF InsertSource, Database
  <1>2. d2 \in Database
    <2>1. d2.ingest_sources \in [SourceID -> SourceRow \cup {None}]
      BY <1>1 DEF Database
    <2>2. d2.issued \in Issued
      BY <1>1 DEF Database, Issued, NextSource
    <2>3. QED
      BY <1>1, <2>1, <2>2 DEF InsertSource, Database
  <1>3. d.issued.source \in Nat /\ n = d.issued.source + 1 /\ d2.issued.source = n
    BY <1>1 DEF Database, Issued, NextSource
  <1>4. row # None
    BY NoneAssumption DEF SourceRow
  <1>5. ~HasSource(d, n)
    BY <1>3, IDAssumption DEF Good, RowsWereIssued
  <1>6. \A s \in SourceID : /\ HasSource(d2, s) <=> (s = n \/ HasSource(d, s))
                            /\ s # n => d2.ingest_sources[s] = d.ingest_sources[s]
    BY <1>1, <1>4 DEF HasSource, Database
  <1>7. d2.ingest_sources[n] = row
    BY <1>1 DEF Database
  <1>8. Good(d2)
    <2>1. MemoriesHaveOwners(d2) /\ OneEntityPerExternalID(d2) /\ IndexMirrorsMemories(d2)
              /\ EdgesHaveEndpoints(d2) /\ OneEdgePerTriple(d2)
      BY <1>1 DEF Good, MemoriesHaveOwners, OneEntityPerExternalID, IndexMirrorsMemories,
                  EdgesHaveEndpoints, OneEdgePerTriple, HasEntity, HasMemory,
                  HasRelationship, ExternalIDFree
    <2>2. SourcesResolve(d2)
      BY <1>1, <1>6, <1>7
         DEF Good, SourcesResolve, CanInsertSource, HasEntity, HasMemory, Database, MemoryRow
    <2>3. RowsWereIssued(d2)
      BY <1>1, <1>3, <1>6, IDAssumption
         DEF Good, RowsWereIssued, HasEntity, HasMemory, HasRelationship, Database, Issued
    <2>4. QED
      BY <2>1, <2>2, <2>3 DEF Good
  <1>9. Evolves(d, d2)
    BY <1>1, <1>3, <1>5, <1>6
       DEF Evolves, KeepsIdentity, AuditExtends, IssuedGrows, HasEntity, HasMemory,
           HasRelationship, Database, Issued
  <1>10. QED
    BY <1>2, <1>8, <1>9 DEF Sound

-----------------------------------------------------------------------------
(* Sequences of statements *)

\* A step that writes nothing evolves the database trivially.
LEMMA EvolvesReflexive ==
    ASSUME NEW d \in Database, Good(d)
    PROVE  Evolves(d, d)
  BY DEF Evolves, KeepsIdentity, AuditExtends, IssuedGrows, Database, Issued

\* A transaction of several statements evolves the database like one statement.
LEMMA EvolvesTransitive ==
    ASSUME NEW d1 \in Database, NEW d2 \in Database, NEW d3 \in Database,
           Good(d1), Good(d2), Evolves(d1, d2), Evolves(d2, d3)
    PROVE  Evolves(d1, d3)
  <1>1. IssuedGrows(d1, d3)
    BY DEF Evolves, IssuedGrows, Database, Issued
  <1>2. AuditExtends(d1, d3)
    BY DEF Evolves, AuditExtends
  <1>3. KeepsIdentity(d1, d3)
    <2>1. /\ d1.issued \in Issued
          /\ d2.issued \in Issued
      BY DEF Database
    <2>2. ASSUME NEW m \in MemoryID, HasMemory(d3, m)
          PROVE  HasMemory(d1, m) \/ m > d1.issued.memory
      BY <2>1, <2>2, IDAssumption DEF Evolves, KeepsIdentity, IssuedGrows, Issued
    <2>3. ASSUME NEW m \in MemoryID, HasMemory(d1, m), HasMemory(d3, m)
          PROVE  /\ d3.memories[m].entity_id = d1.memories[m].entity_id
                 /\ d3.memories[m].category = d1.memories[m].category
      <3>1. m <= d1.issued.memory
        BY <2>3 DEF Good, RowsWereIssued
      <3>2. HasMemory(d2, m)
        BY <2>1, <2>3, <3>1, IDAssumption DEF Evolves, KeepsIdentity, IssuedGrows, Issued
      <3>3. QED
        BY <2>3, <3>2 DEF Evolves, KeepsIdentity
    <2>4. ASSUME NEW e \in EntityID, HasEntity(d3, e)
          PROVE  HasEntity(d1, e) \/ e > d1.issued.entity
      BY <2>1, <2>4, IDAssumption DEF Evolves, KeepsIdentity, IssuedGrows, Issued
    <2>5. ASSUME NEW r \in RelationshipID, HasRelationship(d3, r)
          PROVE  \/ d3.relationships[r] = d1.relationships[r]
                 \/ r > d1.issued.relationship
      <3>1. CASE r > d2.issued.relationship
        BY <2>1, <3>1, IDAssumption DEF Evolves, IssuedGrows, Issued
      <3>2. CASE d3.relationships[r] = d2.relationships[r]
        BY <2>5, <3>2 DEF Evolves, KeepsIdentity, HasRelationship
      <3>3. QED
        BY <2>5, <3>1, <3>2 DEF Evolves, KeepsIdentity
    <2>6. QED
      BY <2>2, <2>3, <2>4, <2>5 DEF KeepsIdentity
  <1>4. QED
    BY <1>1, <1>2, <1>3 DEF Evolves

-----------------------------------------------------------------------------
(* The state machine *)

\* The inductive invariant: both databases are good, and the one in progress
\* is what some statements made of the one still committed.
Inv ==
    /\ TypeOK
    /\ Good(db)
    /\ tx # None => /\ Good(tx.work)
                    /\ tx.base = db
                    /\ Evolves(tx.base, tx.work)

\* Whatever statement a request executes, it writes a sound successor of what it reads.
LEMMA StatementSound ==
    ASSUME Inv, NEW q \in Request, Statement(q)
    PROVE  \E d \in Database : Sound(View(q), d) /\ Write(q, d)
  <1>1. View(q) \in Database /\ Good(View(q))
    BY DEF Inv, TypeOK, View, Owns, Transaction
  <1>2. ASSUME NEW row \in EntityRow, CreateEntity(q, row)
        PROVE  \E d \in Database : Sound(View(q), d) /\ Write(q, d)
    BY <1>1, <1>2, InsertEntitySound DEF CreateEntity, Sound
  <1>3. ASSUME NEW e \in EntityID, NEW row \in EntityRow, UpdateEntity(q, e, row)
        PROVE  \E d \in Database : Sound(View(q), d) /\ Write(q, d)
    BY <1>1, <1>3, UpdateEntitySound DEF UpdateEntity, Sound
  <1>4. ASSUME NEW e \in EntityID, DeleteEntity(q, e)
        PROVE  \E d \in Database : Sound(View(q), d) /\ Write(q, d)
    BY <1>1, <1>4, DeleteEntitySound DEF DeleteEntity, Sound
  <1>5. ASSUME NEW row \in MemoryRow, CreateMemory(q, row)
        PROVE  \E d \in Database : Sound(View(q), d) /\ Write(q, d)
    BY <1>1, <1>5, InsertMemorySound DEF CreateMemory, Sound
  <1>6. ASSUME NEW m \in MemoryID, NEW content \in Content, NEW confidence \in Confidence,
               NEW source \in SourceID \cup {None}, NEW expires \in Time \cup {None},
               UpdateMemory(q, m, content, confidence, source, expires)
        PROVE  \E d \in Database : Sound(View(q), d) /\ Write(q, d)
    BY <1>1, <1>6, UpdateMemorySound DEF UpdateMemory, Sound
  <1>7. ASSUME NEW m \in MemoryID, DeleteMemory(q, m)
        PROVE  \E d \in Database : Sound(View(q), d) /\ Write(q, d)
    BY <1>1, <1>7, DeleteMemorySound DEF DeleteMemory, Sound
  <1>8. ASSUME NEW row \in RelationshipRow, CreateRelationship(q, row)
        PROVE  \E d \in Database : Sound(View(q), d) /\ Write(q, d)
    BY <1>1, <1>8, InsertRelationshipSound DEF CreateRelationship, Sound
  <1>9. ASSUME NEW r \in RelationshipID, DeleteRelationship(q, r)
        PROVE  \E d \in Database : Sound(View(q), d) /\ Write(q, d)
    BY <1>1, <1>9, DeleteRelationshipSound DEF DeleteRelationship, Sound
  <1>10. ASSUME NEW row \in SourceRow, CreateIngestSource(q, row)
         PROVE  \E d \in Database : Sound(View(q), d) /\ Write(q, d)
    BY <1>1, <1>10, InsertSourceSound DEF CreateIngestSource, Sound
  <1>11. QED
    BY <1>2, <1>3, <1>4, <1>5, <1>6, <1>7, <1>8, <1>9, <1>10 DEF Statement

\* A step keeps the invariant, and what it commits evolves the committed database.
LEMMA NextPreserves ==
    ASSUME Inv, [Next]_vars
    PROVE  Inv' /\ Evolves(db, db')
  <1>1. Evolves(db, db)
    BY EvolvesReflexive DEF Inv, TypeOK
  <1>2. ASSUME NEW q \in Request, Statement(q)
        PROVE  Inv' /\ Evolves(db, db')
    <2>1. PICK d \in Database : Sound(View(q), d) /\ Write(q, d)
      BY <1>2, StatementSound
    <2>2. CASE Owns(q)
      <3>1. /\ tx \in Transaction
            /\ View(q) = tx.work
        BY <2>2 DEF Inv, TypeOK, Owns, View
      <3>2. tx' = [tx EXCEPT !.work = d] /\ db' = db
        BY <2>1, <2>2 DEF Write, Owns
      <3>3. /\ tx' \in Transaction
            /\ tx'.work = d
            /\ tx'.base = tx.base
        BY <3>1, <3>2 DEF Transaction
      <3>4. Evolves(tx.base, d)
        BY <2>1, <2>2, <3>1, EvolvesTransitive DEF Inv, TypeOK, Owns, Transaction, Sound
      <3>5. QED
        BY <1>1, <2>1, <2>2, <3>2, <3>3, <3>4 DEF Inv, TypeOK, Owns, Sound
    <2>3. CASE ~Owns(q)
      <3>1. tx = None /\ tx' = None /\ db' = d /\ View(q) = db
        BY <2>1, <2>3 DEF Write, View
      <3>2. QED
        BY <2>1, <3>1 DEF Inv, TypeOK, Sound
    <2>4. QED
      BY <2>2, <2>3
  <1>3. ASSUME NEW q \in Request, BeginTx(q)
        PROVE  Inv' /\ Evolves(db, db')
    <2>1. tx' = [owner |-> q, work |-> db, base |-> db] /\ db' = db
      BY <1>3 DEF BeginTx
    <2>2. tx' \in Transaction /\ tx'.work = db /\ tx'.base = db
      BY <2>1 DEF Inv, TypeOK, Transaction
    <2>3. QED
      BY <1>1, <2>1, <2>2 DEF Inv, TypeOK
  <1>4. ASSUME NEW q \in Request, Commit(q)
        PROVE  Inv' /\ Evolves(db, db')
    BY <1>4 DEF Commit, Owns, Inv, TypeOK, Transaction
  <1>5. ASSUME NEW q \in Request, Rollback(q)
        PROVE  Inv' /\ Evolves(db, db')
    BY <1>1, <1>5 DEF Rollback, Inv, TypeOK
  <1>6. CASE Crash
    BY <1>1, <1>6 DEF Crash, Inv, TypeOK
  <1>7. CASE UNCHANGED vars
    <2>1. db' = db /\ tx' = tx
      BY <1>7 DEF vars
    <2>2. QED
      BY <1>1, <2>1 DEF Inv, TypeOK
  <1>8. QED
    BY <1>2, <1>3, <1>4, <1>5, <1>6, <1>7 DEF Next

\* Every reachable state satisfies the inductive invariant.
THEOREM InvariantHolds == Spec => []Inv
  <1>1. Init => Inv
    BY EmptyIsGood DEF Init, Inv, TypeOK
  <1>2. Inv /\ [Next]_vars => Inv'
    BY NextPreserves
  <1>3. QED
    BY <1>1, <1>2, PTL DEF Spec

\* Both variables keep their types, for every set of ids and requests.
THEOREM TypeCorrect == Spec => []TypeOK
  BY InvariantHolds, PTL DEF Inv

\* No interleaving of statements, transactions and crashes leaves a dangling
\* reference or a duplicate key, in the committed data or in a transaction's view.
THEOREM StoreStaysConsistent == Spec => []StoreConsistent
  <1>1. Inv => StoreConsistent
    BY DEF Inv, Good, StoreConsistent, Consistent
  <1>2. QED
    BY <1>1, InvariantHolds, PTL

\* The full-text index always holds exactly the content of the live memories.
THEOREM SearchIndexStaysExact == Spec => []SearchIndexExact
  <1>1. Inv => SearchIndexExact
    BY DEF Inv, Good, SearchIndexExact
  <1>2. QED
    BY <1>1, InvariantHolds, PTL

\* With one connection, a transaction commits over the database it began from.
THEOREM NoUpdateIsLost == Spec => []NoLostUpdate
  <1>1. Inv => NoLostUpdate
    BY DEF Inv, NoLostUpdate
  <1>2. QED
    BY <1>1, InvariantHolds, PTL

\* No committed step moves a memory, rewrites an edge or revives a deleted row.
THEOREM IdentityIsKept == Spec => RowsKeepIdentity
  <1>1. Inv /\ [Next]_vars => [KeepsIdentity(db, db')]_vars
    BY NextPreserves DEF Evolves
  <1>2. QED
    BY <1>1, InvariantHolds, PTL DEF Spec, RowsKeepIdentity

\* No committed step removes an audit row or gives it another subject.
THEOREM AuditIsKept == Spec => AuditOnlyGrows
  <1>1. Inv /\ [Next]_vars => [AuditExtends(db, db')]_vars
    BY NextPreserves DEF Evolves
  <1>2. QED
    BY <1>1, InvariantHolds, PTL DEF Spec, AuditOnlyGrows
=============================================================================

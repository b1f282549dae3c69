------------------------------- MODULE Tables -------------------------------
(***************************************************************************)
(* The relational schema both SQL backends create (migration 0001) and the *)
(* effect of every statement the sqlstore package executes on it.  A       *)
(* database is one record whose fields are the tables; a statement is an   *)
(* operator from a database to a database, with a Can... operator for the  *)
(* constraints under which the engine accepts it.                          *)
(*                                                                         *)
(* A table is a function from every identifier to its row or None.         *)
(* Identifiers are numbered in the order uuid.New produced them, so the    *)
(* order of ids is the order of created_at; `issued' remembers the last    *)
(* one handed out, because a uuid is never produced twice.                 *)
(* A finite set of ids is the bound of a checked instance: a statement that *)
(* inserts is taken only while Next...(d) is one of them.                   *)
(* Columns no property tells apart (metadata, weight, entity type,         *)
(* created_at, updated_at, raw_text, extractor_model, resolution_plan) are *)
(* left out.  expires_at is the first instant at which the engine takes    *)
(* the memory for expired.                                                 *)
(***************************************************************************)
EXTENDS Naturals

CONSTANTS
    EntityID, MemoryID, RelationshipID, SourceID,   \* primary keys
    Name, ExternalID, Content, Category, Confidence, RelType,
    Time,                                           \* instants of the server's clock
    None                                            \* SQL NULL, Go nil

ASSUME IDAssumption ==
    /\ EntityID \subseteq Nat \ {0}
    /\ MemoryID \subseteq Nat \ {0}
    /\ RelationshipID \subseteq Nat \ {0}
    /\ SourceID \subseteq Nat \ {0}

ASSUME TimeAssumption == Time \subseteq Nat

ASSUME NoneAssumption ==
    /\ None \notin EntityID \cup SourceID \cup ExternalID \cup Time
    /\ None \notin [name : Name, external_id : ExternalID \cup {None}]
    /\ None \notin [entity_id : EntityID, category : Category, content : Content,
                    confidence : Confidence, source_id : SourceID \cup {None},
                    expires_at : Time \cup {None}]
    /\ None \notin [from : EntityID, to : EntityID, type : RelType]
    /\ None \notin [subject_entity_id : EntityID \cup {None}]

-----------------------------------------------------------------------------
(* Rows and tables *)

EntityRow == [name : Name, external_id : ExternalID \cup {None}]

MemoryRow == [entity_id : EntityID, category : Category, content : Content,
              confidence : Confidence, source_id : SourceID \cup {None},
              expires_at : Time \cup {None}]

RelationshipRow == [from : EntityID, to : EntityID, type : RelType]

SourceRow == [subject_entity_id : EntityID \cup {None}]

Issued == [entity : Nat, memory : Nat, relationship : Nat, source : Nat]

\* memories_fts is the full-text index of the sqlite schema: one
\* (memory_id, content) entry per indexed memory, kept by triggers.
Database ==
    [entities       : [EntityID -> EntityRow \cup {None}],
     memories       : [MemoryID -> MemoryRow \cup {None}],
     relationships  : [RelationshipID -> RelationshipRow \cup {None}],
     ingest_sources : [SourceID -> SourceRow \cup {None}],
     memories_fts   : SUBSET (MemoryID \X Content),
     issued         : Issued]

EmptyDatabase ==
    [entities       |-> [e \in EntityID |-> None],
     memories       |-> [m \in MemoryID |-> None],
     relationships  |-> [r \in RelationshipID |-> None],
     ingest_sources |-> [s \in SourceID |-> None],
     memories_fts   |-> {},
     issued         |-> [entity |-> 0, memory |-> 0, relationship |-> 0, source |-> 0]]

HasEntity(d, e) == d.entities[e] # None
HasMemory(d, m) == d.memories[m] # None
HasRelationship(d, r) == d.relationships[r] # None
HasSource(d, s) == d.ingest_sources[s] # None

-----------------------------------------------------------------------------
(* Queries *)

\* activePredicate: a memory without expires_at never expires.
Active(row, now) == row.expires_at = None \/ row.expires_at > now

\* Mutant: the query forgets the category.
ActiveMemoriesAnyCategory(d, e, category, now) ==
    {m \in MemoryID : /\ HasMemory(d, m)
                      /\ d.memories[m].entity_id = e
                      /\ Active(d.memories[m], now)}

\* Mutant: the query takes every memory that can expire for expired.
ActiveMemoriesUndated(d, e, category, now) ==
    {m \in ActiveMemoriesAnyCategory(d, e, category, now) :
        d.memories[m].category = category /\ d.memories[m].expires_at = None}

\* ListActiveMemoriesByEntityAndCategory: the memories resolution compares with.
ActiveMemories(d, e, category, now) ==
    {m \in MemoryID : /\ HasMemory(d, m)
                      /\ d.memories[m].entity_id = e
                      /\ d.memories[m].category = category
                      /\ Active(d.memories[m], now)}

RelationshipExists(d, from, to, type) ==
    \E r \in RelationshipID : d.relationships[r] = [from |-> from, to |-> to, type |-> type]

EntitiesNamed(d, name) ==
    {e \in EntityID : HasEntity(d, e) /\ d.entities[e].name = name}

\* ORDER BY created_at ASC LIMIT 1, or None when no row has the name.  A name
\* stands for the spellings lower() makes equal.
FindEntityByName(d, name) ==
    IF EntitiesNamed(d, name) = {} THEN None
    ELSE CHOOSE e \in EntitiesNamed(d, name) :
            \A other \in EntitiesNamed(d, name) : e <= other

-----------------------------------------------------------------------------
(* Statements on entities *)

\* external_id is UNIQUE, and SQL lets any number of rows hold NULL.
ExternalIDFree(d, self, ext) ==
    \A e \in EntityID \ {self} :
        HasEntity(d, e) /\ ext # None => d.entities[e].external_id # ext

NextEntity(d) == d.issued.entity + 1

CanInsertEntity(d, row) == ExternalIDFree(d, NextEntity(d), row.external_id)

InsertEntity(d, row) ==
    [d EXCEPT !.entities[NextEntity(d)] = row,
              !.issued.entity = NextEntity(d)]

CanUpdateEntity(d, e, row) ==
    /\ HasEntity(d, e)
    /\ ExternalIDFree(d, e, row.external_id)

UpdateEntityRow(d, e, row) == [d EXCEPT !.entities[e] = row]

\* Mutant: relationships has no ON DELETE CASCADE.
DeleteEntityRowKeepingEdges(d, e) ==
    [d EXCEPT
        !.entities[e] = None,
        !.memories = [m \in MemoryID |->
            IF HasMemory(d, m) /\ d.memories[m].entity_id = e THEN None ELSE d.memories[m]],
        !.memories_fts = {x \in d.memories_fts : d.memories[x[1]].entity_id # e}]

\* Mutant: the audit rows of a deleted subject are deleted with it.
DeleteEntityRowAndAudit(d, e) ==
    [DeleteEntityRowKeepingEdges(d, e) EXCEPT
        !.relationships = [r \in RelationshipID |-> None],
        !.ingest_sources = [s \in SourceID |->
            IF HasSource(d, s) /\ d.ingest_sources[s].subject_entity_id = e
            THEN None ELSE d.ingest_sources[s]]]

\* ON DELETE CASCADE for memories (whose delete trigger clears the index) and
\* relationships, ON DELETE SET NULL for the audit rows.
DeleteEntityRow(d, e) ==
    [d EXCEPT
        !.entities[e] = None,
        !.memories = [m \in MemoryID |->
            IF d.memories[m] # None /\ d.memories[m].entity_id = e
            THEN None ELSE d.memories[m]],
        !.memories_fts = {entry \in d.memories_fts :
            ~(d.memories[entry[1]] # None /\ d.memories[entry[1]].entity_id = e)},
        !.relationships = [r \in RelationshipID |->
            IF d.relationships[r] # None
               /\ e \in {d.relationships[r].from, d.relationships[r].to}
            THEN None ELSE d.relationships[r]],
        !.ingest_sources = [s \in SourceID |->
            IF d.ingest_sources[s] # None /\ d.ingest_sources[s].subject_entity_id = e
            THEN [subject_entity_id |-> None] ELSE d.ingest_sources[s]]]

-----------------------------------------------------------------------------
(* Statements on memories *)

\* Mutant: ids count the live rows, so that of a deleted row is used again.
NextMemoryReused(d) ==
    IF \A m \in MemoryID : HasMemory(d, m) THEN d.issued.memory + 1
    ELSE CHOOSE m \in MemoryID : ~HasMemory(d, m)

NextMemory(d) == d.issued.memory + 1

CanInsertMemory(d, row) ==
    /\ HasEntity(d, row.entity_id)
    /\ row.source_id # None => HasSource(d, row.source_id)

InsertMemory(d, row) ==
    [d EXCEPT !.memories[NextMemory(d)] = row,
              !.memories_fts = @ \cup {<<NextMemory(d), row.content>>},
              !.issued.memory = NextMemory(d)]

CanUpdateMemory(d, m, source) ==
    /\ HasMemory(d, m)
    /\ source # None => HasSource(d, source)

\* Mutant: no trigger refreshes the index after an UPDATE.
UpdateMemoryRowOnly(d, m, content, confidence, source, expires) ==
    [d EXCEPT !.memories[m] = [@ EXCEPT !.content = content,
                                        !.confidence = confidence,
                                        !.source_id = source,
                                        !.expires_at = expires]]

\* Mutant: the row is replaced by the patch.
UpdateMemoryRowWithPatch(d, m, content, confidence, source, expires) ==
    [d EXCEPT !.memories[m] =
        [content |-> content, confidence |-> confidence, source_id |-> source,
         expires_at |-> expires]]

\* MemoryPatch has no entity_id and no category: an UPDATE keeps both.
UpdateMemoryRow(d, m, content, confidence, source, expires) ==
    [d EXCEPT
        !.memories[m] = [@ EXCEPT !.content = content,
                                  !.confidence = confidence,
                                  !.source_id = source,
                                  !.expires_at = expires],
        !.memories_fts = {entry \in d.memories_fts : entry[1] # m} \cup {<<m, content>>}]

DeleteMemoryRow(d, m) ==
    [d EXCEPT !.memories[m] = None,
              !.memories_fts = {entry \in d.memories_fts : entry[1] # m}]

-----------------------------------------------------------------------------
(* Statements on relationships and ingest sources *)

NextRelationship(d) == d.issued.relationship + 1

CanInsertRelationship(d, row) ==
    /\ HasEntity(d, row.from)
    /\ HasEntity(d, row.to)
    /\ ~RelationshipExists(d, row.from, row.to, row.type)

InsertRelationship(d, row) ==
    [d EXCEPT !.relationships[NextRelationship(d)] = row,
              !.issued.relationship = NextRelationship(d)]

DeleteRelationshipRow(d, r) == [d EXCEPT !.relationships[r] = None]

NextSource(d) == d.issued.source + 1

CanInsertSource(d, row) ==
    row.subject_entity_id # None => HasEntity(d, row.subject_entity_id)

InsertSource(d, row) ==
    [d EXCEPT !.ingest_sources[NextSource(d)] = row,
              !.issued.source = NextSource(d)]

-----------------------------------------------------------------------------
(* What the schema promises of every database *)

MemoriesHaveOwners(d) ==
    \A m \in MemoryID : HasMemory(d, m) => HasEntity(d, d.memories[m].entity_id)

EdgesHaveEndpoints(d) ==
    \A r \in RelationshipID :
        HasRelationship(d, r) => /\ HasEntity(d, d.relationships[r].from)
                                 /\ HasEntity(d, d.relationships[r].to)

SourcesResolve(d) ==
    /\ \A m \in MemoryID :
          HasMemory(d, m) /\ d.memories[m].source_id # None
             => HasSource(d, d.memories[m].source_id)
    /\ \A s \in SourceID :
          HasSource(d, s) /\ d.ingest_sources[s].subject_entity_id # None
             => HasEntity(d, d.ingest_sources[s].subject_entity_id)

OneEntityPerExternalID(d) ==
    \A e \in EntityID : HasEntity(d, e) => ExternalIDFree(d, e, d.entities[e].external_id)

OneEdgePerTriple(d) ==
    \A r1, r2 \in RelationshipID :
        HasRelationship(d, r1) /\ d.relationships[r1] = d.relationships[r2] => r1 = r2

IndexMirrorsMemories(d) ==
    d.memories_fts = {entry \in MemoryID \X Content :
                        HasMemory(d, entry[1]) /\ d.memories[entry[1]].content = entry[2]}

\* An identifier above the last one issued names no row.
RowsWereIssued(d) ==
    /\ \A e \in EntityID : HasEntity(d, e) => e <= d.issued.entity
    /\ \A m \in MemoryID : HasMemory(d, m) => m <= d.issued.memory
    /\ \A r \in RelationshipID : HasRelationship(d, r) => r <= d.issued.relationship
    /\ \A s \in SourceID : HasSource(d, s) => s <= d.issued.source
=============================================================================

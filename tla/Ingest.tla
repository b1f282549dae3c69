------------------------------- MODULE Ingest -------------------------------
(***************************************************************************)
(* Service.Ingest.  Each ingest request resolves its explicit subject,     *)
(* asks the extractor for candidates, plans one step per candidate with    *)
(* store reads that are not in a transaction, commits the plan in one      *)
(* transaction, records an audit row, backfills it into the memories it    *)
(* wrote, and invalidates cached contexts.  Several ingests, and clients   *)
(* that edit the same rows through the CRUD methods, run at the same time. *)
(***************************************************************************)
EXTENDS MemoryStore, Resolution, Sequences, FiniteSets

CONSTANTS
    Ingester,               \* the requests that are ingests; the others edit rows
    Subjects,               \* the values subject_entity_id may have, None for absent
    Extractions,            \* the candidate lists the model may answer with
    MaxCandidates,          \* ELEPHAS_EXTRACTOR_MAX_CANDIDATES, 0 for no limit
    Key, KeyOf,             \* entityKey: names with the same normalised text
    TrimOf,                 \* strings.TrimSpace of a name
    RelationshipCategory,   \* MemoryCategoryRelationship
    DefaultRelType,         \* "related_to"
    ClientMemories,         \* the memories other clients may store
    InitialDatabases,       \* what the store may hold when the server starts
    MaxEdits                \* bound on the edits of the other clients

\* valid is the verdict of validateCandidate, which looks at the content, the
\* category, the confidence and the entity types the extractor chose.
Candidate ==
    [valid : BOOLEAN, subject : Name \cup {None}, related : Seq(Name), reltype : RelType \cup {None},
     category : Category, content : Content, confidence : Confidence]

\* entityRef: existing is the resolved row, None until an entity is created.
EntityRef == [existing : EntityID \cup {None}, name : Name, created : BOOLEAN]

ASSUME IngestAssumption ==
    /\ Ingester \subseteq Request
    /\ Subjects \subseteq EntityID \cup {None}
    /\ Extractions \subseteq Seq(Candidate)
    /\ MaxCandidates \in Nat
    /\ None \notin Key \cup Name \cup RelType \cup MemoryID \cup EntityRef
    /\ KeyOf \in [Name -> Key]
    /\ TrimOf \in [Name -> Name]
    /\ RelationshipCategory \in Category \ SingletonCategory
    /\ DefaultRelType \in RelType
    /\ ClientMemories \subseteq MemoryRow
    /\ MaxEdits \in Nat

\* entityKey trims the name as well: normalizedText begins with TrimSpace.
ASSUME TrimAssumption == \A name \in Name : KeyOf[TrimOf[name]] = KeyOf[name]

ASSUME InitialAssumption ==
    \A d \in InitialDatabases :
        d \in Database /\ Consistent(d) /\ IndexMirrorsMemories(d) /\ RowsWereIssued(d)

VARIABLES
    job,    \* the state of each ingest
    edits,  \* how many edits other clients have made
    now     \* the clock of the database

ingestVars == <<db, tx, job, edits, now>>

-----------------------------------------------------------------------------
(* The records of an ingest *)

NoRefs == [k \in Key |-> None]

\* relationshipPlan, identified by its canonical key.
Edge == [from : Key, to : Key, type : RelType]

\* reply is what the response counts: the entities and relationships the plan
\* has to create.  blind is history: a read that would have told an edge is
\* already stored has failed.
IdleJob ==
    [pc |-> "idle", subject |-> None, dry_run |-> FALSE, subject_name |-> None,
     candidates |-> <<>>, next |-> 1, subject_key |-> None, related |-> <<>>,
     refs |-> NoRefs, known |-> {}, decision |-> None, steps |-> <<>>,
     edges |-> {}, made |-> {}, source |-> None, error |-> None,
     reply |-> [entities |-> 0, relationships |-> 0], blind |-> FALSE,
     touched |-> {}, cleared |-> {}]

Current(w) == job[w].candidates[job[w].next]

\* Step w from one stage to another with the given changes to its record.
Become(w, record) == job' = [job EXCEPT ![w] = record]

\* The request ends with an error before anything was written.
Refuse(w, code) ==
    Become(w, [IdleJob EXCEPT !.pc = "failed", !.error = code])

\* Mutant: the error path forgets the rollback.
AbandonOpen(w, code) ==
    /\ Owns(w)
    /\ UNCHANGED <<db, tx>>
    /\ Refuse(w, code)

\* Mutant: the error path commits what was written so far.
AbandonCommitting(w, code) ==
    /\ Owns(w)
    /\ db' = tx.work
    /\ tx' = None
    /\ Refuse(w, code)

\* An error inside the transaction callback: RunInTx rolls back.
Abandon(w, code) ==
    /\ Owns(w)
    /\ tx' = None
    /\ UNCHANGED db
    /\ Refuse(w, code)

IngestInit ==
    /\ db \in InitialDatabases
    /\ tx = None
    /\ job = [w \in Ingester |-> IdleJob]
    /\ edits = 0
    /\ now = 0

-----------------------------------------------------------------------------
(* Phase 1: subject and extraction *)

\* A blank text, or a server without an extractor, is refused at once.
Receive(w) ==
    /\ job[w].pc = "idle"
    /\ \/ \E subject \in Subjects, dry_run \in BOOLEAN :
            Become(w, [IdleJob EXCEPT !.pc = "subject", !.subject = subject, !.dry_run = dry_run])
       \/ \E code \in {"invalid_request", "extractor_unavailable"} : Refuse(w, code)
    /\ UNCHANGED <<db, tx, edits>>

\* resolveExplicitSubject, and the entityRef buildIngestPlan seeds with it.
ResolveExplicitSubject(w) ==
    LET j == job[w] IN
    /\ j.pc = "subject"
    /\ \/ /\ j.subject = None
          /\ Become(w, [j EXCEPT !.pc = "extract"])
       \/ /\ j.subject # None
          /\ CanRun(w)
          /\ HasEntity(db, j.subject)
          /\ LET name == db.entities[j.subject].name
                 ref == [existing |-> j.subject, name |-> name, created |-> FALSE]
             IN Become(w, [j EXCEPT !.pc = "extract", !.subject_name = name,
                                    !.refs[KeyOf[name]] = ref])
       \/ /\ j.subject # None
          /\ CanRun(w)
          /\ ~HasEntity(db, j.subject)
          /\ Refuse(w, "not_found")
    /\ UNCHANGED <<db, tx, edits>>

TooMany(candidates) == MaxCandidates > 0 /\ Len(candidates) > MaxCandidates

\* A candidate without a subject is about the one the request names.
Grounded(candidates, subject_name) ==
    [n \in DOMAIN candidates |->
        [candidates[n] EXCEPT !.subject =
            IF @ = None /\ subject_name # None THEN subject_name ELSE @]]

\* The call of the model times out or fails, or its answer cannot be read.
ExtractorErrors == {"extractor_unavailable", "extraction_failed"}

\* The model's answer is arbitrary; no candidate at all is a success with nothing to do.
Extract(w) ==
    LET j == job[w] IN
    /\ j.pc = "extract"
    /\ \/ \E candidates \in Extractions :
            \/ /\ TooMany(candidates)
               /\ Refuse(w, "extraction_failed")
            \/ /\ ~TooMany(candidates)
               /\ Become(w, [j EXCEPT !.pc = IF candidates = <<>> THEN "done" ELSE "candidate",
                                      !.candidates = Grounded(candidates, j.subject_name)])
       \/ \E code \in ExtractorErrors : Refuse(w, code)
    /\ UNCHANGED <<db, tx, edits>>

-----------------------------------------------------------------------------
(* Phase 2: planning, outside any transaction *)

\* resolveEntityRef reads the store only for a key no earlier name resolved.
CanResolve(w, name) == job[w].refs[KeyOf[name]] = None => CanRun(w)

\* Mutant: a name is never looked up in the store.
RefsUnresolved(w, name) ==
    [job[w].refs EXCEPT ![KeyOf[name]] =
        IF @ # None THEN @ ELSE [existing |-> None, name |-> TrimOf[name], created |-> FALSE]]

RefsWith(w, name) ==
    IF job[w].refs[KeyOf[name]] # None THEN job[w].refs
    ELSE [job[w].refs EXCEPT ![KeyOf[name]] =
            [existing |-> FindEntityByName(db, name), name |-> TrimOf[name], created |-> FALSE]]

\* A candidate without a subject, or naming the explicit one, is about the explicit one.
AboutExplicitSubject(w) ==
    /\ job[w].subject # None
    /\ Current(w).subject # None => TrimOf[Current(w).subject] = job[w].subject_name

\* How validateCandidate refuses a candidate: an empty content or an impossible
\* confidence is the extractor's failure, an unknown category or type is not.
Refusals == {"extraction_failed", "invalid_request"}

\* validateCandidate and resolveCandidateSubject.
ResolveCandidateSubject(w) ==
    LET j == job[w]
        c == Current(w)
    IN
    /\ j.pc = "candidate"
    /\ \/ /\ ~c.valid
          /\ \E code \in Refusals : Refuse(w, code)
       \/ /\ c.valid
          /\ AboutExplicitSubject(w)
          /\ Become(w, [j EXCEPT !.pc = "related", !.subject_key = KeyOf[j.subject_name],
                                 !.related = <<>>])
       \/ /\ c.valid
          /\ ~AboutExplicitSubject(w)
          /\ c.subject = None
          /\ Refuse(w, "invalid_request")
       \/ /\ c.valid
          /\ ~AboutExplicitSubject(w)
          /\ c.subject # None
          /\ CanResolve(w, c.subject)
          /\ Become(w, [j EXCEPT !.pc = "related", !.subject_key = KeyOf[c.subject],
                                 !.related = <<>>, !.refs = RefsWith(w, c.subject)])
    /\ UNCHANGED <<db, tx, edits>>

\* One iteration of resolveRelatedEntities, or its end.
ResolveRelatedEntity(w) ==
    LET j == job[w]
        names == Current(w).related
        at == Len(j.related) + 1
    IN
    /\ j.pc = "related"
    /\ \/ /\ at > Len(names)
          /\ Become(w, [j EXCEPT !.pc = "resolve"])
       \/ /\ at <= Len(names)
          /\ CanResolve(w, names[at])
          /\ Become(w, [j EXCEPT !.related = Append(@, KeyOf[names[at]]),
                                 !.refs = RefsWith(w, names[at])])
    /\ UNCHANGED <<db, tx, edits>>

RelationshipType(c) ==
    IF c.reltype = None /\ c.category = RelationshipCategory /\ c.related # <<>>
    THEN DefaultRelType ELSE c.reltype

\* A fact that is only an edge: it creates no memory.
IsEdgeFact(c) == c.category = RelationshipCategory /\ c.related # <<>>

\* What resolution looks at in a stored memory.
MemoryFacts(d, ids) ==
    {[id |-> m, content |-> d.memories[m].content, confidence |-> d.memories[m].confidence] :
        m \in ids}

\* cachedSubjectMemories: a subject still to be created has none, and a list
\* once loaded is used for every later candidate of the same subject and category.
CachedFor(w, entity, category) ==
    {entry \in job[w].known : entry.entity = entity /\ entry.category = category}

Resolve(w, memories, known) ==
    \E decision \in MemoryActions(Current(w), memories) :
        Become(w, [job[w] EXCEPT !.pc = "queue", !.decision = decision, !.known = known])

ResolveMemory(w) ==
    LET j == job[w]
        c == Current(w)
        entity == j.refs[j.subject_key].existing
        cached == CachedFor(w, entity, c.category)
        loaded == MemoryFacts(db, ActiveMemories(db, entity, c.category, now))
    IN
    /\ j.pc = "resolve"
    /\ \/ /\ IsEdgeFact(c)
          /\ Become(w, [j EXCEPT !.pc = "queue",
                                 !.decision = [action |-> "merge", target |-> None]])
       \/ /\ ~IsEdgeFact(c)
          /\ entity = None
          /\ Resolve(w, {}, j.known)
       \/ /\ ~IsEdgeFact(c)
          /\ entity # None
          /\ \E entry \in cached : Resolve(w, entry.memories, j.known)
       \/ /\ ~IsEdgeFact(c)
          /\ entity # None
          /\ cached = {}
          /\ CanRun(w)
          /\ Resolve(w, loaded,
                     j.known \cup {[entity |-> entity, category |-> c.category,
                                    memories |-> loaded]})
    /\ UNCHANGED <<db, tx, edits>>

RelatedKeys(w) == {job[w].related[n] : n \in DOMAIN job[w].related}

\* An edge both of whose ends exist and that is already stored is not queued,
\* unless the read that would tell fails: its error is ignored.
AlreadyStored(w, to, type) ==
    LET from == job[w].refs[job[w].subject_key].existing
        target == job[w].refs[to].existing
    IN from # None /\ target # None /\ RelationshipExists(db, from, target, type)

\* Mutant: an edge without a type is queued.
NewEdgesUntyped(w, failing) ==
    {[from |-> job[w].subject_key, to |-> job[w].related[n],
      type |-> RelationshipType(Current(w))] : n \in DOMAIN job[w].related}

\* Mutant: whether the store has the edge is not asked while planning.
NewEdgesUnchecked(w, failing) ==
    IF RelationshipType(Current(w)) = None THEN {}
    ELSE {[from |-> job[w].subject_key, to |-> job[w].related[n],
           type |-> RelationshipType(Current(w))] : n \in DOMAIN job[w].related}

\* failing: the related entities about which the store could not be asked.
NewEdges(w, failing) ==
    LET j == job[w]
        type == RelationshipType(Current(w))
        ends == {to \in RelatedKeys(w) : to \in failing \/ ~AlreadyStored(w, to, type)}
    IN IF type = None THEN {}
       ELSE {[from |-> j.subject_key, to |-> to, type |-> type] : to \in ends}

PendingKeys(w) == {k \in Key : job[w].refs[k] # None /\ job[w].refs[k].existing = None}

\* The counters of the response are those of the plan.
Counted(w, edges) ==
    [entities |-> Cardinality(PendingKeys(w)), relationships |-> Cardinality(edges)]

\* queueRelationships, and the step appended to the plan.  Its reads of the
\* store, one per related entity, may fail each on its own; they are taken at
\* one moment, for each is repeated in the transaction before it matters.
QueueRelationships(w) ==
    LET j == job[w]
        step == [subject |-> j.subject_key, existing |-> j.refs[j.subject_key].existing,
                 related |-> j.related, action |-> j.decision.action,
                 target |-> j.decision.target, memory |-> None]
        last == j.next = Len(j.candidates)
        hidden == {to \in RelatedKeys(w) : AlreadyStored(w, to, RelationshipType(Current(w)))}
    IN
    /\ j.pc = "queue"
    /\ j.related # <<>> => CanRun(w)
    /\ \E failing \in SUBSET RelatedKeys(w) :
          LET edges == j.edges \cup NewEdges(w, failing) IN
          Become(w, [j EXCEPT !.steps = Append(@, step),
                              !.edges = edges,
                              !.reply = IF last THEN Counted(w, edges) ELSE @,
                              !.blind = @ \/ failing \cap hidden # {},
                              !.decision = None,
                              !.next = IF last THEN 1 ELSE @ + 1,
                              !.pc = IF ~last THEN "candidate"
                                     ELSE IF j.dry_run THEN "done" ELSE "planned"])
    /\ UNCHANGED <<db, tx, edits>>

\* A store read fails while planning: the request returns the error.
PlanningFails(w) ==
    /\ job[w].pc \in {"subject", "candidate", "related", "resolve"}
    /\ Refuse(w, "store_error")
    /\ UNCHANGED <<db, tx, edits>>

-----------------------------------------------------------------------------
(* Phase 3: one transaction *)

BeginIngestTx(w) ==
    /\ job[w].pc = "planned"
    /\ BeginTx(w)
    /\ Become(w, [job[w] EXCEPT !.pc = "entities"])
    /\ UNCHANGED edits

\* One iteration of createPlannedEntities, or its end.  The keys are taken in
\* any order: the sorted one is one of them.
CreatePlannedEntity(w) ==
    LET j == job[w] IN
    /\ j.pc = "entities"
    /\ \/ /\ PendingKeys(w) = {}
          /\ Become(w, [j EXCEPT !.pc = "relationships"])
          /\ UNCHANGED <<db, tx>>
       \/ \E k \in PendingKeys(w) :
             /\ CreateEntity(w, [name |-> j.refs[k].name, external_id |-> None])
             /\ Become(w, [j EXCEPT !.refs[k] = [existing |-> NextEntity(View(w)),
                                                name |-> @.name, created |-> TRUE]])
    /\ UNCHANGED edits

EdgeRow(w, edge) ==
    [from |-> job[w].refs[edge.from].existing, to |-> job[w].refs[edge.to].existing,
     type |-> edge.type]

\* One iteration of createPlannedRelationships, or its end.
CreatePlannedRelationship(w) ==
    LET j == job[w] IN
    /\ j.pc = "relationships"
    /\ \/ /\ j.edges = {}
          /\ Become(w, [j EXCEPT !.pc = "memories"])
          /\ UNCHANGED <<db, tx>>
       \/ \E edge \in j.edges :
             LET row == EdgeRow(w, edge) IN
             \/ /\ RelationshipExists(View(w), row.from, row.to, row.type)
                /\ Become(w, [j EXCEPT !.edges = @ \ {edge}])
                /\ UNCHANGED <<db, tx>>
             \/ /\ CreateRelationship(w, row)
                /\ Become(w, [j EXCEPT !.edges = @ \ {edge}, !.made = @ \cup {edge}])
             \/ /\ ~RelationshipExists(View(w), row.from, row.to, row.type)
                /\ ~CanInsertRelationship(View(w), row)
                /\ Abandon(w, "store_error")
    /\ UNCHANGED edits

Executed(j, memory) ==
    [j EXCEPT !.steps[j.next].memory = memory, !.next = @ + 1]

\* One iteration of executePlannedMemories.
ExecutePlannedMemory(w) ==
    LET j == job[w]
        step == j.steps[j.next]
        c == j.candidates[j.next]
        row == [entity_id |-> j.refs[step.subject].existing, category |-> c.category,
                content |-> c.content, confidence |-> c.confidence, source_id |-> None,
                expires_at |-> None]
    IN
    /\ j.pc = "memories"
    /\ j.next <= Len(j.steps)
    /\ \/ /\ step.action = "create"
          /\ CreateMemory(w, row)
          /\ Become(w, Executed(j, NextMemory(View(w))))
       \/ /\ step.action = "create"
          /\ ~CanInsertMemory(View(w), row)
          /\ Abandon(w, "store_error")
       \/ /\ step.action = "update"
          /\ HasMemory(View(w), step.target)
          /\ UpdateMemory(w, step.target, c.content, c.confidence,
                          View(w).memories[step.target].source_id,
                          View(w).memories[step.target].expires_at)
          /\ Become(w, Executed(j, step.target))
       \/ /\ step.action = "update"
          /\ ~HasMemory(View(w), step.target)
          /\ Abandon(w, "not_found")
       \/ /\ step.action \in {"merge", "no_op"}
          /\ Become(w, Executed(j, None))
          /\ UNCHANGED <<db, tx>>
    /\ UNCHANGED edits

\* What GetEntityContext at depth 1 or less shows of an entity's own rows.
ContextRows(d, e) ==
    <<d.entities[e],
      {<<m, d.memories[m]>> : m \in {x \in MemoryID : HasMemory(d, x) /\ d.memories[x].entity_id = e}},
      {<<r, d.relationships[r]>> : r \in {x \in RelationshipID :
           HasRelationship(d, x) /\ e \in {d.relationships[x].from, d.relationships[x].to}}}>>

\* The entities a reader may have cached before a commit that changed their rows.
Touched(d1, d2) == {e \in EntityID : HasEntity(d1, e) /\ ContextRows(d1, e) # ContextRows(d2, e)}

CommitIngestTx(w) ==
    LET j == job[w] IN
    /\ j.pc = "memories"
    /\ j.next > Len(j.steps)
    /\ Commit(w)
    /\ Become(w, [j EXCEPT !.pc = "audit", !.next = 1, !.touched = Touched(db, tx.work)])
    /\ UNCHANGED edits

\* The engine fails a statement or the commit.
CommitFails(w) ==
    /\ job[w].pc \in {"entities", "relationships", "memories"}
    /\ Abandon(w, "store_error")
    /\ UNCHANGED edits

-----------------------------------------------------------------------------
(* After the commit: audit, backfill, invalidation.  None of them can make *)
(* the request fail.                                                       *)

\* The row is inserted and read back; either may fail.
RecordIngestSource(w) ==
    LET j == job[w] IN
    /\ j.pc = "audit"
    /\ \/ /\ CreateIngestSource(w, [subject_entity_id |-> j.subject])
          /\ \/ Become(w, [j EXCEPT !.pc = "backfill", !.source = NextSource(db)])
             \/ Become(w, [j EXCEPT !.pc = "invalidate"])
       \/ /\ Become(w, [j EXCEPT !.pc = "invalidate"])
          /\ UNCHANGED <<db, tx>>
    /\ UNCHANGED edits

\* One iteration of auditIngest's loop: a failure skips the memory.
BackfillSource(w) ==
    LET j == job[w]
        m == j.steps[j.next].memory
    IN
    /\ j.pc = "backfill"
    /\ \/ /\ j.next > Len(j.steps)
          /\ Become(w, [j EXCEPT !.pc = "invalidate"])
          /\ UNCHANGED <<db, tx>>
       \/ /\ j.next <= Len(j.steps)
          /\ m # None
          /\ HasMemory(db, m)
          /\ UpdateMemory(w, m, db.memories[m].content, db.memories[m].confidence, j.source,
                          db.memories[m].expires_at)
          /\ Become(w, [j EXCEPT !.next = @ + 1,
                                 !.touched = @ \cup {db.memories[m].entity_id},
                                 !.cleared = @ \ {db.memories[m].entity_id}])
       \/ /\ j.next <= Len(j.steps)
          /\ Become(w, [j EXCEPT !.next = @ + 1])
          /\ UNCHANGED <<db, tx>>
    /\ UNCHANGED edits

CreatedFor(j, k) == IF j.refs[k].created THEN {j.refs[k].existing} ELSE {}

\* Mutant: the entities at the other end of new edges are forgotten.
StepInvalidatesSubject(j, step) ==
    ({step.existing} \cup CreatedFor(j, step.subject)) \ {None}

\* The contexts the final loop of Ingest deletes for one step: the subject it
\* was planned for, the subject it created, and, when an edge leaves the
\* subject, the related entities.
StepInvalidates(j, step) ==
    (({step.existing} \cup CreatedFor(j, step.subject)) \ {None})
    \cup (IF \E edge \in j.made : edge.from = step.subject
          THEN {j.refs[step.related[n]].existing : n \in DOMAIN step.related}
          ELSE {})

InvalidateContexts(w) ==
    LET j == job[w] IN
    /\ j.pc = "invalidate"
    /\ Become(w, [j EXCEPT !.pc = "done", !.cleared = @ \cup
                     UNION {StepInvalidates(j, j.steps[n]) : n \in DOMAIN j.steps}])
    /\ UNCHANGED <<db, tx, edits>>

-----------------------------------------------------------------------------
(* The rest of the server *)

\* Another client edits the store between any two statements of the ingests;
\* an edit of a memory may set, clear or keep the time it expires at.
Edit(q) ==
    /\ edits < MaxEdits
    /\ edits' = edits + 1
    /\ tx = None
    /\ UNCHANGED job
    /\ \/ \E row \in EntityRow : CreateEntity(q, row)
       \/ \E e \in EntityID, row \in EntityRow : UpdateEntity(q, e, row)
       \/ \E e \in EntityID : DeleteEntity(q, e)
       \/ \E row \in ClientMemories : CreateMemory(q, row)
       \/ \E m \in MemoryID, content \in Content, confidence \in Confidence,
             expires \in Time \cup {None} :
             /\ HasMemory(db, m)
             /\ UpdateMemory(q, m, content, confidence, db.memories[m].source_id, expires)
       \/ \E m \in MemoryID : DeleteMemory(q, m)
       \/ \E row \in RelationshipRow : CreateRelationship(q, row)
       \/ \E r \in RelationshipID : DeleteRelationship(q, r)

\* The process stops: every ingest in progress is lost with its transaction.
ServerStops ==
    /\ \E w \in Ingester : job[w].pc \notin {"idle", "done", "failed", "lost"}
    /\ tx' = None
    /\ job' = [w \in Ingester |->
                 IF job[w].pc \in {"idle", "done", "failed", "lost"} THEN job[w]
                 ELSE [IdleJob EXCEPT !.pc = "lost"]]
    /\ UNCHANGED <<db, edits>>

\* The steps an ingest takes by itself, and those only a fault makes it take.
Proceed(w) ==
    \/ ResolveExplicitSubject(w) \/ Extract(w)
    \/ ResolveCandidateSubject(w) \/ ResolveRelatedEntity(w)
    \/ ResolveMemory(w) \/ QueueRelationships(w)
    \/ BeginIngestTx(w) \/ CreatePlannedEntity(w) \/ CreatePlannedRelationship(w)
    \/ ExecutePlannedMemory(w) \/ CommitIngestTx(w)
    \/ RecordIngestSource(w) \/ BackfillSource(w) \/ InvalidateContexts(w)

ServerStep ==
    \/ \E w \in Ingester : Receive(w) \/ Proceed(w) \/ PlanningFails(w) \/ CommitFails(w)
    \/ \E q \in Request \ Ingester : Edit(q)
    \/ ServerStops

\* Memories expire between any two steps, while an ingest plans and before it commits.
TimePasses ==
    /\ \E t \in Time : t > now /\ now' = t
    /\ UNCHANGED <<db, tx, job, edits>>

IngestNext == (ServerStep /\ UNCHANGED now) \/ TimePasses

IngestSpec == IngestInit /\ [][IngestNext]_ingestVars

\* Each request has a goroutine of its own; faults and clients owe nothing.
\* Weak fairness asks no order of those that wait for the connection: only
\* finitely many ingests and edits take it, so it is free for good in the end.
IngestFairSpec ==
    IngestSpec /\ \A w \in Ingester : WF_ingestVars(Proceed(w) /\ UNCHANGED now)

\* A caller that sends an ingest only when no other is under way, and repeats
\* one that failed or was lost.
Answered(w) == job[w].pc \in {"idle", "done", "failed", "lost"}

SerialNext ==
    /\ IngestNext
    /\ \A v, w \in Ingester : job[v].pc = "idle" /\ job'[v].pc # "idle" => Answered(w)

SerialSpec == IngestInit /\ [][SerialNext]_ingestVars

-----------------------------------------------------------------------------
(* Properties *)

Stages == {"idle", "subject", "extract", "candidate", "related", "resolve", "queue",
           "planned", "entities", "relationships", "memories", "audit", "backfill",
           "invalidate", "done", "failed", "lost"}

IngestTypeOK ==
    /\ TypeOK
    /\ edits \in 0..MaxEdits
    /\ now \in Time \cup {0}
    /\ \A w \in Ingester :
          /\ job[w].pc \in Stages
          /\ job[w].subject \in Subjects \cup {None}
          /\ \A k \in Key : job[w].refs[k] \in EntityRef \cup {None}
          /\ job[w].edges \cup job[w].made \subseteq Edge
          /\ job[w].source \in SourceID \cup {None}
          /\ job[w].touched \cup job[w].cleared \subseteq EntityID
          /\ \A n \in DOMAIN job[w].steps : job[w].steps[n].action \in Action

\* An ingest never writes about one entity into the memory of another: however
\* rows are deleted and recreated while it plans, a planned update's target, if
\* it is still there, belongs to the step's subject and has the candidate's category.
UpdatesStayWithSubject ==
    \A w \in Ingester : \A n \in DOMAIN job[w].steps :
        LET target == job[w].steps[n].target IN
        target # None /\ HasMemory(db, target) =>
            /\ db.memories[target].entity_id = job[w].steps[n].existing
            /\ db.memories[target].category = job[w].candidates[n].category

\* When an ingest is answered, every entity whose own rows it changed after a
\* reader could have cached them has had its cached contexts deleted after the
\* last of those changes, the audit backfill included.
InvalidationCoversWrites ==
    \A w \in Ingester : job[w].pc = "done" => job[w].touched \subseteq job[w].cleared

\* The connection is held exactly while the ingest that holds it is in its
\* commit phase: no early return, refusal or crash leaves a transaction open,
\* and no statement of the phase runs outside it.
TxBelongsToCommit ==
    /\ tx # None => tx.owner \in Ingester
    /\ \A w \in Ingester :
          job[w].pc \in {"entities", "relationships", "memories"} <=> Owns(w)

\* Every ingest received is answered or lost with the server, however the
\* others hold the connection and whatever rows disappear under its plan.
EveryIngestIsAnswered ==
    \A w \in Ingester : job[w].pc = "subject" ~> job[w].pc \in {"done", "failed", "lost"}

\* Two memories an entity has at time t in one category, with the same text to
\* the code.  (Its similarity is highest between texts with the same trigrams.)
Twins(d, t, m1, m2) ==
    /\ m1 # m2 /\ HasMemory(d, m1) /\ HasMemory(d, m2)
    /\ Active(d.memories[m1], t) /\ Active(d.memories[m2], t)
    /\ d.memories[m1].entity_id = d.memories[m2].entity_id
    /\ d.memories[m1].category = d.memories[m2].category
    /\ SameText(d.memories[m1].content, d.memories[m2].content)

\* No entity holds the same unexpired memory twice in one category: what a
\* caller that retries a whole ingest (SPEC 14.2) needs, and what resolution is
\* for.  Other clients may of course write such memories.
NoDuplicateMemories ==
    edits = 0 => \A m1, m2 \in MemoryID : ~Twins(db, now, m1, m2)

\* The list has two entries that say what this memory does, of the same entity.
ListRepeats(w, row) ==
    LET j == job[w]
        Tells(n) == /\ j.refs[j.steps[n].subject].existing = row.entity_id
                    /\ j.candidates[n].category = row.category
                    /\ SameText(j.candidates[n].content, row.content)
    IN \E n, k \in DOMAIN j.steps : n # k /\ Tells(n) /\ Tells(k)

\* Ingests sent one after the other, retries included, do not store a memory
\* beside one with the same text that has not expired, whatever the threshold
\* and whichever memories expire while a list is planned and committed.  Two
\* such memories come only of a list that says the same thing twice, since an
\* entry is planned against what is stored and not against the entries before it.
OnlyListsRepeat ==
    [][edits' = 0 => \A m1, m2 \in MemoryID :
          Twins(db', now', m1, m2) =>
              \/ Twins(db, now, m1, m2)
              \/ \E w \in Ingester : job[w].pc = "memories" /\ ListRepeats(w, db'.memories[m1])
      ]_ingestVars

\* No name is given to two entities by ingests: a name an earlier ingest
\* created is found again by a later one, whatever became of the earlier one.
NoDuplicateEntities ==
    edits = 0 => \A name \in Name : Cardinality(EntitiesNamed(db, name)) <= 1

OneEntityPerName(d) ==
    \A e1, e2 \in EntityID :
        HasEntity(d, e1) /\ HasEntity(d, e2) /\ d.entities[e1].name = d.entities[e2].name
            => e1 = e2

\* What it takes for granted of the names.  An entity is looked up by the name
\* as the model spells it and stored by the trimmed one, so a name with blanks
\* around it is not found again.
NamesAreClean ==
    /\ \A name \in Name : TrimOf[name] = name
    /\ \A d \in InitialDatabases : OneEntityPerName(d)

\* What an ingest says it created is what its transaction created, although the
\* counters are taken from the plan before it begins: entities named several
\* times count once, and so do edges, and those already stored not at all.  (Not
\* so if others write in between, or if the read that finds the edge failed.)
ReplyCountsWhatWasMade ==
    \A w \in Ingester :
        LET j == job[w] IN
        edits = 0 /\ j.pc = "done" /\ ~j.dry_run /\ ~j.blind =>
            j.reply = [entities |-> Cardinality({k \in Key : j.refs[k] # None /\ j.refs[k].created}),
                       relationships |-> Cardinality(j.made)]

\* From d1 to d2, a memory outside the singleton categories loses confidence.
LosesConfidence(d1, d2) ==
    \E m \in {x \in MemoryID : HasMemory(d1, x) /\ HasMemory(d2, x)} :
        /\ d1.memories[m].category \notin SingletonCategory
        /\ d2.memories[m].confidence < d1.memories[m].confidence

\* An ingest never writes a candidate over a more confident memory (SPEC 11.2),
\* neither a committed one nor one an earlier candidate of the list has written.
ConfidenceNeverDrops ==
    [][edits' = edits =>
         /\ ~LosesConfidence(db, db')
         /\ tx # None /\ tx' # None => ~LosesConfidence(tx.work, tx'.work)]_ingestVars

\* What each ingest amounts to for its caller.
Outcome(w) ==
    LET j == job[w] IN
    CASE j.pc \in {"audit", "backfill", "invalidate"} ->
           [state |-> "committed",
            entities |-> {j.refs[k].existing : k \in {x \in Key : j.refs[x] # None /\ j.refs[x].created}},
            edges |-> {EdgeRow(w, edge) : edge \in j.made},
            writes |-> [n \in DOMAIN j.steps |->
                [action |-> j.steps[n].action, memory |-> j.steps[n].memory,
                 row |-> [entity_id |-> j.refs[j.steps[n].subject].existing,
                          category |-> j.candidates[n].category,
                          content |-> j.candidates[n].content,
                          confidence |-> j.candidates[n].confidence, source_id |-> None,
                          expires_at |-> None]]]]
      [] j.pc \in {"done", "failed", "lost"} -> [state |-> "closed"]
      [] j.pc \notin {"idle", "audit", "backfill", "invalidate", "done", "failed", "lost"}
           /\ j.dry_run -> [state |-> "preview"]
      [] OTHER -> [state |-> "open"]

Contract == INSTANCE IngestContract WITH outcome <- [w \in Ingester |-> Outcome(w)]

\* The pipeline keeps its promise to the caller: one atomic effect, exactly the
\* plan's, or none, and nothing for a dry run, a refusal or a crash.
IngestIsAtomic == Contract!ContractSpec
=============================================================================

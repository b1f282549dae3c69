------------------------- MODULE IngestSerialProofs -------------------------
(***************************************************************************)
(* A caller that sends one ingest after the other and repeats those that   *)
(* failed: for any number of them, however they end and wherever the       *)
(* server stops, no entity is stored twice, a memory only where the list    *)
(* repeats itself, and each answer counts what its transaction made.  The  *)
(* invariant says of the one ingest under way that its plan still fits the *)
(* store: what it found is there, what it did not find is not, and each    *)
(* decision is right for the memories that have not expired since.         *)
(***************************************************************************)
EXTENDS IngestAtomicProofs

-----------------------------------------------------------------------------
(* The plan of the one ingest under way *)

\* The requests that wait for nothing, and those that have planned or plan.
Resting == {"idle", "done", "failed", "lost"}

Forming == {"subject", "extract", "planned"} \cup Planning

\* From the first name resolved to the last edge made.
Linking == Forming \cup {"entities", "relationships"}

OneAtATime == \A v, w \in Ingester : v # w => Answered(v) \/ Answered(w)

Found(j, k) == j.refs[k] # None /\ j.refs[k].existing # None

Missing(j, k) == j.refs[k] # None /\ j.refs[k].existing = None

\* No two keys of a plan stand for one entity.
RefsDistinct(j) ==
    \A k1, k2 \in Key :
        Found(j, k1) /\ Found(j, k2) /\ j.refs[k1].existing = j.refs[k2].existing => k1 = k2

\* An entity that was found is stored under a name of its key.
RefsFound(j, d) ==
    \A k \in Key : Found(j, k) =>
        /\ HasEntity(d, j.refs[k].existing)
        /\ ~j.refs[k].created => KeyOf[d.entities[j.refs[k].existing].name] = k

\* One that was not found is not there, as long as names are found as spelt.
RefsMissing(j, d) ==
    \A k \in Key : Missing(j, k) =>
        KeyOf[j.refs[k].name] = k /\ EntitiesNamed(d, j.refs[k].name) = {}

\* An edge of the plan is not stored.
EdgesNew(j, d) ==
    \A edge \in j.edges :
        Found(j, edge.from) /\ Found(j, edge.to) =>
            ~RelationshipExists(d, j.refs[edge.from].existing, j.refs[edge.to].existing, edge.type)

\* In d the memory m is one of that entity and category.
Stored(d, m, entity, category) ==
    /\ m \in MemoryID /\ HasMemory(d, m)
    /\ d.memories[m].entity_id = entity /\ d.memories[m].category = category

\* The decision about a candidate is right for the memories of d that have not
\* expired at t; the one it updates may have.
DecisionFits(d, t, entity, c, action, target) ==
    LET alive == ActiveMemories(d, entity, c.category, t) IN
    /\ action = "create" =>
          \A m \in alive : Score[c.content, d.memories[m].content] < Threshold
    /\ action = "update" =>
          /\ Stored(d, target, entity, c.category)
          /\ \A m \in alive : Score[c.content, d.memories[m].content]
                                <= Score[c.content, d.memories[target].content]

\* A list read earlier has the memories that have not expired since, as they are.
Recalls(memories, d, t, entity, category) ==
    /\ \A f \in memories : /\ Stored(d, f.id, entity, category)
                           /\ f.content = d.memories[f.id].content
    /\ \A m \in ActiveMemories(d, entity, category, t) : \E f \in memories : f.id = m

\* What was read of the memories is what they are, and so is what was decided.
KnownFits(j, d, t) ==
    \A entry \in j.known : Recalls(entry.memories, d, t, entry.entity, entry.category)

StepsFit(j, d, t) ==
    \A n \in DOMAIN j.steps :
        DecisionFits(d, t, j.steps[n].existing, j.candidates[n], j.steps[n].action,
                     j.steps[n].target)

\* A step is about the subject of its candidate, and about the entity it was planned for.
StepsSubject(j) ==
    \A n \in DOMAIN j.steps :
        /\ j.candidates[n].subject # None => j.steps[n].subject = KeyOf[j.candidates[n].subject]
        /\ j.steps[n].existing # None => j.refs[j.steps[n].subject].existing = j.steps[n].existing

InHandFits(j, d, t) ==
    LET c == j.candidates[j.next] IN
    /\ j.pc \in AboutOne /\ c.subject # None => j.subject_key = KeyOf[c.subject]
    /\ j.pc = "queue" =>
          DecisionFits(d, t, j.refs[j.subject_key].existing, c, j.decision.action,
                       j.decision.target)

\* A step that updated a memory updated its target.
UpdatesTarget(j) ==
    \A n \in Did(j, "update") : j.steps[n].memory = j.steps[n].target

PlanFits(j, d, t) ==
    /\ KnownFits(j, d, t)
    /\ StepsFit(j, d, t)
    /\ StepsSubject(j)
    /\ InHandFits(j, d, t)

-----------------------------------------------------------------------------
(* What the answer counts *)

\* The entities a plan has to create, and those it has created.
NewKeys(j) == {k \in Key : j.refs[k] # None /\ (j.refs[k].existing = None \/ j.refs[k].created)}

MadeKeys(j) == {k \in Key : j.refs[k] # None /\ j.refs[k].created}

CountsNew(j) ==
    j.reply = [entities |-> Cardinality(NewKeys(j)),
               relationships |-> Cardinality(j.edges \cup j.made)]

Counts(j) ==
    /\ j.pc \in {"subject", "extract"} => j.reply = [entities |-> 0, relationships |-> 0]
    /\ j.pc \in {"planned"} \cup Committing \cup Committed => CountsNew(j)
    /\ j.pc = "done" /\ ~j.dry_run =>
          j.reply = [entities |-> Cardinality(MadeKeys(j)), relationships |-> Cardinality(j.made)]

-----------------------------------------------------------------------------
(* The invariant *)

\* d0 is the committed database at time t and d the one the ingest sees.
Fits(j, d0, d, t) ==
    /\ j.pc \in Forming \cup Committing => RefsDistinct(j) /\ PlanFits(j, d0, t)
    /\ j.pc \in Linking => RefsFound(j, d) /\ (NamesAreClean => RefsMissing(j, d))
    /\ j.pc \in Linking /\ ~j.blind => EdgesNew(j, d)
    /\ j.pc \in {"memories"} \cup Committed => j.edges = {}
    /\ j.pc = "memories" => UpdatesTarget(j)
    /\ j.pc \in Committing /\ NamesAreClean => OneEntityPerName(d)
    /\ ~j.blind => Counts(j)

StoreFits == NamesAreClean => OneEntityPerName(db)

SerialInv ==
    /\ OneAtATime
    /\ edits = 0 => StoreFits /\ \A w \in Ingester : Fits(job[w], db, View(w), now)

-----------------------------------------------------------------------------
(* A step of the one ingest under way *)

\* What is asked of a request at rest does not look at the store.
LEMMA RestingFits ==
    ASSUME NEW j, j.pc \in Resting, NEW d1, NEW d2, NEW t1, Fits(j, d1, d2, t1),
           NEW d3, NEW d4, NEW t2
    PROVE  Fits(j, d3, d4, t2)
  BY DEF Fits, Resting, Forming, Linking, Planning, Committing, Committed

\* While one request is under way the others rest.
LEMMA OthersRest ==
    ASSUME OneAtATime, NEW w \in Ingester, job[w].pc \notin Resting
    PROVE  \A v \in Ingester \ {w} : Answered(v)
  BY DEF OneAtATime, Answered, Resting

LEMMA SerialStep ==
    ASSUME SerialInv, job = [v \in Ingester |-> job[v]], NEW w \in Ingester,
           \A v \in Ingester \ {w} : Answered(v), NEW r, Become(w, r), edits' = edits,
           edits = 0 => StoreFits' /\ Fits(r, db', View(w)', now')
    PROVE  SerialInv'
  <1>1. job'[w] = r /\ \A v \in Ingester \ {w} : job'[v] = job[v]
    BY DEF Become
  <1>2. OneAtATime'
    BY <1>1 DEF OneAtATime, Answered
  <1>3. ASSUME edits = 0, NEW v \in Ingester \ {w}
        PROVE  Fits(job'[v], db', View(v)', now')
    <2>1. Fits(job[v], db, View(v), now) /\ job[v].pc \in Resting
      BY <1>3 DEF SerialInv, Answered, Resting
    <2>2. QED
      BY <1>1, <2>1, RestingFits
  <1>4. QED
    BY <1>1, <1>2, <1>3 DEF SerialInv

NothingCreated(j) == \A k \in Key : j.refs[k] # None => ~j.refs[k].created

\* The facts a step of the planning starts from.
LEMMA FormingFacts ==
    ASSUME IngestInv, AtomicInv, SerialInv, NEW w \in Ingester, job[w].pc \in Forming
    PROVE  /\ JobOK(job[w]) /\ Orderly(job[w]) /\ DOMAIN job[w] = DOMAIN IdleJob
           /\ ~Owns(w) /\ View(w) = db /\ db \in Database /\ Good(db)
           /\ job = [v \in Ingester |-> job[v]]
           /\ \A v \in Ingester \ {w} : Answered(v)
           /\ NothingCreated(job[w])
           /\ job[w].made = {}
           /\ edits = 0 => StoreFits /\ Fits(job[w], db, db, now)
  <1>1. job[w].pc \in Unwritten /\ job[w].pc \notin Resting /\ job[w].pc \notin Committing
    BY DEF Forming, Unwritten, Planning, Resting, Committing
  <1>2. JobOK(job[w]) /\ Orderly(job[w]) /\ DOMAIN job[w] = DOMAIN IdleJob
    BY <1>1, UnwrittenFacts
  <1>3. ~Owns(w) /\ View(w) = db
    BY <1>1, QuietFacts DEF View
  <1>4. CreatedEntities(job[w]) = {} /\ job[w].made = {}
    BY <1>1, <1>2 DEF Orderly, Before, Unwritten, Planning
  <1>5. NothingCreated(job[w])
    BY <1>4 DEF CreatedEntities, NothingCreated
  <1>6. QED
    BY <1>1, <1>2, <1>3, <1>4, <1>5, OthersRest DEF IngestInv, Inv, TypeOK, SerialInv

\* A step of the planning leaves the store alone.
LEMMA FormingStep ==
    ASSUME IngestInv, AtomicInv, SerialInv, NEW w \in Ingester, job[w].pc \in Forming,
           UNCHANGED <<db, tx, edits>>, now' = now, NEW r, Become(w, r),
           edits = 0 => Fits(r, db, db, now)
    PROVE  SerialInv'
  <1>1. View(w)' = db
    BY FormingFacts DEF View, Owns
  <1>2. StoreFits => StoreFits'
    BY DEF StoreFits
  <1>3. QED
    BY <1>1, <1>2, FormingFacts, SerialStep

\* A request that has planned nothing.
LEMMA BlankFits ==
    ASSUME NEW r, r.pc \in BlankStages,
           \A f \in DOMAIN IdleJob \ {"pc", "subject", "dry_run", "error"} : r[f] = IdleJob[f],
           NEW d1, NEW d2, NEW t
    PROVE  Fits(r, d1, d2, t)
  <1>1. /\ r.candidates = <<>> /\ r.refs = NoRefs /\ r.known = {} /\ r.steps = <<>>
        /\ r.edges = {} /\ r.reply = [entities |-> 0, relationships |-> 0]
    BY DEF IdleJob
  <1>2. \A k \in Key : r.refs[k] = None
    BY <1>1 DEF NoRefs
  <1>3. RefsDistinct(r) /\ RefsFound(r, d2) /\ RefsMissing(r, d2) /\ EdgesNew(r, d2)
    BY <1>1, <1>2 DEF RefsDistinct, RefsFound, RefsMissing, EdgesNew, Found, Missing
  <1>4. r.pc \notin AboutOne /\ r.pc # "queue"
    BY DEF BlankStages, AboutOne
  <1>5. PlanFits(r, d1, t)
    BY <1>1, <1>4 DEF PlanFits, KnownFits, StepsFit, StepsSubject, InHandFits
  <1>6. Counts(r)
    BY <1>1 DEF Counts, BlankStages, Committing, Committed
  <1>7. QED
    BY <1>1, <1>3, <1>5, <1>6 DEF Fits, BlankStages, Committing, Committed

\* A refusal, wherever it comes from.
LEMMA RefuseSerial ==
    ASSUME SerialInv, job = [v \in Ingester |-> job[v]], NEW w \in Ingester,
           \A v \in Ingester \ {w} : Answered(v), NEW code, Refuse(w, code),
           db' = db, edits' = edits
    PROVE  SerialInv'
  <1> DEFINE r == [IdleJob EXCEPT !.pc = "failed", !.error = code]
  <1>1. Become(w, r)
    BY DEF Refuse
  <1>2. r.pc = "failed" /\ \A f \in DOMAIN IdleJob \ {"pc", "error"} : r[f] = IdleJob[f]
    BY DEF IdleJob
  <1> HIDE DEF r
  <1>3. Fits(r, db', View(w)', now')
    BY <1>2, BlankFits DEF BlankStages
  <1>4. edits = 0 => StoreFits'
    BY DEF SerialInv, StoreFits
  <1>5. QED
    BY <1>1, <1>3, <1>4, SerialStep

\* The caller sends an ingest when all others are answered.
LEMMA ReceiveSerial ==
    ASSUME IngestInv, SerialInv, NEW w \in Ingester, Receive(w),
           \A v \in Ingester : job[v].pc = "idle" /\ job'[v].pc # "idle" =>
              \A u \in Ingester : Answered(u)
    PROVE  SerialInv'
  <1>1. job[w].pc = "idle" /\ UNCHANGED <<db, tx, edits>> /\ job = [v \in Ingester |-> job[v]]
    BY DEF Receive, IngestInv
  <1>2. ASSUME NEW subject \in Subjects, NEW dry_run \in BOOLEAN,
               Become(w, [IdleJob EXCEPT !.pc = "subject", !.subject = subject, !.dry_run = dry_run])
        PROVE  SerialInv'
    <2> DEFINE r == [IdleJob EXCEPT !.pc = "subject", !.subject = subject, !.dry_run = dry_run]
    <2>1. /\ r.pc = "subject"
          /\ \A f \in DOMAIN IdleJob \ {"pc", "subject", "dry_run"} : r[f] = IdleJob[f]
      BY DEF IdleJob
    <2> HIDE DEF r
    <2>2. Become(w, r) /\ job'[w] = r
      BY <1>1, <1>2 DEF r, Become
    <2>3. \A u \in Ingester : Answered(u)
      BY <1>1, <2>1, <2>2
    <2>4. Fits(r, db', View(w)', now')
      BY <2>1, BlankFits DEF BlankStages
    <2>5. edits = 0 => StoreFits'
      BY <1>1 DEF SerialInv, StoreFits
    <2>6. QED
      BY <1>1, <2>2, <2>3, <2>4, <2>5, SerialStep
  <1>3. ASSUME NEW code, Refuse(w, code)
        PROVE  SerialInv'
    <2>1. job'[w].pc = "failed"
      BY <1>1, <1>3 DEF Refuse, Become, IdleJob
    <2>2. \A u \in Ingester : Answered(u)
      BY <1>1, <2>1
    <2>3. QED
      BY <1>1, <1>3, <2>2, RefuseSerial
  <1>4. QED
    BY <1>2, <1>3 DEF Receive

-----------------------------------------------------------------------------
(* Planning *)

\* From j to r one more name is noted, and it is what the store d says of it.
Notes(j, d, key, ref, r) ==
    /\ key \in Key /\ ref # None /\ ~ref.created
    /\ ref.existing # None =>
          HasEntity(d, ref.existing) /\ KeyOf[d.entities[ref.existing].name] = key
    /\ r.refs = [j.refs EXCEPT ![key] = ref]

LEMMA RefsGrow ==
    ASSUME NEW j, JobOK(j), NothingCreated(j), NEW d, RefsDistinct(j), RefsFound(j, d),
           NEW key, NEW ref, NEW r, Notes(j, d, key, ref, r)
    PROVE  /\ RefsDistinct(r) /\ RefsFound(r, d) /\ NothingCreated(r)
           /\ \A k \in Key : r.refs[k] = IF k = key THEN ref ELSE j.refs[k]
           /\ (RefsMissing(j, d) /\ (ref.existing = None =>
                  KeyOf[ref.name] = key /\ EntitiesNamed(d, ref.name) = {})) => RefsMissing(r, d)
  <1>1. \A k \in Key : r.refs[k] = IF k = key THEN ref ELSE j.refs[k]
    BY DEF JobOK, Typed, Notes
  <1>2. NothingCreated(r)
    BY <1>1 DEF NothingCreated, Notes
  <1>3. RefsFound(r, d)
    BY <1>1 DEF RefsFound, Found, Notes
  <1>4. RefsDistinct(r)
    BY <1>2, <1>3 DEF RefsDistinct, RefsFound, Found, NothingCreated
  <1>5. (RefsMissing(j, d) /\ (ref.existing = None =>
            KeyOf[ref.name] = key /\ EntitiesNamed(d, ref.name) = {})) => RefsMissing(r, d)
    BY <1>1 DEF RefsMissing, Missing
  <1>6. QED
    BY <1>1, <1>2, <1>3, <1>4, <1>5

\* A planning step that stays with its candidate, or comes to the first one.
LEMMA PlanStaysFit ==
    ASSUME NEW j, JobOK(j), j.pc \in Forming, NEW d, Fits(j, d, d, now),
           NEW r, r.pc \in Forming \ {"planned"},
           r.pc = "extract" => j.pc = "subject", r.pc # "subject",
           r.steps = j.steps, r.edges = j.edges, r.candidates = j.candidates, r.made = j.made,
           r.blind = j.blind, r.reply = j.reply,
           \A k \in Key : j.refs[k] # None /\ j.steps # <<>> => r.refs[k] = j.refs[k],
           RefsDistinct(r), RefsFound(r, d), NamesAreClean => RefsMissing(r, d),
           KnownFits(r, d, now), InHandFits(r, d, now)
    PROVE  Fits(r, d, d, now)
  <1>1. r.pc \notin {"planned", "memories", "done"} \cup Committing \cup Committed
        /\ r.pc \in Linking
    BY DEF Forming, Linking, Planning, Committing, Committed
  <1>2. j.pc \in Linking
    BY DEF Linking
  <1>3. \A n \in DOMAIN j.steps : /\ j.steps[n] \in PlannedStep
                                  /\ j.refs[j.steps[n].subject] # None
    BY DEF JobOK, Typed, PlanOK, StepOK
  <1>4. \A n \in DOMAIN j.steps : r.refs[j.steps[n].subject] = j.refs[j.steps[n].subject]
    BY <1>3 DEF PlannedStep
  <1>5. PlanFits(j, d, now)
    BY DEF Fits
  <1>6. StepsSubject(r)
    BY <1>4, <1>5 DEF PlanFits, StepsSubject
  <1>7. StepsFit(r, d, now)
    BY <1>5 DEF PlanFits, StepsFit
  <1>8. \A edge \in j.edges : r.refs[edge.from] = j.refs[edge.from] /\ r.refs[edge.to] = j.refs[edge.to]
    <2> SUFFICES ASSUME NEW edge \in j.edges
                 PROVE  r.refs[edge.from] = j.refs[edge.from] /\ r.refs[edge.to] = j.refs[edge.to]
      OBVIOUS
    <2>1. PICK n \in DOMAIN j.steps : /\ j.steps[n].subject = edge.from
                                      /\ \E i \in DOMAIN j.steps[n].related : j.steps[n].related[i] = edge.to
      BY DEF JobOK, PlanOK, EdgeOK
    <2>2. PICK i \in DOMAIN j.steps[n].related : j.steps[n].related[i] = edge.to
      BY <2>1
    <2>3. j.refs[edge.from] # None /\ j.refs[edge.to] # None
      BY <2>1, <2>2 DEF JobOK, PlanOK, StepOK
    <2>4. edge.from \in Key /\ edge.to \in Key /\ j.steps # <<>>
      BY <2>1 DEF JobOK, Typed, Edge
    <2>5. QED
      BY <2>3, <2>4
  <1>9. EdgesNew(j, d) => EdgesNew(r, d)
    BY <1>8 DEF EdgesNew, Found
  <1>10. ~r.blind => EdgesNew(r, d)
    BY <1>2, <1>9 DEF Fits
  <1>11. ~r.blind => Counts(r)
    BY <1>1 DEF Fits, Counts
  <1>12. QED
    BY <1>1, <1>6, <1>7, <1>10, <1>11 DEF Fits, PlanFits

\* The same names, noted as before.
LEMMA SameRefsFit ==
    ASSUME NEW j, NEW r, r.refs = j.refs, NEW d
    PROVE  /\ RefsDistinct(j) => RefsDistinct(r)
           /\ RefsFound(j, d) => RefsFound(r, d)
           /\ RefsMissing(j, d) => RefsMissing(r, d)
  BY DEF RefsDistinct, RefsFound, RefsMissing, Found, Missing

\* The entity that is found has the name that was looked for.
LEMMA FoundByName ==
    ASSUME NEW d, NEW name
    PROVE  LET e == FindEntityByName(d, name) IN
           /\ e # None => e \in EntityID /\ HasEntity(d, e) /\ d.entities[e].name = name
           /\ e = None => EntitiesNamed(d, name) = {}
  <1> DEFINE S == EntitiesNamed(d, name)
  <1>1. S \subseteq Nat /\ None \notin S
    BY IDAssumption, NoneAssumption DEF EntitiesNamed
  <1>2. CASE S = {}
    BY <1>2 DEF FindEntityByName
  <1>3. CASE S # {}
    <2>1. \E e \in S : \A other \in S : e <= other
      BY <1>1, <1>3, LeastElement
    <2>2. FindEntityByName(d, name) \in S
      BY <1>3, <2>1 DEF FindEntityByName
    <2>3. QED
      BY <1>1, <2>2 DEF EntitiesNamed
  <1>4. QED
    BY <1>2, <1>3

LEMMA RefsWithFit ==
    ASSUME NEW w \in Ingester, JobOK(job[w]), NEW name \in Name,
           RefsDistinct(job[w]), RefsFound(job[w], db),
           NothingCreated(job[w]),
           NEW r, r.refs = RefsWith(w, name)
    PROVE  /\ RefsDistinct(r) /\ RefsFound(r, db)
           /\ NamesAreClean /\ RefsMissing(job[w], db) => RefsMissing(r, db)
  <1> DEFINE j == job[w]
             key == KeyOf[name]
             ref == [existing |-> FindEntityByName(db, name), name |-> TrimOf[name],
                     created |-> FALSE]
  <1>1. CASE j.refs[key] # None
    <2>1. r.refs = j.refs
      BY <1>1 DEF RefsWith
    <2>2. QED
      BY <2>1, SameRefsFit
  <1>2. CASE j.refs[key] = None
    <2>1. key \in Key /\ TrimOf[name] \in Name
      BY IngestAssumption
    <2>2. ref \in EntityRef /\ ref # None
      <3>1. FindEntityByName(db, name) \in EntityID \cup {None}
        BY FindEntityTyped
      <3>2. ref \in EntityRef
        BY <2>1, <3>1 DEF EntityRef
      <3>3. QED
        BY <3>2, IngestAssumption
    <2>3. r.refs = [j.refs EXCEPT ![key] = ref]
      BY <1>2 DEF RefsWith
    <2>4. ref.existing # None =>
             HasEntity(db, ref.existing) /\ KeyOf[db.entities[ref.existing].name] = key
      BY FoundByName
    <2>5. NamesAreClean /\ ref.existing = None =>
             KeyOf[ref.name] = key /\ EntitiesNamed(db, ref.name) = {}
      BY FoundByName, TrimAssumption DEF NamesAreClean
    <2>6. ~ref.created
      OBVIOUS
    <2> HIDE DEF ref, key
    <2>7. Notes(j, db, key, ref, r)
      BY <2>1, <2>2, <2>3, <2>4, <2>6 DEF Notes
    <2>8. QED
      BY <2>5, <2>7, RefsGrow
  <1>3. QED
    BY <1>1, <1>2

LEMMA ResolveExplicitSubjectSerial ==
    ASSUME IngestInv, AtomicInv, SerialInv, NEW w \in Ingester, ResolveExplicitSubject(w),
           now' = now
    PROVE  SerialInv'
  <1> DEFINE j == job[w]
  <1>1. j.pc = "subject" /\ UNCHANGED <<db, tx, edits>>
    BY DEF ResolveExplicitSubject
  <1>2. j.pc \in Forming /\ j.pc \in Linking
    BY <1>1 DEF Forming, Linking
  <1>3. j.steps = <<>>
    <2>1. Len(j.steps) = 0 /\ j.steps \in Seq(PlannedStep)
      BY <1>1, <1>2, FormingFacts DEF JobOK, Typed, InStep, Planning
    <2>2. QED
      BY <2>1, EmptySeq
  <1>4. ASSUME NEW r, Become(w, r), r.pc = "extract",
               \A f \in DOMAIN IdleJob \ {"pc", "subject_name", "refs"} : r[f] = j[f],
               edits = 0 => /\ RefsDistinct(r) /\ RefsFound(r, db)
                            /\ NamesAreClean => RefsMissing(r, db)
        PROVE  SerialInv'
    <2>1. /\ r.steps = j.steps /\ r.edges = j.edges /\ r.candidates = j.candidates
          /\ r.made = j.made /\ r.blind = j.blind /\ r.reply = j.reply /\ r.known = j.known
      BY <1>4 DEF IdleJob
    <2>2. r.pc \in Forming \ {"planned"} /\ r.pc \notin AboutOne
      BY <1>4 DEF Forming, AboutOne
    <2>3. ASSUME edits = 0
          PROVE  Fits(r, db, db, now)
      <3>1. JobOK(j) /\ Fits(j, db, db, now)
        BY <1>2, <2>3, FormingFacts
      <3>2. KnownFits(r, db, now) /\ InHandFits(r, db, now)
        BY <1>2, <1>4, <2>1, <2>2, <3>1 DEF Fits, PlanFits, KnownFits, InHandFits
      <3>3. QED
        BY <1>1, <1>2, <1>3, <1>4, <2>1, <2>2, <2>3, <3>1, <3>2, PlanStaysFit
    <2>4. QED
      BY <1>1, <1>2, <1>4, <2>3, FormingStep
  <1>5. ASSUME Become(w, [j EXCEPT !.pc = "extract"])
        PROVE  SerialInv'
    <2> DEFINE r == [j EXCEPT !.pc = "extract"]
    <2>1. r.pc = "extract" /\ r.refs = j.refs /\ \A f \in DOMAIN IdleJob \ {"pc"} : r[f] = j[f]
      BY <1>2, FormingFacts DEF IdleJob
    <2> HIDE DEF r
    <2>2. edits = 0 => /\ RefsDistinct(r) /\ RefsFound(r, db)
                       /\ NamesAreClean => RefsMissing(r, db)
      BY <1>2, <2>1, FormingFacts, SameRefsFit, SMTT(30) DEF Fits
    <2>3. QED
      BY <1>4, <1>5, <2>1, <2>2 DEF r
  <1>6. ASSUME j.subject # None, HasEntity(db, j.subject),
               NEW name, name = db.entities[j.subject].name,
               NEW ref, ref = [existing |-> j.subject, name |-> name, created |-> FALSE],
               Become(w, [j EXCEPT !.pc = "extract", !.subject_name = name,
                                   !.refs[KeyOf[name]] = ref])
        PROVE  SerialInv'
    <2> DEFINE r == [j EXCEPT !.pc = "extract", !.subject_name = name, !.refs[KeyOf[name]] = ref]
    <2>1. /\ r.pc = "extract" /\ r.refs = [j.refs EXCEPT ![KeyOf[name]] = ref]
          /\ \A f \in DOMAIN IdleJob \ {"pc", "subject_name", "refs"} : r[f] = j[f]
      BY <1>2, FormingFacts DEF IdleJob
    <2> HIDE DEF r
    <2>2. KeyOf[name] \in Key /\ ref # None
      <3>1. j.subject \in EntityID /\ db \in Database
        BY <1>2, <1>6, FormingFacts, IngestAssumption DEF JobOK, Typed
      <3>2. name \in Name
        BY <1>6, <3>1 DEF Database, HasEntity, EntityRow
      <3>3. ref \in EntityRef
        BY <1>6, <3>1, <3>2 DEF EntityRef
      <3>4. QED
        BY <3>2, <3>3, IngestAssumption
    <2>3. edits = 0 => /\ RefsDistinct(r) /\ RefsFound(r, db)
                       /\ NamesAreClean => RefsMissing(r, db)
      <3>1. ~ref.created /\ ref.existing = j.subject
        BY <1>6, SMTT(30)
      <3>2. Notes(j, db, KeyOf[name], ref, r)
        BY <1>6, <2>1, <2>2, <3>1 DEF Notes
      <3>3. ref.existing # None
        BY <1>6
      <3>4. QED
        BY <1>2, <3>2, <3>3, FormingFacts, RefsGrow DEF Fits
    <2>4. QED
      BY <1>4, <1>6, <2>1, <2>3 DEF r
  <1>7. QED
    BY <1>1, <1>2, <1>5, <1>6, FormingFacts, RefuseSerial DEF ResolveExplicitSubject

LEMMA ExtractSerial ==
    ASSUME IngestInv, AtomicInv, SerialInv, NEW w \in Ingester, Extract(w), now' = now
    PROVE  SerialInv'
  <1> DEFINE j == job[w]
  <1>1. j.pc = "extract" /\ UNCHANGED <<db, tx, edits>>
    BY DEF Extract
  <1>2. j.pc \in Forming /\ j.pc \in Linking
    BY <1>1 DEF Forming, Linking
  <1>3. j.steps = <<>> /\ j.edges = {}
    <2>1. Len(j.steps) = 0 /\ j.steps \in Seq(PlannedStep)
      BY <1>1, <1>2, FormingFacts DEF JobOK, Typed, InStep, Planning
    <2>2. j.steps = <<>>
      BY <2>1, EmptySeq
    <2>3. QED
      BY <1>2, <2>2, FormingFacts DEF JobOK, PlanOK, EdgeOK
  <1>4. ASSUME NEW candidates \in Extractions,
               NEW stage, stage = IF candidates = <<>> THEN "done" ELSE "candidate",
               NEW grounded, grounded = Grounded(candidates, j.subject_name),
               Become(w, [j EXCEPT !.pc = stage, !.candidates = grounded])
        PROVE  SerialInv'
    <2> DEFINE r == [j EXCEPT !.pc = stage, !.candidates = grounded]
    <2>1. /\ r.pc = stage /\ r.candidates = grounded
          /\ r.refs = j.refs /\ r.known = j.known /\ r.steps = j.steps /\ r.edges = j.edges
          /\ r.made = j.made /\ r.reply = j.reply /\ r.blind = j.blind
      BY <1>2, FormingFacts DEF IdleJob
    <2> HIDE DEF r
    <2>2. stage \in {"done", "candidate"}
      BY <1>4
    <2>3. ASSUME edits = 0
          PROVE  Fits(r, db, db, now)
      <3>1. JobOK(j) /\ Fits(j, db, db, now)
        BY <1>2, <2>3, FormingFacts
      <3>2. PlanFits(r, db, now)
        <4>1. KnownFits(r, db, now)
          BY <1>2, <2>1, <3>1 DEF Fits, PlanFits, KnownFits
        <4>2. StepsFit(r, db, now) /\ StepsSubject(r)
          BY <1>3, <2>1 DEF StepsFit, StepsSubject
        <4>3. InHandFits(r, db, now)
          BY <2>1, <2>2 DEF InHandFits, AboutOne
        <4>4. QED
          BY <4>1, <4>2, <4>3 DEF PlanFits
      <3>3. RefsDistinct(r) /\ RefsFound(r, db) /\ (NamesAreClean => RefsMissing(r, db))
        BY <1>2, <2>1, <3>1, SameRefsFit DEF Fits
      <3>4. EdgesNew(r, db)
        BY <1>3, <2>1 DEF EdgesNew
      <3>5. ~r.blind => Counts(r)
        <4>1. MadeKeys(r) = {} /\ r.made = {}
          BY <1>2, <2>1, FormingFacts DEF MadeKeys, NothingCreated
        <4>2. ~j.blind => j.reply = [entities |-> 0, relationships |-> 0]
          BY <1>1, <3>1 DEF Fits, Counts
        <4>3. QED
          BY <2>1, <2>2, <4>1, <4>2, FS_EmptySet DEF Counts, Committing, Committed
      <3>6. QED
        BY <2>1, <2>2, <3>2, <3>3, <3>4, <3>5 DEF Fits, Committing, Committed
    <2>4. QED
      BY <1>1, <1>2, <1>4, <2>3, FormingStep DEF r
  <1>5. QED
    BY <1>1, <1>2, <1>4, FormingFacts, RefuseSerial DEF Extract

\* A step that resolves names for the candidate in hand, whose subject it knows.
LEMMA NamingSerial ==
    ASSUME IngestInv, AtomicInv, SerialInv, NEW w \in Ingester, job[w].pc \in Planning,
           UNCHANGED <<db, tx, edits>>, now' = now, NEW r, Become(w, r),
           r.pc \in {"related", "resolve"},
           \A f \in DOMAIN IdleJob \ {"pc", "subject_key", "related", "refs"} : r[f] = job[w][f],
           \A k \in Key : job[w].refs[k] # None => r.refs[k] = job[w].refs[k],
           edits = 0 => /\ RefsDistinct(r) /\ RefsFound(r, db)
                        /\ NamesAreClean => RefsMissing(r, db)
                        /\ Current(w).subject # None => r.subject_key = KeyOf[Current(w).subject]
    PROVE  SerialInv'
  <1> DEFINE j == job[w]
  <1>1. j.pc \in Forming /\ j.pc \in Linking
    BY DEF Forming, Linking
  <1>2. /\ r.steps = j.steps /\ r.edges = j.edges /\ r.candidates = j.candidates
        /\ r.made = j.made /\ r.blind = j.blind /\ r.reply = j.reply /\ r.known = j.known
        /\ r.next = j.next
    BY DEF IdleJob
  <1>3. r.pc \in Forming \ {"planned"} /\ r.pc \notin {"subject", "extract", "queue"}
    BY DEF Forming, Planning
  <1>4. ASSUME edits = 0
        PROVE  Fits(r, db, db, now)
    <2>1. JobOK(j) /\ Fits(j, db, db, now)
      BY <1>1, <1>4, FormingFacts
    <2>2. KnownFits(r, db, now)
      BY <1>1, <1>2, <2>1 DEF Fits, PlanFits, KnownFits
    <2>3. InHandFits(r, db, now)
      BY <1>2, <1>3, <1>4 DEF InHandFits, Current
    <2>4. QED
      BY <1>1, <1>2, <1>3, <1>4, <2>1, <2>2, <2>3, PlanStaysFit
  <1>5. QED
    BY <1>1, <1>4, FormingStep

\* The facts a step of the planning of one candidate starts from.
LEMMA NamingFacts ==
    ASSUME IngestInv, AtomicInv, SerialInv, NEW w \in Ingester, job[w].pc \in Planning
    PROVE  /\ JobOK(job[w]) /\ DOMAIN job[w] = DOMAIN IdleJob /\ NothingCreated(job[w])
           /\ Current(w) \in Candidate /\ Current(w) = job[w].candidates[job[w].next]
           /\ job[w].pc \in Forming
           /\ edits = 0 => /\ RefsDistinct(job[w]) /\ RefsFound(job[w], db)
                           /\ NamesAreClean => RefsMissing(job[w], db)
                           /\ PlanFits(job[w], db, now)
  <1>1. job[w].pc \in Forming /\ job[w].pc \in Linking
    BY DEF Forming, Linking
  <1>2. QED
    BY <1>1, FormingFacts, CurrentTyped DEF Fits, Current

LEMMA ResolveCandidateSubjectSerial ==
    ASSUME IngestInv, AtomicInv, SerialInv, NEW w \in Ingester, ResolveCandidateSubject(w),
           now' = now
    PROVE  SerialInv'
  <1> DEFINE j == job[w]
             c == Current(w)
  <1>1. j.pc = "candidate" /\ UNCHANGED <<db, tx, edits>>
    BY DEF ResolveCandidateSubject
  <1>2. j.pc \in Planning
    BY <1>1 DEF Planning
  <1>3. ASSUME AboutExplicitSubject(w),
               Become(w, [j EXCEPT !.pc = "related", !.subject_key = KeyOf[j.subject_name],
                                   !.related = <<>>])
        PROVE  SerialInv'
    <2> DEFINE r == [j EXCEPT !.pc = "related", !.subject_key = KeyOf[j.subject_name],
                              !.related = <<>>]
    <2>1. /\ r.pc = "related" /\ r.subject_key = KeyOf[j.subject_name] /\ r.refs = j.refs
          /\ \A f \in DOMAIN IdleJob \ {"pc", "subject_key", "related"} : r[f] = j[f]
      BY <1>2, NamingFacts DEF IdleJob
    <2> HIDE DEF r
    <2>2. c.subject # None => c.subject \in Name /\ KeyOf[j.subject_name] = KeyOf[c.subject]
      BY <1>2, <1>3, NamingFacts, TrimAssumption DEF AboutExplicitSubject, Candidate
    <2>3. Become(w, r)
      BY <1>3 DEF r
    <2>4. edits = 0 => /\ RefsDistinct(r) /\ RefsFound(r, db)
                       /\ NamesAreClean => RefsMissing(r, db)
      BY <1>2, <2>1, NamingFacts, SameRefsFit
    <2>5. QED
      BY <1>1, <1>2, <2>1, <2>2, <2>3, <2>4, NamingSerial
  <1>4. ASSUME c.subject # None,
               Become(w, [j EXCEPT !.pc = "related", !.subject_key = KeyOf[c.subject],
                                   !.related = <<>>, !.refs = RefsWith(w, c.subject)])
        PROVE  SerialInv'
    <2> DEFINE r == [j EXCEPT !.pc = "related", !.subject_key = KeyOf[c.subject],
                              !.related = <<>>, !.refs = RefsWith(w, c.subject)]
    <2>1. /\ r.pc = "related" /\ r.subject_key = KeyOf[c.subject] /\ r.refs = RefsWith(w, c.subject)
          /\ \A f \in DOMAIN IdleJob \ {"pc", "subject_key", "related", "refs"} : r[f] = j[f]
      BY <1>2, NamingFacts DEF IdleJob
    <2> HIDE DEF r
    <2>2. c.subject \in Name /\ JobOK(j) /\ NothingCreated(j)
      BY <1>2, <1>4, NamingFacts DEF Candidate
    <2>3. Become(w, r)
      BY <1>4 DEF r
    <2>4. edits = 0 => /\ RefsDistinct(r) /\ RefsFound(r, db)
                       /\ NamesAreClean => RefsMissing(r, db)
      BY <1>2, <2>1, <2>2, NamingFacts, RefsWithFit
    <2>5. \A k \in Key : j.refs[k] # None => r.refs[k] = j.refs[k]
      BY <2>1, <2>2, RefsWithExtends
    <2>6. QED
      BY <1>1, <1>2, <2>1, <2>3, <2>4, <2>5, NamingSerial
  <1>5. ASSUME NEW code, Refuse(w, code)
        PROVE  SerialInv'
    BY <1>1, <1>2, <1>5, NamingFacts, FormingFacts, RefuseSerial
  <1>6. QED
    BY <1>3, <1>4, <1>5, ZenonT(30) DEF ResolveCandidateSubject

LEMMA ResolveRelatedEntitySerial ==
    ASSUME IngestInv, AtomicInv, SerialInv, NEW w \in Ingester, ResolveRelatedEntity(w), now' = now
    PROVE  SerialInv'
  <1> DEFINE j == job[w]
             names == Current(w).related
             at == Len(j.related) + 1
  <1>1. j.pc = "related" /\ UNCHANGED <<db, tx, edits>>
    BY DEF ResolveRelatedEntity
  <1>2. j.pc \in Planning /\ j.pc \in AboutOne
    BY <1>1 DEF Planning, AboutOne
  <1>3. edits = 0 /\ Current(w).subject # None => j.subject_key = KeyOf[Current(w).subject]
    BY <1>2, NamingFacts DEF PlanFits, InHandFits
  <1>4. ASSUME Become(w, [j EXCEPT !.pc = "resolve"])
        PROVE  SerialInv'
    <2> DEFINE r == [j EXCEPT !.pc = "resolve"]
    <2>1. /\ r.pc = "resolve" /\ r.subject_key = j.subject_key /\ r.refs = j.refs
          /\ \A f \in DOMAIN IdleJob \ {"pc"} : r[f] = j[f]
      BY <1>2, NamingFacts DEF IdleJob
    <2> HIDE DEF r
    <2>2. Become(w, r)
      BY <1>4 DEF r
    <2>3. edits = 0 => /\ RefsDistinct(r) /\ RefsFound(r, db)
                       /\ NamesAreClean => RefsMissing(r, db)
      BY <1>2, <2>1, NamingFacts, SameRefsFit
    <2>4. QED
      BY <1>1, <1>2, <1>3, <2>1, <2>2, <2>3, NamingSerial
  <1>5. ASSUME at <= Len(names),
               Become(w, [j EXCEPT !.related = Append(@, KeyOf[names[at]]),
                                   !.refs = RefsWith(w, names[at])])
        PROVE  SerialInv'
    <2> DEFINE name == names[at]
               r == [j EXCEPT !.related = Append(@, KeyOf[name]), !.refs = RefsWith(w, name)]
    <2>1. name \in Name /\ JobOK(j) /\ NothingCreated(j)
      <3>1. names \in Seq(Name) /\ at \in Nat \ {0} /\ JobOK(j) /\ NothingCreated(j)
        <4>1. Current(w) \in Candidate /\ JobOK(j) /\ NothingCreated(j)
          BY <1>2, NamingFacts
        <4>2. QED
          BY <4>1 DEF Candidate, JobOK, Typed
      <3>2. QED
        BY <1>5, <3>1
    <2> HIDE DEF name
    <2>2. /\ r.pc = "related" /\ r.subject_key = j.subject_key /\ r.refs = RefsWith(w, name)
          /\ \A f \in DOMAIN IdleJob \ {"related", "refs"} : r[f] = j[f]
      BY <1>1, <1>2, NamingFacts DEF IdleJob
    <2>3. Become(w, r)
      BY <1>5 DEF name
    <2> HIDE DEF r
    <2>4. edits = 0 => /\ RefsDistinct(r) /\ RefsFound(r, db)
                       /\ NamesAreClean => RefsMissing(r, db)
      BY <1>2, <2>1, <2>2, NamingFacts, RefsWithFit
    <2>5. \A k \in Key : j.refs[k] # None => r.refs[k] = j.refs[k]
      BY <2>1, <2>2, RefsWithExtends
    <2>6. QED
      BY <1>1, <1>2, <1>3, <2>2, <2>3, <2>4, <2>5, NamingSerial
  <1>6. QED
    BY <1>4, <1>5 DEF ResolveRelatedEntity

\* No stored memory of the list scores higher than the best one.
LEMMA BestIsBest ==
    ASSUME NEW c \in Candidate, NEW memories \in SUBSET Fact, memories # {}
    PROVE  /\ BestScore(c, memories) \in Nat
           /\ \A m \in memories : /\ Score[c.content, m.content] \in Nat
                                 /\ Score[c.content, m.content] <= BestScore(c, memories)
  <1> DEFINE score(m) == Score[c.content, m.content]
             S == {score(m) : m \in memories}
  <1>1. \A m \in memories : score(m) \in 0..100
    <2>1. c.content \in Content /\ \A m \in memories : m.content \in Content
      BY DEF Candidate, Fact
    <2>2. QED
      BY <2>1, ResolutionAssumption
  <1>2. BestScore(c, memories) = CHOOSE best \in S : \A m \in memories : score(m) <= best
    BY DEF BestScore
  <1> HIDE DEF score
  <1>3. S \subseteq Nat /\ S # {} /\ \A n \in S : n <= 100
    BY <1>1
  <1>4. \E best \in S : \A n \in S : n <= best
    BY <1>3, GreatestElement
  <1>5. \E best \in S : \A m \in memories : score(m) <= best
    BY <1>4
  <1>6. BestScore(c, memories) \in S /\ \A m \in memories : score(m) <= BestScore(c, memories)
    BY <1>2, <1>5
  <1>7. QED
    BY <1>1, <1>3, <1>6 DEF score

LEMMA ThresholdIsNat == Threshold \in Nat
  <1>1. Threshold \in 1..100
    BY ResolutionAssumption
  <1>2. QED
    BY <1>1

\* A list just loaded is what it is in the store.
LEMMA LoadedRecalls ==
    ASSUME NEW d, NEW t, NEW entity, NEW category
    PROVE  Recalls(MemoryFacts(d, ActiveMemories(d, entity, category, t)), d, t, entity, category)
  <1> DEFINE alive == ActiveMemories(d, entity, category, t)
             memories == MemoryFacts(d, alive)
  <1>1. \A m \in alive : Stored(d, m, entity, category)
    BY DEF ActiveMemories, Stored
  <1> HIDE DEF alive
  <1>2. ASSUME NEW m \in alive
        PROVE  \E f \in memories : f.id = m
    <2> DEFINE f == [id |-> m, content |-> d.memories[m].content,
                     confidence |-> d.memories[m].confidence]
    <2>1. f \in memories
      BY DEF MemoryFacts
    <2>2. QED
      BY <2>1
  <1>3. \A f \in memories : f.id \in alive /\ f.content = d.memories[f.id].content
    BY DEF MemoryFacts
  <1> HIDE DEF memories
  <1>4. Recalls(memories, d, t, entity, category)
    BY <1>1, <1>2, <1>3 DEF Recalls, alive
  <1>5. QED
    BY <1>4 DEF memories, alive

\* The decision resolution takes from a list that recalls the memories of d is
\* right for them.
LEMMA DecisionIsRight ==
    ASSUME NEW d, NEW t, NEW entity, NEW c \in Candidate, NEW memories \in SUBSET Fact,
           Recalls(memories, d, t, entity, c.category),
           NEW decision \in MemoryActions(c, memories)
    PROVE  DecisionFits(d, t, entity, c, decision.action, decision.target)
  <1> DEFINE alive == ActiveMemories(d, entity, c.category, t)
  <1>1. /\ \A m \in alive : \E f \in memories : f.id = m /\ f.content = d.memories[m].content
        /\ \A f \in memories : /\ Stored(d, f.id, entity, c.category)
                               /\ f.content = d.memories[f.id].content
    BY DEF Recalls
  <1> HIDE DEF alive
  <1>2. CASE memories = {}
    <2>1. decision.action = "create" /\ alive = {}
      BY <1>1, <1>2 DEF MemoryActions
    <2>2. QED
      BY <2>1 DEF DecisionFits, alive
  <1>3. CASE memories # {}
    <2>1. \A f \in memories : Score[c.content, f.content] <= BestScore(c, memories)
      BY <1>3, BestIsBest
    <2>2. CASE decision = [action |-> "create", target |-> None] /\ BestScore(c, memories) < Threshold
      <3>1. \A f \in memories : Score[c.content, f.content] < Threshold
        <4>1. ASSUME NEW f \in memories, NEW score, score = Score[c.content, f.content]
              PROVE  score < Threshold
          <5>1. /\ score \in Nat /\ score <= BestScore(c, memories)
                /\ BestScore(c, memories) \in Nat
            BY <1>3, <4>1, BestIsBest
          <5>2. QED
            BY <2>2, <5>1, ThresholdIsNat
        <4>2. QED
          BY <4>1
      <3>2. QED
        BY <1>1, <2>2, <3>1 DEF DecisionFits, alive
    <2>3. ASSUME NEW m \in BestMatches(c, memories),
                 decision = [action |-> SimilarAction(c, m), target |-> m.id]
          PROVE  DecisionFits(d, t, entity, c, decision.action, decision.target)
      <3>1. m \in memories /\ Score[c.content, m.content] = BestScore(c, memories)
        BY DEF BestMatches
      <3>2. decision.action # "create" /\ decision.target = m.id
        BY <2>3 DEF SimilarAction
      <3>3. \A x \in alive : Score[c.content, d.memories[x].content]
                               <= Score[c.content, d.memories[m.id].content]
        BY <1>1, <2>1, <3>1
      <3>4. QED
        BY <1>1, <3>1, <3>2, <3>3 DEF DecisionFits, alive
    <2>4. QED
      BY <1>3, <2>2, <2>3, Zenon DEF MemoryActions
  <1>4. QED
    BY <1>2, <1>3

LEMMA ResolveMemorySerial ==
    ASSUME IngestInv, AtomicInv, SerialInv, NEW w \in Ingester, ResolveMemory(w), now' = now
    PROVE  SerialInv'
  <1> DEFINE j == job[w]
             c == Current(w)
             entity == j.refs[j.subject_key].existing
             cached == CachedFor(w, entity, c.category)
             loaded == MemoryFacts(db, ActiveMemories(db, entity, c.category, now))
  <1>1. j.pc = "resolve" /\ UNCHANGED <<db, tx, edits>>
    BY DEF ResolveMemory
  <1>2. j.pc \in Planning /\ j.pc \in AboutOne /\ j.pc \in Linking
    BY <1>1 DEF Planning, AboutOne, Linking, Forming
  <1>3. c \in Candidate /\ db \in Database /\ j.pc \in Forming
    BY <1>2, NamingFacts, FormingFacts
  <1>4. ASSUME NEW decision, NEW known,
               edits = 0 => DecisionFits(db, now, entity, c, decision.action, decision.target),
               edits = 0 => \A entry \in known :
                  Recalls(entry.memories, db, now, entry.entity, entry.category),
               Become(w, [j EXCEPT !.pc = "queue", !.decision = decision, !.known = known])
        PROVE  SerialInv'
    <2> DEFINE r == [j EXCEPT !.pc = "queue", !.decision = decision, !.known = known]
    <2>1. /\ r.pc = "queue" /\ r.decision = decision /\ r.known = known
          /\ \A f \in DOMAIN IdleJob \ {"pc", "decision", "known"} : r[f] = j[f]
      BY <1>2, NamingFacts DEF IdleJob
    <2> HIDE DEF r
    <2>2. /\ r.steps = j.steps /\ r.edges = j.edges /\ r.candidates = j.candidates
          /\ r.made = j.made /\ r.blind = j.blind /\ r.reply = j.reply /\ r.refs = j.refs
          /\ r.next = j.next /\ r.subject_key = j.subject_key
      BY <2>1 DEF IdleJob
    <2>3. r.pc \in Forming \ {"planned"}
      BY <2>1 DEF Forming, Planning
    <2>4. ASSUME edits = 0
          PROVE  Fits(r, db, db, now)
      <3>1. /\ JobOK(j) /\ Fits(j, db, db, now) /\ PlanFits(j, db, now)
            /\ RefsDistinct(r) /\ RefsFound(r, db) /\ (NamesAreClean => RefsMissing(r, db))
        BY <1>2, <1>3, <2>2, <2>4, NamingFacts, FormingFacts, SameRefsFit
      <3>2. KnownFits(r, db, now)
        BY <1>4, <2>1, <2>4, SMTT(30) DEF KnownFits
      <3>3. InHandFits(r, db, now)
        BY <1>2, <1>4, <2>1, <2>2, <2>4, <3>1, NamingFacts DEF PlanFits, InHandFits
      <3>4. QED
        BY <1>3, <2>1, <2>2, <2>3, <3>1, <3>2, <3>3, PlanStaysFit
    <2>5. QED
      BY <1>1, <1>3, <1>4, <2>4, FormingStep DEF r
  <1>5. edits = 0 => \A entry \in j.known :
           Recalls(entry.memories, db, now, entry.entity, entry.category)
    BY <1>2, NamingFacts DEF PlanFits, KnownFits
  <1>6. ASSUME NEW memories \in SUBSET Fact, NEW known,
               edits = 0 => Recalls(memories, db, now, entity, c.category),
               edits = 0 => \A entry \in known :
                  Recalls(entry.memories, db, now, entry.entity, entry.category),
               Resolve(w, memories, known)
        PROVE  SerialInv'
    <2>1. PICK decision \in MemoryActions(c, memories) :
             Become(w, [j EXCEPT !.pc = "queue", !.decision = decision, !.known = known])
      BY <1>6 DEF Resolve
    <2>2. edits = 0 => DecisionFits(db, now, entity, c, decision.action, decision.target)
      BY <1>3, <1>6, <2>1, DecisionIsRight
    <2>3. QED
      BY <1>4, <1>6, <2>1, <2>2
  <1>7. ASSUME Become(w, [j EXCEPT !.pc = "queue",
                                   !.decision = [action |-> "merge", target |-> None]])
        PROVE  SerialInv'
    <2> DEFINE decision == [action |-> "merge", target |-> None]
    <2>1. [j EXCEPT !.pc = "queue", !.decision = decision]
            = [j EXCEPT !.pc = "queue", !.decision = decision, !.known = j.known]
      BY <1>2, NamingFacts DEF IdleJob
    <2>2. DecisionFits(db, now, entity, c, decision.action, decision.target)
      BY DEF DecisionFits
    <2>3. QED
      BY <1>4, <1>5, <1>7, <2>1, <2>2
  <1>8. ASSUME entity = None, Resolve(w, {}, j.known)
        PROVE  SerialInv'
    <2>1. \A m \in MemoryID : HasMemory(db, m) => db.memories[m].entity_id # None
      BY <1>3, NoneAssumption DEF Database, HasMemory, MemoryRow
    <2>2. ActiveMemories(db, entity, c.category, now) = {}
      BY <1>8, <2>1 DEF ActiveMemories
    <2>3. Recalls({}, db, now, entity, c.category)
      BY <2>2 DEF Recalls
    <2>4. QED
      BY <1>5, <1>6, <1>8, <2>3
  <1>9. ASSUME NEW entry \in cached, Resolve(w, entry.memories, j.known)
        PROVE  SerialInv'
    <2>1. entry \in j.known /\ entry.entity = entity /\ entry.category = c.category
      BY <1>9 DEF CachedFor
    <2>2. edits = 0 => Recalls(entry.memories, db, now, entity, c.category)
      BY <1>5, <2>1
    <2>3. entry.memories \in SUBSET Fact
      <3>1. JobOK(j)
        BY <1>2, NamingFacts
      <3>2. entry \in KnownList
        BY <2>1, <3>1 DEF JobOK, Typed
      <3>3. QED
        BY <3>2 DEF KnownList
    <2>4. QED
      BY <1>5, <1>6, <1>9, <2>2, <2>3
  <1>10. ASSUME Resolve(w, loaded, j.known \cup {[entity |-> entity, category |-> c.category,
                                                  memories |-> loaded]})
         PROVE  SerialInv'
    <2> DEFINE known == j.known \cup {[entity |-> entity, category |-> c.category,
                                       memories |-> loaded]}
    <2>1. Recalls(loaded, db, now, entity, c.category)
      BY LoadedRecalls
    <2>2. loaded \in SUBSET Fact
      BY <1>3, FormingFacts, MemoryFactsShelved
    <2>3. edits = 0 => \A entry \in known :
             Recalls(entry.memories, db, now, entry.entity, entry.category)
      <3> HIDE DEF loaded
      <3>1. QED
        BY <1>5, <2>1
    <2> HIDE DEF known, loaded
    <2>4. QED
      BY <1>6, <1>10, <2>1, <2>2, <2>3 DEF known, loaded
  <1>11. QED
    BY <1>7, <1>8, <1>9, <1>10, ZenonT(60) DEF ResolveMemory

LEMMA PlanningFailsSerial ==
    ASSUME IngestInv, AtomicInv, SerialInv, NEW w \in Ingester, PlanningFails(w)
    PROVE  SerialInv'
  <1>1. job[w].pc \in Forming
    BY DEF PlanningFails, Forming, Planning
  <1>2. QED
    BY <1>1, FormingFacts, RefuseSerial DEF PlanningFails

\* An edge is queued only if the store was asked and does not have it.
LEMMA NewEdgesNew ==
    ASSUME NEW w \in Ingester, NEW failing \in SUBSET RelatedKeys(w),
           \A to \in failing : ~AlreadyStored(w, to, RelationshipType(Current(w))),
           NEW edge \in NewEdges(w, failing)
    PROVE  /\ edge.from = job[w].subject_key
           /\ ~AlreadyStored(w, edge.to, edge.type)
  <1> DEFINE j == job[w]
             type == RelationshipType(Current(w))
             ends == {to \in RelatedKeys(w) : to \in failing \/ ~AlreadyStored(w, to, type)}
  <1>1. NewEdges(w, failing) = IF type = None THEN {}
                                 ELSE {[from |-> j.subject_key, to |-> to, type |-> type] : to \in ends}
    BY DEF NewEdges
  <1>2. PICK to \in ends : edge = [from |-> j.subject_key, to |-> to, type |-> type]
    <2> HIDE DEF ends, type
    <2>1. QED
      BY <1>1
  <1>3. ~AlreadyStored(w, to, type)
    OBVIOUS
  <1>4. edge.from = j.subject_key /\ edge.to = to /\ edge.type = type
    BY <1>2
  <1>5. QED
    BY <1>3, <1>4

LEMMA QueueRelationshipsSerial ==
    ASSUME IngestInv, AtomicInv, SerialInv, NEW w \in Ingester, QueueRelationships(w), now' = now
    PROVE  SerialInv'
  <1> DEFINE j == job[w]
             c == Current(w)
             step == [subject |-> j.subject_key, existing |-> j.refs[j.subject_key].existing,
                      related |-> j.related, action |-> j.decision.action,
                      target |-> j.decision.target, memory |-> None]
             last == j.next = Len(j.candidates)
             place == Len(j.steps) + 1
             hidden == {to \in RelatedKeys(w) :
                           AlreadyStored(w, to, RelationshipType(Current(w)))}
             planned(edges, failing) ==
                 [j EXCEPT !.steps = Append(@, step),
                     !.edges = edges,
                     !.reply = IF last THEN Counted(w, edges) ELSE @,
                     !.blind = @ \/ failing \cap hidden # {},
                     !.decision = None,
                     !.next = IF last THEN 1 ELSE @ + 1,
                     !.pc = IF ~last THEN "candidate"
                            ELSE IF j.dry_run THEN "done" ELSE "planned"]
  <1>1. j.pc = "queue" /\ UNCHANGED <<db, tx, edits>>
    BY DEF QueueRelationships
  <1>2. j.pc \in Planning /\ j.pc \in Forming /\ j.pc \in AboutOne /\ j.pc \in Linking
    BY <1>1, SMTT(30) DEF Planning, Forming, AboutOne, Linking
  <1>3. PICK failing \in SUBSET RelatedKeys(w) :
           Become(w, planned(j.edges \cup NewEdges(w, failing), failing))
    BY DEF QueueRelationships
  <1> DEFINE new == NewEdges(w, failing)
             r == planned(j.edges \cup new, failing)
  <1>4. JobOK(j) /\ DOMAIN j = DOMAIN IdleJob /\ NothingCreated(j) /\ j.made = {}
    BY <1>2, NamingFacts, FormingFacts
  <1>5. /\ r.steps = Append(j.steps, step)
        /\ r.edges = j.edges \cup new
        /\ r.reply = IF last THEN Counted(w, j.edges \cup new) ELSE j.reply
        /\ r.pc = IF ~last THEN "candidate" ELSE IF j.dry_run THEN "done" ELSE "planned"
        /\ r.candidates = j.candidates /\ r.refs = j.refs /\ r.known = j.known /\ r.made = j.made
        /\ r.dry_run = j.dry_run
    BY <1>4 DEF IdleJob
  <1>6. r.blind = (j.blind \/ (failing \cap hidden # {}))
    BY <1>4 DEF IdleJob
  <1>7. Become(w, r)
    BY <1>3
  <1> HIDE DEF r, new
  <1>8. /\ DOMAIN r.steps = DOMAIN j.steps \cup {place}
        /\ place = j.next /\ r.steps[place] = step
        /\ \A n \in DOMAIN j.steps : n # place /\ r.steps[n] = j.steps[n]
    <2> DEFINE before == j.steps
               after == r.steps
    <2>1. before \in Seq(PlannedStep)
      BY <1>2, <1>4 DEF JobOK, Typed
    <2>2. step \in PlannedStep
      BY <1>1, <1>2, <1>4 DEF JobOK, Typed, InHand, EntityRef, Decision, PlannedStep
    <2>3. after = Append(before, step)
      BY <1>5
    <2>4. place = Len(before) + 1 /\ place = j.next
      <3>1. j.next \in Nat /\ Len(j.steps) \in Nat
        BY <1>2, <1>4 DEF JobOK, Typed
      <3>2. Len(j.steps) = j.next - 1
        BY <1>2, <1>4 DEF JobOK, InStep
      <3>3. QED
        BY <3>1, <3>2
    <2> HIDE DEF step, place, before, after
    <2>5. /\ DOMAIN after = DOMAIN before \cup {Len(before) + 1}
          /\ after[Len(before) + 1] = step
          /\ \A n \in DOMAIN before : n # Len(before) + 1 /\ after[n] = before[n]
      BY <2>1, <2>2, <2>3, AppendToSeq
    <2>6. QED
      BY <2>4, <2>5 DEF before, after
  <1>9. ASSUME edits = 0
        PROVE  Fits(r, db, db, now)
    <2>1. Fits(j, db, db, now) /\ PlanFits(j, db, now)
      BY <1>2, <1>9, NamingFacts, FormingFacts
    <2>2. RefsDistinct(r) /\ RefsFound(r, db) /\ (NamesAreClean => RefsMissing(r, db))
      BY <1>2, <1>5, <2>1, SameRefsFit DEF Fits
    <2>3. PlanFits(r, db, now)
      <3>1. KnownFits(r, db, now)
        BY <1>5, <2>1 DEF PlanFits, KnownFits
      <3>2. StepsFit(r, db, now)
        <4>1. DecisionFits(db, now, step.existing, r.candidates[place], step.action, step.target)
          BY <1>1, <1>5, <1>8, <2>1, SMTT(30) DEF PlanFits, InHandFits
        <4> HIDE DEF step, place
        <4>2. QED
          BY <1>5, <1>8, <2>1, <4>1, SMTT(30) DEF PlanFits, StepsFit
      <3>3. StepsSubject(r)
        <4>1. /\ r.candidates[place].subject # None =>
                    step.subject = KeyOf[r.candidates[place].subject]
              /\ step.existing # None => r.refs[step.subject].existing = step.existing
          BY <1>1, <1>2, <1>5, <1>8, <2>1 DEF PlanFits, InHandFits
        <4> HIDE DEF step, place
        <4>2. QED
          BY <1>5, <1>8, <2>1, <4>1, SMTT(30) DEF PlanFits, StepsSubject
      <3>4. InHandFits(r, db, now)
        BY <1>5 DEF InHandFits, AboutOne
      <3>5. QED
        BY <1>5, <2>1, <3>1, <3>2, <3>3, <3>4 DEF PlanFits
    <2>4. ~r.blind => EdgesNew(r, db)
      <3> SUFFICES ASSUME ~r.blind, NEW edge \in r.edges,
                          Found(r, edge.from), Found(r, edge.to)
                   PROVE  ~RelationshipExists(db, r.refs[edge.from].existing,
                                              r.refs[edge.to].existing, edge.type)
        BY DEF EdgesNew
      <3>1. ~j.blind /\ failing \cap hidden = {}
        BY <1>6
      <3>2. CASE edge \in j.edges
        <4>1. EdgesNew(j, db)
          BY <1>2, <2>1, <3>1 DEF Fits
        <4>2. QED
          BY <1>5, <3>2, <4>1 DEF EdgesNew, Found
      <3>3. CASE edge \in new
        <4>1. edge.from = j.subject_key /\ ~AlreadyStored(w, edge.to, edge.type)
          BY <3>1, <3>3, NewEdgesNew DEF new
        <4>2. QED
          BY <1>5, <4>1 DEF AlreadyStored, Found
      <3>4. QED
        BY <1>5, <3>2, <3>3
    <2>5. Counts(r)
      <3>1. CASE last /\ ~j.dry_run
        <4>1. NewKeys(r) = PendingKeys(w)
          BY <1>4, <1>5 DEF NewKeys, PendingKeys, NothingCreated
        <4>2. r.edges \cup r.made = j.edges \cup new
          BY <1>4, <1>5
        <4>3. CountsNew(r) /\ r.pc = "planned"
          BY <1>5, <3>1, <4>1, <4>2 DEF CountsNew, Counted
        <4>4. QED
          BY <4>3 DEF Counts
      <3>2. CASE last /\ j.dry_run
        BY <1>5, <3>2 DEF Counts, Committing, Committed
      <3>3. CASE ~last
        BY <1>5, <3>3 DEF Counts, Committing, Committed
      <3>4. QED
        BY <3>1, <3>2, <3>3
    <2>6. r.pc \in {"candidate", "done", "planned"}
      BY <1>5
    <2>7. QED
      BY <2>2, <2>3, <2>4, <2>5, <2>6 DEF Fits, Committing, Committed
  <1>10. QED
    BY <1>1, <1>2, <1>7, <1>9, FormingStep

-----------------------------------------------------------------------------
(* The transaction *)

\* The facts a step of the commit phase starts from.
LEMMA LinkingFacts ==
    ASSUME IngestInv, AtomicInv, SerialInv, NEW w \in Ingester, job[w].pc \in Committing
    PROVE  /\ JobOK(job[w]) /\ Orderly(job[w]) /\ DOMAIN job[w] = DOMAIN IdleJob
           /\ job = [v \in Ingester |-> job[v]]
           /\ \A v \in Ingester \ {w} : Answered(v)
           /\ View(w) = tx.work /\ tx.work \in Database /\ Good(tx.work)
           /\ edits = 0 => StoreFits /\ Fits(job[w], db, tx.work, now)
  <1>1. job[w].pc \notin Resting
    BY DEF Resting, Committing
  <1>2. JobOK(job[w]) /\ View(w) = tx.work /\ tx.work \in Database /\ Good(tx.work)
    BY CommitFacts
  <1>3. QED
    BY <1>1, <1>2, OthersRest DEF IngestInv, AtomicInv, SerialInv, JobOK, Typed

\* A step of the transaction, which leaves d for its owner to see.
LEMMA LinkingStep ==
    ASSUME IngestInv, AtomicInv, SerialInv, NEW w \in Ingester, job[w].pc \in Committing,
           db' = db, edits' = edits, now' = now, NEW r, Become(w, r), NEW d, View(w)' = d,
           edits = 0 => Fits(r, db, d, now)
    PROVE  SerialInv'
  <1>1. StoreFits => StoreFits'
    BY DEF StoreFits
  <1>2. QED
    BY <1>1, LinkingFacts, SerialStep

\* A plan stays right when its names are given entities and its steps are taken.
LEMMA PlanStillFits ==
    ASSUME NEW j, JobOK(j), NEW d, PlanFits(j, d, now),
           NEW r, r.known = j.known, r.candidates = j.candidates, r.pc \notin AboutOne,
           DOMAIN r.steps = DOMAIN j.steps,
           \A n \in DOMAIN j.steps : /\ r.steps[n].action = j.steps[n].action
                                     /\ r.steps[n].subject = j.steps[n].subject
                                     /\ r.steps[n].existing = j.steps[n].existing
                                     /\ r.steps[n].target = j.steps[n].target,
           \A k \in Key : Found(j, k) => r.refs[k].existing = j.refs[k].existing
    PROVE  PlanFits(r, d, now)
  <1>1. KnownFits(r, d, now) /\ StepsFit(r, d, now)
    BY DEF PlanFits, KnownFits, StepsFit
  <1>2. InHandFits(r, d, now)
    BY DEF InHandFits, AboutOne
  <1>3. ASSUME NEW n \in DOMAIN r.steps
        PROVE  /\ r.candidates[n].subject # None =>
                     r.steps[n].subject = KeyOf[r.candidates[n].subject]
               /\ r.steps[n].existing # None =>
                     r.refs[r.steps[n].subject].existing = r.steps[n].existing
    <2>1. j.steps[n].subject \in Key /\ j.refs[j.steps[n].subject] # None
      <3>1. j.steps[n] \in PlannedStep /\ StepOK(j, j.steps[n])
        BY DEF JobOK, Typed, PlanOK
      <3>2. QED
        BY <3>1 DEF PlannedStep, StepOK
    <2>2. /\ j.candidates[n].subject # None => j.steps[n].subject = KeyOf[j.candidates[n].subject]
          /\ j.steps[n].existing # None =>
                j.refs[j.steps[n].subject].existing = j.steps[n].existing
      BY DEF PlanFits, StepsSubject
    <2>3. QED
      BY <2>1, <2>2 DEF Found
  <1>4. QED
    BY <1>1, <1>2, <1>3 DEF PlanFits, StepsSubject

\* The answer counts the same after a step that changes only the stage.
LEMMA SameCounts ==
    ASSUME NEW j, NEW r, r.refs = j.refs, r.edges = j.edges, r.made = j.made, r.reply = j.reply,
           CountsNew(j)
    PROVE  CountsNew(r)
  BY DEF CountsNew, NewKeys

LEMMA BeginIngestTxSerial ==
    ASSUME IngestInv, AtomicInv, SerialInv, NEW w \in Ingester, BeginIngestTx(w), now' = now
    PROVE  SerialInv'
  <1> DEFINE j == job[w]
             r == [j EXCEPT !.pc = "entities"]
  <1>1. /\ j.pc = "planned" /\ edits' = edits /\ db' = db /\ Become(w, r)
        /\ tx' = [owner |-> w, work |-> db, base |-> db]
    BY DEF BeginIngestTx, BeginTx
  <1>2. j.pc \in Forming /\ j.pc \in Linking
    BY <1>1 DEF Forming, Linking
  <1>3. View(w)' = db
    <2>1. w # None /\ tx' # None
      <3>1. w \in Request /\ db \in Database
        BY <1>2, FormingFacts, IngestAssumption
      <3>2. tx' \in Transaction
        BY <1>1, <3>1 DEF Transaction
      <3>3. QED
        BY <3>1, <3>2, RequestAssumption, TransactionAssumption
    <2>2. QED
      BY <1>1, <2>1 DEF View, Owns
  <1>4. /\ r.pc = "entities" /\ r.refs = j.refs /\ r.edges = j.edges /\ r.made = j.made
        /\ r.reply = j.reply /\ r.blind = j.blind /\ r.known = j.known
        /\ r.candidates = j.candidates /\ r.steps = j.steps
    BY <1>2, FormingFacts DEF IdleJob
  <1> HIDE DEF r
  <1>5. ASSUME edits = 0
        PROVE  Fits(r, db, db, now)
    <2>1. JobOK(j) /\ Fits(j, db, db, now) /\ StoreFits
      BY <1>2, <1>5, FormingFacts
    <2>2. r.pc \notin AboutOne
      BY <1>4 DEF AboutOne
    <2>3. PlanFits(r, db, now)
      BY <1>2, <1>4, <2>1, <2>2, PlanStillFits DEF Fits
    <2>4. RefsDistinct(r) /\ RefsFound(r, db) /\ (NamesAreClean => RefsMissing(r, db))
      BY <1>2, <1>4, <2>1, SameRefsFit DEF Fits
    <2>5. ~r.blind => EdgesNew(r, db)
      BY <1>2, <1>4, <2>1 DEF Fits, EdgesNew, Found
    <2>6. ~r.blind => CountsNew(r)
      BY <1>1, <1>4, <2>1, SameCounts DEF Fits, Counts
    <2>7. ~r.blind => Counts(r)
      BY <1>4, <2>6 DEF Counts
    <2>8. QED
      BY <1>4, <2>1, <2>3, <2>4, <2>5, <2>7 DEF Fits, StoreFits, Committed
  <1>6. edits = 0 => StoreFits'
    BY <1>1 DEF SerialInv, StoreFits
  <1>7. QED
    BY <1>1, <1>2, <1>3, <1>5, <1>6, FormingFacts, SerialStep

\* The row of a new entity is like no other: the plan's other entities, its
\* edges and the other names see what they saw before.
LEMMA EntityMade ==
    ASSUME NEW j, JobOK(j), NEW d \in Database, Good(d), NextEntity(d) \in EntityID,
           RefsDistinct(j), RefsFound(j, d), NEW k \in Key, Missing(j, k),
           NEW ref, ref = [existing |-> NextEntity(d), name |-> j.refs[k].name, created |-> TRUE],
           NEW r, r.refs = [j.refs EXCEPT ![k] = ref], r.edges = j.edges, r.made = j.made,
           NEW row, row = [name |-> j.refs[k].name, external_id |-> None],
           NEW d2, d2 = InsertEntity(d, row)
    PROVE  /\ RefsDistinct(r) /\ RefsFound(r, d2)
           /\ EdgesNew(j, d) => EdgesNew(r, d2)
           /\ RefsMissing(j, d) => RefsMissing(r, d2)
           /\ RefsMissing(j, d) /\ OneEntityPerName(d) => OneEntityPerName(d2)
           /\ NewKeys(r) = NewKeys(j)
           /\ \A x \in Key : Found(j, x) => r.refs[x].existing = j.refs[x].existing
  <1> DEFINE e == NextEntity(d)
  <1>1. /\ \A x \in EntityID : d2.entities[x] = IF x = e THEN row ELSE d.entities[x]
        /\ d2.relationships = d.relationships
    BY DEF InsertEntity, Database
  <1>2. ~HasEntity(d, e)
    BY DEF Good, RowsWereIssued, NextEntity, Database, Issued
  <1>3. \A x \in Key : r.refs[x] = IF x = k THEN ref ELSE j.refs[x]
    BY DEF JobOK, Typed
  <1>4. ref # None /\ row # None /\ e # None /\ j.refs[k].name \in Name
    <2>1. j.refs[k] \in EntityRef
      BY DEF JobOK, Typed, Missing
    <2>2. ref \in EntityRef /\ row \in EntityRow
      BY <2>1 DEF EntityRef, EntityRow
    <2>3. QED
      BY <2>1, <2>2, NoneAssumption, IngestAssumption DEF EntityRef, EntityRow
  <1>5. ref.existing = e /\ ref.name = j.refs[k].name /\ ref.created /\ row.name = j.refs[k].name
    OBVIOUS
  <1>6. \A x \in Key : Found(j, x) => j.refs[x].existing \in EntityID
    BY DEF JobOK, Typed, Found, EntityRef
  <1>7. \A x \in EntityID : HasEntity(d, x) => x # e /\ d2.entities[x] = d.entities[x]
    BY <1>1, <1>2
  <1> HIDE DEF e
  <1>8. RefsDistinct(r)
    BY <1>2, <1>3, <1>5, SMTT(30) DEF RefsDistinct, RefsFound, Found
  <1>9. RefsFound(r, d2)
    <2> SUFFICES ASSUME NEW x \in Key, Found(r, x)
                 PROVE  /\ HasEntity(d2, r.refs[x].existing)
                        /\ ~r.refs[x].created => KeyOf[d2.entities[r.refs[x].existing].name] = x
      BY DEF RefsFound
    <2>1. CASE x = k
      BY <1>1, <1>3, <1>4, <1>5, <2>1 DEF HasEntity, e
    <2>2. CASE x # k
      BY <1>3, <1>6, <1>7, <2>2 DEF RefsFound, Found, HasEntity
    <2>3. QED
      BY <2>1, <2>2, SMTT(30)
  <1>10. ASSUME EdgesNew(j, d)
         PROVE  EdgesNew(r, d2)
    <2> SUFFICES ASSUME NEW edge \in j.edges, Found(r, edge.from), Found(r, edge.to),
                        RelationshipExists(d2, r.refs[edge.from].existing,
                                           r.refs[edge.to].existing, edge.type)
                 PROVE  FALSE
      BY DEF EdgesNew
    <2>1. edge.from \in Key /\ edge.to \in Key
      BY DEF JobOK, Typed, Edge
    <2>2. PICK x \in RelationshipID :
             d.relationships[x] = [from |-> r.refs[edge.from].existing,
                                   to |-> r.refs[edge.to].existing, type |-> edge.type]
      BY <1>1 DEF RelationshipExists
    <2>3. HasRelationship(d, x)
      <3>1. r.refs[edge.from].existing \in EntityID /\ r.refs[edge.to].existing \in EntityID
        BY <1>3, <1>5, <1>6, <2>1 DEF Found, e
      <3>2. edge.type \in RelType
        BY DEF JobOK, Typed, Edge
      <3>3. d.relationships[x] \in [from : EntityID, to : EntityID, type : RelType]
        BY <2>2, <3>1, <3>2
      <3>4. QED
        BY <3>3, NoneAssumption DEF HasRelationship
    <2>4. HasEntity(d, r.refs[edge.from].existing) /\ HasEntity(d, r.refs[edge.to].existing)
      <3>1. HasEntity(d, d.relationships[x].from) /\ HasEntity(d, d.relationships[x].to)
        BY <2>3 DEF Good, Consistent, EdgesHaveEndpoints
      <3>2. QED
        BY <2>2, <3>1
    <2>5. edge.from # k /\ edge.to # k
      BY <1>2, <1>3, <1>5, <2>1, <2>4
    <2>6. Found(j, edge.from) /\ Found(j, edge.to)
      BY <1>3, <2>1, <2>5 DEF Found
    <2>7. ~RelationshipExists(d, j.refs[edge.from].existing, j.refs[edge.to].existing, edge.type)
      BY <1>10, <2>6 DEF EdgesNew
    <2>8. r.refs[edge.from] = j.refs[edge.from] /\ r.refs[edge.to] = j.refs[edge.to]
      BY <1>3, <2>1, <2>5
    <2>9. QED
      BY <2>2, <2>7, <2>8 DEF RelationshipExists
  <1>11. ASSUME RefsMissing(j, d)
         PROVE  RefsMissing(r, d2)
    <2> SUFFICES ASSUME NEW x \in Key, Missing(r, x)
                 PROVE  KeyOf[r.refs[x].name] = x /\ EntitiesNamed(d2, r.refs[x].name) = {}
      BY DEF RefsMissing
    <2>1. x # k /\ r.refs[x] = j.refs[x] /\ Missing(j, x)
      BY <1>3, <1>4, <1>5 DEF Missing
    <2>2. KeyOf[j.refs[x].name] = x /\ EntitiesNamed(d, j.refs[x].name) = {} /\ KeyOf[row.name] = k
      BY <1>5, <1>11, <2>1 DEF RefsMissing
    <2>3. row.name # j.refs[x].name
      BY <2>1, <2>2
    <2>4. EntitiesNamed(d2, j.refs[x].name) \subseteq EntitiesNamed(d, j.refs[x].name)
      BY <1>1, <2>3 DEF EntitiesNamed, HasEntity
    <2>5. QED
      BY <2>1, <2>2, <2>4
  <1>12. ASSUME RefsMissing(j, d), OneEntityPerName(d)
         PROVE  OneEntityPerName(d2)
    <2>1. EntitiesNamed(d, row.name) = {}
      BY <1>5, <1>12 DEF RefsMissing
    <2>2. \A x \in EntityID : HasEntity(d2, x) /\ x # e => HasEntity(d, x)
                                                         /\ d2.entities[x] = d.entities[x]
      BY <1>1 DEF HasEntity, e
    <2>3. \A x \in EntityID : HasEntity(d, x) => d.entities[x].name # row.name
      BY <2>1 DEF EntitiesNamed
    <2>4. e \in EntityID /\ d2.entities[e] = row
      BY <1>1 DEF e
    <2>5. QED
      BY <1>12, <2>2, <2>3, <2>4 DEF OneEntityPerName
  <1>13. NewKeys(r) = NewKeys(j)
    BY <1>3, <1>4, <1>5 DEF NewKeys, Missing
  <1>14. \A x \in Key : Found(j, x) => r.refs[x].existing = j.refs[x].existing
    BY <1>3 DEF Found, Missing
  <1>15. QED
    BY <1>8, <1>9, <1>10, <1>11, <1>12, <1>13, <1>14

\* The entities of j, which sees d1, are those of r, which sees d2, with or
\* without one more of those that were missing.
LinksOn(j, d1, r, d2) ==
    /\ RefsDistinct(r) /\ RefsFound(r, d2)
    /\ EdgesNew(j, d1) => EdgesNew(r, d2)
    /\ NamesAreClean => RefsMissing(r, d2) /\ OneEntityPerName(d2)
    /\ NewKeys(r) = NewKeys(j)
    /\ \A x \in Key : Found(j, x) => r.refs[x].existing = j.refs[x].existing

SameList(j, r) ==
    /\ r.edges = j.edges /\ r.made = j.made /\ r.reply = j.reply /\ r.blind = j.blind
    /\ r.known = j.known /\ r.candidates = j.candidates /\ r.steps = j.steps

LEMMA CreatePlannedEntitySerial ==
    ASSUME IngestInv, AtomicInv, SerialInv, NEW w \in Ingester, CreatePlannedEntity(w), now' = now
    PROVE  SerialInv'
  <1> DEFINE j == job[w]
  <1>1. j.pc = "entities" /\ edits' = edits
    BY DEF CreatePlannedEntity
  <1>2. j.pc \in Committing /\ j.pc \in Linking
    BY <1>1 DEF Committing, Linking
  <1>3. JobOK(j) /\ DOMAIN j = DOMAIN IdleJob
    BY <1>2, LinkingFacts
  <1>4. ASSUME NEW r, r.pc \in {"entities", "relationships"}, Become(w, r), db' = db,
               NEW d, View(w)' = d, SameList(j, r), edits = 0 => LinksOn(j, tx.work, r, d)
        PROVE  SerialInv'
    <2>1. ASSUME edits = 0
          PROVE  Fits(r, db, d, now)
      <3>1. Fits(j, db, tx.work, now)
        BY <1>2, <2>1, LinkingFacts
      <3>2. PlanFits(j, db, now) /\ r.pc \notin AboutOne
        BY <1>2, <1>4, <3>1 DEF Fits, AboutOne
      <3>3. PlanFits(r, db, now)
        BY <1>3, <1>4, <2>1, <3>2, PlanStillFits DEF LinksOn, SameList
      <3>4. ~r.blind => EdgesNew(r, d)
        BY <1>2, <1>4, <2>1, <3>1 DEF Fits, LinksOn, SameList
      <3>5. ~r.blind => CountsNew(r)
        BY <1>2, <1>4, <2>1, <3>1 DEF Fits, Counts, CountsNew, LinksOn, SameList
      <3>6. ~r.blind => Counts(r)
        BY <1>4, <3>5 DEF Counts
      <3>7. QED
        BY <1>4, <2>1, <3>3, <3>4, <3>6 DEF Fits, Committed, LinksOn
    <2>2. QED
      BY <1>1, <1>2, <1>4, <2>1, LinkingStep
  <1>5. ASSUME Become(w, [j EXCEPT !.pc = "relationships"]), UNCHANGED <<db, tx>>
        PROVE  SerialInv'
    <2> DEFINE r == [j EXCEPT !.pc = "relationships"]
    <2>1. r.pc = "relationships" /\ r.refs = j.refs /\ SameList(j, r)
      BY <1>3 DEF IdleJob, SameList
    <2> HIDE DEF r
    <2>2. Become(w, r)
      BY <1>5 DEF r
    <2>3. View(w)' = tx.work
      BY <1>2, <1>5, LinkingFacts DEF View, Owns
    <2>4. edits = 0 => /\ RefsDistinct(j) /\ RefsFound(j, tx.work)
                       /\ NamesAreClean => RefsMissing(j, tx.work) /\ OneEntityPerName(tx.work)
      BY <1>2, LinkingFacts DEF Fits
    <2>5. EdgesNew(j, tx.work) => EdgesNew(r, tx.work)
      BY <2>1 DEF EdgesNew, Found, SameList
    <2>6. NewKeys(r) = NewKeys(j)
      BY <2>1 DEF NewKeys
    <2>7. edits = 0 => LinksOn(j, tx.work, r, tx.work)
      BY <2>1, <2>4, <2>5, <2>6, SameRefsFit DEF LinksOn
    <2>8. QED
      BY <1>4, <1>5, <2>1, <2>2, <2>3, <2>7
  <1>6. ASSUME NEW k \in PendingKeys(w),
               NEW row, row = [name |-> j.refs[k].name, external_id |-> None],
               CreateEntity(w, row),
               NEW ref, ref = [existing |-> NextEntity(View(w)), name |-> j.refs[k].name,
                               created |-> TRUE],
               Become(w, [j EXCEPT !.refs[k] = ref])
        PROVE  SerialInv'
    <2> DEFINE r == [j EXCEPT !.refs[k] = ref]
               d == InsertEntity(tx.work, row)
    <2>1. r.pc = "entities" /\ r.refs = [j.refs EXCEPT ![k] = ref] /\ SameList(j, r)
      BY <1>1, <1>3 DEF IdleJob, SameList
    <2> HIDE DEF r
    <2>2. k \in Key /\ Missing(j, k)
      BY DEF PendingKeys, Missing
    <2>3. /\ NextEntity(tx.work) \in EntityID /\ Write(w, d)
          /\ ref = [existing |-> NextEntity(tx.work), name |-> j.refs[k].name, created |-> TRUE]
      BY <1>2, <1>6, LinkingFacts DEF CreateEntity
    <2>4. db' = db /\ View(w)' = d
      <3>1. row \in EntityRow /\ tx.work \in Database
        BY <1>2, <1>3, <1>6, <2>2, LinkingFacts DEF JobOK, Typed, Missing, EntityRef, EntityRow
      <3>2. d \in Database
        BY <1>2, <1>6, <3>1, LinkingFacts, InsertEntitySound DEF CreateEntity, Sound
      <3>3. QED
        BY <1>2, <2>3, <3>2, CommitPhaseWrite
    <2> HIDE DEF d
    <2>5. edits = 0 => /\ RefsDistinct(j) /\ RefsFound(j, tx.work)
                       /\ NamesAreClean => RefsMissing(j, tx.work) /\ OneEntityPerName(tx.work)
      BY <1>2, LinkingFacts DEF Fits
    <2>6. edits = 0 =>
             /\ RefsDistinct(r) /\ RefsFound(r, d)
             /\ EdgesNew(j, tx.work) => EdgesNew(r, d)
             /\ RefsMissing(j, tx.work) => RefsMissing(r, d)
             /\ RefsMissing(j, tx.work) /\ OneEntityPerName(tx.work) => OneEntityPerName(d)
             /\ NewKeys(r) = NewKeys(j)
             /\ \A x \in Key : Found(j, x) => r.refs[x].existing = j.refs[x].existing
      BY <1>2, <1>3, <1>6, <2>1, <2>2, <2>3, <2>5, LinkingFacts, EntityMade DEF d, SameList
    <2>7. edits = 0 => LinksOn(j, tx.work, r, d)
      BY <2>5, <2>6 DEF LinksOn
    <2>8. Become(w, r)
      BY <1>6 DEF r
    <2>9. r.pc \in {"entities", "relationships"}
      BY <2>1
    <2>10. QED
      BY <1>4, <2>1, <2>4, <2>7, <2>8, <2>9
  <1>7. QED
    BY <1>5, <1>6 DEF CreatePlannedEntity

\* From j to r the plan, the entities and the list of edges are the same.
KeepsPlan(j, r) ==
    /\ r.refs = j.refs /\ r.known = j.known /\ r.candidates = j.candidates
    /\ r.reply = j.reply /\ r.blind = j.blind
    /\ r.edges \cup r.made = j.edges \cup j.made
    /\ DOMAIN r.steps = DOMAIN j.steps
    /\ \A n \in DOMAIN j.steps : /\ r.steps[n].action = j.steps[n].action
                                 /\ r.steps[n].subject = j.steps[n].subject
                                 /\ r.steps[n].existing = j.steps[n].existing
                                 /\ r.steps[n].target = j.steps[n].target

Advanced(r, d) ==
    /\ r.pc = "relationships" /\ ~r.blind => EdgesNew(r, d)
    /\ r.pc = "memories" => r.edges = {} /\ UpdatesTarget(r)

\* Once the entities are there a step leaves them alone.
LEMMA AfterEntitiesStep ==
    ASSUME IngestInv, AtomicInv, SerialInv, NEW w \in Ingester, job[w].pc \in Linked,
           job[w].pc \in Committing, db' = db, edits' = edits, now' = now,
           NEW r, Become(w, r), KeepsPlan(job[w], r), r.pc \in {"relationships", "memories"},
           r.pc = "relationships" => job[w].pc = "relationships",
           NEW d, View(w)' = d, d.entities = tx.work.entities, edits = 0 => Advanced(r, d)
    PROVE  SerialInv'
  <1> DEFINE j == job[w]
  <1>1. ASSUME edits = 0
        PROVE  Fits(r, db, d, now)
    <2>1. Fits(j, db, tx.work, now) /\ JobOK(j)
      BY <1>1, LinkingFacts
    <2>2. PlanFits(j, db, now) /\ RefsDistinct(j) /\ r.pc \notin AboutOne
      BY <2>1 DEF Fits, AboutOne
    <2>3. PlanFits(r, db, now)
      BY <2>1, <2>2, PlanStillFits DEF KeepsPlan
    <2>4. RefsDistinct(r)
      BY <2>2, SameRefsFit DEF KeepsPlan
    <2>5. \A e : HasEntity(d, e) <=> HasEntity(tx.work, e)
      BY DEF HasEntity
    <2>6. OneEntityPerName(tx.work) => OneEntityPerName(d)
      BY <2>5 DEF OneEntityPerName
    <2>7. ASSUME r.pc = "relationships"
          PROVE  RefsFound(r, d) /\ (NamesAreClean => RefsMissing(r, d))
      <3>1. RefsFound(j, tx.work) /\ (NamesAreClean => RefsMissing(j, tx.work))
        BY <2>1, <2>7 DEF Fits, Linking
      <3>2. RefsFound(r, tx.work) /\ (NamesAreClean => RefsMissing(r, tx.work))
        BY <3>1, SameRefsFit DEF KeepsPlan
      <3>3. \A name : EntitiesNamed(d, name) = EntitiesNamed(tx.work, name)
        BY <2>5 DEF EntitiesNamed
      <3>4. QED
        BY <2>5, <3>2, <3>3 DEF RefsFound, RefsMissing
    <2>8. ~r.blind => Counts(r)
      <3>1. ~j.blind => CountsNew(j)
        BY <2>1 DEF Fits, Counts
      <3>2. NewKeys(r) = NewKeys(j)
        BY DEF NewKeys, KeepsPlan
      <3>3. ~r.blind => CountsNew(r)
        BY <3>1, <3>2 DEF CountsNew, KeepsPlan
      <3>4. QED
        BY <3>3 DEF Counts
    <2>9. NamesAreClean => OneEntityPerName(tx.work)
      BY <2>1 DEF Fits
    <2>10. Advanced(r, d)
      BY <1>1
    <2>11. QED
      BY <2>3, <2>4, <2>6, <2>7, <2>8, <2>9, <2>10
         DEF Fits, Forming, Planning, Linking, Committed, Advanced
  <1>2. QED
    BY <1>1, LinkingStep

LEMMA CreatePlannedRelationshipSerial ==
    ASSUME IngestInv, AtomicInv, SerialInv, NEW w \in Ingester, CreatePlannedRelationship(w),
           now' = now
    PROVE  SerialInv'
  <1> DEFINE j == job[w]
             work == tx.work
  <1>1. j.pc = "relationships" /\ j.pc \in Committing /\ j.pc \in Linked /\ edits' = edits
    <2>1. j.pc = "relationships" /\ edits' = edits
      BY ZenonT(30) DEF CreatePlannedRelationship
    <2>2. QED
      BY <2>1 DEF Committing, Linked
  <1>2. /\ JobOK(j) /\ Orderly(j) /\ DOMAIN j = DOMAIN IdleJob /\ View(w) = work
        /\ work \in Database /\ Good(work) /\ j.pc \in Linking
        /\ edits = 0 => Fits(j, db, work, now)
    BY <1>1, LinkingFacts DEF Linking
  <1>3. ASSUME j.edges = {}, Become(w, [j EXCEPT !.pc = "memories"]), UNCHANGED <<db, tx>>
        PROVE  SerialInv'
    <2> DEFINE r == [j EXCEPT !.pc = "memories"]
    <2>1. r.pc = "memories" /\ r.edges = {} /\ KeepsPlan(j, r) /\ r.steps = j.steps
      BY <1>2, <1>3 DEF IdleJob, KeepsPlan
    <2>2. Become(w, r)
      BY <1>3
    <2> HIDE DEF r
    <2>3. UpdatesTarget(r)
      BY <1>1, <1>2, <2>1 DEF Orderly, Before, UpdatesTarget, Did
    <2>4. Advanced(r, work)
      BY <2>1, <2>3 DEF Advanced
    <2>5. View(w)' = work
      BY <1>1, <1>3, LinkingFacts DEF View, Owns
    <2>6. QED
      BY <1>1, <1>3, <2>1, <2>2, <2>4, <2>5, AfterEntitiesStep
  <1>4. ASSUME NEW edge \in j.edges, LET row == EdgeRow(w, edge) IN
                  RelationshipExists(View(w), row.from, row.to, row.type),
               UNCHANGED <<db, tx>>, Become(w, [j EXCEPT !.edges = @ \ {edge}])
        PROVE  SerialInv'
    <2> DEFINE r == [j EXCEPT !.edges = @ \ {edge}]
    <2>1. /\ r.pc = "relationships" /\ r.edges = j.edges \ {edge} /\ r.refs = j.refs
          /\ r.blind = j.blind
      BY <1>1, <1>2 DEF IdleJob
    <2>2. Become(w, r)
      BY <1>4
    <2>3. r.made = j.made /\ r.reply = j.reply /\ r.known = j.known
          /\ r.candidates = j.candidates /\ r.steps = j.steps
      BY <1>1, <1>2 DEF IdleJob
    <2> HIDE DEF r
    <2>4. edits = 0 => j.blind
      <3> SUFFICES ASSUME edits = 0, ~j.blind
                   PROVE  FALSE
        OBVIOUS
      <3>1. EdgesNew(j, work)
        BY <1>2 DEF Fits
      <3>2. Found(j, edge.from) /\ Found(j, edge.to)
        <4>1. edge.from \in Key /\ edge.to \in Key /\ EdgeOK(j, edge)
          BY <1>2, SMTT(30) DEF JobOK, PlanOK, Typed, Edge
        <4>2. j.refs[edge.from] # None /\ j.refs[edge.to] # None
          BY <1>2, <4>1 DEF JobOK, PlanOK, StepOK, EdgeOK
        <4>3. QED
          BY <1>1, <1>2, <4>1, <4>2 DEF JobOK, PlanOK, Found
      <3>3. RelationshipExists(work, j.refs[edge.from].existing, j.refs[edge.to].existing, edge.type)
        BY <1>2, <1>4 DEF EdgeRow
      <3>4. QED
        BY <3>1, <3>2, <3>3 DEF EdgesNew
    <2>5. View(w)' = work
      BY <1>1, <1>4, LinkingFacts DEF View, Owns
    <2>6. ASSUME edits = 0
          PROVE  Fits(r, db, work, now)
      <3>1. Fits(j, db, work, now) /\ r.blind
        BY <1>2, <2>1, <2>4, <2>6
      <3>2. PlanFits(r, db, now)
        <4>1. r.pc \notin AboutOne
          BY <2>1 DEF AboutOne
        <4>2. PlanFits(j, db, now)
          BY <1>1, <3>1 DEF Fits
        <4>3. QED
          BY <1>2, <2>1, <2>3, <4>1, <4>2, PlanStillFits
      <3>3. RefsDistinct(r) /\ RefsFound(r, work) /\ (NamesAreClean => RefsMissing(r, work))
        BY <1>1, <1>2, <2>1, <3>1, SameRefsFit DEF Fits
      <3>4. NamesAreClean => OneEntityPerName(work)
        BY <1>1, <3>1 DEF Fits
      <3>5. QED
        BY <2>1, <3>1, <3>2, <3>3, <3>4 DEF Fits, Committed
    <2>7. QED
      BY <1>1, <1>4, <2>2, <2>5, <2>6, LinkingStep
  <1>5. ASSUME NEW edge \in j.edges, CreateRelationship(w, EdgeRow(w, edge)),
               Become(w, [j EXCEPT !.edges = @ \ {edge}, !.made = @ \cup {edge}])
        PROVE  SerialInv'
    <2> DEFINE row == EdgeRow(w, edge)
               d == InsertRelationship(work, row)
               r == [j EXCEPT !.edges = @ \ {edge}, !.made = @ \cup {edge}]
    <2>1. /\ row \in RelationshipRow /\ row.type = edge.type
          /\ row.from = j.refs[edge.from].existing /\ row.to = j.refs[edge.to].existing
      <3>1. edge \in Edge /\ j.refs[edge.from].existing \in EntityID
              /\ j.refs[edge.to].existing \in EntityID
        BY <1>1, <1>2, EdgeEnds
      <3>2. QED
        BY <3>1 DEF EdgeRow, RelationshipRow, Edge
    <2>2. r.pc = "relationships" /\ r.edges = j.edges \ {edge} /\ r.made = j.made \cup {edge}
      BY <1>1, <1>2 DEF IdleJob
    <2>3. r.refs = j.refs /\ KeepsPlan(j, r)
      BY <1>2, <2>2 DEF IdleJob, KeepsPlan
    <2>4. Become(w, r)
      BY <1>5
    <2> HIDE DEF r, row
    <2>5. Write(w, d) /\ d \in Database
      BY <1>2, <1>5, <2>1, InsertRelationshipSound DEF CreateRelationship, Sound, row
    <2>6. /\ d.entities = work.entities
          /\ \A x \in RelationshipID :
                d.relationships[x] = work.relationships[x] \/ d.relationships[x] = row
      BY <1>2 DEF InsertRelationship, Database
    <2> HIDE DEF d
    <2>7. db' = db /\ View(w)' = d
      BY <1>1, <2>5, CommitPhaseWrite
    <2>8. ASSUME edits = 0, ~r.blind
          PROVE  EdgesNew(r, d)
      <3> SUFFICES ASSUME NEW other \in j.edges, other # edge,
                          Found(j, other.from), Found(j, other.to),
                          RelationshipExists(d, j.refs[other.from].existing,
                                             j.refs[other.to].existing, other.type)
                   PROVE  FALSE
        BY <2>2, <2>3 DEF EdgesNew, Found
      <3>1. EdgesNew(j, work) /\ RefsDistinct(j)
        BY <1>1, <1>2, <2>3, <2>8 DEF Fits, KeepsPlan
      <3>2. PICK x \in RelationshipID :
               d.relationships[x] = [from |-> j.refs[other.from].existing,
                                     to |-> j.refs[other.to].existing, type |-> other.type]
        BY DEF RelationshipExists
      <3>3. d.relationships[x] # work.relationships[x]
        BY <3>1, <3>2 DEF EdgesNew, RelationshipExists
      <3>4. d.relationships[x] = row
        BY <2>6, <3>3
      <3>5. /\ row.from = j.refs[other.from].existing /\ row.to = j.refs[other.to].existing
            /\ row.type = other.type
        BY <3>2, <3>4
      <3>6. edge \in Edge /\ other \in Edge
        BY <1>2 DEF JobOK, Typed
      <3>7. Found(j, edge.from) /\ Found(j, edge.to)
        <4>1. edge.from \in Key /\ edge.to \in Key /\ EdgeOK(j, edge)
          BY <1>2, <3>6, SMTT(30) DEF JobOK, PlanOK, Edge
        <4>2. j.refs[edge.from] # None /\ j.refs[edge.to] # None
          BY <1>2, <4>1 DEF JobOK, PlanOK, StepOK, EdgeOK
        <4>3. QED
          BY <1>1, <1>2, <4>1, <4>2 DEF JobOK, PlanOK, Found
      <3>8. edge.from = other.from /\ edge.to = other.to /\ edge.type = other.type
        BY <2>1, <3>1, <3>5, <3>6, <3>7 DEF RefsDistinct, Edge
      <3>9. QED
        BY <3>6, <3>8 DEF Edge
    <2>9. edits = 0 => Advanced(r, d)
      BY <2>2, <2>8 DEF Advanced
    <2>10. QED
      BY <1>1, <2>2, <2>3, <2>4, <2>6, <2>7, <2>9, AfterEntitiesStep
  <1>6. ASSUME NEW code, Abandon(w, code)
        PROVE  SerialInv'
    BY <1>1, <1>6, LinkingFacts, RefuseSerial DEF Abandon
  <1>7. QED
    BY <1>3, <1>4, <1>5, <1>6, ZenonT(60) DEF CreatePlannedRelationship

LEMMA CommitFailsSerial ==
    ASSUME IngestInv, AtomicInv, SerialInv, NEW w \in Ingester, CommitFails(w)
    PROVE  SerialInv'
  BY LinkingFacts, RefuseSerial DEF CommitFails, Abandon, Committing

\* The step in hand is done: the plan is the same, and so is what it targeted.
LEMMA ExecutedKeepsPlan ==
    ASSUME NEW j, JobOK(j), j.next \in DOMAIN j.steps, NEW memory,
           NEW r, r = Executed(j, memory)
    PROVE  KeepsPlan(j, r) /\ r.edges = j.edges
  <1> DEFINE i == j.next
             step == [j.steps[i] EXCEPT !.memory = memory]
  <1>1. j.steps \in Seq(PlannedStep) /\ DOMAIN j = DOMAIN IdleJob
    BY DEF JobOK, Typed
  <1>2. j.steps[i] \in PlannedStep
    BY <1>1
  <1>3. /\ step.action = j.steps[i].action /\ step.subject = j.steps[i].subject
        /\ step.existing = j.steps[i].existing /\ step.target = j.steps[i].target
    BY <1>2 DEF PlannedStep
  <1>4. /\ r.steps = [j.steps EXCEPT ![i] = step]
        /\ r.refs = j.refs /\ r.known = j.known /\ r.candidates = j.candidates
        /\ r.reply = j.reply /\ r.blind = j.blind /\ r.edges = j.edges /\ r.made = j.made
    BY <1>1 DEF Executed, IdleJob
  <1> HIDE DEF step
  <1>5. DOMAIN r.steps = DOMAIN j.steps
        /\ \A n \in DOMAIN j.steps : r.steps[n] = IF n = i THEN step ELSE j.steps[n]
    BY <1>1, <1>4
  <1>6. QED
    BY <1>3, <1>4, <1>5 DEF KeepsPlan

LEMMA ExecutePlannedMemorySerial ==
    ASSUME IngestInv, AtomicInv, SerialInv, NEW w \in Ingester, ExecutePlannedMemory(w), now' = now
    PROVE  SerialInv'
  <1> DEFINE j == job[w]
             work == tx.work
             step == j.steps[j.next]
             c == j.candidates[j.next]
             row == [entity_id |-> j.refs[step.subject].existing, category |-> c.category,
                     content |-> c.content, confidence |-> c.confidence, source_id |-> None,
                     expires_at |-> None]
  <1>1. /\ j.pc = "memories" /\ j.next <= Len(j.steps) /\ edits' = edits
        /\ j.pc \in Committing /\ j.pc \in Linked
    <2>1. j.pc = "memories" /\ j.next <= Len(j.steps) /\ edits' = edits
      BY ZenonT(30) DEF ExecutePlannedMemory
    <2>2. QED
      BY <2>1 DEF Committing, Linked
  <1>2. /\ JobOK(j) /\ Orderly(j) /\ DOMAIN j = DOMAIN IdleJob /\ View(w) = work
        /\ work \in Database /\ Good(work)
        /\ edits = 0 => Fits(j, db, work, now)
    BY <1>1, LinkingFacts
  <1>3. j.next \in DOMAIN j.steps /\ step \in PlannedStep /\ c \in Candidate
    <2>1. j.next \in DOMAIN j.steps /\ step \in PlannedStep
      BY <1>1, <1>2 DEF JobOK, Typed
    <2>2. Len(j.steps) = Len(j.candidates) /\ j.candidates \in Seq(Candidate)
      BY <1>1, <1>2 DEF JobOK, Typed, InStep, Planning
    <2>3. QED
      BY <1>1, <1>2, <2>1, <2>2 DEF JobOK, Typed
  <1>4. c.category \in Category /\ c.content \in Content /\ c.confidence \in Confidence
    BY <1>3 DEF Candidate
  <1>5. ASSUME NEW memory, memory # None <=> step.action \in {"create", "update"},
               step.action = "update" => memory = step.target,
               Become(w, Executed(j, memory)), db' = db,
               NEW d, View(w)' = d, d.entities = work.entities
        PROVE  SerialInv'
    <2> DEFINE r == Executed(j, memory)
    <2>1. r = Executed(j, memory) /\ Become(w, r)
      BY <1>5
    <2> HIDE DEF r
    <2>2. r.pc = "memories" /\ r.edges = j.edges /\ KeepsPlan(j, r)
      BY <1>1, <1>2, <1>3, <2>1, ExecutedShape, ExecutedKeepsPlan
    <2>3. r.steps[j.next].memory = memory
      BY <1>1, <1>2, <1>3, <2>1, ExecutedShape
    <2>4. /\ step.action = "update" => Did(r, "update") = Did(j, "update") \cup {j.next}
          /\ step.action # "update" => Did(r, "update") = Did(j, "update")
          /\ \A n \in Did(j, "update") : /\ n \in DOMAIN j.steps
                                         /\ r.steps[n].memory = j.steps[n].memory
      <3> HIDE DEF j
      <3>1. j.pc = "memories" /\ j.next \in DOMAIN j.steps /\ "update" \in {"create", "update"}
        BY <1>1, <1>3
      <3>2. memory # None <=> j.steps[j.next].action \in {"create", "update"}
        BY <1>5
      <3>3. QED
        BY <1>2, <2>1, <3>1, <3>2, ExecutedDid
    <2>5. UpdatesTarget(j) => UpdatesTarget(r)
      BY <1>3, <1>5, <2>2, <2>3, <2>4 DEF UpdatesTarget, KeepsPlan
    <2>6. edits = 0 => Advanced(r, d)
      BY <1>1, <1>2, <2>2, <2>5 DEF Fits, Advanced
    <2>7. QED
      BY <1>1, <1>5, <2>1, <2>2, <2>6, AfterEntitiesStep
  <1>6. ASSUME step.action = "create", CreateMemory(w, row),
               Become(w, Executed(j, NextMemory(View(w))))
        PROVE  SerialInv'
    <2> DEFINE n == NextMemory(work)
               d == InsertMemory(work, row)
    <2>1. row \in MemoryRow
      <3>1. j.refs[step.subject].existing \in EntityID
        BY <1>1, <1>2, <1>3, SubjectInvalidated
      <3>2. QED
        BY <1>4, <3>1 DEF MemoryRow
    <2> HIDE DEF row
    <2>2. Write(w, d) /\ n \in MemoryID /\ n # None
      BY <1>2, <1>6, IngestAssumption DEF CreateMemory
    <2>3. d \in Database
      BY <1>2, <1>6, <2>1, InsertMemorySound DEF CreateMemory, Sound
    <2>4. d.entities = work.entities
      BY <1>2 DEF InsertMemory, Database
    <2> HIDE DEF d
    <2>5. db' = db /\ View(w)' = d
      BY <1>1, <2>2, <2>3, CommitPhaseWrite
    <2>6. QED
      BY <1>2, <1>5, <1>6, <2>2, <2>4, <2>5
  <1>7. ASSUME step.action = "update",
               HasMemory(View(w), step.target),
               UpdateMemory(w, step.target, c.content, c.confidence,
                            View(w).memories[step.target].source_id,
                            View(w).memories[step.target].expires_at),
               Become(w, Executed(j, step.target))
        PROVE  SerialInv'
    <2> DEFINE m == step.target
               source == work.memories[m].source_id
               expires == work.memories[m].expires_at
               d == UpdateMemoryRow(work, m, c.content, c.confidence, source, expires)
    <2>1. m # None /\ m \in MemoryID /\ HasMemory(work, m)
      <3>1. StepOK(j, step)
        BY <1>2, <1>3, SMTT(30) DEF JobOK, PlanOK
      <3>2. QED
        BY <1>2, <1>3, <1>7, <3>1 DEF StepOK, PlannedStep
    <2>2. source \in SourceID \cup {None} /\ expires \in Time \cup {None}
      <3>1. work.memories[m] \in MemoryRow
        BY <1>2, <2>1, SMTT(30) DEF Database, HasMemory
      <3>2. QED
        BY <3>1 DEF MemoryRow
    <2>3. Write(w, d) /\ d \in Database
      BY <1>2, <1>4, <1>7, <2>1, <2>2, UpdateMemorySound DEF UpdateMemory, Sound
    <2>4. d.entities = work.entities
      BY <1>2 DEF UpdateMemoryRow, Database
    <2> HIDE DEF d, m
    <2>5. db' = db /\ View(w)' = d
      BY <1>1, <2>3, CommitPhaseWrite, SMTT(30)
    <2>6. (m # None <=> step.action \in {"create", "update"}) /\ m = step.target
      BY <1>7, <2>1 DEF m
    <2>7. Become(w, Executed(j, m))
      BY <1>7 DEF m
    <2>8. QED
      BY <1>5, <2>4, <2>5, <2>6, <2>7, SMTT(30)
  <1>8. ASSUME step.action \in {"merge", "no_op"}, Become(w, Executed(j, None)), UNCHANGED <<db, tx>>
        PROVE  SerialInv'
    <2>1. View(w)' = work
      BY <1>1, <1>8, LinkingFacts DEF View, Owns
    <2>2. QED
      BY <1>5, <1>8, <2>1
  <1>9. ASSUME NEW code, Abandon(w, code)
        PROVE  SerialInv'
    BY <1>1, <1>9, LinkingFacts, RefuseSerial DEF Abandon
  <1>10. QED
    BY <1>6, <1>7, <1>8, <1>9, ZenonT(60) DEF ExecutePlannedMemory

-----------------------------------------------------------------------------
(* The commit: nothing is stored beside a memory with the same text that has *)
(* not expired, except for what the list itself says twice                   *)

LEMMA ScoreFacts ==
    ASSUME NEW a \in Content, NEW b \in Content
    PROVE  Score[a, b] \in Nat /\ Score[a, b] <= 100 /\ Score[a, b] = Score[b, a]
  <1> DEFINE s == Score[a, b]
  <1>1. s \in 0..100
    BY ResolutionAssumption
  <1>2. s = Score[b, a]
    BY ResolutionAssumption
  <1>3. s \in Nat /\ s <= 100
    <2> HIDE DEF s
    <2>1. QED
      BY <1>1
  <1>4. QED
    BY <1>2, <1>3

\* Texts with the same trigrams are as similar as a text is to itself, and to
\* any other text they are equally similar.
LEMMA SameTexts ==
    ASSUME NEW a \in Content, NEW b \in Content, SameText(a, b)
    PROVE  /\ SameText(b, a) /\ SameText(a, a)
           /\ \A c \in Content : Score[a, c] = Score[b, c]
  <1>1. \A c \in Content : Score[a, c] = Score[b, c]
    <2>1. \A x, y, z \in Content : SameText(x, y) => Score[x, z] = Score[y, z]
      BY ResolutionAssumption
    <2>2. QED
      BY <2>1, Zenon
  <1>2. SameText(b, a)
    BY ScoreFacts, Zenon DEF SameText
  <1>3. Score[a, a] = Score[b, a]
    BY <1>1
  <1>4. QED
    BY <1>1, <1>2, <1>3, Zenon DEF SameText

LEMMA AtMostFull ==
    ASSUME NEW s \in Nat, NEW t, s <= 100, t = 100, t <= s
    PROVE  s = 100
  OBVIOUS

\* What is the same text as some memory is the same text as the most similar one.
LEMMA BestIsSame ==
    ASSUME NEW a \in Content, NEW b \in Content, NEW c \in Content,
           SameText(a, b), Score[a, b] <= Score[a, c]
    PROVE  SameText(b, c)
  <1>1. Score[a, c] \in Nat /\ Score[a, c] <= 100
    BY ScoreFacts
  <1>2. Score[a, b] = 100
    BY DEF SameText
  <1>3. Score[a, c] = 100
    BY <1>1, <1>2, AtMostFull, Zenon
  <1>4. Score[b, c] = Score[a, c]
    BY SameTexts
  <1>5. QED
    BY <1>3, <1>4, Zenon DEF SameText

LEMMA StoredRow ==
    ASSUME NEW d \in Database, NEW m \in MemoryID, HasMemory(d, m)
    PROVE  /\ d.memories[m] \in MemoryRow
           /\ d.memories[m].entity_id \in EntityID /\ d.memories[m].content \in Content
           /\ d.memories[m].expires_at \in Time \cup {None}
  <1>1. d.memories[m] \in MemoryRow
    BY DEF Database, HasMemory
  <1>2. QED
    BY <1>1 DEF MemoryRow

LEMMA TwinsTurned ==
    ASSUME NEW d \in Database, NEW t, NEW m1 \in MemoryID, NEW m2 \in MemoryID,
           Twins(d, t, m1, m2)
    PROVE  Twins(d, t, m2, m1)
  <1>1. HasMemory(d, m1) /\ HasMemory(d, m2)
    BY DEF Twins
  <1>2. d.memories[m1].content \in Content /\ d.memories[m2].content \in Content
    BY <1>1, StoredRow
  <1>3. SameText(d.memories[m2].content, d.memories[m1].content)
    BY <1>2, SameTexts DEF Twins
  <1>4. QED
    BY <1>3 DEF Twins

\* Step n is the one whose content the memory m of d2 has.
WroteLast(j, n, m, d1, d2) ==
    /\ n \in DOMAIN j.steps
    /\ j.steps[n].action \in {"create", "update"}
    /\ j.steps[n].memory = m
    /\ j.steps[n].action = "update" => /\ j.steps[n].target = m
                                       /\ d2.memories[m].expires_at = d1.memories[m].expires_at
    /\ d2.memories[m].entity_id = j.refs[j.steps[n].subject].existing
    /\ d2.memories[m].category = j.candidates[n].category
    /\ d2.memories[m].content = j.candidates[n].content

\* What the proof that follows knows of the plan and of the two databases.
Planned(j, d1, d2) ==
    /\ JobOK(j) /\ j.pc = "memories"
    /\ d1 \in Database /\ d2 \in Database /\ Good(d1)
    /\ Effect(j, d1, d2)
    /\ StepsFit(j, d1, now) /\ StepsSubject(j) /\ UpdatesTarget(j)

LEMMA PlannedFacts ==
    ASSUME NEW j, NEW d1, NEW d2, Planned(j, d1, d2), NEW n \in DOMAIN j.steps
    PROVE  /\ j.steps[n] \in PlannedStep /\ StepOK(j, j.steps[n])
           /\ n \in DOMAIN j.candidates /\ j.candidates[n] \in Candidate
           /\ j.candidates[n].content \in Content
           /\ j.steps[n].subject \in Key /\ Found(j, j.steps[n].subject)
           /\ j.steps[n].existing # None =>
                 j.steps[n].existing = j.refs[j.steps[n].subject].existing
  <1>1. j.steps[n] \in PlannedStep /\ StepOK(j, j.steps[n])
    BY DEF Planned, JobOK, Typed, PlanOK
  <1>2. n \in DOMAIN j.candidates /\ j.candidates[n] \in Candidate
    <2>1. Len(j.steps) = Len(j.candidates) /\ j.candidates \in Seq(Candidate)
          /\ j.steps \in Seq(PlannedStep)
      BY DEF Planned, JobOK, Typed, InStep, Planning
    <2>2. QED
      BY <2>1
  <1>3. j.candidates[n].content \in Content
    BY <1>2 DEF Candidate
  <1>4. j.steps[n].subject \in Key /\ j.refs[j.steps[n].subject] # None
    BY <1>1 DEF PlannedStep, StepOK
  <1>5. Found(j, j.steps[n].subject)
    BY <1>4 DEF Planned, JobOK, PlanOK, Linked, Found
  <1>6. QED
    BY <1>1, <1>2, <1>3, <1>4, <1>5 DEF Planned, StepsSubject

\* An update was planned against a memory of its subject and category.
LEMMA UpdateTargets ==
    ASSUME NEW j, NEW d1, NEW d2, Planned(j, d1, d2), NEW n \in DOMAIN j.steps,
           j.steps[n].action = "update"
    PROVE  LET m == j.steps[n].target IN
           /\ m \in MemoryID /\ HasMemory(d1, m)
           /\ d1.memories[m].entity_id = j.refs[j.steps[n].subject].existing
           /\ d1.memories[m].category = j.candidates[n].category
  <1> DEFINE m == j.steps[n].target
  <1>1. Stored(d1, m, j.steps[n].existing, j.candidates[n].category)
    BY DEF Planned, StepsFit, DecisionFits
  <1>2. j.steps[n].existing # None
    <2>1. d1.memories[m].entity_id \in EntityID
      BY <1>1, StoredRow DEF Planned, Stored
    <2>2. QED
      BY <1>1, <2>1, NoneAssumption DEF Stored
  <1>3. QED
    BY <1>1, <1>2, PlannedFacts DEF Stored

\* A memory is as it was, or as the last step that wrote it made it.
LEMMA WrittenOrKept ==
    ASSUME NEW j, NEW d1, NEW d2, Planned(j, d1, d2), NEW m \in MemoryID, HasMemory(d2, m)
    PROVE  \/ d2.memories[m] = d1.memories[m]
           \/ \E n \in DOMAIN j.steps : WroteLast(j, n, m, d1, d2)
  <1> USE DEF Planned
  <1>1. CASE \E n \in Did(j, "create") : j.steps[n].memory = m
    <2>1. PICK n \in Did(j, "create") : j.steps[n].memory = m
      BY <1>1
    <2>2. n \in DOMAIN j.steps /\ j.steps[n].action = "create"
      BY DEF Did
    <2>3. d2.memories[m] = NewRow(j, n)
      BY <2>1 DEF Effect, CreatesDone
    <2>4. WroteLast(j, n, m, d1, d2)
      BY <2>1, <2>2, <2>3 DEF WroteLast, NewRow
    <2>5. QED
      BY <2>2, <2>4
  <1>2. CASE \E n \in Did(j, "update") : j.steps[n].memory = m
    <2> DEFINE S == {n \in Did(j, "update") : j.steps[n].memory = m}
    <2>1. S \subseteq Nat /\ S # {} /\ Len(j.steps) \in Nat /\ \A n \in S : n <= Len(j.steps)
      BY <1>2 DEF Did, JobOK, Typed
    <2>2. PICK n \in S : \A k \in S : k <= n
      BY <2>1, GreatestElement
    <2>3. n \in Did(j, "update") /\ j.steps[n].memory = m /\ IsLastUpdate(j, n)
      BY <2>2 DEF IsLastUpdate
    <2>4. n \in DOMAIN j.steps /\ j.steps[n].action = "update" /\ j.steps[n].target = m
      BY <2>3 DEF Did, UpdatesTarget
    <2>5. UpdateDone(j, n, d1.memories[m], d2.memories[m])
      BY <2>3 DEF Effect, UpdatesDone
    <2>6. PICK content \in Content, confidence \in Confidence :
             /\ d2.memories[m] = [d1.memories[m] EXCEPT !.content = content,
                                                        !.confidence = confidence]
             /\ content = j.candidates[n].content
      BY <2>3, <2>5 DEF UpdateDone
    <2>7. /\ HasMemory(d1, m)
          /\ d1.memories[m].entity_id = j.refs[j.steps[n].subject].existing
          /\ d1.memories[m].category = j.candidates[n].category
      BY <2>4, UpdateTargets
    <2>8. d1.memories[m] \in MemoryRow
      BY <2>7 DEF Database, HasMemory
    <2>9. /\ d2.memories[m].entity_id = d1.memories[m].entity_id
          /\ d2.memories[m].category = d1.memories[m].category
          /\ d2.memories[m].content = content
          /\ d2.memories[m].expires_at = d1.memories[m].expires_at
      BY <2>6, <2>8 DEF MemoryRow
    <2>10. WroteLast(j, n, m, d1, d2)
      BY <2>3, <2>4, <2>6, <2>7, <2>9 DEF WroteLast
    <2>11. QED
      BY <2>4, <2>10
  <1>3. CASE ~ \E n \in Did(j, "create") \cup Did(j, "update") : j.steps[n].memory = m
    BY <1>3 DEF Effect, OthersKept
  <1>4. QED
    BY <1>1, <1>2, <1>3

\* What is written is compared with what is kept: if the two have one text, the
\* step rewrote a memory that had this text already.
LEMMA KeptAndWritten ==
    ASSUME NEW j, NEW d1, NEW d2, Planned(j, d1, d2),
           NEW m1 \in MemoryID, NEW m2 \in MemoryID, Twins(d2, now, m1, m2),
           d2.memories[m1] = d1.memories[m1],
           NEW n \in DOMAIN j.steps, WroteLast(j, n, m2, d1, d2)
    PROVE  Twins(d1, now, m1, m2)
  <1> DEFINE c == j.candidates[n]
             step == j.steps[n]
             old == d1.memories[m1].content
  <1>1. /\ HasMemory(d1, m1) /\ m1 # m2
        /\ d1.memories[m1].entity_id = j.refs[step.subject].existing
        /\ d1.memories[m1].category = c.category
        /\ Active(d1.memories[m1], now)
        /\ SameText(old, c.content)
    BY DEF Twins, WroteLast, HasMemory
  <1>2. d1 \in Database /\ Good(d1) /\ EntitiesDone(j, d1, d2)
    BY DEF Planned, Effect
  <1>3. old \in Content /\ d1.memories[m1].entity_id \in EntityID /\ c.content \in Content
    BY <1>1, <1>2, StoredRow, PlannedFacts
  <1>4. SameText(c.content, old)
    <2> HIDE DEF c, old
    <2>1. QED
      BY <1>1, <1>3, SameTexts
  <1>5. step.existing = j.refs[step.subject].existing
    <2> SUFFICES ASSUME step.existing # j.refs[step.subject].existing
                 PROVE  FALSE
      OBVIOUS
    <2>1. StepOK(j, step) /\ step.subject \in Key
      BY PlannedFacts
    <2>2. j.refs[step.subject] # None /\ j.refs[step.subject].created
      BY <2>1, SMTT(30) DEF StepOK
    <2>3. d1.memories[m1].entity_id \in CreatedEntities(j)
      BY <1>1, <2>1, <2>2 DEF CreatedEntities
    <2>4. ~HasEntity(d1, d1.memories[m1].entity_id)
      BY <1>2, <1>3, <2>3 DEF EntitiesDone
    <2>5. QED
      BY <1>1, <1>2, <2>4 DEF Good, MemoriesHaveOwners
  <1>6. m1 \in ActiveMemories(d1, step.existing, c.category, now)
    BY <1>1, <1>5 DEF ActiveMemories
  <1>7. DecisionFits(d1, now, step.existing, c, step.action, step.target)
    BY DEF Planned, StepsFit
  <1>8. step.action # "create"
    <2> SUFFICES ASSUME step.action = "create"
                 PROVE  FALSE
      OBVIOUS
    <2> DEFINE s == Score[c.content, old]
    <2>1. s < Threshold
      BY <1>6, <1>7 DEF DecisionFits
    <2>2. s = 100
      BY <1>4, Zenon DEF SameText
    <2>3. Threshold \in 1..100
      BY ResolutionAssumption
    <2> HIDE DEF s
    <2>4. QED
      BY <2>1, <2>2, <2>3
  <1>9. step.action = "update" /\ step.target = m2
    BY <1>8 DEF WroteLast
  <1> DEFINE best == d1.memories[m2].content
  <1>10. /\ HasMemory(d1, m2)
         /\ d1.memories[m2].entity_id = j.refs[step.subject].existing
         /\ d1.memories[m2].category = c.category
    BY <1>9, UpdateTargets
  <1>11. Active(d1.memories[m2], now)
    BY <1>9 DEF Twins, WroteLast, Active
  <1>12. Score[c.content, old] <= Score[c.content, best]
    BY <1>6, <1>7, <1>9 DEF DecisionFits
  <1>13. best \in Content
    BY <1>2, <1>10, StoredRow
  <1>14. SameText(old, best)
    <2> HIDE DEF c, old, best
    <2>1. QED
      BY <1>3, <1>4, <1>12, <1>13, BestIsSame
  <1>15. QED
    BY <1>1, <1>10, <1>11, <1>14 DEF Twins

\* Entry n of the list says what this memory does, of the same entity.
Says(j, n, row) ==
    /\ j.refs[j.steps[n].subject].existing = row.entity_id
    /\ j.candidates[n].category = row.category
    /\ SameText(j.candidates[n].content, row.content)

LEMMA CommitRepeats ==
    ASSUME NEW j, NEW d1, NEW d2, Planned(j, d1, d2),
           NEW m1 \in MemoryID, NEW m2 \in MemoryID, Twins(d2, now, m1, m2)
    PROVE  \/ Twins(d1, now, m1, m2)
           \/ \E n, k \in DOMAIN j.steps : /\ n # k
                                           /\ Says(j, n, d2.memories[m1])
                                           /\ Says(j, k, d2.memories[m1])
  <1>1. /\ HasMemory(d2, m1) /\ HasMemory(d2, m2) /\ d1 \in Database /\ d2 \in Database
        /\ Twins(d2, now, m2, m1)
    BY TwinsTurned DEF Planned, Twins
  <1>2. CASE d2.memories[m1] = d1.memories[m1] /\ d2.memories[m2] = d1.memories[m2]
    BY <1>2 DEF Twins, HasMemory
  <1>3. ASSUME d2.memories[m1] = d1.memories[m1],
               NEW n \in DOMAIN j.steps, WroteLast(j, n, m2, d1, d2)
        PROVE  Twins(d1, now, m1, m2)
    BY <1>3, KeptAndWritten
  <1>4. ASSUME d2.memories[m2] = d1.memories[m2],
               NEW n \in DOMAIN j.steps, WroteLast(j, n, m1, d1, d2)
        PROVE  Twins(d1, now, m1, m2)
    <2>1. Twins(d1, now, m2, m1)
      BY <1>1, <1>4, KeptAndWritten
    <2>2. QED
      BY <1>1, <2>1, TwinsTurned
  <1>5. ASSUME NEW n \in DOMAIN j.steps, WroteLast(j, n, m1, d1, d2),
               NEW k \in DOMAIN j.steps, WroteLast(j, k, m2, d1, d2)
        PROVE  n # k /\ Says(j, n, d2.memories[m1]) /\ Says(j, k, d2.memories[m1])
    <2> DEFINE a == d2.memories[m1].content
               b == d2.memories[m2].content
    <2>1. n # k
      BY <1>5 DEF WroteLast, Twins
    <2>2. a \in Content /\ b \in Content /\ SameText(a, b)
      BY <1>1, StoredRow DEF Twins
    <2>3. SameText(a, a) /\ SameText(b, a)
      <3> HIDE DEF a, b
      <3>1. QED
        BY <2>2, SameTexts
    <2>4. QED
      BY <1>5, <2>1, <2>3 DEF Says, WroteLast, Twins
  <1>6. QED
    BY <1>1, <1>2, <1>3, <1>4, <1>5, WrittenOrKept

LEMMA CommitIngestTxSerial ==
    ASSUME IngestInv, AtomicInv, SerialInv, NEW w \in Ingester, CommitIngestTx(w)
    PROVE  SerialInv'
  <1> DEFINE j == job[w]
             changed == Touched(db, tx.work)
             r == [j EXCEPT !.pc = "audit", !.next = 1, !.touched = changed]
  <1>1. /\ j.pc = "memories" /\ edits' = edits
        /\ Commit(w) /\ Become(w, r) /\ j.pc \in Committing
    BY DEF CommitIngestTx, Committing
  <1>2. /\ JobOK(j) /\ DOMAIN j = DOMAIN IdleJob
        /\ job = [v \in Ingester |-> job[v]] /\ \A v \in Ingester \ {w} : Answered(v)
        /\ tx.work \in Database /\ db \in Database /\ Good(db) /\ Effect(j, db, tx.work)
        /\ db' = tx.work
        /\ edits = 0 => StoreFits /\ Fits(j, db, tx.work, now)
    BY <1>1, LinkingFacts, CommitFacts DEF AtomicInv, Commit
  <1> HIDE DEF changed
  <1>3. /\ r.pc = "audit" /\ r.refs = j.refs /\ r.edges = j.edges /\ r.made = j.made
        /\ r.reply = j.reply /\ r.blind = j.blind
    BY <1>2 DEF IdleJob
  <1> HIDE DEF r
  <1>4. ASSUME edits = 0
        PROVE  StoreFits' /\ Fits(r, db', View(w)', now')
    <2>1. StoreFits /\ Fits(j, db, tx.work, now)
      BY <1>2, <1>4
    <2>2. /\ j.edges = {} /\ (NamesAreClean => OneEntityPerName(tx.work))
          /\ (~j.blind => CountsNew(j))
      BY <1>1, <2>1 DEF Fits, Counts
    <2>3. StoreFits'
      BY <1>2, <2>2 DEF StoreFits
    <2>4. ~r.blind => Counts(r)
      BY <1>3, <2>2, SameCounts DEF Counts
    <2>5. Fits(r, db', View(w)', now')
      BY <1>3, <2>2, <2>4 DEF Fits, Forming, Planning, Committing, Linking
    <2>6. QED
      BY <2>3, <2>5
  <1>5. QED
    BY <1>1, <1>2, <1>4, SerialStep

-----------------------------------------------------------------------------
(* After the commit *)

\* A memory is the same but for its source.
SameButSource(d1, d2) ==
    /\ d2.entities = d1.entities
    /\ \A m \in MemoryID :
          HasMemory(d2, m) =>
             /\ HasMemory(d1, m)
             /\ d2.memories[m].entity_id = d1.memories[m].entity_id
             /\ d2.memories[m].category = d1.memories[m].category
             /\ d2.memories[m].content = d1.memories[m].content
             /\ d2.memories[m].expires_at = d1.memories[m].expires_at

LEMMA LaterSerialStep ==
    ASSUME IngestInv, SerialInv, NEW w \in Ingester, job[w].pc \in Committed, edits' = edits,
           SameButSource(db, db'), NEW r, Become(w, r), r.pc \in Committed \cup {"done"},
           r.refs = job[w].refs, r.edges = job[w].edges, r.made = job[w].made,
           r.reply = job[w].reply, r.blind = job[w].blind
    PROVE  SerialInv'
  <1> DEFINE j == job[w]
  <1>1. JobOK(j) /\ job = [v \in Ingester |-> job[v]] /\ \A v \in Ingester \ {w} : Answered(v)
    BY LaterFacts, OthersRest DEF IngestInv, SerialInv, Resting, Committed
  <1>2. ASSUME edits = 0
        PROVE  StoreFits' /\ Fits(r, db', View(w)', now')
    <2>1. StoreFits /\ Fits(j, db, View(w), now)
      BY <1>2 DEF SerialInv
    <2>2. j.edges = {} /\ (~j.blind => CountsNew(j))
      BY <2>1 DEF Fits, Counts
    <2>3. \A e : HasEntity(db', e) <=> HasEntity(db, e)
      BY DEF HasEntity, SameButSource
    <2>4. OneEntityPerName(db) => OneEntityPerName(db')
      BY <2>3 DEF OneEntityPerName, SameButSource
    <2>5. StoreFits'
      BY <2>1, <2>4 DEF StoreFits
    <2>6. ~r.blind => CountsNew(r)
      BY <2>2, SameCounts
    <2>7. NewKeys(r) = MadeKeys(r)
      BY <1>1 DEF JobOK, PlanOK, Linked, NewKeys, MadeKeys
    <2>8. ~r.blind => Counts(r)
      <3>1. r.edges \cup r.made = r.made
        BY <2>2
      <3>2. CountsNew(r) => r.reply = [entities |-> Cardinality(MadeKeys(r)),
                                       relationships |-> Cardinality(r.made)]
        BY <2>7, <3>1 DEF CountsNew
      <3>3. r.pc \notin {"subject", "extract"}
        BY DEF Committed
      <3>4. QED
        BY <2>6, <3>2, <3>3 DEF Counts
    <2>9. Fits(r, db', View(w)', now')
      BY <2>2, <2>8 DEF Fits, Forming, Planning, Committing, Linking, Committed
    <2>10. QED
      BY <2>5, <2>9
  <1>3. QED
    BY <1>1, <1>2, SerialStep

LEMMA NothingChanged == \A d : SameButSource(d, d)
  BY DEF SameButSource

\* The audit row leaves the memories alone.
LEMMA RecordSame ==
    ASSUME IngestInv, NEW w \in Ingester, RecordIngestSource(w)
    PROVE  SameButSource(db, db')
  <1> DEFINE row == [subject_entity_id |-> job[w].subject]
             d == InsertSource(db, row)
  <1>1. job[w].pc \in Committed
    <2>1. job[w].pc = "audit"
      BY ZenonT(30) DEF RecordIngestSource
    <2>2. QED
      BY <2>1 DEF Committed
  <1>2. View(w) = db /\ ~Owns(w) /\ db \in Database
    BY <1>1, LaterFacts
  <1> HIDE DEF row
  <1>3. d.entities = db.entities /\ d.memories = db.memories
    BY <1>2 DEF InsertSource, Database
  <1>4. SameButSource(db, d)
    BY <1>3 DEF SameButSource, HasMemory
  <1>5. CreateIngestSource(w, row) => SameButSource(db, db')
    BY <1>2, <1>4 DEF CreateIngestSource, Write
  <1>6. UNCHANGED <<db, tx>> => SameButSource(db, db')
    BY NothingChanged
  <1>7. QED
    BY <1>5, <1>6, ZenonT(60) DEF RecordIngestSource, row

LEMMA RecordIngestSourceSerial ==
    ASSUME IngestInv, SerialInv, NEW w \in Ingester, RecordIngestSource(w)
    PROVE  SerialInv'
  <1> DEFINE j == job[w]
  <1>1. j.pc = "audit" /\ edits' = edits /\ j.pc \in Committed
    <2>1. j.pc = "audit" /\ edits' = edits
      BY ZenonT(30) DEF RecordIngestSource
    <2>2. QED
      BY <2>1 DEF Committed
  <1>2. DOMAIN j = DOMAIN IdleJob /\ SameButSource(db, db')
    BY <1>1, LaterFacts, RecordSame
  <1>3. ASSUME Become(w, [j EXCEPT !.pc = "backfill", !.source = NextSource(db)])
        PROVE  SerialInv'
    <2> DEFINE r == [j EXCEPT !.pc = "backfill", !.source = NextSource(db)]
    <2>1. /\ r.pc = "backfill" /\ r.refs = j.refs /\ r.edges = j.edges /\ r.made = j.made
          /\ r.reply = j.reply /\ r.blind = j.blind
      BY <1>2 DEF IdleJob
    <2>2. Become(w, r) /\ "backfill" \in Committed
      BY <1>3 DEF Committed
    <2> HIDE DEF r
    <2>3. QED
      BY <1>1, <1>2, <2>1, <2>2, LaterSerialStep
  <1>4. ASSUME Become(w, [j EXCEPT !.pc = "invalidate"])
        PROVE  SerialInv'
    <2> DEFINE r == [j EXCEPT !.pc = "invalidate"]
    <2>1. /\ r.pc = "invalidate" /\ r.refs = j.refs /\ r.edges = j.edges /\ r.made = j.made
          /\ r.reply = j.reply /\ r.blind = j.blind
      BY <1>2 DEF IdleJob
    <2>2. Become(w, r) /\ "invalidate" \in Committed
      BY <1>4 DEF Committed
    <2> HIDE DEF r
    <2>3. QED
      BY <1>1, <1>2, <2>1, <2>2, LaterSerialStep
  <1>5. QED
    BY <1>3, <1>4, ZenonT(60) DEF RecordIngestSource

\* The backfill gives a memory its source and leaves the rest of it alone.
LEMMA BackfillSame ==
    ASSUME IngestInv, NEW w \in Ingester, BackfillSource(w)
    PROVE  SameButSource(db, db')
  <1> DEFINE j == job[w]
             m == j.steps[j.next].memory
             d == UpdateMemoryRow(db, m, db.memories[m].content, db.memories[m].confidence, j.source,
                                  db.memories[m].expires_at)
  <1>1. j.pc \in Committed
    <2>1. j.pc = "backfill"
      BY ZenonT(30) DEF BackfillSource
    <2>2. QED
      BY <2>1 DEF Committed
  <1>2. /\ View(w) = db /\ ~Owns(w) /\ db \in Database /\ JobOK(j)
        /\ j.source \in SourceID \cup {None}
    BY <1>1, LaterFacts
  <1>3. UNCHANGED <<db, tx>> => SameButSource(db, db')
    BY NothingChanged
  <1>4. ASSUME j.next <= Len(j.steps), m # None, HasMemory(db, m),
               UpdateMemory(w, m, db.memories[m].content, db.memories[m].confidence, j.source,
                            db.memories[m].expires_at)
        PROVE  SameButSource(db, db')
    <2>1. m \in MemoryID
      <3>1. j.steps \in Seq(PlannedStep) /\ j.next \in DOMAIN j.steps
        <4> HIDE DEF m, d
        <4>1. j.steps \in Seq(PlannedStep) /\ j.next \in Nat \ {0}
          BY <1>2 DEF JobOK, Typed
        <4>2. QED
          BY <1>4, <4>1
      <3>2. j.steps[j.next] \in PlannedStep
        BY <3>1
      <3>3. QED
        BY <1>4, <3>1, <3>2 DEF PlannedStep
    <2>2. Write(w, d)
      BY <1>2, <1>4 DEF UpdateMemory
    <2> HIDE DEF d, m
    <2>3. db' = d
      BY <1>2, <2>2 DEF Write
    <2>4. /\ d.entities = db.entities
          /\ \A x \in MemoryID : x # m => d.memories[x] = db.memories[x]
          /\ d.memories[m] = [db.memories[m] EXCEPT !.source_id = d.memories[m].source_id]
      BY <1>2, <1>4, <2>1, AnnotationShape DEF d
    <2>5. db.memories[m] \in MemoryRow
      BY <1>2, <1>4, <2>1 DEF Database, HasMemory
    <2>6. /\ d.memories[m].entity_id = db.memories[m].entity_id
          /\ d.memories[m].category = db.memories[m].category
          /\ d.memories[m].content = db.memories[m].content
          /\ d.memories[m].expires_at = db.memories[m].expires_at
      BY <2>4, <2>5 DEF MemoryRow
    <2>7. SameButSource(db, d)
      BY <1>4, <2>4, <2>6 DEF SameButSource, HasMemory
    <2>8. QED
      BY <2>3, <2>7
  <1>5. QED
    BY <1>3, <1>4, ZenonT(60) DEF BackfillSource

LEMMA BackfillSourceSerial ==
    ASSUME IngestInv, SerialInv, NEW w \in Ingester, BackfillSource(w)
    PROVE  SerialInv'
  <1> DEFINE j == job[w]
             owner == db.memories[j.steps[j.next].memory].entity_id
  <1>1. j.pc = "backfill" /\ edits' = edits /\ j.pc \in Committed
    <2>1. j.pc = "backfill" /\ edits' = edits
      BY ZenonT(30) DEF BackfillSource
    <2>2. QED
      BY <2>1 DEF Committed
  <1>2. DOMAIN j = DOMAIN IdleJob /\ SameButSource(db, db')
    BY <1>1, LaterFacts, BackfillSame
  <1>3. CASE Become(w, [j EXCEPT !.pc = "invalidate"])
    <2> DEFINE r == [j EXCEPT !.pc = "invalidate"]
    <2>1. /\ r.pc = "invalidate" /\ r.refs = j.refs /\ r.edges = j.edges /\ r.made = j.made
          /\ r.reply = j.reply /\ r.blind = j.blind
      BY <1>2 DEF IdleJob
    <2>2. Become(w, r) /\ "invalidate" \in Committed
      BY <1>3 DEF Committed
    <2> HIDE DEF r
    <2>3. QED
      BY <1>1, <1>2, <2>1, <2>2, LaterSerialStep
  <1>4. CASE Become(w, [j EXCEPT !.next = @ + 1])
    <2> DEFINE r == [j EXCEPT !.next = @ + 1]
    <2>1. /\ r.pc = j.pc /\ r.refs = j.refs /\ r.edges = j.edges /\ r.made = j.made
          /\ r.reply = j.reply /\ r.blind = j.blind
      BY <1>2 DEF IdleJob
    <2>2. Become(w, r)
      BY <1>4
    <2> HIDE DEF r
    <2>3. QED
      BY <1>1, <1>2, <2>1, <2>2, LaterSerialStep
  <1>5. CASE Become(w, [j EXCEPT !.next = @ + 1, !.touched = @ \cup {owner},
                                 !.cleared = @ \ {owner}])
    <2> DEFINE r == [j EXCEPT !.next = @ + 1, !.touched = @ \cup {owner},
                              !.cleared = @ \ {owner}]
    <2>1. /\ r.pc = j.pc /\ r.refs = j.refs /\ r.edges = j.edges /\ r.made = j.made
          /\ r.reply = j.reply /\ r.blind = j.blind
      BY <1>2, SMTT(30) DEF IdleJob
    <2>2. Become(w, r)
      BY <1>5
    <2> HIDE DEF r, owner
    <2>3. QED
      BY <1>1, <1>2, <2>1, <2>2, LaterSerialStep
  <1>6. QED
    BY <1>3, <1>4, <1>5, ZenonT(60) DEF BackfillSource

LEMMA InvalidateContextsSerial ==
    ASSUME IngestInv, SerialInv, NEW w \in Ingester, InvalidateContexts(w)
    PROVE  SerialInv'
  <1> DEFINE j == job[w]
             cleared == j.cleared \cup Invalidated(j)
             r == [j EXCEPT !.pc = "done", !.cleared = cleared]
  <1>1. /\ j.pc = "invalidate" /\ UNCHANGED <<db, tx, edits>> /\ Become(w, r)
        /\ j.pc \in Committed
    BY DEF InvalidateContexts, Invalidated, Committed
  <1>2. DOMAIN j = DOMAIN IdleJob
    BY <1>1, LaterFacts
  <1>3. /\ r.pc = "done" /\ r.refs = j.refs /\ r.edges = j.edges /\ r.made = j.made
        /\ r.reply = j.reply /\ r.blind = j.blind
    BY <1>2 DEF IdleJob
  <1> HIDE DEF r
  <1>4. SameButSource(db, db')
    BY <1>1, NothingChanged
  <1>5. QED
    BY <1>1, <1>3, <1>4, LaterSerialStep

-----------------------------------------------------------------------------
(* The rest of the server *)

LEMMA EditSerial ==
    ASSUME IngestInv, SerialInv, NEW q \in Request \ Ingester, Edit(q)
    PROVE  SerialInv'
  <1>1. job' = job /\ edits' = edits + 1
    BY ZenonT(30) DEF Edit
  <1>2. edits \in Nat
    BY IngestAssumption DEF IngestInv
  <1>3. edits' # 0
    BY <1>1, <1>2
  <1>4. OneAtATime'
    BY <1>1 DEF SerialInv, OneAtATime, Answered
  <1>5. QED
    BY <1>3, <1>4 DEF SerialInv

LEMMA ServerStopsSerial ==
    ASSUME IngestInv, SerialInv, ServerStops
    PROVE  SerialInv'
  <1>1. /\ tx' = None /\ db' = db /\ edits' = edits
        /\ job' = [w \in Ingester |->
                     IF job[w].pc \in {"idle", "done", "failed", "lost"} THEN job[w]
                     ELSE [IdleJob EXCEPT !.pc = "lost"]]
    BY DEF ServerStops
  <1>2. ASSUME NEW v \in Ingester
        PROVE  /\ job'[v].pc \in Resting
               /\ edits = 0 => Fits(job'[v], db', View(v)', now')
    <2>1. CASE job[v].pc \in Resting
      <3>1. job'[v] = job[v]
        BY <1>1, <2>1 DEF Resting
      <3>2. edits = 0 => Fits(job[v], db, View(v), now)
        BY DEF SerialInv
      <3>3. QED
        BY <2>1, <3>1, <3>2, RestingFits
    <2>2. CASE job[v].pc \notin Resting
      <3> DEFINE r == [IdleJob EXCEPT !.pc = "lost"]
      <3>1. job'[v] = r
        BY <1>1, <2>2 DEF Resting
      <3>2. r.pc = "lost" /\ \A f \in DOMAIN IdleJob \ {"pc"} : r[f] = IdleJob[f]
        BY DEF IdleJob
      <3> HIDE DEF r
      <3>3. Fits(r, db', View(v)', now')
        BY <3>2, BlankFits DEF BlankStages
      <3>4. QED
        BY <3>1, <3>2, <3>3 DEF Resting
    <2>3. QED
      BY <2>1, <2>2
  <1>3. OneAtATime'
    BY <1>2 DEF OneAtATime, Answered, Resting
  <1>4. StoreFits => StoreFits'
    BY <1>1 DEF StoreFits
  <1>5. QED
    BY <1>1, <1>2, <1>3, <1>4 DEF SerialInv

\* A memory that has not expired had not expired before.
LEMMA ActiveBefore ==
    ASSUME Clocked, Clocked', now' = now \/ now' > now, NEW d \in Database, NEW m \in MemoryID,
           HasMemory(d, m), Active(d.memories[m], now')
    PROVE  Active(d.memories[m], now)
  <1> DEFINE expires == d.memories[m].expires_at
  <1>1. expires = None \/ (expires \in Nat /\ expires > now')
    BY StoredRow, TimeAssumption DEF Active
  <1>2. now \in Nat /\ now' \in Nat
    BY TimeAssumption DEF Clocked
  <1> HIDE DEF expires
  <1>3. expires = None \/ expires > now
    BY <1>1, <1>2
  <1>4. QED
    BY <1>3 DEF Active, expires

\* Memories that expire while a list is planned and committed leave its plan right.
LEMMA TimePassesSerial ==
    ASSUME IngestInv, SerialInv, Clocked, Clocked', TimePasses
    PROVE  SerialInv'
  <1>1. db' = db /\ tx' = tx /\ job' = job /\ edits' = edits /\ now' > now /\ db \in Database
    BY DEF TimePasses, IngestInv, Inv, TypeOK
  <1>2. \A w \in Ingester : View(w)' = View(w)
    BY <1>1 DEF View, Owns
  <1>3. \A entity, category : ActiveMemories(db, entity, category, now')
                                \subseteq ActiveMemories(db, entity, category, now)
    BY <1>1, ActiveBefore DEF ActiveMemories
  <1>4. \A memories, entity, category :
           Recalls(memories, db, now, entity, category) =>
              Recalls(memories, db, now', entity, category)
    BY <1>3 DEF Recalls
  <1>5. \A entity, c, action, target :
           DecisionFits(db, now, entity, c, action, target) =>
              DecisionFits(db, now', entity, c, action, target)
    <2>1. SUFFICES ASSUME NEW entity, NEW c, NEW action, NEW target,
                          DecisionFits(db, now, entity, c, action, target)
                   PROVE  DecisionFits(db, now', entity, c, action, target)
      OBVIOUS
    <2>2. \A m \in ActiveMemories(db, entity, c.category, now') :
             m \in ActiveMemories(db, entity, c.category, now)
      BY <1>3
    <2>3. QED
      BY <2>1, <2>2, Zenon DEF DecisionFits
  <1>6. \A j : PlanFits(j, db, now) => PlanFits(j, db, now')
    BY <1>4, <1>5 DEF PlanFits, KnownFits, StepsFit, InHandFits
  <1>7. \A j, d : Fits(j, db, d, now) => Fits(j, db, d, now')
    BY <1>6 DEF Fits
  <1>8. OneAtATime' /\ (StoreFits => StoreFits')
    BY <1>1 DEF SerialInv, OneAtATime, Answered, StoreFits
  <1>9. QED
    BY <1>1, <1>2, <1>7, <1>8 DEF SerialInv

-----------------------------------------------------------------------------
(* The theorems *)

LEMMA SerialInitHolds == IngestInit => SerialInv
  <1> SUFFICES ASSUME IngestInit PROVE SerialInv
    OBVIOUS
  <1>1. db \in InitialDatabases /\ \A w \in Ingester : job[w] = IdleJob
    BY DEF IngestInit
  <1>2. IdleJob.pc = "idle"
    BY DEF IdleJob
  <1>3. OneAtATime
    BY <1>1, <1>2 DEF OneAtATime, Answered
  <1>4. StoreFits
    BY <1>1 DEF StoreFits, NamesAreClean
  <1>5. \A w \in Ingester : Fits(IdleJob, db, View(w), now)
    BY <1>2, BlankFits DEF BlankStages
  <1>6. QED
    BY <1>1, <1>3, <1>4, <1>5 DEF SerialInv

LEMMA SerialNextPreserves ==
    ASSUME IngestInv, AtomicInv, SerialInv, Clocked, Clocked', [SerialNext]_ingestVars
    PROVE  SerialInv'
  <1>1. CASE UNCHANGED ingestVars
    <2>1. db' = db /\ tx' = tx /\ job' = job /\ edits' = edits /\ now' = now
      BY <1>1 DEF ingestVars
    <2>2. \A w \in Ingester : View(w)' = View(w)
      BY <2>1 DEF View, Owns
    <2>3. OneAtATime' /\ (StoreFits => StoreFits')
      BY <2>1 DEF SerialInv, OneAtATime, Answered, StoreFits
    <2>4. QED
      BY <2>1, <2>2, <2>3 DEF SerialInv
  <1>2. CASE TimePasses
    BY <1>2, TimePassesSerial
  <1>3. CASE SerialNext /\ ServerStep /\ now' = now
    <2>1. \A v \in Ingester : job[v].pc = "idle" /\ job'[v].pc # "idle" =>
             \A u \in Ingester : Answered(u)
      BY <1>3 DEF SerialNext
    <2>2. ASSUME NEW w \in Ingester, Receive(w)
          PROVE  SerialInv'
      BY <2>1, <2>2, ReceiveSerial
    <2>3. ASSUME NEW w \in Ingester, Proceed(w)
          PROVE  SerialInv'
      BY <1>3, <2>3, ResolveExplicitSubjectSerial, ExtractSerial, ResolveCandidateSubjectSerial,
         ResolveRelatedEntitySerial, ResolveMemorySerial, QueueRelationshipsSerial,
         BeginIngestTxSerial, CreatePlannedEntitySerial, CreatePlannedRelationshipSerial,
         ExecutePlannedMemorySerial, CommitIngestTxSerial, RecordIngestSourceSerial,
         BackfillSourceSerial, InvalidateContextsSerial
         DEF Proceed
    <2>4. ASSUME NEW w \in Ingester, PlanningFails(w) \/ CommitFails(w)
          PROVE  SerialInv'
      BY <2>4, PlanningFailsSerial, CommitFailsSerial
    <2>5. ASSUME NEW q \in Request \ Ingester, Edit(q)
          PROVE  SerialInv'
      BY <2>5, EditSerial
    <2>6. CASE ServerStops
      BY <2>6, ServerStopsSerial
    <2>7. QED
      BY <1>3, <2>2, <2>3, <2>4, <2>5, <2>6 DEF ServerStep
  <1>4. QED
    BY <1>1, <1>2, <1>3 DEF SerialNext, IngestNext

\* A caller that waits for its answer is one of those IngestSpec allows.
LEMMA SerialIsIngest == SerialSpec => IngestSpec
  <1>1. SerialNext => IngestNext
    BY DEF SerialNext
  <1>2. QED
    BY <1>1, PTL DEF SerialSpec, IngestSpec

\* As long as nobody else writes, the plan of the one ingest under way stays
\* true of the store from the first name it resolves to its commit.
THEOREM PlansStayTrue == SerialSpec => []SerialInv
  <1>1. IngestInit => SerialInv
    BY SerialInitHolds
  <1>2. IngestInv /\ AtomicInv /\ SerialInv /\ Clocked /\ Clocked' /\ [SerialNext]_ingestVars
           => SerialInv'
    BY SerialNextPreserves
  <1>3. QED
    BY <1>1, <1>2, SerialIsIngest, IngestInvariantHolds, TransactionIsRecorded, ClockTyped, PTL
       DEF SerialSpec

\* The counters of the response, which Ingest takes from its plan, are the
\* numbers of entities and relationships its transaction created, for every
\* extraction and whatever the store held before.
THEOREM RepliesCountTrue == SerialSpec => []ReplyCountsWhatWasMade
  <1>1. SerialInv => ReplyCountsWhatWasMade
    BY DEF SerialInv, Fits, Counts, MadeKeys, ReplyCountsWhatWasMade
  <1>2. QED
    BY <1>1, PlansStayTrue, PTL

\* Ingests sent one after the other never give one name to two entities, however
\* many fail or are lost on the way: FindEntityByName finds again what
\* createPlannedEntities stored, if names come without blanks around them.
THEOREM EntitiesNotDuplicated ==
    ASSUME NamesAreClean
    PROVE  SerialSpec => []NoDuplicateEntities
  <1>1. SerialInv => NoDuplicateEntities
    <2> SUFFICES ASSUME SerialInv, edits = 0, NEW name \in Name
                 PROVE  Cardinality(EntitiesNamed(db, name)) <= 1
      BY DEF NoDuplicateEntities
    <2>1. OneEntityPerName(db)
      BY DEF SerialInv, StoreFits
    <2>2. CASE EntitiesNamed(db, name) = {}
      BY <2>2, FS_EmptySet
    <2>3. CASE EntitiesNamed(db, name) # {}
      <3>1. PICK e \in EntitiesNamed(db, name) : TRUE
        BY <2>3
      <3>2. EntitiesNamed(db, name) = {e}
        BY <2>1, <3>1 DEF EntitiesNamed, OneEntityPerName
      <3>3. Cardinality({e}) = 1
        BY FS_Singleton
      <3>4. QED
        BY <3>2, <3>3
    <2>4. QED
      BY <2>2, <2>3
  <1>2. QED
    BY <1>1, PlansStayTrue, PTL

\* A step of the transaction writes to it alone.
LEMMA InTransaction ==
    ASSUME IngestInv, NEW w \in Ingester,
           CreatePlannedEntity(w) \/ CreatePlannedRelationship(w) \/ ExecutePlannedMemory(w)
    PROVE  db' = db
  <1>1. job[w].pc \in Committing
    BY ZenonT(30) DEF CreatePlannedEntity, CreatePlannedRelationship, ExecutePlannedMemory,
                      Committing
  <1>2. Owns(w)
    BY <1>1, CommitFacts
  <1>3. \A d : Write(w, d) => db' = db
    BY <1>2 DEF Write, Owns
  <1>4. CreatePlannedEntity(w) => db' = db
    BY <1>3, ZenonT(30) DEF CreatePlannedEntity, CreateEntity
  <1>5. CreatePlannedRelationship(w) => db' = db
    BY <1>3, ZenonT(30) DEF CreatePlannedRelationship, CreateRelationship, Abandon
  <1>6. ExecutePlannedMemory(w) => db' = db
    BY <1>3, ZenonT(30) DEF ExecutePlannedMemory, CreateMemory, UpdateMemory, Abandon
  <1>7. QED
    BY <1>4, <1>5, <1>6

\* Only an edit counts as one.
LEMMA EditsCounted ==
    ASSUME ServerStep
    PROVE  edits' = edits \/ edits' = edits + 1
  <1>1. ASSUME NEW w \in Ingester, Proceed(w)
        PROVE  edits' = edits
    <2>1. CASE ResolveExplicitSubject(w) \/ Extract(w) \/ ResolveCandidateSubject(w)
      BY <2>1, ZenonT(30) DEF ResolveExplicitSubject, Extract, ResolveCandidateSubject
    <2>2. CASE ResolveRelatedEntity(w) \/ ResolveMemory(w) \/ QueueRelationships(w)
      BY <2>2, ZenonT(30) DEF ResolveRelatedEntity, ResolveMemory, QueueRelationships
    <2>3. CASE BeginIngestTx(w) \/ CreatePlannedEntity(w) \/ CreatePlannedRelationship(w)
      BY <2>3, ZenonT(30) DEF BeginIngestTx, CreatePlannedEntity, CreatePlannedRelationship
    <2>4. CASE ExecutePlannedMemory(w) \/ CommitIngestTx(w) \/ RecordIngestSource(w)
      BY <2>4, ZenonT(30) DEF ExecutePlannedMemory, CommitIngestTx, RecordIngestSource
    <2>5. CASE BackfillSource(w) \/ InvalidateContexts(w)
      BY <2>5, ZenonT(30) DEF BackfillSource, InvalidateContexts
    <2>6. QED
      BY <1>1, <2>1, <2>2, <2>3, <2>4, <2>5 DEF Proceed
  <1>2. ASSUME NEW w \in Ingester, Receive(w) \/ PlanningFails(w) \/ CommitFails(w)
        PROVE  edits' = edits
    BY <1>2, ZenonT(30) DEF Receive, PlanningFails, CommitFails
  <1>3. ASSUME NEW q \in Request \ Ingester, Edit(q)
        PROVE  edits' = edits + 1
    BY <1>3, ZenonT(30) DEF Edit
  <1>4. CASE ServerStops
    BY <1>4 DEF ServerStops
  <1>5. QED
    BY <1>1, <1>2, <1>3, <1>4 DEF ServerStep

\* Outside a commit nobody changes what a memory says.
LEMMA OnlyCommitsWrite ==
    ASSUME IngestInv, ServerStep, edits' = edits, \A w \in Ingester : ~CommitIngestTx(w)
    PROVE  SameButSource(db, db')
  <1>1. db' = db => SameButSource(db, db')
    BY NothingChanged
  <1>2. ASSUME NEW w \in Ingester, Receive(w) \/ PlanningFails(w) \/ CommitFails(w)
        PROVE  db' = db
    BY <1>2, ZenonT(30) DEF Receive, PlanningFails, CommitFails, Abandon
  <1>3. ASSUME NEW w \in Ingester, Proceed(w)
        PROVE  SameButSource(db, db')
    <2>1. CASE CreatePlannedEntity(w) \/ CreatePlannedRelationship(w) \/ ExecutePlannedMemory(w)
      BY <1>1, <2>1, InTransaction
    <2>2. CASE RecordIngestSource(w) \/ BackfillSource(w)
      BY <2>2, RecordSame, BackfillSame
    <2>3. CASE ResolveExplicitSubject(w) \/ Extract(w) \/ ResolveCandidateSubject(w)
      BY <1>1, <2>3, ZenonT(30) DEF ResolveExplicitSubject, Extract, ResolveCandidateSubject
    <2>4. CASE ResolveRelatedEntity(w) \/ ResolveMemory(w) \/ QueueRelationships(w)
      BY <1>1, <2>4, ZenonT(30) DEF ResolveRelatedEntity, ResolveMemory, QueueRelationships
    <2>5. CASE BeginIngestTx(w) \/ InvalidateContexts(w)
      BY <1>1, <2>5, ZenonT(30) DEF BeginIngestTx, BeginTx, InvalidateContexts
    <2>6. QED
      BY <1>3, <2>1, <2>2, <2>3, <2>4, <2>5 DEF Proceed
  <1>4. ASSUME NEW q \in Request \ Ingester, Edit(q)
        PROVE  FALSE
    <2>1. edits' = edits + 1
      BY <1>4, ZenonT(30) DEF Edit
    <2>2. edits \in Nat
      BY IngestAssumption DEF IngestInv
    <2>3. QED
      BY <2>1, <2>2
  <1>5. CASE ServerStops
    BY <1>1, <1>5 DEF ServerStops
  <1>6. QED
    BY <1>1, <1>2, <1>3, <1>4, <1>5 DEF ServerStep

\* Two memories with one text were there before the step, or the list whose
\* transaction it commits says it twice.
LEMMA StepRepeats ==
    ASSUME IngestInv, AtomicInv, SerialInv, Clocked, Clocked', [SerialNext]_ingestVars,
           edits' = 0, NEW m1 \in MemoryID, NEW m2 \in MemoryID, Twins(db', now', m1, m2)
    PROVE  \/ Twins(db, now, m1, m2)
           \/ \E w \in Ingester : job[w].pc = "memories" /\ ListRepeats(w, db'.memories[m1])
  <1>1. db \in Database
    BY DEF IngestInv, Inv, TypeOK
  <1>2. ASSUME SameButSource(db, db'), now' = now \/ now' > now
        PROVE  Twins(db, now, m1, m2)
    <2>1. HasMemory(db, m1) /\ HasMemory(db, m2)
      BY <1>2 DEF Twins, SameButSource
    <2>2. Active(db.memories[m1], now') /\ Active(db.memories[m2], now')
      BY <1>2 DEF Twins, SameButSource, Active
    <2>3. Active(db.memories[m1], now) /\ Active(db.memories[m2], now)
      BY <1>1, <1>2, <2>1, <2>2, ActiveBefore
    <2>4. QED
      BY <1>2, <2>1, <2>3 DEF Twins, SameButSource
  <1>3. CASE UNCHANGED ingestVars
    <2>1. db' = db /\ now' = now
      BY <1>3 DEF ingestVars
    <2>2. QED
      BY <1>2, <2>1, NothingChanged
  <1>4. CASE TimePasses
    <2>1. db' = db /\ now' > now
      BY <1>4 DEF TimePasses
    <2>2. QED
      BY <1>2, <2>1, NothingChanged
  <1>5. CASE ServerStep /\ now' = now
    <2>1. edits = 0 /\ edits' = edits
      <3>1. edits' = edits \/ edits' = edits + 1
        BY <1>5, EditsCounted
      <3>2. edits \in Nat
        BY IngestAssumption DEF IngestInv
      <3>3. QED
        BY <3>1, <3>2
    <2>2. CASE \A w \in Ingester : ~CommitIngestTx(w)
      BY <1>2, <1>5, <2>1, <2>2, OnlyCommitsWrite
    <2>3. ASSUME NEW w \in Ingester, CommitIngestTx(w)
          PROVE  \/ Twins(db, now, m1, m2)
                 \/ job[w].pc = "memories" /\ ListRepeats(w, db'.memories[m1])
      <3> DEFINE j == job[w]
                 row == db'.memories[m1]
      <3>1. j.pc = "memories" /\ j.pc \in Committing /\ Commit(w)
        BY <2>3 DEF CommitIngestTx, Committing
      <3>2. /\ JobOK(j) /\ tx.work \in Database /\ db \in Database /\ Good(db)
            /\ Effect(j, db, tx.work) /\ db' = tx.work /\ Fits(j, db, tx.work, now)
        BY <2>1, <3>1, LinkingFacts, CommitFacts DEF AtomicInv, Commit
      <3>3. Planned(j, db, tx.work)
        BY <3>1, <3>2 DEF Fits, PlanFits, Planned
      <3>4. \/ Twins(db, now, m1, m2)
            \/ \E n, k \in DOMAIN j.steps : n # k /\ Says(j, n, row) /\ Says(j, k, row)
        BY <1>5, <3>2, <3>3, CommitRepeats
      <3>5. QED
        BY <3>1, <3>4 DEF ListRepeats, Says
    <2>4. QED
      BY <2>2, <2>3
  <1>6. QED
    BY <1>3, <1>4, <1>5 DEF SerialNext, IngestNext

\* Ingests sent one after the other do not store a memory beside one with the
\* same text that has not expired: resolveMemoryAction recognises what an earlier
\* ingest, or the same one before it was repeated, has stored.  So for every
\* threshold, every similarity and whatever expires between the read of
\* ListActiveMemoriesByEntityAndCategory and the commit; only a list that says
\* the same thing twice stores it twice.
THEOREM MemoriesNotDuplicated == SerialSpec => OnlyListsRepeat
  <1>1. ASSUME IngestInv, AtomicInv, SerialInv, Clocked, Clocked', [SerialNext]_ingestVars
        PROVE  [edits' = 0 => \A m1, m2 \in MemoryID :
                   Twins(db', now', m1, m2) =>
                       \/ Twins(db, now, m1, m2)
                       \/ \E w \in Ingester :
                             job[w].pc = "memories" /\ ListRepeats(w, db'.memories[m1])]_ingestVars
    BY <1>1, StepRepeats
  <1>2. QED
    BY <1>1, PlansStayTrue, SerialIsIngest, IngestInvariantHolds, TransactionIsRecorded,
       ClockTyped, PTL DEF SerialSpec, OnlyListsRepeat
=============================================================================

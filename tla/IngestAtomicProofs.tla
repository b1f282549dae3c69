------------------------- MODULE IngestAtomicProofs -------------------------
(***************************************************************************)
(* The pipeline implements IngestContract: for any requests, candidates    *)
(* and edits by others, an ingest takes effect in one step, exactly as it  *)
(* says, or not at all.  The invariant added to IngestInv says what a      *)
(* transaction in progress has made of the database it began from: the     *)
(* entities, edges and memories its request has recorded, and no more.     *)
(***************************************************************************)
EXTENDS IngestProofs, FiniteSetTheorems

-----------------------------------------------------------------------------
(* What a request has done so far *)

\* The entities of the plan that the commit phase created.
CreatedEntities(j) == {j.refs[k].existing : k \in {x \in Key : j.refs[x] # None /\ j.refs[x].created}}

LinkRow(j, edge) ==
    [from |-> j.refs[edge.from].existing, to |-> j.refs[edge.to].existing, type |-> edge.type]

MadeEdges(j) == {LinkRow(j, edge) : edge \in j.made}

\* The row a step that creates a memory writes.
NewRow(j, n) ==
    [entity_id |-> j.refs[j.steps[n].subject].existing, category |-> j.candidates[n].category,
     content |-> j.candidates[n].content, confidence |-> j.candidates[n].confidence,
     source_id |-> None, expires_at |-> None]

\* The executed steps that created, or updated, a memory.
Did(j, action) == {n \in DOMAIN j.steps : j.steps[n].memory # None /\ j.steps[n].action = action}

\* Of those that updated m, the last.
IsLastUpdate(j, n) ==
    \A k \in Did(j, "update") : j.steps[k].memory = j.steps[n].memory => k <= n

-----------------------------------------------------------------------------
(* The invariant *)

\* A dry run stops at its plan, edges are made after the entities, and a step
\* has written a memory once it is executed and it is a write.
Unwritten == {"idle", "subject", "extract", "planned"} \cup Planning

Before == Unwritten \cup {"entities", "relationships"}

Orderly(j) ==
    /\ j.pc \in {"planned"} \cup Committing \cup Committed => ~j.dry_run
    /\ j.pc \in Unwritten => CreatedEntities(j) = {}
    /\ j.pc \in Before \ {"relationships"} => j.made = {}
    /\ j.pc \in {"planned", "entities", "relationships"} => j.next = 1
    /\ \A n \in DOMAIN j.steps :
          /\ j.steps[n].memory # None => j.steps[n].action \in {"create", "update"}
          /\ j.pc \in Before => j.steps[n].memory = None
          /\ j.pc = "memories" =>
                (j.steps[n].memory # None <=> j.steps[n].action \in {"create", "update"} /\ n < j.next)
          /\ j.pc \in Committed =>
                (j.steps[n].memory # None <=> j.steps[n].action \in {"create", "update"})

\* From d1 to d2, the entities the request created have appeared.
EntitiesDone(j, d1, d2) ==
    \A e \in EntityID :
        IF e \in CreatedEntities(j) THEN ~HasEntity(d1, e) /\ HasEntity(d2, e)
        ELSE d2.entities[e] = d1.entities[e]

\* So have the edges it made, in rows of their own.
EdgesDone(j, d1, d2) ==
    /\ \A r \in RelationshipID : d2.relationships[r] # d1.relationships[r] =>
          ~HasRelationship(d1, r) /\ d2.relationships[r] \in MadeEdges(j)
    /\ \A row \in MadeEdges(j) :
          /\ ~RelationshipExists(d1, row.from, row.to, row.type)
          /\ \E r \in RelationshipID :
                d2.relationships[r] = row /\ d2.relationships[r] # d1.relationships[r]

\* So have the memories its steps created, each under an id of its own.
CreatesDone(j, d1, d2) ==
    \A n \in Did(j, "create") :
        /\ j.steps[n].memory > d1.issued.memory
        /\ j.steps[n].memory <= d2.issued.memory
        /\ d2.memories[j.steps[n].memory] = NewRow(j, n)
        /\ \A k \in Did(j, "create") : j.steps[k].memory = j.steps[n].memory => k = n

\* Those its steps updated have the content of the last one.
UpdateDone(j, n, before, after) ==
    \E content \in Content, confidence \in Confidence :
        /\ after = [before EXCEPT !.content = content, !.confidence = confidence]
        /\ IsLastUpdate(j, n) => /\ content = j.candidates[n].content
                                 /\ confidence = j.candidates[n].confidence

UpdatesDone(j, d1, d2) ==
    \A n \in Did(j, "update") :
        /\ j.steps[n].memory <= d1.issued.memory
        /\ HasMemory(d1, j.steps[n].memory)
        /\ UpdateDone(j, n, d1.memories[j.steps[n].memory], d2.memories[j.steps[n].memory])

\* The other memories are as they were.
OthersKept(j, d1, d2) ==
    \A m \in MemoryID :
        \/ \E n \in Did(j, "create") \cup Did(j, "update") : j.steps[n].memory = m
        \/ d2.memories[m] = d1.memories[m]

Effect(j, d1, d2) ==
    /\ EntitiesDone(j, d1, d2)
    /\ EdgesDone(j, d1, d2)
    /\ CreatesDone(j, d1, d2)
    /\ UpdatesDone(j, d1, d2)
    /\ OthersKept(j, d1, d2)
    /\ d2.ingest_sources = d1.ingest_sources

AtomicInv ==
    \A w \in Ingester : Orderly(job[w]) /\ (Owns(w) => Effect(job[w], tx.base, tx.work))

-----------------------------------------------------------------------------
(* What the contract sees of a step *)

WritesOf(j) ==
    [n \in DOMAIN j.steps |->
        [action |-> j.steps[n].action, memory |-> j.steps[n].memory, row |-> NewRow(j, n)]]

Ended == {"done", "failed", "lost"}

\* Outcome, of an ingest's record.
Told(j) ==
    CASE j.pc \in Committed -> [state |-> "committed", entities |-> CreatedEntities(j),
                                edges |-> MadeEdges(j), writes |-> WritesOf(j)]
      [] j.pc \in Ended -> [state |-> "closed"]
      [] j.pc \notin {"idle"} \cup Committed \cup Ended /\ j.dry_run -> [state |-> "preview"]
      [] OTHER -> [state |-> "open"]

\* A step of the ingests is a step of the contract, or one it does not see.
Refines == [Contract!ContractNext]_(Contract!contractVars)

LEMMA OutcomeTold ==
    ASSUME NEW w \in Ingester
    PROVE  Outcome(w) = Told(job[w]) /\ Outcome(w)' = Told(job'[w])
  <1>1. Outcome(w) = Told(job[w])
    BY DEF Outcome, Told, EdgeRow, MadeEdges, LinkRow, CreatedEntities, WritesOf, NewRow,
           Committed, Ended
  <1>2. Outcome(w)' = Told(job'[w])
    BY DEF Outcome, Told, EdgeRow, MadeEdges, LinkRow, CreatedEntities, WritesOf, NewRow,
           Committed, Ended
  <1>3. QED
    BY <1>1, <1>2

\* The four things it may see.
LEMMA ToldCases ==
    ASSUME NEW j
    PROVE  /\ j.pc \in Committed => /\ Told(j).state = "committed"
                                    /\ Told(j).entities = CreatedEntities(j)
                                    /\ Told(j).edges = MadeEdges(j)
                                    /\ Told(j).writes = WritesOf(j)
           /\ j.pc \in Ended => Told(j) = [state |-> "closed"]
           /\ j.pc \notin {"idle"} \cup Committed \cup Ended =>
                 Told(j) = [state |-> IF j.dry_run THEN "preview" ELSE "open"]
           /\ j.pc = "idle" => Told(j) = [state |-> "open"]
           /\ Told(j) = [state |-> "closed"] => j.pc \in Ended
  <1>1. CASE j.pc \in Committed
    <2>1. Told(j) = [state |-> "committed", entities |-> CreatedEntities(j),
                     edges |-> MadeEdges(j), writes |-> WritesOf(j)]
      BY <1>1 DEF Told, Committed, Ended
    <2>2. Told(j).state = "committed"
      BY <2>1
    <2>3. QED
      BY <1>1, <2>1, <2>2 DEF Committed, Ended
  <1>2. CASE j.pc \in Ended
    BY <1>2 DEF Told, Committed, Ended
  <1>3. CASE j.pc \notin {"idle"} \cup Committed \cup Ended
    BY <1>3 DEF Told, Committed, Ended
  <1>4. CASE j.pc = "idle"
    BY <1>4 DEF Told, Committed, Ended
  <1>5. QED
    BY <1>1, <1>2, <1>3, <1>4

\* A step whose ingest tells the same and writes nothing is not seen.
LEMMA Unseen ==
    ASSUME job = [w \in Ingester |-> job[w]], NEW w \in Ingester, NEW r, Become(w, r),
           Told(r) = Told(job[w]), UNCHANGED <<db, edits>>
    PROVE  Refines
  <1>1. \A v \in Ingester : Outcome(v)' = Outcome(v)
    BY OutcomeTold DEF Become
  <1>2. QED
    BY <1>1 DEF Refines, Contract!contractVars

\* A step of one ingest leaves what the others tell alone.
LEMMA OthersTold ==
    ASSUME job = [w \in Ingester |-> job[w]], NEW w \in Ingester, NEW r, Become(w, r)
    PROVE  /\ Contract!OthersWait(w)
           /\ [v \in Ingester |-> Outcome(v)][w] = Told(job[w])
           /\ [v \in Ingester |-> Outcome(v)]'[w] = Told(r)
  <1>1. \A v \in Ingester \ {w} : Outcome(v)' = Outcome(v)
    BY OutcomeTold DEF Become
  <1>2. Outcome(w) = Told(job[w]) /\ Outcome(w)' = Told(r)
    BY OutcomeTold DEF Become
  <1>3. QED
    BY <1>1, <1>2 DEF Contract!OthersWait

LEMMA Finishes ==
    ASSUME job = [w \in Ingester |-> job[w]], NEW w \in Ingester, NEW r, Become(w, r),
           r.pc \in Ended, job[w].pc \notin Ended, UNCHANGED <<db, edits>>
    PROVE  Refines
  <1>1. Told(r) = [state |-> "closed"] /\ Told(job[w]) # [state |-> "closed"]
    BY ToldCases
  <1>2. Contract!Finish(w)
    BY <1>1, OthersTold DEF Contract!Finish, Contract!Closed
  <1>3. QED
    BY <1>2 DEF Refines, Contract!ContractNext

-----------------------------------------------------------------------------
(* The invariant, one ingest at a time *)

\* What a step that makes r the state of ingest w has to show of r.
Follows(w, r) ==
    /\ Become(w, r)
    /\ TxMoves(w)
    /\ Orderly(r)
    /\ Owns(w)' => Effect(r, tx'.base, tx'.work)

LEMMA StepFollows ==
    ASSUME IngestInv, AtomicInv, NEW w \in Ingester, NEW r, Follows(w, r)
    PROVE  AtomicInv'
  <1> SUFFICES ASSUME NEW v \in Ingester
               PROVE  Orderly(job'[v]) /\ (Owns(v)' => Effect(job'[v], tx'.base, tx'.work))
    BY DEF AtomicInv
  <1>1. CASE v = w
    <2>1. job'[w] = r
      BY DEF Follows, Become, IngestInv
    <2>2. QED
      BY <1>1, <2>1 DEF Follows
  <1>2. CASE v # w
    <2>1. job'[v] = job[v]
      BY <1>2 DEF Follows, Become, IngestInv
    <2>2. Owns(v)' => Owns(v) /\ tx' = tx
      BY <1>2 DEF Follows, TxMoves, Owns
    <2>3. QED
      BY <2>1, <2>2 DEF AtomicInv
  <1>3. QED
    BY <1>1, <1>2

\* A request that has not begun, or was refused or lost, has done nothing.
LEMMA BlankOrderly ==
    ASSUME NEW r, r.pc \in BlankStages,
           \A f \in DOMAIN IdleJob \ {"pc", "subject", "dry_run", "error"} : r[f] = IdleJob[f]
    PROVE  Orderly(r)
  <1>1. r.refs = NoRefs /\ r.made = {} /\ r.steps = <<>> /\ r.next = 1
    BY DEF IdleJob
  <1>2. \A k \in Key : r.refs[k] = None
    BY <1>1 DEF NoRefs
  <1>3. QED
    BY <1>1, <1>2 DEF Orderly, CreatedEntities, BlankStages, Committing, Committed, Before,
                      Unwritten, Planning

\* A step outside the commit phase that does not touch the connection.
LEMMA OutsideFollows ==
    ASSUME IngestInv, NEW w \in Ingester, job[w].pc \notin Committing, tx' = tx,
           NEW r, Become(w, r), Orderly(r)
    PROVE  Follows(w, r)
  BY DEF IngestInv, TxBelongsToCommit, Committing, Follows, TxMoves, Owns

\* Planning neither creates nor writes.
LEMMA PlanningOrderly ==
    ASSUME NEW j, Orderly(j), j.pc \in Unwritten, NEW r,
           r.pc \in Unwritten \cup {"done"}, r.made = j.made,
           r.dry_run = j.dry_run, r.pc = "planned" => ~j.dry_run /\ r.next = 1,
           \A k \in Key : r.refs[k] # None /\ r.refs[k].created => j.refs[k] = r.refs[k],
           \A n \in DOMAIN r.steps : r.steps[n].memory = None
    PROVE  Orderly(r)
  <1>1. CreatedEntities(r) = {}
    <2>1. \A k \in Key : ~(j.refs[k] # None /\ j.refs[k].created)
      BY DEF Orderly, CreatedEntities
    <2>2. \A k \in Key : ~(r.refs[k] # None /\ r.refs[k].created)
      BY <2>1
    <2>3. QED
      BY <2>2 DEF CreatedEntities
  <1>2. r.made = {}
    BY DEF Orderly, Before, Unwritten, Planning
  <1>3. r.pc \notin Committing \cup Committed /\ r.pc \notin {"entities", "relationships"}
    BY DEF Unwritten, Planning, Committing, Committed
  <1>4. QED
    BY <1>1, <1>2, <1>3 DEF Orderly, Committing, Committed

\* The contract sees such a step only when it answers the request.
LEMMA PlanningStep ==
    ASSUME IngestInv, AtomicInv, NEW w \in Ingester, UNCHANGED <<db, tx, edits>>, NEW r, Become(w, r),
           job[w].pc \in Unwritten \ {"idle"},
           r.pc \in (Unwritten \ {"idle"}) \cup {"done"}, r.made = job[w].made,
           r.dry_run = job[w].dry_run, r.pc = "planned" => ~r.dry_run /\ r.next = 1,
           \A k \in Key : r.refs[k] # None /\ r.refs[k].created => job[w].refs[k] = r.refs[k],
           \A n \in DOMAIN r.steps : r.steps[n].memory = None
    PROVE  AtomicInv' /\ Refines
  <1> DEFINE j == job[w]
  <1>1. Orderly(r)
    BY PlanningOrderly DEF AtomicInv
  <1>2. j.pc \notin Committing \cup Committed \cup Ended \cup {"idle"}
    BY DEF Committing, Committed, Ended, Unwritten, Planning
  <1>3. AtomicInv'
    BY <1>1, <1>2, OutsideFollows, StepFollows
  <1>4. CASE r.pc = "done"
    BY <1>2, <1>3, <1>4, Finishes DEF Ended, IngestInv
  <1>5. CASE r.pc # "done"
    <2>1. r.pc \notin Committed \cup Ended \cup {"idle"}
      BY <1>5 DEF Committed, Ended, Unwritten, Planning
    <2>2. Told(r) = Told(j)
      BY <1>2, <2>1, ToldCases
    <2>3. QED
      BY <1>3, <2>2, Unseen DEF IngestInv
  <1>6. QED
    BY <1>4, <1>5

\* A refusal before the transaction is seen as an answer.
LEMMA RefuseStep ==
    ASSUME IngestInv, AtomicInv, NEW w \in Ingester, UNCHANGED <<db, tx, edits>>,
           job[w].pc \in Unwritten, NEW code, Refuse(w, code)
    PROVE  AtomicInv' /\ Refines
  <1> DEFINE r == [IdleJob EXCEPT !.pc = "failed", !.error = code]
  <1>1. Become(w, r)
    BY DEF Refuse
  <1>2. r.pc = "failed" /\ \A f \in DOMAIN IdleJob \ {"pc", "error"} : r[f] = IdleJob[f]
    BY DEF IdleJob
  <1> HIDE DEF r
  <1>3. Orderly(r)
    BY <1>2, BlankOrderly DEF BlankStages
  <1>4. job[w].pc \notin Committing \cup Ended
    BY DEF Committing, Ended, Unwritten, Planning
  <1>5. AtomicInv'
    BY <1>1, <1>3, <1>4, OutsideFollows, StepFollows
  <1>6. Refines
    BY <1>1, <1>2, <1>4, Finishes DEF Ended, IngestInv
  <1>7. QED
    BY <1>5, <1>6

-----------------------------------------------------------------------------
(* Phases 1 and 2 *)

LEMMA UnwrittenFacts ==
    ASSUME IngestInv, AtomicInv, NEW w \in Ingester, job[w].pc \in Unwritten
    PROVE  /\ Orderly(job[w]) /\ JobOK(job[w])
           /\ DOMAIN job[w] = DOMAIN IdleJob
           /\ \A n \in DOMAIN job[w].steps : job[w].steps[n].memory = None
           /\ job[w].pc \notin Committing \cup Committed \cup Ended
  BY DEF AtomicInv, IngestInv, JobOK, Typed, Orderly, Before, Unwritten, Planning, Committing,
         Committed, Ended

LEMMA ReceiveStep ==
    ASSUME IngestInv, AtomicInv, NEW w \in Ingester, Receive(w)
    PROVE  AtomicInv' /\ Refines
  <1>1. job[w].pc = "idle" /\ UNCHANGED <<db, tx, edits>>
    BY DEF Receive
  <1>2. job[w].pc \in Unwritten
    BY <1>1 DEF Unwritten
  <1>3. ASSUME NEW subject \in Subjects, NEW dry_run \in BOOLEAN,
               Become(w, [IdleJob EXCEPT !.pc = "subject", !.subject = subject, !.dry_run = dry_run])
        PROVE  AtomicInv' /\ Refines
    <2> DEFINE r == [IdleJob EXCEPT !.pc = "subject", !.subject = subject, !.dry_run = dry_run]
    <2>1. /\ r.pc = "subject" /\ r.dry_run = dry_run
          /\ \A f \in DOMAIN IdleJob \ {"pc", "subject", "dry_run"} : r[f] = IdleJob[f]
      BY DEF IdleJob
    <2> HIDE DEF r
    <2>2. Become(w, r)
      BY <1>3 DEF r
    <2>3. Orderly(r)
      BY <2>1, BlankOrderly DEF BlankStages
    <2>4. AtomicInv'
      BY <1>1, <1>2, <2>2, <2>3, UnwrittenFacts, OutsideFollows, StepFollows
    <2>5. Told(job[w]) = [state |-> "open"]
      BY <1>1, ToldCases
    <2>6. Told(r) = [state |-> IF dry_run THEN "preview" ELSE "open"]
      BY <2>1, ToldCases DEF Committed, Ended
    <2>7. CASE dry_run
      <3>1. Contract!StartPreview(w)
        BY <1>1, <2>2, <2>5, <2>6, <2>7, OthersTold
           DEF IngestInv, Contract!StartPreview, Contract!Open, Contract!Previewed
      <3>2. Refines
        BY <3>1 DEF Refines, Contract!ContractNext
      <3>3. QED
        BY <2>4, <3>2
    <2>8. CASE ~dry_run
      BY <1>1, <2>2, <2>4, <2>5, <2>6, <2>8, Unseen DEF IngestInv
    <2>9. QED
      BY <2>7, <2>8
  <1>4. QED
    BY <1>1, <1>2, <1>3, RefuseStep DEF Receive

LEMMA ResolveExplicitSubjectStep ==
    ASSUME IngestInv, AtomicInv, NEW w \in Ingester, ResolveExplicitSubject(w)
    PROVE  AtomicInv' /\ Refines
  <1> DEFINE j == job[w]
  <1>1. j.pc = "subject" /\ UNCHANGED <<db, tx, edits>>
    BY DEF ResolveExplicitSubject
  <1>2. j.pc \in Unwritten \ {"idle"}
    BY <1>1 DEF Unwritten
  <1>3. "extract" \in (Unwritten \ {"idle"}) \cup {"done"}
    BY DEF Unwritten
  <1>4. ASSUME Become(w, [j EXCEPT !.pc = "extract"])
        PROVE  AtomicInv' /\ Refines
    <2> DEFINE r == [j EXCEPT !.pc = "extract"]
    <2>1. /\ r.pc = "extract" /\ r.made = j.made /\ r.dry_run = j.dry_run
          /\ r.refs = j.refs /\ r.steps = j.steps
      BY <1>2, UnwrittenFacts DEF IdleJob
    <2> HIDE DEF r
    <2>2. Become(w, r)
      BY <1>4 DEF r
    <2>3. QED
      BY <1>1, <1>2, <1>3, <2>1, <2>2, UnwrittenFacts, PlanningStep
  <1>5. ASSUME NEW name, NEW key,
               Become(w, [j EXCEPT !.pc = "extract", !.subject_name = name,
                             !.refs[key] = [existing |-> j.subject, name |-> name, created |-> FALSE]])
        PROVE  AtomicInv' /\ Refines
    <2> DEFINE ref == [existing |-> j.subject, name |-> name, created |-> FALSE]
               r == [j EXCEPT !.pc = "extract", !.subject_name = name, !.refs[key] = ref]
    <2>1. /\ r.pc = "extract" /\ r.made = j.made /\ r.dry_run = j.dry_run
          /\ r.steps = j.steps
      BY <1>2, UnwrittenFacts DEF IdleJob
    <2>2. \A k \in Key : r.refs[k] # None /\ r.refs[k].created => j.refs[k] = r.refs[k]
      <3>1. r.refs = [j.refs EXCEPT ![key] = ref]
        BY <1>2, UnwrittenFacts DEF IdleJob
      <3>2. QED
        BY <1>2, <3>1, UnwrittenFacts DEF JobOK, Typed
    <2>3. Become(w, r)
      BY <1>5
    <2> HIDE DEF r
    <2>4. QED
      BY <1>1, <1>2, <1>3, <2>1, <2>2, <2>3, UnwrittenFacts, PlanningStep
  <1>6. QED
    BY <1>1, <1>2, <1>4, <1>5, RefuseStep DEF ResolveExplicitSubject

LEMMA ExtractStep ==
    ASSUME IngestInv, AtomicInv, NEW w \in Ingester, Extract(w)
    PROVE  AtomicInv' /\ Refines
  <1> DEFINE j == job[w]
  <1>1. j.pc = "extract" /\ UNCHANGED <<db, tx, edits>>
    BY DEF Extract
  <1>2. j.pc \in Unwritten \ {"idle"}
    BY <1>1 DEF Unwritten
  <1>3. ASSUME NEW stage \in {"done", "candidate"}, NEW candidates,
               Become(w, [j EXCEPT !.pc = stage, !.candidates = candidates])
        PROVE  AtomicInv' /\ Refines
    <2> DEFINE r == [j EXCEPT !.pc = stage, !.candidates = candidates]
    <2>1. /\ r.pc = stage /\ r.made = j.made /\ r.dry_run = j.dry_run
          /\ r.refs = j.refs /\ r.steps = j.steps
      BY <1>2, UnwrittenFacts DEF IdleJob
    <2> HIDE DEF r
    <2>2. Become(w, r)
      BY <1>3 DEF r
    <2>3. stage \in (Unwritten \ {"idle"}) \cup {"done"} /\ stage # "planned"
      BY DEF Unwritten, Planning
    <2>4. QED
      BY <1>1, <1>2, <2>1, <2>2, <2>3, UnwrittenFacts, PlanningStep
  <1>4. QED
    BY <1>1, <1>2, <1>3, RefuseStep DEF Extract

\* Looking a name up creates nothing.
LEMMA RefsWithCreatesNothing ==
    ASSUME NEW w \in Ingester, JobOK(job[w]), NEW name \in Name
    PROVE  \A k \in Key : RefsWith(w, name)[k] # None /\ RefsWith(w, name)[k].created =>
              job[w].refs[k] = RefsWith(w, name)[k]
  <1>1. KeyOf[name] \in Key /\ job[w].refs \in [Key -> EntityRef \cup {None}]
    BY IngestAssumption DEF JobOK, Typed
  <1>2. QED
    BY <1>1 DEF RefsWith

LEMMA ResolveCandidateSubjectStep ==
    ASSUME IngestInv, AtomicInv, NEW w \in Ingester, ResolveCandidateSubject(w)
    PROVE  AtomicInv' /\ Refines
  <1> DEFINE j == job[w]
  <1>1. j.pc = "candidate" /\ UNCHANGED <<db, tx, edits>>
    BY DEF ResolveCandidateSubject
  <1>2. j.pc \in Unwritten \ {"idle"} /\ j.pc \in Planning
    BY <1>1 DEF Unwritten, Planning
  <1>3. "related" \in (Unwritten \ {"idle"}) \cup {"done"}
    BY DEF Unwritten, Planning
  <1>4. ASSUME NEW key, NEW refs,
               \A k \in Key : refs[k] # None /\ refs[k].created => j.refs[k] = refs[k],
               Become(w, [j EXCEPT !.pc = "related", !.subject_key = key, !.related = <<>>,
                                   !.refs = refs])
        PROVE  AtomicInv' /\ Refines
    <2> DEFINE r == [j EXCEPT !.pc = "related", !.subject_key = key, !.related = <<>>,
                              !.refs = refs]
    <2>1. /\ r.pc = "related" /\ r.made = j.made /\ r.dry_run = j.dry_run
          /\ r.refs = refs /\ r.steps = j.steps
      BY <1>2, UnwrittenFacts DEF IdleJob
    <2> HIDE DEF r
    <2>2. Become(w, r)
      BY <1>4 DEF r
    <2>3. QED
      BY <1>1, <1>2, <1>3, <1>4, <2>1, <2>2, UnwrittenFacts, PlanningStep
  <1>5. ASSUME NEW key,
               Become(w, [j EXCEPT !.pc = "related", !.subject_key = key, !.related = <<>>])
        PROVE  AtomicInv' /\ Refines
    <2> DEFINE r == [j EXCEPT !.pc = "related", !.subject_key = key, !.related = <<>>]
    <2>1. /\ r.pc = "related" /\ r.made = j.made /\ r.dry_run = j.dry_run
          /\ r.refs = j.refs /\ r.steps = j.steps
      BY <1>2, UnwrittenFacts DEF IdleJob
    <2> HIDE DEF r
    <2>2. Become(w, r)
      BY <1>5 DEF r
    <2>3. QED
      BY <1>1, <1>2, <1>3, <2>1, <2>2, UnwrittenFacts, PlanningStep
  <1>6. ASSUME Current(w).subject # None,
               Become(w, [j EXCEPT !.pc = "related", !.subject_key = KeyOf[Current(w).subject],
                                   !.related = <<>>, !.refs = RefsWith(w, Current(w).subject)])
        PROVE  AtomicInv' /\ Refines
    <2>1. Current(w).subject \in Name /\ JobOK(j)
      BY <1>2, <1>6, UnwrittenFacts, CurrentTyped DEF Candidate
    <2> DEFINE refs == RefsWith(w, Current(w).subject)
    <2>2. \A k \in Key : refs[k] # None /\ refs[k].created => j.refs[k] = refs[k]
      BY <2>1, RefsWithCreatesNothing
    <2> HIDE DEF refs
    <2>3. QED
      BY <1>4, <1>6, <2>2 DEF refs
  <1>7. ASSUME NEW code, Refuse(w, code)
        PROVE  AtomicInv' /\ Refines
    BY <1>1, <1>2, <1>7, RefuseStep
  <1>8. QED
    BY <1>5, <1>6, <1>7, ZenonT(30) DEF ResolveCandidateSubject

LEMMA ResolveRelatedEntityStep ==
    ASSUME IngestInv, AtomicInv, NEW w \in Ingester, ResolveRelatedEntity(w)
    PROVE  AtomicInv' /\ Refines
  <1> DEFINE j == job[w]
             names == Current(w).related
             at == Len(j.related) + 1
  <1>1. j.pc = "related" /\ UNCHANGED <<db, tx, edits>>
    BY DEF ResolveRelatedEntity
  <1>2. j.pc \in Unwritten \ {"idle"} /\ j.pc \in Planning
    BY <1>1 DEF Unwritten, Planning
  <1>3. "resolve" \in (Unwritten \ {"idle"}) \cup {"done"}
    BY DEF Unwritten, Planning
  <1>4. JobOK(j) /\ Current(w) \in Candidate
    BY <1>2, UnwrittenFacts, CurrentTyped
  <1>5. ASSUME Become(w, [j EXCEPT !.pc = "resolve"])
        PROVE  AtomicInv' /\ Refines
    <2> DEFINE r == [j EXCEPT !.pc = "resolve"]
    <2>1. /\ r.pc = "resolve" /\ r.made = j.made /\ r.dry_run = j.dry_run
          /\ r.refs = j.refs /\ r.steps = j.steps
      BY <1>2, UnwrittenFacts DEF IdleJob
    <2> HIDE DEF r
    <2>2. Become(w, r)
      BY <1>5 DEF r
    <2>3. QED
      BY <1>1, <1>2, <1>3, <2>1, <2>2, UnwrittenFacts, PlanningStep
  <1>6. ASSUME at <= Len(names),
               Become(w, [j EXCEPT !.related = Append(@, KeyOf[names[at]]),
                                   !.refs = RefsWith(w, names[at])])
        PROVE  AtomicInv' /\ Refines
    <2> DEFINE refs == RefsWith(w, names[at])
               r == [j EXCEPT !.related = Append(@, KeyOf[names[at]]), !.refs = refs]
    <2>1. names \in Seq(Name) /\ at \in Nat \ {0}
      BY <1>4 DEF Candidate, JobOK, Typed
    <2>2. names[at] \in Name
      BY <1>6, <2>1
    <2>3. \A k \in Key : refs[k] # None /\ refs[k].created => j.refs[k] = refs[k]
      BY <1>4, <2>2, RefsWithCreatesNothing
    <2>4. Become(w, r)
      BY <1>6
    <2> HIDE DEF refs
    <2>5. /\ r.pc = "related" /\ r.made = j.made /\ r.dry_run = j.dry_run
          /\ r.refs = refs /\ r.steps = j.steps
      BY <1>1, <1>2, UnwrittenFacts DEF IdleJob
    <2> HIDE DEF r
    <2>6. QED
      BY <1>1, <1>2, <2>3, <2>4, <2>5, UnwrittenFacts, PlanningStep
  <1>7. QED
    BY <1>5, <1>6 DEF ResolveRelatedEntity

LEMMA ResolveMemoryStep ==
    ASSUME IngestInv, AtomicInv, NEW w \in Ingester, ResolveMemory(w)
    PROVE  AtomicInv' /\ Refines
  <1> DEFINE j == job[w]
  <1>1. j.pc = "resolve" /\ UNCHANGED <<db, tx, edits>>
    BY DEF ResolveMemory
  <1>2. j.pc \in Unwritten \ {"idle"}
    BY <1>1 DEF Unwritten, Planning
  <1>3. "queue" \in (Unwritten \ {"idle"}) \cup {"done"}
    BY DEF Unwritten, Planning
  <1>4. ASSUME NEW decision, NEW known,
               Become(w, [j EXCEPT !.pc = "queue", !.decision = decision, !.known = known])
        PROVE  AtomicInv' /\ Refines
    <2> DEFINE r == [j EXCEPT !.pc = "queue", !.decision = decision, !.known = known]
    <2>1. /\ r.pc = "queue" /\ r.made = j.made /\ r.dry_run = j.dry_run
          /\ r.refs = j.refs /\ r.steps = j.steps
      BY <1>2, UnwrittenFacts DEF IdleJob
    <2> HIDE DEF r
    <2>2. Become(w, r)
      BY <1>4 DEF r
    <2>3. QED
      BY <1>1, <1>2, <1>3, <2>1, <2>2, UnwrittenFacts, PlanningStep
  <1>5. ASSUME NEW memories, NEW known, Resolve(w, memories, known)
        PROVE  AtomicInv' /\ Refines
    BY <1>4, <1>5 DEF Resolve
  <1>6. ASSUME Become(w, [j EXCEPT !.pc = "queue",
                                   !.decision = [action |-> "merge", target |-> None]])
        PROVE  AtomicInv' /\ Refines
    <2>1. [j EXCEPT !.pc = "queue", !.decision = [action |-> "merge", target |-> None]]
           = [j EXCEPT !.pc = "queue", !.decision = [action |-> "merge", target |-> None],
                       !.known = j.known]
      BY <1>2, UnwrittenFacts DEF IdleJob
    <2>2. QED
      BY <1>4, <1>6, <2>1
  <1>7. QED
    BY <1>5, <1>6, ZenonT(60) DEF ResolveMemory

LEMMA QueueRelationshipsStep ==
    ASSUME IngestInv, AtomicInv, NEW w \in Ingester, QueueRelationships(w)
    PROVE  AtomicInv' /\ Refines
  <1> DEFINE j == job[w]
             step == [subject |-> j.subject_key, existing |-> j.refs[j.subject_key].existing,
                      related |-> j.related, action |-> j.decision.action,
                      target |-> j.decision.target, memory |-> None]
             last == j.next = Len(j.candidates)
             stage == IF ~last THEN "candidate" ELSE IF j.dry_run THEN "done" ELSE "planned"
             next == IF last THEN 1 ELSE j.next + 1
             steps == Append(j.steps, step)
  <1>1. j.pc = "queue" /\ UNCHANGED <<db, tx, edits>>
    BY DEF QueueRelationships
  <1>2. j.pc \in Unwritten \ {"idle"}
    BY <1>1 DEF Unwritten, Planning
  <1>3. PICK edges, reply, blind :
           Become(w, [j EXCEPT !.steps = Append(@, step), !.edges = edges, !.reply = reply,
                               !.blind = blind, !.decision = None, !.next = next, !.pc = stage])
    BY ZenonT(60) DEF QueueRelationships
  <1> DEFINE r == [j EXCEPT !.steps = Append(@, step), !.edges = edges, !.reply = reply,
                            !.blind = blind, !.decision = None, !.next = next, !.pc = stage]
  <1>4. Become(w, r)
    BY <1>3
  <1>5. step.memory = None
    OBVIOUS
  <1> HIDE DEF step, stage, next
  <1>6. /\ r.pc = stage /\ r.made = j.made /\ r.dry_run = j.dry_run
        /\ r.refs = j.refs /\ r.steps = steps /\ r.next = next
    BY <1>2, UnwrittenFacts DEF IdleJob
  <1> HIDE DEF r
  <1>7. \A n \in DOMAIN steps : steps[n].memory = None
    <2>1. j.steps \in Seq(PlannedStep) /\ \A n \in DOMAIN j.steps : j.steps[n].memory = None
      BY <1>2, UnwrittenFacts DEF JobOK, Typed
    <2> DEFINE s == j.steps
    <2> HIDE DEF s
    <2>2. ASSUME NEW n \in DOMAIN Append(s, step), s \in Seq(PlannedStep)
          PROVE  (n \in DOMAIN s /\ Append(s, step)[n] = s[n]) \/ Append(s, step)[n] = step
      BY <2>2
    <2>3. QED
      BY <1>5, <2>1, <2>2 DEF s
  <1>8. /\ stage \in (Unwritten \ {"idle"}) \cup {"done"}
        /\ stage = "planned" => ~j.dry_run /\ next = 1
    BY DEF stage, next, Unwritten, Planning
  <1> HIDE DEF steps
  <1>9. QED
    BY <1>1, <1>2, <1>4, <1>6, <1>7, <1>8, UnwrittenFacts, PlanningStep

LEMMA PlanningFailsStep ==
    ASSUME IngestInv, AtomicInv, NEW w \in Ingester, PlanningFails(w)
    PROVE  AtomicInv' /\ Refines
  BY RefuseStep DEF PlanningFails, Unwritten, Planning

-----------------------------------------------------------------------------
(* Phase 3: what the transaction has made *)

\* The effect depends on nothing else of the record.
LEMMA SameEffect ==
    ASSUME NEW j, NEW r, r.refs = j.refs, r.made = j.made, r.steps = j.steps,
           r.candidates = j.candidates
    PROVE  /\ CreatedEntities(r) = CreatedEntities(j)
           /\ MadeEdges(r) = MadeEdges(j)
           /\ WritesOf(r) = WritesOf(j)
           /\ \A d1, d2 : Effect(j, d1, d2) => Effect(r, d1, d2)
  <1>1. CreatedEntities(r) = CreatedEntities(j) /\ MadeEdges(r) = MadeEdges(j)
    BY DEF CreatedEntities, MadeEdges, LinkRow
  <1>2. \A n : NewRow(r, n) = NewRow(j, n)
    BY DEF NewRow
  <1>3. WritesOf(r) = WritesOf(j)
    BY <1>2 DEF WritesOf
  <1>4. \A action : Did(r, action) = Did(j, action)
    BY DEF Did
  <1>5. \A n : IsLastUpdate(r, n) <=> IsLastUpdate(j, n)
    BY <1>4 DEF IsLastUpdate
  <1>6. \A n, before, after : UpdateDone(j, n, before, after) => UpdateDone(r, n, before, after)
    BY <1>5 DEF UpdateDone
  <1>7. ASSUME NEW d1, NEW d2, Effect(j, d1, d2)
        PROVE  Effect(r, d1, d2)
    <2>1. EntitiesDone(r, d1, d2)
      BY <1>1, <1>7 DEF Effect, EntitiesDone
    <2>2. EdgesDone(r, d1, d2)
      BY <1>1, <1>7 DEF Effect, EdgesDone
    <2>3. Did(r, "create") = Did(j, "create") /\ Did(r, "update") = Did(j, "update")
      BY <1>4
    <2>4. CreatesDone(r, d1, d2)
      BY <1>2, <1>7, <2>3 DEF Effect, CreatesDone
    <2>5. UpdatesDone(r, d1, d2)
      BY <1>6, <1>7, <2>3 DEF Effect, UpdatesDone
    <2>6. OthersKept(r, d1, d2)
      BY <1>7, <2>3 DEF Effect, OthersKept
    <2>7. QED
      BY <1>7, <2>1, <2>2, <2>4, <2>5, <2>6 DEF Effect
  <1>8. QED
    BY <1>1, <1>3, <1>7

\* Before its first step a request has made nothing.
LEMMA NothingDone ==
    ASSUME NEW j, CreatedEntities(j) = {}, j.made = {},
           \A n \in DOMAIN j.steps : j.steps[n].memory = None, NEW d
    PROVE  Effect(j, d, d)
  <1>1. MadeEdges(j) = {} /\ \A action : Did(j, action) = {}
    BY DEF MadeEdges, Did
  <1>2. EntitiesDone(j, d, d) /\ EdgesDone(j, d, d)
    BY <1>1 DEF EntitiesDone, EdgesDone
  <1>3. CreatesDone(j, d, d) /\ UpdatesDone(j, d, d) /\ OthersKept(j, d, d)
    BY <1>1 DEF CreatesDone, UpdatesDone, OthersKept
  <1>4. QED
    BY <1>2, <1>3 DEF Effect

\* A step inside the transaction is not seen.
LEMMA CommitStep ==
    ASSUME IngestInv, AtomicInv, NEW w \in Ingester, job[w].pc \in Committing,
           UNCHANGED <<db, edits>>, TxMoves(w), NEW r, Become(w, r),
           r.pc \in Committing, r.dry_run = job[w].dry_run, Orderly(r),
           Effect(r, tx'.base, tx'.work)
    PROVE  AtomicInv' /\ Refines
  <1>1. AtomicInv'
    BY StepFollows DEF Follows
  <1>2. Told(r) = Told(job[w])
    BY ToldCases DEF Committing, Committed, Ended
  <1>3. Refines
    BY <1>2, Unseen DEF IngestInv
  <1>4. QED
    BY <1>1, <1>3

\* A rollback is seen as an answer.
LEMMA AbandonStep ==
    ASSUME IngestInv, AtomicInv, NEW w \in Ingester, job[w].pc \in Committing,
           NEW code, Abandon(w, code), edits' = edits
    PROVE  AtomicInv' /\ Refines
  <1> DEFINE r == [IdleJob EXCEPT !.pc = "failed", !.error = code]
  <1>1. Become(w, r)
    BY DEF Abandon, Refuse
  <1>2. r.pc = "failed" /\ \A f \in DOMAIN IdleJob \ {"pc", "error"} : r[f] = IdleJob[f]
    BY DEF IdleJob
  <1> HIDE DEF r
  <1>3. Orderly(r)
    BY <1>2, BlankOrderly DEF BlankStages
  <1>4. TxMoves(w) /\ ~Owns(w)'
    BY DEF Abandon, TxMoves, Owns
  <1>5. AtomicInv'
    BY <1>1, <1>3, <1>4, StepFollows DEF Follows
  <1>6. Refines
    BY <1>1, <1>2, Finishes DEF Abandon, Committing, Ended, IngestInv
  <1>7. QED
    BY <1>5, <1>6

LEMMA CommitFailsStep ==
    ASSUME IngestInv, AtomicInv, NEW w \in Ingester, CommitFails(w)
    PROVE  AtomicInv' /\ Refines
  BY AbandonStep DEF CommitFails, Committing

LEMMA BeginIngestTxStep ==
    ASSUME IngestInv, AtomicInv, NEW w \in Ingester, BeginIngestTx(w)
    PROVE  AtomicInv' /\ Refines
  <1> DEFINE j == job[w]
             r == [j EXCEPT !.pc = "entities"]
  <1>1. /\ j.pc = "planned" /\ tx = None /\ UNCHANGED <<db, edits>>
        /\ tx' = [owner |-> w, work |-> db, base |-> db]
        /\ Become(w, r)
    BY DEF BeginIngestTx, BeginTx
  <1>2. j.pc \in Unwritten
    BY <1>1 DEF Unwritten
  <1>3. /\ r.pc = "entities" /\ r.made = j.made /\ r.dry_run = j.dry_run
        /\ r.refs = j.refs /\ r.steps = j.steps /\ r.next = j.next
    BY <1>2, UnwrittenFacts DEF IdleJob
  <1> HIDE DEF r
  <1>4. CreatedEntities(r) = {} /\ r.made = {} /\ ~r.dry_run /\ r.next = 1
        /\ \A n \in DOMAIN r.steps : r.steps[n].memory = None
    <2>1. Orderly(j) /\ \A n \in DOMAIN j.steps : j.steps[n].memory = None
      BY <1>2, UnwrittenFacts
    <2>2. CreatedEntities(j) = {} /\ j.made = {} /\ ~j.dry_run /\ j.next = 1
      BY <1>1, <1>2, <2>1 DEF Orderly, Before
    <2>3. CreatedEntities(r) = CreatedEntities(j)
      BY <1>3 DEF CreatedEntities
    <2>4. QED
      BY <1>3, <2>1, <2>2, <2>3
  <1>5. Orderly(r)
    BY <1>3, <1>4 DEF Orderly, Before, Unwritten, Planning, Committed
  <1>6. Effect(r, tx'.base, tx'.work)
    BY <1>1, <1>4, NothingDone
  <1>7. AtomicInv'
    BY <1>1, <1>5, <1>6, StepFollows DEF Follows, TxMoves, Owns
  <1>8. Told(r) = Told(j)
    BY <1>1, <1>3, ToldCases DEF Committed, Ended
  <1>9. Refines
    BY <1>1, <1>8, Unseen DEF IngestInv
  <1>10. QED
    BY <1>7, <1>9

\* An entity the plan needs is created: the one more that has appeared.
LEMMA EntityEffect ==
    ASSUME NEW j, JobOK(j), j.made = {}, \A n \in DOMAIN j.steps : j.steps[n].memory = None,
           NEW d1 \in Database, Good(d1), NEW d2 \in Database, Evolves(d1, d2), Effect(j, d1, d2),
           NEW k \in Key, j.refs[k] # None, j.refs[k].existing = None,
           NEW row \in EntityRow, NextEntity(d2) \in EntityID,
           NEW ref, ref # None, ref.existing = NextEntity(d2), ref.created,
           NEW r, r.refs = [j.refs EXCEPT ![k] = ref], r.made = j.made, r.steps = j.steps
    PROVE  Effect(r, d1, InsertEntity(d2, row))
  <1> DEFINE e == NextEntity(d2)
             d == InsertEntity(d2, row)
  <1>1. /\ d.entities = [d2.entities EXCEPT ![e] = row]
        /\ d.relationships = d2.relationships
        /\ d.memories = d2.memories
        /\ d.ingest_sources = d2.ingest_sources
        /\ d.issued.memory = d2.issued.memory
    BY DEF InsertEntity, Database, Issued
  <1> HIDE DEF d
  <1>2. ~HasEntity(d1, e)
    <2>1. d1.issued.entity \in Nat /\ d2.issued.entity \in Nat
          /\ d1.issued.entity <= d2.issued.entity
      BY DEF Database, Issued, Evolves, IssuedGrows
    <2>2. HasEntity(d1, e) => e <= d1.issued.entity
      BY DEF Good, RowsWereIssued
    <2>3. e = d2.issued.entity + 1
      BY DEF NextEntity
    <2>4. QED
      BY <2>1, <2>2, <2>3
  <1>3. row # None
    BY NoneAssumption DEF EntityRow
  <1>4. /\ r.refs[k] = ref /\ \A x \in Key : x # k => r.refs[x] = j.refs[x]
    BY DEF JobOK, Typed
  <1>5. \A x \in EntityID : x \in CreatedEntities(r) <=> x \in CreatedEntities(j) \/ x = e
    <2>1. None \notin EntityID
      BY NoneAssumption
    <2> HIDE DEF e
    <2>2. ASSUME NEW x \in EntityID, x \in CreatedEntities(r)
          PROVE  x \in CreatedEntities(j) \/ x = e
      <3>1. PICK y \in Key : r.refs[y] # None /\ r.refs[y].created /\ r.refs[y].existing = x
        BY <2>2 DEF CreatedEntities
      <3>2. QED
        BY <1>4, <3>1 DEF CreatedEntities, e
    <2>3. ASSUME NEW x \in EntityID, x \in CreatedEntities(j)
          PROVE  x \in CreatedEntities(r)
      <3>1. PICK y \in Key : j.refs[y] # None /\ j.refs[y].created /\ j.refs[y].existing = x
        BY <2>3 DEF CreatedEntities
      <3>2. y # k
        BY <2>1, <3>1
      <3>3. QED
        BY <1>4, <3>1, <3>2 DEF CreatedEntities
    <2>4. e \in CreatedEntities(r)
      BY <1>4 DEF CreatedEntities, e
    <2>5. QED
      BY <2>2, <2>3, <2>4
  <1>6. EntitiesDone(r, d1, d)
    <2> SUFFICES ASSUME NEW x \in EntityID
                 PROVE  IF x \in CreatedEntities(r) THEN ~HasEntity(d1, x) /\ HasEntity(d, x)
                        ELSE d.entities[x] = d1.entities[x]
      BY DEF EntitiesDone
    <2> HIDE DEF e
    <2>1. d.entities[x] = IF x = e THEN row ELSE d2.entities[x]
      BY <1>1 DEF Database
    <2>2. IF x \in CreatedEntities(j) THEN ~HasEntity(d1, x) /\ HasEntity(d2, x)
          ELSE d2.entities[x] = d1.entities[x]
      BY DEF Effect, EntitiesDone
    <2>3. QED
      BY <1>2, <1>3, <1>5, <2>1, <2>2 DEF HasEntity
  <1>7. MadeEdges(r) = {} /\ MadeEdges(j) = {} /\ \A action : Did(r, action) = {} /\ Did(j, action) = {}
    BY DEF MadeEdges, Did
  <1>8. EdgesDone(r, d1, d)
    BY <1>1, <1>7 DEF Effect, EdgesDone
  <1>9. CreatesDone(r, d1, d) /\ UpdatesDone(r, d1, d)
    BY <1>7 DEF CreatesDone, UpdatesDone
  <1>10. OthersKept(r, d1, d)
    BY <1>1, <1>7 DEF Effect, OthersKept
  <1>11. Effect(r, d1, d)
    BY <1>1, <1>6, <1>8, <1>9, <1>10 DEF Effect
  <1>12. QED
    BY <1>11 DEF d

LEMMA CreatePlannedEntityStep ==
    ASSUME IngestInv, AtomicInv, NEW w \in Ingester, CreatePlannedEntity(w)
    PROVE  AtomicInv' /\ Refines
  <1> DEFINE j == job[w]
             work == tx.work
  <1>1. j.pc = "entities" /\ j.pc \in Committing /\ edits' = edits
    BY DEF CreatePlannedEntity, Committing
  <1>2. /\ JobOK(j) /\ View(w) = work /\ Owns(w)
        /\ db \in Database /\ Good(db) /\ work \in Database /\ Good(work)
        /\ tx.base = db /\ Evolves(db, work)
    BY <1>1, CommitFacts
  <1>3. Orderly(j) /\ Effect(j, db, work)
    BY <1>2 DEF AtomicInv
  <1>4. ~j.dry_run /\ j.made = {} /\ j.next = 1
        /\ \A n \in DOMAIN j.steps : j.steps[n].memory = None
    BY <1>1, <1>3 DEF Orderly, Before
  <1>5. ASSUME Become(w, [j EXCEPT !.pc = "relationships"]), UNCHANGED <<db, tx>>
        PROVE  AtomicInv' /\ Refines
    <2> DEFINE r == [j EXCEPT !.pc = "relationships"]
    <2>1. /\ r.pc = "relationships" /\ r.made = j.made /\ r.dry_run = j.dry_run /\ r.next = j.next
          /\ r.refs = j.refs /\ r.steps = j.steps /\ r.candidates = j.candidates
      BY <1>2 DEF JobOK, Typed, IdleJob
    <2> HIDE DEF r
    <2>2. Become(w, r)
      BY <1>5 DEF r
    <2>3. Orderly(r)
      BY <1>4, <2>1 DEF Orderly, Before, Unwritten, Planning, Committed
    <2>4. Effect(r, db, work)
      BY <1>3, <2>1, SameEffect
    <2>5. r.pc \in Committing /\ TxMoves(w)
      BY <1>5, <2>1 DEF Committing, TxMoves
    <2>6. Effect(r, tx'.base, tx'.work)
      BY <1>2, <1>5, <2>4
    <2>7. QED
      BY <1>1, <1>5, <2>1, <2>2, <2>3, <2>5, <2>6, CommitStep
  <1>6. ASSUME NEW k \in PendingKeys(w),
               CreateEntity(w, [name |-> j.refs[k].name, external_id |-> None]),
               Become(w, [j EXCEPT !.refs[k] = [existing |-> NextEntity(View(w)),
                                               name |-> @.name, created |-> TRUE]])
        PROVE  AtomicInv' /\ Refines
    <2> DEFINE row == [name |-> j.refs[k].name, external_id |-> None]
               n == NextEntity(work)
               d == InsertEntity(work, row)
               ref == [existing |-> n, name |-> j.refs[k].name, created |-> TRUE]
               r == [j EXCEPT !.refs[k] = [existing |-> NextEntity(View(w)),
                                           name |-> @.name, created |-> TRUE]]
    <2>1. k \in Key /\ j.refs[k] \in EntityRef /\ j.refs[k].existing = None /\ j.refs[k] # None
      BY <1>2, <1>6 DEF PendingKeys, JobOK, Typed
    <2>2. row \in EntityRow /\ n \in EntityID /\ ref # None
      <3>1. row \in EntityRow
        BY <2>1 DEF EntityRef, EntityRow
      <3>2. n \in EntityID
        BY <1>2, <1>6 DEF CreateEntity
      <3>3. ref \in EntityRef
        BY <2>1, <3>2 DEF EntityRef
      <3>4. QED
        BY <3>1, <3>2, <3>3, IngestAssumption
    <2>3. Write(w, d) /\ d \in Database
      BY <1>2, <1>6, <2>2, InsertEntitySound DEF CreateEntity, Sound
    <2> HIDE DEF d
    <2>4. db' = db /\ TxMoves(w) /\ tx'.work = d /\ tx'.base = db
      BY <1>1, <1>2, <2>3, CommitPhaseWrite
    <2>5. /\ r.pc = "entities" /\ r.made = j.made /\ r.dry_run = j.dry_run /\ r.next = j.next
          /\ r.steps = j.steps
      BY <1>1, <1>2 DEF JobOK, Typed, IdleJob
    <2>6. r.refs = [j.refs EXCEPT ![k] = ref]
      BY <1>2 DEF JobOK, Typed, IdleJob
    <2>7. Become(w, r)
      BY <1>6
    <2> HIDE DEF r
    <2>8. Orderly(r)
      BY <1>4, <2>5 DEF Orderly, Before, Unwritten, Planning, Committed
    <2>9. ref.existing = n /\ ref.created
      OBVIOUS
    <2> HIDE DEF ref, row
    <2>10. Effect(r, db, d)
      BY <1>2, <1>3, <1>4, <2>1, <2>2, <2>5, <2>6, <2>9, EntityEffect DEF d
    <2>11. r.pc \in Committing
      BY <2>5 DEF Committing
    <2>12. QED
      BY <1>1, <2>4, <2>5, <2>7, <2>8, <2>10, <2>11, CommitStep
  <1>7. QED
    BY <1>5, <1>6 DEF CreatePlannedEntity

\* An edge of the plan is created: the one more that has appeared.
LEMMA EdgeEffect ==
    ASSUME NEW j, \A n \in DOMAIN j.steps : j.steps[n].memory = None,
           NEW d1 \in Database, Good(d1), NEW d2 \in Database, Good(d2), Evolves(d1, d2),
           Effect(j, d1, d2), NEW edge, NEW row \in RelationshipRow, row = LinkRow(j, edge),
           ~RelationshipExists(d2, row.from, row.to, row.type),
           NextRelationship(d2) \in RelationshipID,
           NEW r, r.refs = j.refs, r.made = j.made \cup {edge}, r.steps = j.steps
    PROVE  Effect(r, d1, InsertRelationship(d2, row))
  <1> DEFINE e == NextRelationship(d2)
             d == InsertRelationship(d2, row)
  <1>1. /\ d.entities = d2.entities
        /\ d.relationships = [d2.relationships EXCEPT ![e] = row]
        /\ d.memories = d2.memories
        /\ d.ingest_sources = d2.ingest_sources
        /\ d.issued.memory = d2.issued.memory
    BY DEF InsertRelationship, Database, Issued
  <1>2. /\ e \in RelationshipID /\ d.relationships[e] = row
        /\ \A x \in RelationshipID : x # e => d.relationships[x] = d2.relationships[x]
    BY <1>1 DEF Database
  <1> HIDE DEF d
  <1>3. ~HasRelationship(d1, e) /\ ~HasRelationship(d2, e)
    <2>1. d1.issued.relationship \in Nat /\ d2.issued.relationship \in Nat
          /\ d1.issued.relationship <= d2.issued.relationship
      BY DEF Database, Issued, Evolves, IssuedGrows
    <2>2. /\ HasRelationship(d1, e) => e <= d1.issued.relationship
          /\ HasRelationship(d2, e) => e <= d2.issued.relationship
      BY DEF Good, RowsWereIssued
    <2>3. e = d2.issued.relationship + 1
      BY DEF NextRelationship
    <2>4. QED
      BY <2>1, <2>2, <2>3
  <1>4. row # None /\ row = [from |-> row.from, to |-> row.to, type |-> row.type]
    BY NoneAssumption DEF RelationshipRow
  <1> HIDE DEF e
  <1>5. MadeEdges(r) = MadeEdges(j) \cup {row}
    <2>1. \A x : LinkRow(r, x) = LinkRow(j, x)
      BY DEF LinkRow
    <2>2. QED
      BY <2>1 DEF MadeEdges
  <1>6. CreatedEntities(r) = CreatedEntities(j) /\ \A action : Did(r, action) = {} /\ Did(j, action) = {}
    BY DEF CreatedEntities, Did
  <1>7. EntitiesDone(r, d1, d)
    BY <1>1, <1>6 DEF Effect, EntitiesDone, HasEntity
  <1>8. EdgesDone(r, d1, d)
    <2>1. ASSUME NEW x \in RelationshipID, d.relationships[x] # d1.relationships[x]
          PROVE  ~HasRelationship(d1, x) /\ d.relationships[x] \in MadeEdges(r)
      BY <1>2, <1>3, <1>5, <2>1 DEF Effect, EdgesDone
    <2>2. ASSUME NEW made \in MadeEdges(r)
          PROVE  ~RelationshipExists(d1, made.from, made.to, made.type)
      <3>1. CASE made \in MadeEdges(j)
        BY <3>1 DEF Effect, EdgesDone
      <3>2. CASE made = row
        <4> SUFFICES ASSUME NEW x \in RelationshipID, d1.relationships[x] = row
                     PROVE  FALSE
          BY <1>4, <3>2 DEF RelationshipExists
        <4>1. HasRelationship(d1, x)
          BY <1>4 DEF HasRelationship
        <4>2. d2.relationships[x] = row
          BY <4>1 DEF Effect, EdgesDone
        <4>3. QED
          BY <1>4, <4>2 DEF RelationshipExists
      <3>3. QED
        BY <1>5, <3>1, <3>2
    <2>3. ASSUME NEW made \in MadeEdges(r)
          PROVE  \E x \in RelationshipID :
                    d.relationships[x] = made /\ d.relationships[x] # d1.relationships[x]
      <3>1. CASE made = row
        BY <1>2, <1>3, <1>4, <3>1 DEF HasRelationship
      <3>2. CASE made \in MadeEdges(j)
        <4>1. PICK x \in RelationshipID :
                 d2.relationships[x] = made /\ d2.relationships[x] # d1.relationships[x]
          BY <3>2 DEF Effect, EdgesDone
        <4>2. x # e
          BY <1>3, <4>1 DEF HasRelationship
        <4>3. QED
          BY <1>2, <4>1, <4>2
      <3>3. QED
        BY <1>5, <3>1, <3>2
    <2>4. QED
      BY <2>1, <2>2, <2>3 DEF EdgesDone
  <1>9. CreatesDone(r, d1, d) /\ UpdatesDone(r, d1, d)
    BY <1>6 DEF CreatesDone, UpdatesDone
  <1>10. OthersKept(r, d1, d)
    BY <1>1, <1>6 DEF Effect, OthersKept
  <1>11. Effect(r, d1, d)
    BY <1>1, <1>7, <1>8, <1>9, <1>10 DEF Effect
  <1>12. QED
    BY <1>11 DEF d

LEMMA CreatePlannedRelationshipStep ==
    ASSUME IngestInv, AtomicInv, NEW w \in Ingester, CreatePlannedRelationship(w)
    PROVE  AtomicInv' /\ Refines
  <1> DEFINE j == job[w]
             work == tx.work
  <1>1. j.pc = "relationships" /\ j.pc \in Committing /\ j.pc \in Linked /\ edits' = edits
    <2>1. j.pc = "relationships" /\ edits' = edits
      BY ZenonT(30) DEF CreatePlannedRelationship
    <2>2. QED
      BY <2>1 DEF Committing, Linked
  <1>2. /\ JobOK(j) /\ View(w) = work /\ Owns(w)
        /\ db \in Database /\ Good(db) /\ work \in Database /\ Good(work)
        /\ tx.base = db /\ Evolves(db, work)
    BY <1>1, CommitFacts
  <1>3. Orderly(j) /\ Effect(j, db, work)
    BY <1>2 DEF AtomicInv
  <1>4. ~j.dry_run /\ j.next = 1
        /\ \A n \in DOMAIN j.steps : j.steps[n].memory = None
    BY <1>1, <1>3 DEF Orderly, Before
  <1>5. ASSUME Become(w, [j EXCEPT !.pc = "memories"]), UNCHANGED <<db, tx>>
        PROVE  AtomicInv' /\ Refines
    <2> DEFINE r == [j EXCEPT !.pc = "memories"]
    <2>1. /\ r.pc = "memories" /\ r.made = j.made /\ r.dry_run = j.dry_run /\ r.next = j.next
          /\ r.refs = j.refs /\ r.steps = j.steps /\ r.candidates = j.candidates
      BY <1>2 DEF JobOK, Typed, IdleJob
    <2> HIDE DEF r
    <2>2. Become(w, r)
      BY <1>5 DEF r
    <2>3. \A n \in DOMAIN r.steps : ~(n < r.next)
      BY <1>2, <1>4, <2>1 DEF JobOK, Typed
    <2>4. Orderly(r)
      BY <1>4, <2>1, <2>3 DEF Orderly, Before, Unwritten, Planning, Committed
    <2>5. Effect(r, db, work)
      BY <1>3, <2>1, SameEffect
    <2>6. r.pc \in Committing /\ TxMoves(w)
      BY <1>5, <2>1 DEF Committing, TxMoves
    <2>7. Effect(r, tx'.base, tx'.work)
      BY <1>2, <1>5, <2>5
    <2>8. QED
      BY <1>1, <1>5, <2>1, <2>2, <2>4, <2>6, <2>7, CommitStep
  <1>6. ASSUME NEW edge \in j.edges, UNCHANGED <<db, tx>>,
               Become(w, [j EXCEPT !.edges = @ \ {edge}])
        PROVE  AtomicInv' /\ Refines
    <2> DEFINE r == [j EXCEPT !.edges = @ \ {edge}]
    <2>1. /\ r.pc = "relationships" /\ r.made = j.made /\ r.dry_run = j.dry_run /\ r.next = j.next
          /\ r.refs = j.refs /\ r.steps = j.steps /\ r.candidates = j.candidates
      BY <1>1, <1>2 DEF JobOK, Typed, IdleJob
    <2> HIDE DEF r
    <2>2. Become(w, r)
      BY <1>6 DEF r
    <2>3. Orderly(r)
      BY <1>4, <2>1 DEF Orderly, Before, Unwritten, Planning, Committed
    <2>4. Effect(r, db, work)
      BY <1>3, <2>1, SameEffect
    <2>5. r.pc \in Committing /\ TxMoves(w)
      BY <1>6, <2>1 DEF Committing, TxMoves
    <2>6. Effect(r, tx'.base, tx'.work)
      BY <1>2, <1>6, <2>4
    <2>7. QED
      BY <1>1, <1>6, <2>1, <2>2, <2>3, <2>5, <2>6, CommitStep
  <1>7. ASSUME NEW edge \in j.edges, CreateRelationship(w, EdgeRow(w, edge)),
               Become(w, [j EXCEPT !.edges = @ \ {edge}, !.made = @ \cup {edge}])
        PROVE  AtomicInv' /\ Refines
    <2> DEFINE row == EdgeRow(w, edge)
               d == InsertRelationship(work, row)
               r == [j EXCEPT !.edges = @ \ {edge}, !.made = @ \cup {edge}]
    <2>1. row \in RelationshipRow /\ row = LinkRow(j, edge)
      <3>1. edge \in Edge /\ j.refs[edge.from].existing \in EntityID
              /\ j.refs[edge.to].existing \in EntityID
        BY <1>1, <1>2, EdgeEnds
      <3>2. QED
        BY <3>1 DEF EdgeRow, LinkRow, RelationshipRow, Edge
    <2>2. r.pc = "relationships" /\ r.dry_run = j.dry_run /\ r.next = j.next
      BY <1>1, <1>2 DEF JobOK, Typed, IdleJob
    <2>3. r.refs = j.refs /\ r.steps = j.steps
      BY <1>1, <1>2 DEF JobOK, Typed, IdleJob
    <2>4. r.made = j.made \cup {edge}
      BY <1>2 DEF JobOK, Typed, IdleJob
    <2>5. Become(w, r)
      BY <1>7
    <2> HIDE DEF r, row
    <2>6. Write(w, d) /\ NextRelationship(work) \in RelationshipID
          /\ ~RelationshipExists(work, row.from, row.to, row.type)
      BY <1>2, <1>7 DEF CreateRelationship, CanInsertRelationship, row
    <2>7. d \in Database
      BY <1>2, <1>7, <2>1, InsertRelationshipSound DEF CreateRelationship, Sound, row
    <2> HIDE DEF d
    <2>8. db' = db /\ TxMoves(w) /\ tx'.work = d /\ tx'.base = db
      BY <1>1, <1>2, <2>6, <2>7, CommitPhaseWrite
    <2>9. Orderly(r)
      BY <1>4, <2>2, <2>3 DEF Orderly, Before, Unwritten, Planning, Committed
    <2>10. Effect(r, db, d)
      BY <1>2, <1>3, <1>4, <2>1, <2>3, <2>4, <2>6, EdgeEffect DEF d
    <2>11. r.pc \in Committing
      BY <2>2 DEF Committing
    <2>12. QED
      BY <1>1, <2>2, <2>5, <2>8, <2>9, <2>10, <2>11, CommitStep
  <1>8. ASSUME Abandon(w, "store_error")
        PROVE  AtomicInv' /\ Refines
    BY <1>1, <1>8, AbandonStep
  <1>9. QED
    BY <1>5, <1>6, <1>7, <1>8, ZenonT(60) DEF CreatePlannedRelationship

\* The step in hand is done: what the record says afterwards.
LEMMA ExecutedShape ==
    ASSUME NEW j, JobOK(j), j.next \in DOMAIN j.steps, NEW memory,
           NEW r, r = Executed(j, memory)
    PROVE  /\ r.pc = j.pc /\ r.dry_run = j.dry_run /\ r.refs = j.refs /\ r.made = j.made
           /\ r.candidates = j.candidates /\ r.next = j.next + 1
           /\ DOMAIN r.steps = DOMAIN j.steps
           /\ r.steps[j.next].memory = memory
           /\ \A n \in DOMAIN j.steps : /\ r.steps[n].action = j.steps[n].action
                                        /\ r.steps[n].subject = j.steps[n].subject
                                        /\ n # j.next => r.steps[n].memory = j.steps[n].memory
  <1> DEFINE i == j.next
             step == [j.steps[i] EXCEPT !.memory = memory]
  <1>1. j.steps \in Seq(PlannedStep) /\ DOMAIN j = DOMAIN IdleJob
    BY DEF JobOK, Typed
  <1>2. j.steps[i] \in PlannedStep
    BY <1>1
  <1>3. step.memory = memory /\ step.action = j.steps[i].action /\ step.subject = j.steps[i].subject
    BY <1>2 DEF PlannedStep
  <1>4. /\ r.steps = [j.steps EXCEPT ![i] = step] /\ r.next = i + 1
        /\ r.pc = j.pc /\ r.dry_run = j.dry_run /\ r.refs = j.refs /\ r.made = j.made
        /\ r.candidates = j.candidates
    BY <1>1 DEF Executed, IdleJob
  <1> HIDE DEF step
  <1>5. DOMAIN r.steps = DOMAIN j.steps
        /\ \A n \in DOMAIN j.steps : r.steps[n] = IF n = i THEN step ELSE j.steps[n]
    BY <1>1, <1>4
  <1>6. QED
    BY <1>3, <1>4, <1>5

LEMMA ExecutedOrderly ==
    ASSUME NEW j, JobOK(j), Orderly(j), j.pc = "memories", j.next \in DOMAIN j.steps,
           NEW memory, memory # None <=> j.steps[j.next].action \in {"create", "update"},
           NEW r, r = Executed(j, memory)
    PROVE  Orderly(r)
  <1>1. /\ r.pc = "memories" /\ r.dry_run = j.dry_run /\ r.made = j.made /\ r.next = j.next + 1
        /\ DOMAIN r.steps = DOMAIN j.steps
        /\ r.steps[j.next].memory = memory
        /\ \A n \in DOMAIN j.steps : /\ r.steps[n].action = j.steps[n].action
                                     /\ n # j.next => r.steps[n].memory = j.steps[n].memory
    BY ExecutedShape
  <1>2. j.next \in Nat /\ DOMAIN j.steps \subseteq Nat
    BY DEF JobOK, Typed
  <1>3. \A n \in DOMAIN j.steps : n < j.next + 1 <=> n < j.next \/ n = j.next
    BY <1>2
  <1>4. \A n \in DOMAIN j.steps : j.steps[n].memory # None <=>
           j.steps[n].action \in {"create", "update"} /\ n < j.next
    BY DEF Orderly
  <1>5. ~(j.next < j.next)
    BY <1>2
  <1>6. \A n \in DOMAIN r.steps : r.steps[n].memory # None <=>
           r.steps[n].action \in {"create", "update"} /\ n < r.next
    <2> SUFFICES ASSUME NEW n \in DOMAIN j.steps
                 PROVE  r.steps[n].memory # None <=>
                           j.steps[n].action \in {"create", "update"} /\ n < j.next + 1
      BY <1>1
    <2>1. CASE n = j.next
      BY <1>1, <1>2, <2>1
    <2>2. CASE n # j.next
      BY <1>1, <1>3, <1>4, <2>2
    <2>3. QED
      BY <2>1, <2>2
  <1>7. ~j.dry_run
    BY DEF Orderly, Committing
  <1>8. QED
    BY <1>1, <1>6, <1>7 DEF Orderly, Before, Unwritten, Planning, Committed

\* The steps done before it are as they were, and it is the last.
LEMMA ExecutedDid ==
    ASSUME NEW j, JobOK(j), Orderly(j), j.pc = "memories", j.next \in DOMAIN j.steps,
           NEW memory, memory # None <=> j.steps[j.next].action \in {"create", "update"},
           NEW r, r = Executed(j, memory), NEW action \in {"create", "update"}
    PROVE  /\ j.steps[j.next].action = action => Did(r, action) = Did(j, action) \cup {j.next}
           /\ j.steps[j.next].action # action => Did(r, action) = Did(j, action)
           /\ \A n \in Did(j, action) : /\ n \in DOMAIN j.steps /\ n \in Nat /\ n < j.next
                                        /\ r.steps[n].memory = j.steps[n].memory
                                        /\ j.steps[n].memory \in MemoryID
                                        /\ NewRow(r, n) = NewRow(j, n)
  <1>1. /\ DOMAIN r.steps = DOMAIN j.steps
        /\ r.steps[j.next].memory = memory
        /\ r.refs = j.refs /\ r.candidates = j.candidates
        /\ \A n \in DOMAIN j.steps : /\ r.steps[n].action = j.steps[n].action
                                     /\ r.steps[n].subject = j.steps[n].subject
                                     /\ n # j.next => r.steps[n].memory = j.steps[n].memory
    BY ExecutedShape
  <1>2. j.next \in Nat /\ DOMAIN j.steps \subseteq Nat /\ j.steps \in Seq(PlannedStep)
    BY DEF JobOK, Typed
  <1>3. \A n \in Did(j, action) : n \in DOMAIN j.steps /\ n < j.next
    BY DEF Did, Orderly
  <1>4. \A n \in Did(j, action) : n # j.next /\ r.steps[n].memory = j.steps[n].memory
    BY <1>1, <1>2, <1>3
  <1>5. \A n \in Did(j, action) : j.steps[n].memory \in MemoryID
    <2> SUFFICES ASSUME NEW n \in Did(j, action) PROVE j.steps[n].memory \in MemoryID
      OBVIOUS
    <2>1. j.steps[n] \in PlannedStep /\ j.steps[n].memory # None
      BY <1>2, <1>3 DEF Did
    <2>2. QED
      BY <2>1 DEF PlannedStep
  <1>6. \A n \in DOMAIN j.steps : NewRow(r, n) = NewRow(j, n)
    BY <1>1 DEF NewRow
  <1>7. /\ j.steps[j.next].action = action => Did(r, action) = Did(j, action) \cup {j.next}
        /\ j.steps[j.next].action # action => Did(r, action) = Did(j, action)
    <2>1. j.next \notin Did(j, action)
      BY <1>4
    <2>2. \A n \in DOMAIN j.steps : n # j.next => (n \in Did(r, action) <=> n \in Did(j, action))
      BY <1>1 DEF Did
    <2>3. j.next \in Did(r, action) <=> j.steps[j.next].action = action
      BY <1>1 DEF Did
    <2>4. Did(r, action) \subseteq DOMAIN j.steps /\ Did(j, action) \subseteq DOMAIN j.steps
      BY <1>1 DEF Did
    <2>5. QED
      BY <2>1, <2>2, <2>3, <2>4
  <1>8. QED
    BY <1>2, <1>3, <1>4, <1>5, <1>6, <1>7

\* A step that writes a memory leaves the graph alone.
LEMMA GraphKept ==
    ASSUME NEW j, NEW r, r.refs = j.refs, r.made = j.made, NEW d1, NEW d2, Effect(j, d1, d2),
           NEW d, d.entities = d2.entities, d.relationships = d2.relationships
    PROVE  EntitiesDone(r, d1, d) /\ EdgesDone(r, d1, d)
  <1>1. CreatedEntities(r) = CreatedEntities(j) /\ MadeEdges(r) = MadeEdges(j)
    BY DEF CreatedEntities, MadeEdges, LinkRow
  <1>2. EntitiesDone(r, d1, d)
    BY <1>1 DEF Effect, EntitiesDone, HasEntity
  <1>3. EdgesDone(r, d1, d)
    BY <1>1 DEF Effect, EdgesDone
  <1>4. QED
    BY <1>2, <1>3

\* An update done before is the last one still, if it was and is of another memory.
LEMMA UpdateDoneStill ==
    ASSUME NEW j, NEW r, r.candidates = j.candidates, NEW n,
           IsLastUpdate(r, n) => IsLastUpdate(j, n),
           NEW before, NEW after, UpdateDone(j, n, before, after)
    PROVE  UpdateDone(r, n, before, after)
  BY DEF UpdateDone

\* A memory is created: under an id no step has written.
LEMMA CreateEffect ==
    ASSUME NEW j, JobOK(j), Orderly(j), j.pc = "memories", j.next \in DOMAIN j.steps,
           j.steps[j.next].action = "create",
           NEW d1 \in Database, NEW d2 \in Database, Evolves(d1, d2), Effect(j, d1, d2),
           NEW row \in MemoryRow, row = NewRow(j, j.next), NextMemory(d2) \in MemoryID,
           NEW r, r = Executed(j, NextMemory(d2))
    PROVE  Effect(r, d1, InsertMemory(d2, row))
  <1> DEFINE m == NextMemory(d2)
             d == InsertMemory(d2, row)
  <1>1. m # None /\ m \in Nat
    BY IngestAssumption, IDAssumption
  <1>2. /\ d.entities = d2.entities /\ d.relationships = d2.relationships
        /\ d.ingest_sources = d2.ingest_sources
        /\ d.memories = [d2.memories EXCEPT ![m] = row]
        /\ d.issued.memory = m
    BY DEF InsertMemory, Database, Issued
  <1>3. /\ m \in MemoryID /\ d.memories[m] = row
        /\ \A x \in MemoryID : x # m => d.memories[x] = d2.memories[x]
    BY <1>2 DEF Database
  <1> HIDE DEF d
  <1>4. /\ d1.issued.memory \in Nat /\ d2.issued.memory \in Nat
        /\ d1.issued.memory <= d2.issued.memory /\ m = d2.issued.memory + 1
    BY DEF Database, Issued, Evolves, IssuedGrows, NextMemory
  <1>5. r = Executed(j, m)
    OBVIOUS
  <1> HIDE DEF m
  <1>6. /\ r.refs = j.refs /\ r.made = j.made /\ r.candidates = j.candidates
        /\ r.steps[j.next].memory = m
        /\ NewRow(r, j.next) = row
    <2>1. /\ r.refs = j.refs /\ r.made = j.made /\ r.candidates = j.candidates
          /\ r.steps[j.next].memory = m
          /\ r.steps[j.next].subject = j.steps[j.next].subject
      BY <1>5, ExecutedShape
    <2>2. QED
      BY <2>1 DEF NewRow
  <1>7. /\ Did(r, "create") = Did(j, "create") \cup {j.next}
        /\ \A n \in Did(j, "create") : /\ n # j.next /\ r.steps[n].memory = j.steps[n].memory
                                       /\ j.steps[n].memory \in MemoryID
                                       /\ NewRow(r, n) = NewRow(j, n)
    <2>1. Did(r, "create") = Did(j, "create") \cup {j.next}
      BY <1>1, <1>5, ExecutedDid
    <2>2. ASSUME NEW n \in Did(j, "create")
          PROVE  /\ n \in Nat /\ n < j.next
                 /\ r.steps[n].memory = j.steps[n].memory
                 /\ j.steps[n].memory \in MemoryID
                 /\ NewRow(r, n) = NewRow(j, n)
      BY <1>1, <1>5, ExecutedDid
    <2>3. \A n \in Did(j, "create") : n # j.next
      BY <2>2 DEF JobOK, Typed
    <2>4. QED
      BY <2>1, <2>2, <2>3
  <1>8. /\ Did(r, "update") = Did(j, "update")
        /\ \A n \in Did(j, "update") : r.steps[n].memory = j.steps[n].memory
                                       /\ j.steps[n].memory \in MemoryID
    <2>1. m # None <=> j.steps[j.next].action \in {"create", "update"}
      BY <1>1
    <2>2. Did(r, "update") = Did(j, "update")
      BY <1>5, <2>1, ExecutedDid
    <2>3. \A n \in Did(j, "update") : r.steps[n].memory = j.steps[n].memory
                                      /\ j.steps[n].memory \in MemoryID
      BY <1>5, <2>1, ExecutedDid
    <2>4. QED
      BY <2>2, <2>3
  <1>9. EntitiesDone(r, d1, d) /\ EdgesDone(r, d1, d)
    BY <1>2, <1>6, GraphKept
  <1>10. MemoryID \subseteq Nat
    BY IDAssumption
  <1>11. CreatesDone(r, d1, d)
    <2>1. \A n \in Did(j, "create") :
             /\ j.steps[n].memory > d1.issued.memory
             /\ j.steps[n].memory <= d2.issued.memory
             /\ d2.memories[j.steps[n].memory] = NewRow(j, n)
             /\ \A k \in Did(j, "create") : j.steps[k].memory = j.steps[n].memory => k = n
      BY DEF Effect, CreatesDone
    <2>2. ASSUME NEW n \in Did(j, "create")
          PROVE  j.steps[n].memory # m /\ j.steps[n].memory <= m
      <3>1. j.steps[n].memory \in Nat /\ j.steps[n].memory <= d2.issued.memory
        BY <1>7, <1>10, <2>1
      <3>2. QED
        BY <1>4, <3>1
    <2>3. ASSUME NEW n \in Did(j, "create")
          PROVE  /\ r.steps[n].memory > d1.issued.memory
                 /\ r.steps[n].memory <= d.issued.memory
                 /\ d.memories[r.steps[n].memory] = NewRow(r, n)
                 /\ \A k \in Did(r, "create") : r.steps[k].memory = r.steps[n].memory => k = n
      <3>1. r.steps[n].memory > d1.issued.memory /\ r.steps[n].memory <= d.issued.memory
        BY <1>2, <1>7, <2>1, <2>2
      <3>2. d.memories[r.steps[n].memory] = NewRow(r, n)
        BY <1>3, <1>7, <2>1, <2>2
      <3>3. \A k \in Did(r, "create") : r.steps[k].memory = r.steps[n].memory => k = n
        BY <1>6, <1>7, <2>1, <2>2
      <3>4. QED
        BY <3>1, <3>2, <3>3
    <2>4. /\ r.steps[j.next].memory > d1.issued.memory
          /\ r.steps[j.next].memory <= d.issued.memory
          /\ d.memories[r.steps[j.next].memory] = NewRow(r, j.next)
          /\ \A k \in Did(r, "create") : r.steps[k].memory = r.steps[j.next].memory => k = j.next
      BY <1>1, <1>2, <1>3, <1>4, <1>6, <1>7, <2>2
    <2>5. QED
      BY <1>7, <2>3, <2>4 DEF CreatesDone
  <1>12. UpdatesDone(r, d1, d)
    <2> SUFFICES ASSUME NEW n \in Did(j, "update")
                 PROVE  /\ r.steps[n].memory <= d1.issued.memory
                        /\ HasMemory(d1, r.steps[n].memory)
                        /\ UpdateDone(r, n, d1.memories[r.steps[n].memory], d.memories[r.steps[n].memory])
      BY <1>8 DEF UpdatesDone
    <2> DEFINE x == j.steps[n].memory
    <2>1. x \in MemoryID /\ r.steps[n].memory = x
      BY <1>8
    <2>2. x <= d1.issued.memory /\ HasMemory(d1, x) /\ UpdateDone(j, n, d1.memories[x], d2.memories[x])
      BY DEF Effect, UpdatesDone
    <2> HIDE DEF x
    <2>3. x # m
      BY <1>4, <1>10, <2>1, <2>2
    <2>4. d.memories[x] = d2.memories[x]
      BY <1>3, <2>1, <2>3
    <2>5. IsLastUpdate(r, n) => IsLastUpdate(j, n)
      BY <1>8 DEF IsLastUpdate
    <2>6. UpdateDone(r, n, d1.memories[x], d.memories[x])
      BY <1>6, <2>2, <2>4, <2>5, UpdateDoneStill
    <2>7. QED
      BY <2>1, <2>2, <2>6
  <1>13. OthersKept(r, d1, d)
    <2> SUFFICES ASSUME NEW x \in MemoryID
                 PROVE  \/ \E n \in Did(r, "create") \cup Did(r, "update") : r.steps[n].memory = x
                        \/ d.memories[x] = d1.memories[x]
      BY DEF OthersKept
    <2>1. CASE x = m
      BY <1>6, <1>7, <2>1
    <2>2. CASE x # m
      BY <1>3, <1>7, <1>8, <2>2 DEF Effect, OthersKept
    <2>3. QED
      BY <2>1, <2>2
  <1>14. Effect(r, d1, d)
    BY <1>2, <1>9, <1>11, <1>12, <1>13 DEF Effect
  <1>15. QED
    BY <1>14 DEF d

\* Updating a row that an update has written is updating the row it was.
LEMMA UpdateTwice ==
    ASSUME NEW old \in MemoryRow, NEW x \in Content, NEW y \in Confidence,
           NEW content \in Content, NEW confidence \in Confidence,
           NEW mid, mid = [old EXCEPT !.content = x, !.confidence = y]
    PROVE  /\ mid.source_id = old.source_id /\ mid.expires_at = old.expires_at
           /\ [mid EXCEPT !.content = content, !.confidence = confidence,
                          !.source_id = mid.source_id, !.expires_at = mid.expires_at]
                = [old EXCEPT !.content = content, !.confidence = confidence]
  BY DEF MemoryRow

\* A memory is updated: the content of this step is the last one.
LEMMA UpdateEffect ==
    ASSUME NEW j, JobOK(j), Orderly(j), j.pc = "memories", j.next \in DOMAIN j.steps,
           j.steps[j.next].action = "update",
           NEW d1 \in Database, NEW d2 \in Database, Effect(j, d1, d2),
           NEW m \in MemoryID, HasMemory(d1, m), m <= d1.issued.memory,
           NEW content \in Content, content = j.candidates[j.next].content,
           NEW confidence \in Confidence, confidence = j.candidates[j.next].confidence,
           NEW r, r = Executed(j, m)
    PROVE  Effect(r, d1, UpdateMemoryRow(d2, m, content, confidence, d2.memories[m].source_id,
                                         d2.memories[m].expires_at))
  <1> DEFINE d == UpdateMemoryRow(d2, m, content, confidence, d2.memories[m].source_id,
                                  d2.memories[m].expires_at)
             old == d1.memories[m]
  <1>1. m # None /\ m \in Nat /\ MemoryID \subseteq Nat /\ d1.issued.memory \in Nat
    BY IngestAssumption, IDAssumption DEF Database, Issued
  <1>2. /\ r.refs = j.refs /\ r.made = j.made /\ r.candidates = j.candidates
        /\ r.steps[j.next].memory = m
    BY ExecutedShape
  <1>3. m # None <=> j.steps[j.next].action \in {"create", "update"}
    BY <1>1
  <1>4. /\ Did(r, "update") = Did(j, "update") \cup {j.next}
        /\ \A n \in Did(j, "update") : /\ n \in Nat /\ n < j.next /\ j.next \in Nat
                                       /\ r.steps[n].memory = j.steps[n].memory
                                       /\ j.steps[n].memory \in MemoryID
    <2>1. j.next \in Nat
      BY DEF JobOK, Typed
    <2>2. Did(r, "update") = Did(j, "update") \cup {j.next}
      BY <1>3, ExecutedDid
    <2>3. ASSUME NEW n \in Did(j, "update")
          PROVE  /\ n \in Nat /\ n < j.next
                 /\ r.steps[n].memory = j.steps[n].memory
                 /\ j.steps[n].memory \in MemoryID
      BY <1>3, ExecutedDid
    <2>4. QED
      BY <2>1, <2>2, <2>3
  <1>5. /\ Did(r, "create") = Did(j, "create")
        /\ \A n \in Did(j, "create") : /\ r.steps[n].memory = j.steps[n].memory
                                       /\ j.steps[n].memory \in MemoryID
                                       /\ NewRow(r, n) = NewRow(j, n)
    <2>1. Did(r, "create") = Did(j, "create")
      BY <1>3, ExecutedDid
    <2>2. ASSUME NEW n \in Did(j, "create")
          PROVE  /\ r.steps[n].memory = j.steps[n].memory
                 /\ j.steps[n].memory \in MemoryID
                 /\ NewRow(r, n) = NewRow(j, n)
      BY <1>3, ExecutedDid
    <2>3. QED
      BY <2>1, <2>2
  <1>6. \A n \in Did(j, "create") : j.steps[n].memory # m
    <2> SUFFICES ASSUME NEW n \in Did(j, "create") PROVE j.steps[n].memory # m
      OBVIOUS
    <2>1. j.steps[n].memory > d1.issued.memory /\ j.steps[n].memory \in Nat
      BY <1>1, <1>5 DEF Effect, CreatesDone
    <2>2. QED
      BY <1>1, <2>1
  <1>7. old \in MemoryRow
    BY DEF Database, HasMemory
  <1>8. PICK x \in Content, y \in Confidence :
           d2.memories[m] = [old EXCEPT !.content = x, !.confidence = y]
    <2>1. CASE \E n \in Did(j, "update") : j.steps[n].memory = m
      <3>1. PICK n \in Did(j, "update") : j.steps[n].memory = m
        BY <2>1
      <3>2. UpdateDone(j, n, old, d2.memories[m])
        BY <3>1 DEF Effect, UpdatesDone
      <3> HIDE DEF old
      <3>3. QED
        BY <3>2 DEF UpdateDone
    <2>2. CASE ~(\E n \in Did(j, "update") : j.steps[n].memory = m)
      <3>1. d2.memories[m] = old
        BY <1>6, <2>2 DEF Effect, OthersKept
      <3>2. old = [old EXCEPT !.content = old.content, !.confidence = old.confidence]
            /\ old.content \in Content /\ old.confidence \in Confidence
        BY <1>7 DEF MemoryRow
      <3>3. QED
        BY <3>1, <3>2
    <2>3. QED
      BY <2>1, <2>2
  <1>9. /\ d.entities = d2.entities /\ d.relationships = d2.relationships
        /\ d.ingest_sources = d2.ingest_sources /\ d.issued = d2.issued
        /\ d.memories = [d2.memories EXCEPT ![m] = [d2.memories[m] EXCEPT
              !.content = content, !.confidence = confidence, !.source_id = d2.memories[m].source_id,
              !.expires_at = d2.memories[m].expires_at]]
    BY DEF UpdateMemoryRow, Database
  <1>10. /\ d.memories[m] = [d2.memories[m] EXCEPT !.content = content, !.confidence = confidence,
                                                   !.source_id = d2.memories[m].source_id,
                                                   !.expires_at = d2.memories[m].expires_at]
         /\ \A i \in MemoryID : i # m => d.memories[i] = d2.memories[i]
    BY <1>9 DEF Database
  <1> HIDE DEF d, old
  <1>11. d.memories[m] = [old EXCEPT !.content = content, !.confidence = confidence]
    <2> DEFINE mid == d2.memories[m]
    <2>1. mid = [old EXCEPT !.content = x, !.confidence = y]
      BY <1>8
    <2>2. d.memories[m] = [mid EXCEPT !.content = content, !.confidence = confidence,
                                      !.source_id = mid.source_id,
                                      !.expires_at = mid.expires_at]
      BY <1>10
    <2> HIDE DEF mid
    <2>3. [mid EXCEPT !.content = content, !.confidence = confidence,
                      !.source_id = mid.source_id, !.expires_at = mid.expires_at]
            = [old EXCEPT !.content = content, !.confidence = confidence]
      BY <1>7, <1>8, <2>1 DEF MemoryRow
    <2>4. QED
      BY <2>2, <2>3
  <1>12. EntitiesDone(r, d1, d) /\ EdgesDone(r, d1, d)
    BY <1>2, <1>9, GraphKept
  <1>13. CreatesDone(r, d1, d)
    <2> SUFFICES ASSUME NEW n \in Did(j, "create")
                 PROVE  /\ r.steps[n].memory > d1.issued.memory
                        /\ r.steps[n].memory <= d.issued.memory
                        /\ d.memories[r.steps[n].memory] = NewRow(r, n)
                        /\ \A k \in Did(j, "create") :
                              r.steps[k].memory = r.steps[n].memory => k = n
      BY <1>5 DEF CreatesDone
    <2>1. /\ j.steps[n].memory > d1.issued.memory
          /\ j.steps[n].memory <= d2.issued.memory
          /\ d2.memories[j.steps[n].memory] = NewRow(j, n)
          /\ \A k \in Did(j, "create") : j.steps[k].memory = j.steps[n].memory => k = n
      BY DEF Effect, CreatesDone
    <2>2. d.memories[j.steps[n].memory] = d2.memories[j.steps[n].memory]
      BY <1>5, <1>6, <1>10
    <2>3. QED
      BY <1>5, <1>9, <2>1, <2>2
  <1>14. UpdatesDone(r, d1, d)
    <2>1. /\ m <= d1.issued.memory /\ HasMemory(d1, m)
          /\ UpdateDone(r, j.next, old, d.memories[m])
      BY <1>2, <1>11 DEF UpdateDone
    <2>2. ASSUME NEW n \in Did(j, "update")
          PROVE  LET i == j.steps[n].memory IN
                 /\ i <= d1.issued.memory /\ HasMemory(d1, i)
                 /\ UpdateDone(r, n, d1.memories[i], d.memories[i])
      <3> DEFINE i == j.steps[n].memory
      <3>1. i \in MemoryID /\ i <= d1.issued.memory /\ HasMemory(d1, i)
            /\ UpdateDone(j, n, d1.memories[i], d2.memories[i])
        BY <1>4 DEF Effect, UpdatesDone
      <3>2. CASE i = m
        <4>1. ~(j.next <= n)
          BY <1>4
        <4>2. ~IsLastUpdate(r, n)
          BY <1>2, <1>4, <3>2, <4>1 DEF IsLastUpdate
        <4> HIDE DEF i
        <4>3. QED
          BY <1>11, <3>1, <3>2, <4>2 DEF UpdateDone, old, i
      <3>3. CASE i # m
        <4>1. IsLastUpdate(r, n) => IsLastUpdate(j, n)
          BY <1>4 DEF IsLastUpdate
        <4> HIDE DEF i
        <4>2. d.memories[i] = d2.memories[i]
          BY <1>10, <3>1, <3>3
        <4>3. UpdateDone(r, n, d1.memories[i], d.memories[i])
          BY <1>2, <3>1, <4>1, <4>2, UpdateDoneStill
        <4>4. QED
          BY <3>1, <4>3 DEF i
      <3>4. QED
        BY <3>2, <3>3
    <2>3. QED
      BY <1>2, <1>4, <2>1, <2>2 DEF UpdatesDone, old
  <1>15. OthersKept(r, d1, d)
    <2> SUFFICES ASSUME NEW i \in MemoryID
                 PROVE  \/ \E n \in Did(r, "create") \cup Did(r, "update") : r.steps[n].memory = i
                        \/ d.memories[i] = d1.memories[i]
      BY DEF OthersKept
    <2>1. CASE i = m
      BY <1>2, <1>4, <2>1
    <2>2. CASE i # m
      BY <1>4, <1>5, <1>10, <2>2 DEF Effect, OthersKept
    <2>3. QED
      BY <2>1, <2>2
  <1>16. Effect(r, d1, d)
    BY <1>9, <1>12, <1>13, <1>14, <1>15 DEF Effect
  <1>17. QED
    BY <1>16 DEF d

\* A step that writes no memory leaves the effect as it is.
LEMMA NoWriteEffect ==
    ASSUME NEW j, JobOK(j), Orderly(j), j.pc = "memories", j.next \in DOMAIN j.steps,
           j.steps[j.next].action \notin {"create", "update"},
           NEW d1, NEW d2, Effect(j, d1, d2), NEW r, r = Executed(j, None)
    PROVE  Effect(r, d1, d2)
  <1>1. /\ r.refs = j.refs /\ r.made = j.made /\ r.candidates = j.candidates
    BY ExecutedShape
  <1>2. /\ Did(r, "create") = Did(j, "create")
        /\ \A n \in Did(j, "create") : /\ r.steps[n].memory = j.steps[n].memory
                                       /\ NewRow(r, n) = NewRow(j, n)
    BY ExecutedDid
  <1>3. /\ Did(r, "update") = Did(j, "update")
        /\ \A n \in Did(j, "update") : r.steps[n].memory = j.steps[n].memory
    BY ExecutedDid
  <1>4. EntitiesDone(r, d1, d2) /\ EdgesDone(r, d1, d2)
    BY <1>1, GraphKept
  <1>5. CreatesDone(r, d1, d2)
    BY <1>2 DEF Effect, CreatesDone
  <1>6. UpdatesDone(r, d1, d2)
    <2> SUFFICES ASSUME NEW n \in Did(j, "update")
                 PROVE  LET i == r.steps[n].memory IN
                        /\ i <= d1.issued.memory /\ HasMemory(d1, i)
                        /\ UpdateDone(r, n, d1.memories[i], d2.memories[i])
      BY <1>3 DEF UpdatesDone
    <2> DEFINE i == j.steps[n].memory
    <2>1. i <= d1.issued.memory /\ HasMemory(d1, i) /\ UpdateDone(j, n, d1.memories[i], d2.memories[i])
      BY DEF Effect, UpdatesDone
    <2>2. IsLastUpdate(r, n) => IsLastUpdate(j, n)
      BY <1>3 DEF IsLastUpdate
    <2>3. r.steps[n].memory = i
      BY <1>3
    <2> HIDE DEF i
    <2>4. UpdateDone(r, n, d1.memories[i], d2.memories[i])
      BY <1>1, <2>1, <2>2, UpdateDoneStill
    <2>5. QED
      BY <2>1, <2>3, <2>4
  <1>7. OthersKept(r, d1, d2)
    BY <1>2, <1>3 DEF Effect, OthersKept
  <1>8. QED
    BY <1>4, <1>5, <1>6, <1>7 DEF Effect

LEMMA ExecutePlannedMemoryStep ==
    ASSUME IngestInv, AtomicInv, NEW w \in Ingester, ExecutePlannedMemory(w)
    PROVE  AtomicInv' /\ Refines
  <1> DEFINE j == job[w]
             work == tx.work
             step == j.steps[j.next]
             c == j.candidates[j.next]
             row == [entity_id |-> j.refs[step.subject].existing, category |-> c.category,
                     content |-> c.content, confidence |-> c.confidence, source_id |-> None,
                     expires_at |-> None]
  <1>1. /\ j.pc = "memories" /\ j.next <= Len(j.steps) /\ edits' = edits
        /\ j.pc \in Committing /\ j.pc \in Linked
    <2>1. j.pc = "memories" /\ j.next <= Len(j.steps) /\ edits' = edits
      BY ZenonT(30) DEF ExecutePlannedMemory
    <2>2. QED
      BY <2>1 DEF Committing, Linked
  <1>2. /\ JobOK(j) /\ Shelved(j, db) /\ View(w) = work /\ Owns(w)
        /\ db \in Database /\ Good(db) /\ work \in Database /\ Good(work)
        /\ tx.base = db /\ Evolves(db, work)
    BY <1>1, CommitFacts
  <1>3. Orderly(j) /\ Effect(j, db, work)
    BY <1>2 DEF AtomicInv
  <1>4. j.next \in DOMAIN j.steps /\ step \in PlannedStep /\ c \in Candidate
    <2>1. j.next \in DOMAIN j.steps /\ step \in PlannedStep
      BY <1>1, <1>2 DEF JobOK, Typed
    <2>2. Len(j.steps) = Len(j.candidates) /\ j.candidates \in Seq(Candidate)
      BY <1>1, <1>2 DEF JobOK, Typed, InStep, Planning
    <2>3. QED
      BY <1>1, <1>2, <2>1, <2>2 DEF JobOK, Typed
  <1>5. c.category \in Category /\ c.content \in Content /\ c.confidence \in Confidence
    BY <1>4 DEF Candidate
  <1>6. ASSUME NEW memory, memory # None <=> step.action \in {"create", "update"},
               Become(w, Executed(j, memory)), db' = db, TxMoves(w), tx'.base = db,
               Effect(Executed(j, memory), db, tx'.work)
        PROVE  AtomicInv' /\ Refines
    <2> DEFINE r == Executed(j, memory)
    <2>1. r = Executed(j, memory)
      OBVIOUS
    <2> HIDE DEF r
    <2>2. r.pc = "memories" /\ r.dry_run = j.dry_run
      BY <1>1, <1>2, <1>4, <2>1, ExecutedShape
    <2>3. Orderly(r)
      BY <1>1, <1>2, <1>3, <1>4, <1>6, <2>1, ExecutedOrderly
    <2>4. r.pc \in Committing /\ Become(w, r) /\ Effect(r, tx'.base, tx'.work)
      BY <1>6, <2>1, <2>2 DEF Committing
    <2>5. QED
      BY <1>1, <1>6, <2>2, <2>3, <2>4, CommitStep
  <1>7. ASSUME step.action = "create", CreateMemory(w, row),
               Become(w, Executed(j, NextMemory(View(w))))
        PROVE  AtomicInv' /\ Refines
    <2> DEFINE n == NextMemory(work)
               d == InsertMemory(work, row)
               r == Executed(j, n)
    <2>1. row \in MemoryRow /\ row = NewRow(j, j.next)
      <3>1. j.refs[step.subject].existing \in EntityID
        BY <1>1, <1>2, <1>4, SubjectInvalidated
      <3>2. QED
        BY <1>5, <3>1 DEF MemoryRow, NewRow
    <2> HIDE DEF row
    <2>2. Write(w, d) /\ n \in MemoryID /\ n # None
      BY <1>2, <1>7, IngestAssumption DEF CreateMemory
    <2>3. d \in Database
      BY <1>2, <1>7, <2>1, InsertMemorySound DEF CreateMemory, Sound
    <2>4. Effect(r, db, d)
      <3>1. r = Executed(j, NextMemory(work)) /\ NextMemory(work) \in MemoryID
        BY <2>2
      <3> HIDE DEF r, j, work
      <3>2. QED
        BY <1>1, <1>2, <1>3, <1>4, <1>7, <2>1, <3>1, CreateEffect
    <2> HIDE DEF d
    <2>5. db' = db /\ TxMoves(w) /\ tx'.work = d /\ tx'.base = db
      BY <1>1, <1>2, <2>2, <2>3, CommitPhaseWrite
    <2>6. QED
      BY <1>2, <1>6, <1>7, <2>2, <2>4, <2>5
  <1>8. ASSUME step.action = "update",
               HasMemory(View(w), step.target),
               UpdateMemory(w, step.target, c.content, c.confidence,
                            View(w).memories[step.target].source_id,
                            View(w).memories[step.target].expires_at),
               Become(w, Executed(j, step.target))
        PROVE  AtomicInv' /\ Refines
    <2> DEFINE m == step.target
               source == work.memories[m].source_id
               expires == work.memories[m].expires_at
               d == UpdateMemoryRow(work, m, c.content, c.confidence, source, expires)
    <2>1. m # None /\ m \in MemoryID /\ HasMemory(work, m)
      <3>1. StepOK(j, step)
        BY <1>2, <1>4 DEF JobOK, PlanOK
      <3>2. QED
        BY <1>2, <1>4, <1>8, <3>1 DEF StepOK, PlannedStep
    <2>2. m <= db.issued.memory /\ HasMemory(db, m)
      <3>1. m <= db.issued.memory
        BY <1>2, <1>4, <2>1 DEF Shelved, Shelf
      <3>2. m \in Nat /\ db.issued.memory \in Nat
        BY <1>2, <2>1, IDAssumption DEF Database, Issued
      <3>3. HasMemory(db, m) \/ m > db.issued.memory
        BY <1>2, <2>1 DEF Evolves, KeepsIdentity
      <3>4. QED
        BY <3>1, <3>2, <3>3
    <2>3. source \in SourceID \cup {None} /\ expires \in Time \cup {None}
      <3>1. work.memories[m] \in MemoryRow
        BY <1>2, <2>1 DEF Database, HasMemory
      <3>2. QED
        BY <3>1 DEF MemoryRow
    <2>4. Write(w, d) /\ d \in Database
      BY <1>2, <1>5, <1>8, <2>1, <2>3, UpdateMemorySound DEF UpdateMemory, Sound
    <2>5. Effect(Executed(j, m), db, d)
      <3> DEFINE r == Executed(j, m)
                 content == c.content
                 confidence == c.confidence
      <3>1. r = Executed(j, m) /\ content = j.candidates[j.next].content
            /\ confidence = j.candidates[j.next].confidence
            /\ content \in Content /\ confidence \in Confidence
        BY <1>5
      <3>2. d = UpdateMemoryRow(work, m, content, confidence, work.memories[m].source_id,
                                work.memories[m].expires_at)
        OBVIOUS
      <3> HIDE DEF r, content, confidence, d, j, m, work
      <3>3. Effect(r, db, d)
        BY <1>1, <1>2, <1>3, <1>4, <1>8, <2>1, <2>2, <3>1, <3>2, UpdateEffect
      <3>4. QED
        BY <3>3 DEF r
    <2> HIDE DEF d, m
    <2>6. db' = db /\ TxMoves(w) /\ tx'.work = d /\ tx'.base = db
      BY <1>1, <1>2, <2>4, CommitPhaseWrite
    <2>7. m # None <=> step.action \in {"create", "update"}
      BY <1>8, <2>1
    <2>8. Become(w, Executed(j, m))
      BY <1>8 DEF m
    <2>9. QED
      BY <1>6, <2>5, <2>6, <2>7, <2>8
  <1>9. ASSUME step.action \in {"merge", "no_op"}, Become(w, Executed(j, None)), UNCHANGED <<db, tx>>
        PROVE  AtomicInv' /\ Refines
    <2>1. step.action \notin {"create", "update"}
      BY <1>9
    <2>2. Effect(Executed(j, None), db, work)
      <3> DEFINE r == Executed(j, None)
      <3>1. r = Executed(j, None)
        OBVIOUS
      <3> HIDE DEF r, j, work
      <3>2. Effect(r, db, work)
        BY <1>1, <1>2, <1>3, <1>4, <2>1, <3>1, NoWriteEffect
      <3>3. QED
        BY <3>2 DEF r
    <2>3. TxMoves(w) /\ db' = db /\ tx'.base = db /\ tx'.work = work
      BY <1>2, <1>9 DEF TxMoves
    <2>4. QED
      BY <1>6, <1>9, <2>1, <2>2, <2>3
  <1>10. ASSUME NEW code, Abandon(w, code)
         PROVE  AtomicInv' /\ Refines
    BY <1>1, <1>10, AbandonStep
  <1>11. QED
    BY <1>7, <1>8, <1>9, <1>10, ZenonT(60) DEF ExecutePlannedMemory

-----------------------------------------------------------------------------
(* The commit takes effect *)

\* A set of numbers below a bound has a greatest one: the last update of a memory.
LEMMA GreatestElement ==
    ASSUME NEW S, S \subseteq Nat, S # {}, NEW bound \in Nat, \A n \in S : n <= bound
    PROVE  \E n \in S : \A m \in S : m <= n
  <1> DEFINE T == {bound - n : n \in S}
  <1>1. T \subseteq Nat /\ T # {}
    <2>1. \A n \in S : n \in Nat /\ n <= bound
      OBVIOUS
    <2>2. \A n \in S : bound - n \in Nat
      BY <2>1
    <2>3. QED
      BY <2>2
  <1>2. PICK t \in T : \A u \in T : t <= u
    BY <1>1, LeastElement
  <1>3. PICK n \in S : t = bound - n
    OBVIOUS
  <1>4. ASSUME NEW m \in S
        PROVE  m <= n
    <2>1. bound - m \in T /\ m \in Nat /\ n \in Nat
      OBVIOUS
    <2>2. bound - n <= bound - m
      BY <1>2, <1>3, <2>1
    <2>3. QED
      BY <2>1, <2>2
  <1>5. QED
    BY <1>4

\* Created memories have ids of their own: there are as many as steps.
LEMMA CreatesCounted ==
    ASSUME NEW j, JobOK(j), NEW d1, NEW d2, CreatesDone(j, d1, d2)
    PROVE  Cardinality({j.steps[n].memory : n \in Did(j, "create")}) = Cardinality(Did(j, "create"))
  <1> DEFINE S == Did(j, "create")
             T == {j.steps[n].memory : n \in S}
             f == [n \in S |-> j.steps[n].memory]
  <1>1. IsFiniteSet(S)
    <2>1. Len(j.steps) \in Nat /\ S \in SUBSET (1..Len(j.steps))
      BY DEF JobOK, Typed, Did
    <2>2. IsFiniteSet(1..Len(j.steps))
      BY <2>1, FS_Interval
    <2>3. QED
      BY <2>1, <2>2, FS_Subset
  <1>2. f \in [S -> T] /\ (\A t \in T : \E n \in S : f[n] = t)
    OBVIOUS
  <1>3. \A m, n \in S : f[m] = f[n] => m = n
    BY DEF CreatesDone
  <1> HIDE DEF S, T, f
  <1>4. f \in Surjection(S, T)
    BY <1>2 DEF Surjection
  <1>5. f \in Injection(S, T)
    BY <1>2, <1>3 DEF Injection, IsInjective
  <1>6. Cardinality(T) = Cardinality(S)
    BY <1>1, <1>4, <1>5, FS_Surjection
  <1>7. QED
    BY <1>6 DEF S, T

LEMMA EffectApplied ==
    ASSUME NEW j, JobOK(j), j.pc \in Linked,
           \A n \in DOMAIN j.steps :
              j.steps[n].memory # None <=> j.steps[n].action \in {"create", "update"},
           NEW d1 \in Database, Good(d1), NEW d2 \in Database, Effect(j, d1, d2),
           NEW o, o.entities = CreatedEntities(j), o.edges = MadeEdges(j), o.writes = WritesOf(j)
    PROVE  Contract!Applied(o, d1, d2)
  <1>1. /\ DOMAIN o.writes = DOMAIN j.steps
        /\ \A n \in DOMAIN j.steps : /\ o.writes[n].action = j.steps[n].action
                                     /\ o.writes[n].memory = j.steps[n].memory
                                     /\ o.writes[n].row = NewRow(j, n)
    BY DEF WritesOf
  <1>2. \A action \in {"create", "update"} :
           /\ Contract!Written(o, action) = Did(j, action)
           /\ Contract!WrittenIDs(o, action) = {j.steps[n].memory : n \in Did(j, action)}
    <2> SUFFICES ASSUME NEW action \in {"create", "update"}
                 PROVE  /\ Contract!Written(o, action) = Did(j, action)
                        /\ Contract!WrittenIDs(o, action) = {j.steps[n].memory : n \in Did(j, action)}
      OBVIOUS
    <2>1. Contract!Written(o, action) = Did(j, action)
      BY <1>1 DEF Contract!Written, Did
    <2>2. \A n \in Did(j, action) : o.writes[n].memory = j.steps[n].memory
      BY <1>1 DEF Did
    <2>3. QED
      BY <2>1, <2>2 DEF Contract!WrittenIDs
  <1>3. /\ MemoryID \subseteq Nat /\ d1.issued.memory \in Nat
        /\ \A action \in {"create", "update"} : \A n \in Did(j, action) :
              n \in DOMAIN j.steps /\ j.steps[n].memory \in MemoryID
    <2>1. MemoryID \subseteq Nat /\ d1.issued.memory \in Nat
      BY IDAssumption DEF Database, Issued
    <2>2. ASSUME NEW action, NEW n \in Did(j, action)
          PROVE  n \in DOMAIN j.steps /\ j.steps[n].memory \in MemoryID
      <3>1. n \in DOMAIN j.steps /\ j.steps[n].memory # None /\ j.steps[n] \in PlannedStep
        BY DEF Did, JobOK, Typed
      <3>2. QED
        BY <3>1 DEF PlannedStep
    <2>3. QED
      BY <2>1, <2>2
  <1>4. CreatesDone(j, d1, d2) /\ UpdatesDone(j, d1, d2) /\ OthersKept(j, d1, d2)
    BY DEF Effect
  <1>5. Cardinality(Contract!WrittenIDs(o, "create")) = Cardinality(Contract!Written(o, "create"))
    BY <1>2, <1>4, CreatesCounted
  <1>6. \A n \in Contract!Written(o, "create") :
           /\ ~HasMemory(d1, o.writes[n].memory)
           /\ d2.memories[o.writes[n].memory] = o.writes[n].row
    <2> SUFFICES ASSUME NEW n \in Did(j, "create")
                 PROVE  ~HasMemory(d1, o.writes[n].memory)
                        /\ d2.memories[o.writes[n].memory] = o.writes[n].row
      BY <1>2
    <2>1. j.steps[n].memory > d1.issued.memory /\ d2.memories[j.steps[n].memory] = NewRow(j, n)
      BY <1>4 DEF CreatesDone
    <2>2. j.steps[n].memory \in MemoryID /\ n \in DOMAIN j.steps
      BY <1>3
    <2>3. HasMemory(d1, j.steps[n].memory) => j.steps[n].memory <= d1.issued.memory
      BY <2>2 DEF Good, RowsWereIssued
    <2>4. ~HasMemory(d1, j.steps[n].memory)
      <3> DEFINE m == j.steps[n].memory
      <3>1. m \in Nat /\ m > d1.issued.memory /\ d1.issued.memory \in Nat
        BY <1>3, <2>1, <2>2
      <3>2. HasMemory(d1, m) => m <= d1.issued.memory
        BY <2>3
      <3> HIDE DEF m
      <3>3. ~(m <= d1.issued.memory)
        BY <3>1
      <3>4. ~HasMemory(d1, m)
        BY <3>2, <3>3
      <3>5. QED
        BY <3>4 DEF m
    <2>5. o.writes[n].memory = j.steps[n].memory /\ o.writes[n].row = NewRow(j, n)
      BY <1>1, <2>2
    <2>6. QED
      BY <2>1, <2>4, <2>5
  <1>7. \A m \in Contract!WrittenIDs(o, "update") :
           /\ HasMemory(d1, m)
           /\ d2.memories[m] =
                [d1.memories[m] EXCEPT !.content = o.writes[Contract!LastUpdate(o, m)].row.content,
                                       !.confidence = o.writes[Contract!LastUpdate(o, m)].row.confidence]
    <2> SUFFICES ASSUME NEW m \in {j.steps[n].memory : n \in Did(j, "update")}
                 PROVE  LET row == o.writes[Contract!LastUpdate(o, m)].row IN
                        /\ HasMemory(d1, m)
                        /\ d2.memories[m] = [d1.memories[m] EXCEPT !.content = row.content,
                                                                   !.confidence = row.confidence]
      BY <1>2
    <2> DEFINE S == {n \in Did(j, "update") : j.steps[n].memory = m}
               last == Contract!LastUpdate(o, m)
    <2>1. S # {} /\ S \subseteq Nat /\ Len(j.steps) \in Nat /\ \A n \in S : n <= Len(j.steps)
      <3>1. DOMAIN j.steps = 1..Len(j.steps) /\ Len(j.steps) \in Nat
        BY DEF JobOK, Typed
      <3>2. QED
        BY <1>3, <3>1
    <2>2. \E n \in S : \A k \in S : k <= n
      <3> HIDE DEF S
      <3>1. QED
        BY <2>1, GreatestElement
    <2>3. last \in Did(j, "update") /\ j.steps[last].memory = m /\ IsLastUpdate(j, last)
      <3> DEFINE writes == Did(j, "update")
      <3>1. Contract!Written(o, "update") = writes
            /\ \A n \in writes : o.writes[n].memory = j.steps[n].memory
        BY <1>1, <1>2, <1>3
      <3>2. \E n \in writes : /\ o.writes[n].memory = m
                              /\ \A k \in writes : o.writes[k].memory = m => k <= n
        BY <2>2, <3>1
      <3>3. last = CHOOSE n \in writes : /\ o.writes[n].memory = m
                                         /\ \A k \in writes : o.writes[k].memory = m => k <= n
        BY <3>1 DEF Contract!LastUpdate
      <3> HIDE DEF writes, last
      <3>4. /\ last \in writes /\ o.writes[last].memory = m
            /\ \A k \in writes : o.writes[k].memory = m => k <= last
        BY <3>2, <3>3
      <3>5. QED
        BY <3>1, <3>4 DEF IsLastUpdate, writes
    <2> HIDE DEF last
    <2>4. HasMemory(d1, m) /\ UpdateDone(j, last, d1.memories[m], d2.memories[m])
      BY <1>4, <2>3 DEF UpdatesDone
    <2>5. d2.memories[m] = [d1.memories[m] EXCEPT !.content = j.candidates[last].content,
                                                  !.confidence = j.candidates[last].confidence]
      BY <2>3, <2>4 DEF UpdateDone
    <2>6. o.writes[last].row.content = j.candidates[last].content
          /\ o.writes[last].row.confidence = j.candidates[last].confidence
      <3>1. o.writes[last].row = NewRow(j, last)
        BY <1>1, <1>3, <2>3
      <3>2. QED
        BY <3>1 DEF NewRow
    <2>7. QED
      BY <2>4, <2>5, <2>6 DEF last
  <1>8. \A m \in MemoryID \ (Contract!WrittenIDs(o, "create") \cup Contract!WrittenIDs(o, "update")) :
           d2.memories[m] = d1.memories[m]
    BY <1>2, <1>4 DEF OthersKept
  <1>9. Contract!MemoriesApplied(o, d1, d2)
    <2>1. \A d, m : Contract!HasMemory(d, m) <=> HasMemory(d, m)
      BY DEF Contract!HasMemory, HasMemory
    <2>2. \A n \in Contract!Written(o, "create") :
             /\ ~Contract!HasMemory(d1, o.writes[n].memory)
             /\ d2.memories[o.writes[n].memory] = o.writes[n].row
      BY <1>6, <2>1
    <2>3. \A m \in Contract!WrittenIDs(o, "update") :
             /\ Contract!HasMemory(d1, m)
             /\ d2.memories[m] =
                  [d1.memories[m] EXCEPT !.content = o.writes[Contract!LastUpdate(o, m)].row.content,
                                         !.confidence = o.writes[Contract!LastUpdate(o, m)].row.confidence]
      BY <1>7, <2>1
    <2>4. \A S : Contract!Cardinality(S) = Cardinality(S)
      BY DEF Contract!Cardinality, Cardinality
    <2>5. QED
      BY <1>5, <1>8, <2>2, <2>3, <2>4 DEF Contract!MemoriesApplied
  <1>10. CreatedEntities(j) \subseteq EntityID
    <2> SUFFICES ASSUME NEW k \in Key, j.refs[k] # None
                 PROVE  j.refs[k].existing \in EntityID
      BY DEF CreatedEntities
    <2>1. j.refs[k] \in EntityRef /\ j.refs[k].existing # None
      BY DEF JobOK, Typed, PlanOK
    <2>2. QED
      BY <2>1 DEF EntityRef
  <1>11. /\ {e \in EntityID : d2.entities[e] # d1.entities[e]} = CreatedEntities(j)
         /\ \A e \in CreatedEntities(j) : ~HasEntity(d1, e) /\ HasEntity(d2, e)
    BY <1>10 DEF Effect, EntitiesDone, HasEntity
  <1>12. /\ {d2.relationships[r] : r \in {x \in RelationshipID :
               d2.relationships[x] # d1.relationships[x]}} = MadeEdges(j)
         /\ \A row \in MadeEdges(j) : ~RelationshipExists(d1, row.from, row.to, row.type)
    BY DEF Effect, EdgesDone
  <1>13. Contract!GraphApplied(o, d1, d2)
    BY <1>11, <1>12 DEF Contract!GraphApplied, Contract!HasEntity, HasEntity,
                        Contract!RelationshipExists, RelationshipExists
  <1>14. QED
    BY <1>9, <1>13 DEF Contract!Applied, Effect

-----------------------------------------------------------------------------
(* The commit, and what comes after it *)

\* The whole plan appears in the step that commits.
LEMMA CommitIngestTxStep ==
    ASSUME IngestInv, AtomicInv, NEW w \in Ingester, CommitIngestTx(w)
    PROVE  AtomicInv' /\ Refines
  <1> DEFINE j == job[w]
             changed == Touched(db, tx.work)
             r == [j EXCEPT !.pc = "audit", !.next = 1, !.touched = changed]
  <1>1. /\ j.pc = "memories" /\ j.next > Len(j.steps) /\ edits' = edits
        /\ Commit(w) /\ Become(w, r) /\ j.pc \in Committing /\ j.pc \in Linked
    BY DEF CommitIngestTx, Committing, Linked
  <1>2. /\ JobOK(j) /\ Orderly(j) /\ Effect(j, tx.base, tx.work)
        /\ tx.base = db /\ tx.work \in Database /\ db \in Database /\ Good(db)
    BY <1>1, CommitFacts DEF AtomicInv, IngestInv, Inv, TypeOK
  <1> HIDE DEF changed
  <1>3. /\ r.pc = "audit" /\ r.next = 1 /\ r.dry_run = j.dry_run /\ r.refs = j.refs
        /\ r.made = j.made /\ r.steps = j.steps /\ r.candidates = j.candidates
    BY <1>2 DEF JobOK, Typed, IdleJob
  <1> HIDE DEF r
  <1>4. \A n \in DOMAIN j.steps : j.steps[n].memory # None <=> j.steps[n].action \in {"create", "update"}
    <2> SUFFICES ASSUME NEW n \in DOMAIN j.steps
                 PROVE  j.steps[n].memory # None <=> j.steps[n].action \in {"create", "update"}
      OBVIOUS
    <2>1. Len(j.steps) \in Nat /\ j.next \in Nat /\ n \in 1..Len(j.steps)
      BY <1>2 DEF JobOK, Typed
    <2>2. n < j.next
      BY <1>1, <2>1
    <2>3. QED
      BY <1>1, <1>2, <2>2 DEF Orderly
  <1>5. /\ CreatedEntities(r) = CreatedEntities(j) /\ MadeEdges(r) = MadeEdges(j)
        /\ WritesOf(r) = WritesOf(j)
    BY <1>3, SameEffect
  <1>6. ~r.dry_run
    BY <1>1, <1>2, <1>3 DEF Orderly
  <1>7. Orderly(r)
    BY <1>3, <1>4, <1>6 DEF Orderly, Before, Unwritten, Planning
  <1>8. ~Owns(w)' /\ TxMoves(w) /\ db' = tx.work
    BY <1>1 DEF Commit, Owns, TxMoves
  <1>9. AtomicInv'
    BY <1>1, <1>7, <1>8, StepFollows DEF Follows
  <1>10. Told(j) = [state |-> "open"]
    BY <1>1, <1>3, <1>6, ToldCases DEF Committed, Ended
  <1>11. /\ Told(r).state = "committed" /\ Told(r).entities = CreatedEntities(j)
         /\ Told(r).edges = MadeEdges(j) /\ Told(r).writes = WritesOf(j)
    BY <1>3, <1>5, ToldCases DEF Committed
  <1>12. Contract!Applied(Told(r), db, db')
    BY <1>1, <1>2, <1>4, <1>8, <1>11, EffectApplied
  <1>13. Contract!TakeEffect(w)
    BY <1>1, <1>10, <1>11, <1>12, OthersTold DEF IngestInv, Contract!TakeEffect, Contract!Open
  <1>14. Refines
    BY <1>13 DEF Refines, Contract!ContractNext
  <1>15. QED
    BY <1>9, <1>14

\* A step after the commit only annotates what the request wrote.
LEMMA LaterStep ==
    ASSUME IngestInv, AtomicInv, NEW w \in Ingester, job[w].pc \in Committed, edits' = edits,
           ~Owns(w)', TxMoves(w), NEW r, Become(w, r), r.pc \in Committed,
           r.dry_run = job[w].dry_run, r.refs = job[w].refs, r.made = job[w].made,
           r.steps = job[w].steps, r.candidates = job[w].candidates,
           NEW o, o.writes = WritesOf(job[w]) => Contract!OnlyAudit(o, db, db'), o = Told(job[w])
    PROVE  AtomicInv' /\ Refines
  <1> DEFINE j == job[w]
  <1>1. /\ CreatedEntities(r) = CreatedEntities(j) /\ MadeEdges(r) = MadeEdges(j)
        /\ WritesOf(r) = WritesOf(j)
    BY SameEffect
  <1>2. Orderly(r)
    BY <1>1 DEF AtomicInv, Orderly, Committed, Committing, Before, Unwritten, Planning
  <1>3. AtomicInv'
    BY <1>2, StepFollows DEF Follows
  <1>4. Told(r) = Told(j)
    <2>1. ASSUME NEW x, x.pc \in Committed
          PROVE  Told(x) = [state |-> "committed", entities |-> CreatedEntities(x),
                            edges |-> MadeEdges(x), writes |-> WritesOf(x)]
      BY <2>1 DEF Told, Committed, Ended
    <2>2. Told(r) = [state |-> "committed", entities |-> CreatedEntities(r),
                     edges |-> MadeEdges(r), writes |-> WritesOf(r)]
      BY <2>1
    <2>3. Told(j) = [state |-> "committed", entities |-> CreatedEntities(j),
                     edges |-> MadeEdges(j), writes |-> WritesOf(j)]
      BY <2>1
    <2>4. QED
      BY <1>1, <2>2, <2>3
  <1>5. Told(j).state = "committed" /\ Told(j).writes = WritesOf(j)
    BY ToldCases
  <1>6. \A v \in Ingester : Outcome(v)' = Outcome(v)
    BY <1>4, OutcomeTold DEF Become, IngestInv
  <1>7. Contract!Annotate(w)
    BY <1>5, <1>6, OutcomeTold DEF Contract!Annotate
  <1>8. Refines
    BY <1>7 DEF Refines, Contract!ContractNext
  <1>9. QED
    BY <1>3, <1>8

LEMMA LaterQuietStep ==
    ASSUME IngestInv, AtomicInv, NEW w \in Ingester, job[w].pc \in Committed,
           UNCHANGED <<db, tx, edits>>, NEW r, Become(w, r), r.pc \in Committed,
           r.dry_run = job[w].dry_run, r.refs = job[w].refs, r.made = job[w].made,
           r.steps = job[w].steps, r.candidates = job[w].candidates
    PROVE  AtomicInv' /\ Refines
  <1>1. ~Owns(w) /\ job[w].pc \notin Committing
    BY LaterFacts
  <1>2. ~Owns(w)' /\ TxMoves(w)
    BY <1>1 DEF Owns, TxMoves
  <1>3. \A o : Contract!OnlyAudit(o, db, db')
    BY DEF Contract!OnlyAudit
  <1>4. QED
    BY <1>2, <1>3, LaterStep

\* The audit row is one more, and nothing else changes.
LEMMA RecordIngestSourceStep ==
    ASSUME IngestInv, AtomicInv, NEW w \in Ingester, RecordIngestSource(w)
    PROVE  AtomicInv' /\ Refines
  <1> DEFINE j == job[w]
             row == [subject_entity_id |-> j.subject]
             d == InsertSource(db, row)
  <1>1. j.pc = "audit" /\ edits' = edits /\ j.pc \in Committed
    <2>1. j.pc = "audit" /\ edits' = edits
      BY ZenonT(30) DEF RecordIngestSource
    <2>2. QED
      BY <2>1 DEF Committed
  <1>2. View(w) = db /\ ~Owns(w) /\ db \in Database /\ DOMAIN j = DOMAIN IdleJob
    BY <1>1, LaterFacts
  <1> HIDE DEF row
  <1>3. d.entities = db.entities /\ d.relationships = db.relationships /\ d.memories = db.memories
    BY <1>2 DEF InsertSource, Database
  <1>4. ASSUME CreateIngestSource(w, row), NEW r, Become(w, r), DOMAIN r = DOMAIN IdleJob,
               \A f \in DOMAIN IdleJob \ {"pc", "source"} : r[f] = j[f], r.pc \in Committed
        PROVE  AtomicInv' /\ Refines
    <2>1. Write(w, d)
      BY <1>2, <1>4 DEF CreateIngestSource
    <2>2. db' = d /\ ~Owns(w)' /\ TxMoves(w)
      BY <1>2, <2>1 DEF Write, Owns, TxMoves
    <2>3. \A o : Contract!OnlyAudit(o, db, db')
      BY <1>3, <2>2 DEF Contract!OnlyAudit
    <2>4. r.dry_run = j.dry_run /\ r.refs = j.refs /\ r.made = j.made /\ r.steps = j.steps
          /\ r.candidates = j.candidates
      BY <1>4 DEF IdleJob
    <2>5. QED
      BY <1>1, <1>4, <2>2, <2>3, <2>4, LaterStep
  <1>5. CASE CreateIngestSource(w, row)
             /\ Become(w, [j EXCEPT !.pc = "backfill", !.source = NextSource(db)])
    <2> DEFINE r == [j EXCEPT !.pc = "backfill", !.source = NextSource(db)]
    <2>1. /\ DOMAIN r = DOMAIN IdleJob /\ r.pc = "backfill"
          /\ \A f \in DOMAIN IdleJob \ {"pc", "source"} : r[f] = j[f]
      BY <1>2 DEF IdleJob
    <2>2. Become(w, r) /\ CreateIngestSource(w, row) /\ "backfill" \in Committed
      BY <1>5 DEF Committed
    <2> HIDE DEF r
    <2>3. QED
      BY <1>4, <2>1, <2>2
  <1>6. CASE CreateIngestSource(w, row) /\ Become(w, [j EXCEPT !.pc = "invalidate"])
    <2> DEFINE r == [j EXCEPT !.pc = "invalidate"]
    <2>1. /\ DOMAIN r = DOMAIN IdleJob /\ r.pc = "invalidate"
          /\ \A f \in DOMAIN IdleJob \ {"pc", "source"} : r[f] = j[f]
      BY <1>2 DEF IdleJob
    <2>2. Become(w, r) /\ CreateIngestSource(w, row) /\ "invalidate" \in Committed
      BY <1>6 DEF Committed
    <2> HIDE DEF r
    <2>3. QED
      BY <1>4, <2>1, <2>2
  <1>7. CASE Become(w, [j EXCEPT !.pc = "invalidate"]) /\ UNCHANGED <<db, tx>>
    <2> DEFINE r == [j EXCEPT !.pc = "invalidate"]
    <2>1. /\ r.pc = "invalidate" /\ r.dry_run = j.dry_run /\ r.refs = j.refs
          /\ r.made = j.made /\ r.steps = j.steps /\ r.candidates = j.candidates
      BY <1>2 DEF IdleJob
    <2>2. Become(w, r) /\ "invalidate" \in Committed
      BY <1>7 DEF Committed
    <2> HIDE DEF r
    <2>3. QED
      BY <1>1, <1>7, <2>1, <2>2, LaterQuietStep
  <1>8. QED
    BY <1>5, <1>6, <1>7, ZenonT(60) DEF RecordIngestSource, row

\* A memory the request wrote gets its source, and keeps everything else.
LEMMA AnnotationShape ==
    ASSUME NEW d1 \in Database, NEW m \in MemoryID, HasMemory(d1, m), NEW source \in SourceID \cup {None},
           NEW d, d = UpdateMemoryRow(d1, m, d1.memories[m].content, d1.memories[m].confidence, source,
                                      d1.memories[m].expires_at)
    PROVE  /\ d.entities = d1.entities /\ d.relationships = d1.relationships
           /\ \A x \in MemoryID : x # m => d.memories[x] = d1.memories[x]
           /\ HasMemory(d, m)
           /\ d.memories[m] = [d1.memories[m] EXCEPT !.source_id = d.memories[m].source_id]
  <1> DEFINE old == d1.memories[m]
             row == [old EXCEPT !.content = old.content, !.confidence = old.confidence,
                                !.source_id = source, !.expires_at = old.expires_at]
  <1>1. /\ d.entities = d1.entities /\ d.relationships = d1.relationships
        /\ d.memories = [d1.memories EXCEPT ![m] = row]
    BY DEF UpdateMemoryRow, Database
  <1>2. old \in MemoryRow /\ d1.memories \in [MemoryID -> MemoryRow \cup {None}]
    BY DEF Database, HasMemory
  <1>3. row \in MemoryRow /\ row.source_id = source /\ row = [old EXCEPT !.source_id = source]
    BY <1>2 DEF MemoryRow
  <1>4. row # None
    BY <1>3, NoneAssumption DEF MemoryRow
  <1> HIDE DEF row
  <1>5. d.memories[m] = row /\ \A x \in MemoryID : x # m => d.memories[x] = d1.memories[x]
    BY <1>1, <1>2
  <1>6. QED
    BY <1>1, <1>3, <1>4, <1>5 DEF HasMemory

LEMMA BackfillSourceStep ==
    ASSUME IngestInv, AtomicInv, NEW w \in Ingester, BackfillSource(w)
    PROVE  AtomicInv' /\ Refines
  <1> DEFINE j == job[w]
             m == j.steps[j.next].memory
             owner == db.memories[m].entity_id
             d == UpdateMemoryRow(db, m, db.memories[m].content, db.memories[m].confidence, j.source,
                                  db.memories[m].expires_at)
  <1>1. j.pc = "backfill" /\ edits' = edits /\ j.pc \in Committed
    <2>1. j.pc = "backfill" /\ edits' = edits
      BY ZenonT(30) DEF BackfillSource
    <2>2. QED
      BY <2>1 DEF Committed
  <1>2. /\ View(w) = db /\ ~Owns(w) /\ db \in Database /\ DOMAIN j = DOMAIN IdleJob /\ JobOK(j)
        /\ j.source \in SourceID \cup {None} /\ Orderly(j)
    BY <1>1, LaterFacts DEF AtomicInv
  <1>3. CASE Become(w, [j EXCEPT !.pc = "invalidate"]) /\ UNCHANGED <<db, tx>>
    <2> DEFINE r == [j EXCEPT !.pc = "invalidate"]
    <2>1. /\ r.pc = "invalidate" /\ r.dry_run = j.dry_run /\ r.refs = j.refs
          /\ r.made = j.made /\ r.steps = j.steps /\ r.candidates = j.candidates
      BY <1>2 DEF IdleJob
    <2>2. Become(w, r) /\ "invalidate" \in Committed
      BY <1>3 DEF Committed
    <2> HIDE DEF r
    <2>3. QED
      BY <1>1, <1>3, <2>1, <2>2, LaterQuietStep
  <1>4. CASE Become(w, [j EXCEPT !.next = @ + 1]) /\ UNCHANGED <<db, tx>>
    <2> DEFINE r == [j EXCEPT !.next = @ + 1]
    <2>1. /\ r.pc = j.pc /\ r.dry_run = j.dry_run /\ r.refs = j.refs
          /\ r.made = j.made /\ r.steps = j.steps /\ r.candidates = j.candidates
      BY <1>2 DEF IdleJob
    <2>2. Become(w, r)
      BY <1>4
    <2> HIDE DEF r
    <2>3. QED
      BY <1>1, <1>4, <2>1, <2>2, LaterQuietStep
  <1>5. ASSUME j.next <= Len(j.steps), m # None, HasMemory(db, m),
               UpdateMemory(w, m, db.memories[m].content, db.memories[m].confidence, j.source,
                            db.memories[m].expires_at),
               Become(w, [j EXCEPT !.next = @ + 1, !.touched = @ \cup {owner},
                                   !.cleared = @ \ {owner}])
        PROVE  AtomicInv' /\ Refines
    <2> DEFINE r == [j EXCEPT !.next = @ + 1, !.touched = @ \cup {owner},
                              !.cleared = @ \ {owner}]
    <2>1. j.next \in DOMAIN j.steps /\ m \in MemoryID
      <3>1. j.steps \in Seq(PlannedStep) /\ j.next \in DOMAIN j.steps
        <4> HIDE DEF m, owner, d, r
        <4>1. j.steps \in Seq(PlannedStep) /\ j.next \in Nat \ {0}
          BY <1>2 DEF JobOK, Typed
        <4>2. QED
          BY <1>5, <4>1
      <3>2. j.steps[j.next] \in PlannedStep
        BY <3>1
      <3>3. QED
        BY <1>5, <3>1, <3>2 DEF PlannedStep
    <2>2. Write(w, d)
      BY <1>2, <1>5 DEF UpdateMemory
    <2>3. j.steps[j.next].action \in {"create", "update"}
      BY <1>2, <1>5, <2>1 DEF Orderly
    <2>4. /\ r.pc = j.pc /\ r.dry_run = j.dry_run /\ r.refs = j.refs
          /\ r.made = j.made /\ r.steps = j.steps /\ r.candidates = j.candidates
      BY <1>2 DEF IdleJob
    <2>5. Become(w, r)
      BY <1>5
    <2> HIDE DEF r, owner, d
    <2>6. db' = d /\ ~Owns(w)' /\ TxMoves(w)
      BY <1>2, <2>2 DEF Write, Owns, TxMoves
    <2>7. ASSUME NEW o, o.writes = WritesOf(j)
          PROVE  Contract!OnlyAudit(o, db, d)
      <3>1. m \in Contract!WrittenIDs(o, "create") \cup Contract!WrittenIDs(o, "update")
        <4>1. /\ j.next \in DOMAIN o.writes
              /\ o.writes[j.next].action = j.steps[j.next].action /\ o.writes[j.next].memory = m
          BY <2>1, <2>7 DEF WritesOf
        <4> HIDE DEF m
        <4>2. j.next \in Contract!Written(o, j.steps[j.next].action)
          BY <4>1 DEF Contract!Written
        <4>3. m \in Contract!WrittenIDs(o, j.steps[j.next].action)
          BY <4>1, <4>2 DEF Contract!WrittenIDs
        <4>4. QED
          BY <2>3, <4>3
      <3> HIDE DEF m
      <3>2. /\ d.entities = db.entities /\ d.relationships = db.relationships
            /\ \A x \in MemoryID : x # m => d.memories[x] = db.memories[x]
            /\ HasMemory(d, m)
            /\ d.memories[m] = [db.memories[m] EXCEPT !.source_id = d.memories[m].source_id]
        BY <1>2, <1>5, <2>1, AnnotationShape DEF d
      <3>3. \A x, y : Contract!HasMemory(x, y) <=> HasMemory(x, y)
        BY DEF Contract!HasMemory, HasMemory
      <3>4. QED
        BY <1>5, <3>1, <3>2, <3>3 DEF Contract!OnlyAudit
    <2>8. QED
      BY <1>1, <2>4, <2>5, <2>6, <2>7, LaterStep
  <1>6. QED
    BY <1>3, <1>4, <1>5, ZenonT(60) DEF BackfillSource

\* The answer.
LEMMA InvalidateContextsStep ==
    ASSUME IngestInv, AtomicInv, NEW w \in Ingester, InvalidateContexts(w)
    PROVE  AtomicInv' /\ Refines
  <1> DEFINE j == job[w]
             cleared == j.cleared \cup Invalidated(j)
             r == [j EXCEPT !.pc = "done", !.cleared = cleared]
  <1>1. /\ j.pc = "invalidate" /\ UNCHANGED <<db, tx, edits>> /\ Become(w, r)
        /\ j.pc \in Committed
    BY DEF InvalidateContexts, Invalidated, Committed
  <1>2. DOMAIN j = DOMAIN IdleJob /\ Orderly(j) /\ j.pc \notin Committing
    BY <1>1, LaterFacts DEF AtomicInv
  <1>3. r.pc = "done" /\ r.refs = j.refs /\ r.made = j.made /\ r.steps = j.steps
    BY <1>2 DEF IdleJob
  <1> HIDE DEF r
  <1>4. Orderly(r)
    BY <1>1, <1>2, <1>3 DEF Orderly, Committed, Committing, Before, Unwritten, Planning
  <1>5. AtomicInv'
    BY <1>1, <1>2, <1>4, OutsideFollows, StepFollows
  <1>6. Refines
    BY <1>1, <1>3, Finishes DEF Ended, IngestInv
  <1>7. QED
    BY <1>5, <1>6

-----------------------------------------------------------------------------
(* The rest of the server *)

LEMMA EditStep ==
    ASSUME IngestInv, AtomicInv, NEW q \in Request \ Ingester, Edit(q)
    PROVE  AtomicInv' /\ Refines
  <1>1. tx = None /\ job' = job /\ edits' = edits + 1
    BY ZenonT(30) DEF Edit
  <1>2. IngestInv'
    BY EditPreserves
  <1>3. \A v \in Ingester : job[v].pc \notin Committing
    BY <1>1 DEF IngestInv, TxBelongsToCommit, Committing, Owns
  <1>4. \A v \in Ingester : ~Owns(v)'
    BY <1>1, <1>2, <1>3 DEF IngestInv, TxBelongsToCommit, Committing
  <1>5. AtomicInv'
    BY <1>1, <1>4 DEF AtomicInv
  <1>6. \A v \in Ingester : Outcome(v)' = Outcome(v)
    BY <1>1, OutcomeTold
  <1>7. Contract!EditByOthers
    BY <1>1, <1>6 DEF Contract!EditByOthers
  <1>8. QED
    BY <1>5, <1>7 DEF Refines, Contract!ContractNext

\* The end of the process closes what was in progress, in one step.
LEMMA ServerStopsStep ==
    ASSUME IngestInv, AtomicInv, ServerStops
    PROVE  AtomicInv' /\ Refines
  <1>1. /\ tx' = None /\ db' = db /\ edits' = edits
        /\ job' = [w \in Ingester |->
                     IF job[w].pc \in {"idle", "done", "failed", "lost"} THEN job[w]
                     ELSE [IdleJob EXCEPT !.pc = "lost"]]
    BY DEF ServerStops
  <1>2. ASSUME NEW v \in Ingester
        PROVE  Orderly(job'[v]) /\ Told(job'[v]) \in {Told(job[v]), [state |-> "closed"]}
    <2>1. CASE job[v].pc \in {"idle", "done", "failed", "lost"}
      <3>1. job'[v] = job[v]
        BY <1>1, <2>1
      <3>2. QED
        BY <3>1 DEF AtomicInv
    <2>2. CASE job[v].pc \notin {"idle", "done", "failed", "lost"}
      <3> DEFINE r == [IdleJob EXCEPT !.pc = "lost"]
      <3>1. job'[v] = r
        BY <1>1, <2>2
      <3>2. r.pc = "lost" /\ \A f \in DOMAIN IdleJob \ {"pc"} : r[f] = IdleJob[f]
        BY DEF IdleJob
      <3> HIDE DEF r
      <3>3. Orderly(r)
        BY <3>2, BlankOrderly DEF BlankStages
      <3>4. Told(r) = [state |-> "closed"]
        BY <3>2, ToldCases DEF Ended
      <3>5. QED
        BY <3>1, <3>3, <3>4
    <2>3. QED
      BY <2>1, <2>2
  <1>3. AtomicInv'
    BY <1>1, <1>2 DEF AtomicInv, Owns
  <1>4. \A v \in Ingester : Outcome(v)' \in {Outcome(v), [state |-> "closed"]}
    BY <1>2, OutcomeTold
  <1>5. Contract!AllLost
    BY <1>1, <1>4 DEF Contract!AllLost, Contract!Closed
  <1>6. QED
    BY <1>3, <1>5 DEF Refines, Contract!ContractNext

-----------------------------------------------------------------------------
(* The refinement *)

LEMMA AtomicInit ==
    ASSUME IngestInit
    PROVE  AtomicInv /\ Contract!ContractInit
  <1>1. tx = None /\ edits = 0 /\ job = [w \in Ingester |-> IdleJob] /\ db \in Database
    BY InitialAssumption DEF IngestInit
  <1>2. IdleJob.pc = "idle"
    BY DEF IdleJob
  <1>3. Orderly(IdleJob)
    BY <1>2, BlankOrderly DEF BlankStages
  <1>4. AtomicInv
    BY <1>1, <1>3 DEF AtomicInv, Owns
  <1>5. \A w \in Ingester : Outcome(w) = [state |-> "open"]
    BY <1>1, <1>2 DEF Outcome
  <1>6. [w \in Ingester |-> Outcome(w)] \in [Ingester -> {Contract!Open}]
    BY <1>5 DEF Contract!Open
  <1>7. db \in Contract!Database
    BY <1>1 DEF Database, Contract!Database, EntityRow, Contract!EntityRow, MemoryRow,
                Contract!MemoryRow, RelationshipRow, Contract!RelationshipRow, SourceRow,
                Contract!SourceRow, Issued, Contract!Issued
  <1>8. QED
    BY <1>1, <1>4, <1>6, <1>7 DEF Contract!ContractInit

LEMMA AtomicNext ==
    ASSUME IngestInv, AtomicInv, [IngestNext]_ingestVars
    PROVE  AtomicInv' /\ Refines
  <1>1. ASSUME NEW w \in Ingester, Receive(w)
        PROVE  AtomicInv' /\ Refines
    BY <1>1, ReceiveStep
  <1>2. ASSUME NEW w \in Ingester, Proceed(w)
        PROVE  AtomicInv' /\ Refines
    BY <1>2, ResolveExplicitSubjectStep, ExtractStep, ResolveCandidateSubjectStep,
       ResolveRelatedEntityStep, ResolveMemoryStep, QueueRelationshipsStep, BeginIngestTxStep,
       CreatePlannedEntityStep, CreatePlannedRelationshipStep, ExecutePlannedMemoryStep,
       CommitIngestTxStep, RecordIngestSourceStep, BackfillSourceStep, InvalidateContextsStep
       DEF Proceed
  <1>3. ASSUME NEW w \in Ingester, PlanningFails(w)
        PROVE  AtomicInv' /\ Refines
    BY <1>3, PlanningFailsStep
  <1>4. ASSUME NEW w \in Ingester, CommitFails(w)
        PROVE  AtomicInv' /\ Refines
    BY <1>4, CommitFailsStep
  <1>5. ASSUME NEW q \in Request \ Ingester, Edit(q)
        PROVE  AtomicInv' /\ Refines
    BY <1>5, EditStep
  <1>6. CASE ServerStops
    BY <1>6, ServerStopsStep
  <1>7. CASE TimePasses \/ UNCHANGED ingestVars
    <2>1. db' = db /\ tx' = tx /\ job' = job /\ edits' = edits
      BY <1>7 DEF TimePasses, ingestVars
    <2>2. AtomicInv'
      BY <2>1 DEF AtomicInv, Owns
    <2>3. \A v \in Ingester : Outcome(v)' = Outcome(v)
      BY <2>1, OutcomeTold
    <2>4. Refines
      BY <2>1, <2>3 DEF Refines, Contract!contractVars
    <2>5. QED
      BY <2>2, <2>4
  <1>8. QED
    BY <1>1, <1>2, <1>3, <1>4, <1>5, <1>6, <1>7 DEF IngestNext, ServerStep

\* What a transaction in progress has made of the database it began from is
\* what its request has recorded, at every step of createPlannedEntities,
\* createPlannedRelationships and executePlannedMemories.
THEOREM TransactionIsRecorded == IngestSpec => []AtomicInv
  <1>1. IngestInit => AtomicInv
    BY AtomicInit
  <1>2. IngestInv /\ AtomicInv /\ [IngestNext]_ingestVars => AtomicInv'
    BY AtomicNext
  <1>3. QED
    BY <1>1, <1>2, IngestInvariantHolds, PTL DEF IngestSpec

\* Service.Ingest keeps its promise (SPEC 6.4, 11.4, 14.2) for any number of
\* concurrent ingests, any candidates and edits by other clients: everything an
\* ingest reports appears in one step, or nothing ever does, and dry runs,
\* refusals, rollbacks and crashes change nothing.
THEOREM IngestTakesEffectAtomically == IngestSpec => IngestIsAtomic
  <1>1. IngestInit => Contract!ContractInit
    BY AtomicInit
  <1>2. IngestInv /\ AtomicInv /\ [IngestNext]_ingestVars
           => [Contract!ContractNext]_(Contract!contractVars)
    BY AtomicNext DEF Refines
  <1>3. QED
    BY <1>1, <1>2, IngestInvariantHolds, TransactionIsRecorded, PTL
       DEF IngestSpec, IngestIsAtomic, Contract!ContractSpec
=============================================================================

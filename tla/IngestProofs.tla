---------------------------- MODULE IngestProofs ----------------------------
(***************************************************************************)
(* What holds of any number of ingests, candidates and edits by others.    *)
(* The inductive invariant says, of each ingest, what its locals are and   *)
(* where in its lists it is (JobOK), what the memories it knows of can     *)
(* still turn out to be in a store that went on (Shelved, Owned), and that *)
(* what its transaction has changed so far is what it will invalidate      *)
(* (Covered).  Every step of an ingest is a step of MemoryStore, so the    *)
(* invariant of the store comes from MemoryStoreProofs.                    *)
(***************************************************************************)
EXTENDS Ingest, MemoryStoreProofs, SequenceTheorems, WellFoundedInduction

-----------------------------------------------------------------------------
(* The locals of one ingest *)

Fact == [id : MemoryID, content : Content, confidence : Confidence]

KnownList == [entity : EntityID, category : Category, memories : SUBSET Fact]

Decision == [action : Action, target : MemoryID \cup {None}]

PlannedStep ==
    [subject : Key, existing : EntityID \cup {None}, related : Seq(Key), action : Action,
     target : MemoryID \cup {None}, memory : MemoryID \cup {None}]

Typed(j) ==
    /\ DOMAIN j = DOMAIN IdleJob
    /\ j.pc \in Stages
    /\ j.subject \in Subjects \cup {None}
    /\ j.subject_name \in Name \cup {None}
    /\ j.candidates \in Seq(Candidate)
    /\ j.next \in Nat \ {0}
    /\ j.subject_key \in Key \cup {None}
    /\ j.related \in Seq(Key)
    /\ j.refs \in [Key -> EntityRef \cup {None}]
    /\ j.known \subseteq KnownList
    /\ j.decision \in Decision \cup {None}
    /\ j.steps \in Seq(PlannedStep)
    /\ j.edges \subseteq Edge
    /\ j.made \subseteq Edge
    /\ j.source \in SourceID \cup {None}
    /\ j.touched \subseteq EntityID
    /\ j.cleared \subseteq EntityID

Planning == {"candidate", "related", "resolve", "queue"}
AboutOne == {"related", "resolve", "queue"}
Committing == {"entities", "relationships", "memories"}
Committed == {"audit", "backfill", "invalidate"}
Linked == {"relationships", "memories"} \cup Committed

\* One step is planned per candidate, in the order of the candidates.
InStep(j) ==
    /\ j.pc \in {"subject", "extract"} => j.candidates = <<>> /\ j.next = 1
    /\ j.pc \in Planning => j.next <= Len(j.candidates) /\ Len(j.steps) = j.next - 1
    /\ j.pc \notin Planning => Len(j.steps) = Len(j.candidates)

\* What the request names is resolved before anything relies on it.
SubjectNamed(j) ==
    /\ j.pc \in {"extract"} \cup Planning /\ j.subject # None => j.subject_name # None
    /\ j.subject_name # None => j.refs[KeyOf[j.subject_name]] # None

\* The candidate in hand.
InHand(j) ==
    /\ j.pc \in AboutOne =>
          /\ j.subject_key # None
          /\ j.refs[j.subject_key] # None
          /\ \A n \in DOMAIN j.related : j.refs[j.related[n]] # None
    /\ j.pc = "queue" =>
          /\ j.decision \in Decision
          /\ j.decision.action = "update" => j.decision.target # None

\* A step refers to resolved entities; its subject is the one it was planned
\* for unless the commit phase created it.
StepOK(j, step) ==
    /\ j.refs[step.subject] # None
    /\ \A i \in DOMAIN step.related : j.refs[step.related[i]] # None
    /\ step.action = "update" => step.target # None
    /\ \/ step.existing = j.refs[step.subject].existing
       \/ j.refs[step.subject].created

\* Every edge links the subject of a step to an entity the step relates it to.
EdgeOK(j, edge) ==
    \E n \in DOMAIN j.steps :
        /\ j.steps[n].subject = edge.from
        /\ \E i \in DOMAIN j.steps[n].related : j.steps[n].related[i] = edge.to

PlanOK(j) ==
    /\ \A n \in DOMAIN j.steps : StepOK(j, j.steps[n])
    /\ \A edge \in j.edges \cup j.made : EdgeOK(j, edge)
    /\ j.pc \in Linked => \A k \in Key : j.refs[k] # None => j.refs[k].existing # None

\* What the final loop of Ingest will delete.
Invalidated(j) == UNION {StepInvalidates(j, j.steps[n]) : n \in DOMAIN j.steps}

TouchedOK(j) ==
    /\ j.pc \notin Committed \cup {"done"} => j.touched = {}
    /\ j.pc \in Committed => j.touched \subseteq Invalidated(j)
    /\ j.pc = "done" => j.touched \subseteq j.cleared

JobOK(j) == Typed(j) /\ InStep(j) /\ SubjectNamed(j) /\ InHand(j) /\ PlanOK(j) /\ TouchedOK(j)

-----------------------------------------------------------------------------
(* An ingest and the store that went on without it *)

\* In d and in whatever d becomes, m is gone or a memory of that shelf.
Shelf(d, m, entity, category) ==
    /\ m <= d.issued.memory
    /\ HasMemory(d, m) => /\ d.memories[m].entity_id = entity
                          /\ d.memories[m].category = category

\* Of every memory a plan was made from.
Shelved(j, d) ==
    /\ \A entry \in j.known : \A f \in entry.memories : Shelf(d, f.id, entry.entity, entry.category)
    /\ j.pc = "queue" /\ j.decision.target # None =>
          Shelf(d, j.decision.target, j.refs[j.subject_key].existing, j.candidates[j.next].category)
    /\ \A n \in DOMAIN j.steps : j.steps[n].target # None =>
          Shelf(d, j.steps[n].target, j.steps[n].existing, j.candidates[n].category)

\* Of every memory the commit phase wrote: it is gone or its step's subject's.
Owned(j, d) ==
    \A n \in DOMAIN j.steps : j.steps[n].memory # None =>
        /\ j.steps[n].memory <= d.issued.memory
        /\ HasMemory(d, j.steps[n].memory) =>
              d.memories[j.steps[n].memory].entity_id
                 \in {j.steps[n].existing, j.refs[j.steps[n].subject].existing}

\* Before its first edge a transaction has changed no stored entity's rows;
\* later, only those of entities the ingest will invalidate.
Covered(j, open) == Touched(open.base, open.work) \subseteq
    IF j.pc = "entities" THEN {} ELSE Invalidated(j)

IngestInv ==
    /\ Inv
    /\ edits \in 0..MaxEdits
    /\ job = [w \in Ingester |-> job[w]]
    /\ TxBelongsToCommit
    /\ \A w \in Ingester :
          /\ JobOK(job[w])
          /\ Shelved(job[w], db)
          /\ Owned(job[w], View(w))
          /\ Owns(w) => Covered(job[w], tx)

-----------------------------------------------------------------------------
(* Sequences, least elements, and the queries of the planning phase *)

\* A set of numbers has a least one: ORDER BY ... LIMIT 1 finds a row.
LEMMA LeastElement ==
    ASSUME NEW S, S \subseteq Nat, S # {}
    PROVE  \E n \in S : \A m \in S : n <= m
  <1>1. PICK n \in S : \A m \in S : ~ (<<m, n>> \in OpToRel(<, Nat))
    BY NatLessThanWellFounded, WFMin
  <1>2. \A m \in S : ~(m < n)
    BY <1>1 DEF OpToRel
  <1>3. \A m \in S : n \in Nat /\ m \in Nat
    OBVIOUS
  <1>4. QED
    BY <1>2, <1>3

\* FindEntityByName answers an entity or nothing.
LEMMA FindEntityTyped ==
    ASSUME NEW d, NEW name
    PROVE  FindEntityByName(d, name) \in EntityID \cup {None}
  <1> DEFINE S == EntitiesNamed(d, name)
  <1>1. CASE S = {}
    BY <1>1 DEF FindEntityByName
  <1>2. CASE S # {}
    <2>1. S \subseteq EntityID
      BY DEF EntitiesNamed
    <2>2. \E e \in S : \A other \in S : e <= other
      BY <1>2, <2>1, LeastElement, IDAssumption
    <2>3. FindEntityByName(d, name) \in S
      BY <1>2, <2>2 DEF FindEntityByName
    <2>4. QED
      BY <2>1, <2>3
  <1>3. QED
    BY <1>1, <1>2

\* An index of a sequence is a place in it.
LEMMA PlaceInSeq ==
    ASSUME NEW S, NEW s \in Seq(S)
    PROVE  /\ Len(s) \in Nat
           /\ DOMAIN s = 1..Len(s)
           /\ \A i \in DOMAIN s : s[i] \in S
  OBVIOUS

\* A sequence with one more element.
LEMMA AppendToSeq ==
    ASSUME NEW S, NEW s \in Seq(S), NEW x \in S, NEW t, t = Append(s, x)
    PROVE  /\ t \in Seq(S)
           /\ Len(t) = Len(s) + 1
           /\ DOMAIN t = DOMAIN s \cup {Len(s) + 1}
           /\ t[Len(s) + 1] = x
           /\ \A n \in DOMAIN s : n # Len(s) + 1 /\ t[n] = s[n]
  OBVIOUS

\* A sequence with one element replaced.
LEMMA ReplaceInSeq ==
    ASSUME NEW S, NEW s \in Seq(S), NEW i \in DOMAIN s, NEW x \in S,
           NEW t, t = [s EXCEPT ![i] = x]
    PROVE  /\ t \in Seq(S)
           /\ Len(t) = Len(s)
           /\ DOMAIN t = DOMAIN s
           /\ \A k \in DOMAIN s : t[k] = IF k = i THEN x ELSE s[k]
  <1>1. s \in [1..Len(s) -> S] /\ Len(s) \in Nat
    OBVIOUS
  <1>2. t \in [1..Len(s) -> S] /\ DOMAIN t = 1..Len(s)
    BY <1>1
  <1>3. t \in Seq(S) /\ Len(t) = Len(s)
    BY <1>1, <1>2, SeqDef, LenProperties
  <1>4. QED
    BY <1>1, <1>2, <1>3

-----------------------------------------------------------------------------
(* What others do to the store keeps what an ingest knows *)

LEMMA ShelfEvolves ==
    ASSUME NEW d1 \in Database, NEW d2 \in Database, Evolves(d1, d2),
           NEW m \in MemoryID, NEW entity, NEW category, Shelf(d1, m, entity, category)
    PROVE  Shelf(d2, m, entity, category)
  <1>1. d1.issued.memory \in Nat /\ d2.issued.memory \in Nat /\ m \in Nat
    BY IDAssumption DEF Database, Issued
  <1>2. HasMemory(d2, m) => HasMemory(d1, m)
    BY <1>1 DEF Evolves, KeepsIdentity, Shelf
  <1>3. QED
    BY <1>1, <1>2 DEF Evolves, KeepsIdentity, IssuedGrows, Shelf

LEMMA ShelvedEvolves ==
    ASSUME NEW d1 \in Database, NEW d2 \in Database, Evolves(d1, d2),
           NEW j, JobOK(j), Shelved(j, d1)
    PROVE  Shelved(j, d2)
  <1>1. ASSUME NEW entry \in j.known, NEW f \in entry.memories
        PROVE  Shelf(d2, f.id, entry.entity, entry.category)
    BY <1>1, ShelfEvolves DEF JobOK, Typed, Shelved, KnownList, Fact
  <1>2. ASSUME j.pc = "queue", j.decision.target # None
        PROVE  Shelf(d2, j.decision.target, j.refs[j.subject_key].existing,
                     j.candidates[j.next].category)
    BY <1>2, ShelfEvolves DEF JobOK, InHand, Shelved, Decision
  <1>3. ASSUME NEW n \in DOMAIN j.steps, j.steps[n].target # None
        PROVE  Shelf(d2, j.steps[n].target, j.steps[n].existing, j.candidates[n].category)
    <2>1. j.steps[n] \in PlannedStep
      BY DEF JobOK, Typed
    <2>2. QED
      BY <1>3, <2>1, ShelfEvolves DEF Shelved, PlannedStep
  <1>4. QED
    BY <1>1, <1>2, <1>3 DEF Shelved

LEMMA OwnedEvolves ==
    ASSUME NEW d1 \in Database, NEW d2 \in Database, Evolves(d1, d2),
           NEW j, Typed(j), Owned(j, d1)
    PROVE  Owned(j, d2)
  <1> SUFFICES ASSUME NEW n \in DOMAIN j.steps, j.steps[n].memory # None
               PROVE  LET m == j.steps[n].memory IN
                      /\ m <= d2.issued.memory
                      /\ HasMemory(d2, m) => d2.memories[m].entity_id
                            \in {j.steps[n].existing, j.refs[j.steps[n].subject].existing}
    BY DEF Owned
  <1> DEFINE m == j.steps[n].memory
  <1>1. j.steps[n] \in PlannedStep
    BY DEF Typed
  <1>2. m \in MemoryID
    BY <1>1 DEF PlannedStep
  <1>3. d1.issued.memory \in Nat /\ d2.issued.memory \in Nat /\ m \in Nat
    BY <1>2, IDAssumption DEF Database, Issued
  <1>4. m <= d1.issued.memory
    BY DEF Owned
  <1>5. HasMemory(d2, m) => HasMemory(d1, m)
    BY <1>2, <1>3, <1>4 DEF Evolves, KeepsIdentity
  <1>6. HasMemory(d2, m) => d2.memories[m].entity_id = d1.memories[m].entity_id
    BY <1>2, <1>5 DEF Evolves, KeepsIdentity
  <1>7. m <= d2.issued.memory
    <2>1. d1.issued.memory <= d2.issued.memory
      BY DEF Evolves, IssuedGrows
    <2>2. QED
      BY <1>3, <1>4, <2>1
  <1>8. HasMemory(d1, m) => d1.memories[m].entity_id
           \in {j.steps[n].existing, j.refs[j.steps[n].subject].existing}
    BY DEF Owned
  <1> HIDE DEF m
  <1>9. HasMemory(d2, m) => d2.memories[m].entity_id
           \in {j.steps[n].existing, j.refs[j.steps[n].subject].existing}
    BY <1>5, <1>6, <1>8
  <1>10. QED
    BY <1>7, <1>9 DEF m

-----------------------------------------------------------------------------
(* A step of one ingest *)

\* The transaction stays whose it is, or it is the one of ingest w.
TxMoves(w) ==
    \/ tx' = tx
    \/ (tx = None \/ Owns(w)) /\ (tx' = None \/ Owns(w)')

\* What a step that makes r the state of ingest w has to show of r.
Keeps(w, r) ==
    /\ Become(w, r)
    /\ JobOK(r)
    /\ Shelved(r, db)
    /\ Owned(r, View(w)')
    /\ r.pc \in Committing <=> Owns(w)'
    /\ Owns(w)' => Covered(r, tx')

\* The rest of the state follows: what the other ingests know survives what
\* this one does to the store.
LEMMA StepPreserves ==
    ASSUME IngestInv, NEW w \in Ingester, NEW r,
           [Next]_vars, TxMoves(w), edits' = edits, Keeps(w, r)
    PROVE  IngestInv'
  <1>1. Inv' /\ Evolves(db, db') /\ db \in Database /\ db' \in Database
    BY NextPreserves DEF IngestInv, Inv, TypeOK
  <1>2. /\ job' = [v \in Ingester |-> job'[v]]
        /\ job'[w] = r
        /\ \A v \in Ingester \ {w} : job'[v] = job[v]
    BY DEF IngestInv, Keeps, Become
  <1>3. \A v \in Ingester \ {w} : Owns(v)' <=> Owns(v)
    BY DEF TxMoves, Owns
  <1>4. TxBelongsToCommit'
    <2>1. tx' # None => tx'.owner \in Ingester
      BY DEF IngestInv, TxBelongsToCommit, TxMoves, Owns
    <2>2. ASSUME NEW v \in Ingester
          PROVE  job'[v].pc \in {"entities", "relationships", "memories"} <=> Owns(v)'
      BY <1>2, <1>3 DEF IngestInv, TxBelongsToCommit, Keeps, Committing
    <2>3. QED
      BY <2>1, <2>2 DEF TxBelongsToCommit
  <1>5. ASSUME NEW v \in Ingester
        PROVE  /\ JobOK(job'[v])
               /\ Shelved(job'[v], db')
               /\ Owned(job'[v], View(v)')
               /\ Owns(v)' => Covered(job'[v], tx')
    <2>1. CASE v = w
      BY <1>1, <1>2, <2>1, ShelvedEvolves DEF Keeps
    <2>2. CASE v # w
      <3>1. job'[v] = job[v] /\ JobOK(job[v])
        BY <1>2, <2>2 DEF IngestInv
      <3>2. Shelved(job[v], db')
        BY <1>1, <3>1, ShelvedEvolves DEF IngestInv
      <3>3. Owned(job[v], View(v)')
        <4>1. CASE Owns(v)
          BY <1>3, <2>2, <4>1 DEF IngestInv, View, TxMoves, Owns
        <4>2. CASE ~Owns(v)
          BY <1>1, <1>3, <2>2, <3>1, <4>2, OwnedEvolves DEF IngestInv, View, JobOK
        <4>3. QED
          BY <4>1, <4>2
      <3>4. Owns(v)' => Covered(job[v], tx')
        BY <1>3, <2>2 DEF IngestInv, TxMoves, Owns
      <3>5. QED
        BY <3>1, <3>2, <3>3, <3>4
    <2>3. QED
      BY <2>1, <2>2
  <1>6. QED
    BY <1>1, <1>2, <1>4, <1>5 DEF IngestInv
\* A request that has planned nothing knows nothing that could be wrong.
BlankStages == {"idle", "subject", "failed", "lost"}

LEMMA BlankJobOK ==
    ASSUME NEW d, NEW r, DOMAIN r = DOMAIN IdleJob, r.pc \in BlankStages,
           r.subject \in Subjects \cup {None},
           \A f \in DOMAIN IdleJob \ {"pc", "subject", "dry_run", "error"} : r[f] = IdleJob[f]
    PROVE  JobOK(r) /\ Shelved(r, d) /\ Owned(r, d)
  <1>1. /\ r.subject_name = None
        /\ r.candidates = <<>> /\ r.next = 1 /\ r.subject_key = None /\ r.related = <<>>
        /\ r.refs = NoRefs /\ r.known = {} /\ r.decision = None /\ r.steps = <<>>
        /\ r.edges = {} /\ r.made = {} /\ r.source = None /\ r.touched = {} /\ r.cleared = {}
    BY DEF IdleJob
  <1>2. Typed(r)
    BY <1>1 DEF Typed, NoRefs, Stages, BlankStages
  <1>3. InStep(r) /\ SubjectNamed(r) /\ InHand(r) /\ TouchedOK(r)
    BY <1>1 DEF InStep, SubjectNamed, InHand, TouchedOK, BlankStages, Planning, AboutOne, Committed
  <1>4. PlanOK(r)
    BY <1>1 DEF PlanOK, BlankStages, Linked, Committed
  <1>5. Shelved(r, d) /\ Owned(r, d)
    BY <1>1 DEF Shelved, Owned, BlankStages
  <1>6. QED
    BY <1>2, <1>3, <1>4, <1>5 DEF JobOK

\* Outside the commit phase, a step that leaves the store alone keeps the
\* invariant if it keeps that of its own request.
LEMMA QuietPreserves ==
    ASSUME IngestInv, NEW w \in Ingester, NEW r, Become(w, r), UNCHANGED <<db, tx, edits>>,
           job[w].pc \notin Committing, r.pc \notin Committing,
           JobOK(r), Shelved(r, db), Owned(r, db)
    PROVE  IngestInv'
  <1>1. ~Owns(w) /\ ~Owns(w)'
    BY DEF IngestInv, TxBelongsToCommit, Committing, Owns
  <1>2. Keeps(w, r) /\ TxMoves(w)
    BY <1>1 DEF Keeps, TxMoves, View
  <1>3. QED
    BY <1>2, StepPreserves DEF vars

LEMMA RefusePreserves ==
    ASSUME IngestInv, NEW w \in Ingester, job[w].pc \notin Committing,
           NEW code, Refuse(w, code), UNCHANGED <<db, tx, edits>>
    PROVE  IngestInv'
  <1> DEFINE r == [IdleJob EXCEPT !.pc = "failed", !.error = code]
  <1>1. /\ DOMAIN r = DOMAIN IdleJob /\ r.pc = "failed" /\ r.subject = None
        /\ \A f \in DOMAIN IdleJob \ {"pc", "error"} : r[f] = IdleJob[f]
    BY DEF IdleJob
  <1>2. JobOK(r) /\ Shelved(r, db) /\ Owned(r, db)
    BY <1>1, BlankJobOK DEF BlankStages
  <1>3. QED
    BY <1>1, <1>2, QuietPreserves DEF Refuse, Committing

LEMMA ReceivePreserves ==
    ASSUME IngestInv, NEW w \in Ingester, Receive(w)
    PROVE  IngestInv'
  <1>1. job[w].pc \notin Committing
    BY DEF Receive, Committing
  <1>2. ASSUME NEW subject \in Subjects, NEW dry_run \in BOOLEAN,
               Become(w, [IdleJob EXCEPT !.pc = "subject", !.subject = subject,
                                         !.dry_run = dry_run])
        PROVE  IngestInv'
    <2> DEFINE r == [IdleJob EXCEPT !.pc = "subject", !.subject = subject, !.dry_run = dry_run]
    <2>1. /\ DOMAIN r = DOMAIN IdleJob /\ r.pc = "subject" /\ r.subject = subject
          /\ \A f \in DOMAIN IdleJob \ {"pc", "subject", "dry_run"} : r[f] = IdleJob[f]
      BY DEF IdleJob
    <2>2. JobOK(r) /\ Shelved(r, db) /\ Owned(r, db)
      BY <2>1, BlankJobOK DEF BlankStages
    <2>3. QED
      BY <1>1, <1>2, <2>1, <2>2, QuietPreserves DEF Receive, Committing
  <1>3. QED
    BY <1>1, <1>2, RefusePreserves DEF Receive

\* A step that only resolves more names keeps what the plan refers to.
LEMMA PlanExtends ==
    ASSUME NEW j, JobOK(j), NEW d, Owned(j, d), NEW r,
           r.steps = j.steps, r.edges = j.edges, r.made = j.made,
           \A k \in Key : j.refs[k] # None => r.refs[k] = j.refs[k],
           r.pc \notin Linked
    PROVE  PlanOK(r) /\ Owned(r, d)
  <1>1. \A n \in DOMAIN j.steps : /\ j.steps[n] \in PlannedStep
                                  /\ j.refs[j.steps[n].subject] # None
    BY DEF JobOK, Typed, PlanOK, StepOK
  <1>2. ASSUME NEW n \in DOMAIN j.steps
        PROVE  StepOK(r, j.steps[n])
    <2>1. /\ j.steps[n].subject \in Key
          /\ \A i \in DOMAIN j.steps[n].related : j.steps[n].related[i] \in Key
      BY <1>1 DEF PlannedStep
    <2>2. StepOK(j, j.steps[n])
      BY DEF JobOK, PlanOK
    <2>3. QED
      BY <2>1, <2>2 DEF StepOK
  <1>3. \A edge \in r.edges \cup r.made : EdgeOK(r, edge)
    BY DEF JobOK, PlanOK, EdgeOK
  <1>4. Owned(r, d)
    <2>1. ASSUME NEW n \in DOMAIN j.steps
          PROVE  r.refs[j.steps[n].subject] = j.refs[j.steps[n].subject]
      BY <1>1 DEF PlannedStep
    <2>2. QED
      BY <2>1 DEF Owned
  <1>5. r.pc \in Linked => FALSE
    OBVIOUS
  <1>6. QED
    BY <1>2, <1>3, <1>4, <1>5 DEF PlanOK

-----------------------------------------------------------------------------
(* Phase 1 *)

LEMMA ResolveExplicitSubjectPreserves ==
    ASSUME IngestInv, NEW w \in Ingester, ResolveExplicitSubject(w)
    PROVE  IngestInv'
  <1> DEFINE j == job[w]
  <1>1. j.pc = "subject" /\ UNCHANGED <<db, tx, edits>> /\ j.pc \notin Committing
    BY DEF ResolveExplicitSubject, Committing
  <1>2. JobOK(j) /\ Shelved(j, db) /\ Owned(j, db)
    BY <1>1 DEF IngestInv, TxBelongsToCommit, View, Owns
  <1>3. j.steps = <<>> /\ j.edges \cup j.made = {}
    <2>1. Len(j.steps) = 0
      BY <1>1, <1>2 DEF JobOK, InStep, Planning
    <2>2. j.steps = <<>>
      BY <1>2, <2>1, EmptySeq DEF JobOK, Typed
    <2>3. QED
      BY <1>2, <2>2 DEF JobOK, PlanOK, EdgeOK
  <1>4. ASSUME j.subject = None, Become(w, [j EXCEPT !.pc = "extract"])
        PROVE  IngestInv'
    <2> DEFINE r == [j EXCEPT !.pc = "extract"]
    <2>1. Typed(r) /\ r.pc = "extract" /\ \A f \in DOMAIN IdleJob \ {"pc"} : r[f] = j[f]
      BY <1>2 DEF JobOK, Typed, Stages
    <2>2. /\ r.subject = j.subject /\ r.subject_name = j.subject_name
          /\ r.candidates = j.candidates /\ r.next = j.next /\ r.refs = j.refs
          /\ r.known = j.known /\ r.steps = j.steps /\ r.edges = j.edges /\ r.made = j.made
          /\ r.touched = j.touched
      BY <2>1 DEF IdleJob
    <2>3. InStep(r) /\ SubjectNamed(r) /\ InHand(r) /\ TouchedOK(r)
      BY <1>1, <1>2, <1>4, <2>1, <2>2
         DEF JobOK, InStep, SubjectNamed, InHand, TouchedOK, Planning, AboutOne, Committed
    <2>4. PlanOK(r) /\ Owned(r, db) /\ Shelved(r, db)
      <3>1. PlanOK(r)
        BY <1>2, <1>3, <2>1, <2>2 DEF PlanOK, Linked, Committed
      <3>2. Owned(r, db)
        BY <1>2, <1>3, <2>1, <2>2 DEF Owned
      <3>3. Shelved(r, db)
        BY <1>2, <1>3, <2>1, <2>2 DEF Shelved
      <3>4. QED
        BY <3>1, <3>2, <3>3
    <2>5. QED
      BY <1>1, <1>4, <2>1, <2>3, <2>4, QuietPreserves DEF JobOK, Committing
  <1>5. ASSUME j.subject # None, HasEntity(db, j.subject),
               NEW name, name = db.entities[j.subject].name,
               NEW ref, ref = [existing |-> j.subject, name |-> name, created |-> FALSE],
               Become(w, [j EXCEPT !.pc = "extract", !.subject_name = name,
                                   !.refs[KeyOf[name]] = ref])
        PROVE  IngestInv'
    <2> DEFINE r == [j EXCEPT !.pc = "extract", !.subject_name = name, !.refs[KeyOf[name]] = ref]
    <2>1. j.subject \in EntityID
      BY <1>2, <1>5, IngestAssumption DEF JobOK, Typed
    <2>2. name \in Name /\ ref \in EntityRef /\ KeyOf[name] \in Key /\ ref # None
      <3>1. db.entities[j.subject] \in EntityRow
        BY <1>5, <2>1 DEF IngestInv, Inv, TypeOK, Database, HasEntity
      <3>2. name \in Name
        BY <1>5, <3>1 DEF EntityRow
      <3>3. ref \in EntityRef
        BY <1>5, <2>1, <3>2 DEF EntityRef
      <3>4. QED
        BY <3>2, <3>3, IngestAssumption
    <2>3. /\ Typed(r) /\ r.pc = "extract" /\ r.subject_name = name
          /\ r.refs = [j.refs EXCEPT ![KeyOf[name]] = ref]
          /\ \A f \in DOMAIN IdleJob \ {"pc", "subject_name", "refs"} : r[f] = j[f]
      BY <1>2, <2>2 DEF JobOK, Typed, Stages, IdleJob
    <2>4. /\ r.subject = j.subject
          /\ r.candidates = j.candidates /\ r.next = j.next
          /\ r.known = j.known /\ r.steps = j.steps /\ r.edges = j.edges /\ r.made = j.made
          /\ r.touched = j.touched
      BY <2>3 DEF IdleJob
    <2>5. r.refs[KeyOf[name]] # None
      BY <1>2, <2>2, <2>3 DEF JobOK, Typed
    <2>6. InStep(r) /\ SubjectNamed(r) /\ InHand(r) /\ TouchedOK(r)
      BY <1>1, <1>2, <2>2, <2>3, <2>4, <2>5, IngestAssumption
         DEF JobOK, InStep, SubjectNamed, InHand, TouchedOK, Planning, AboutOne, Committed
    <2>7. PlanOK(r) /\ Owned(r, db) /\ Shelved(r, db)
      <3>1. PlanOK(r)
        BY <1>2, <1>3, <2>3, <2>4 DEF PlanOK, Linked, Committed
      <3>2. Owned(r, db)
        <4>1. DOMAIN r.steps = {}
          BY <1>3, <2>4
        <4>2. QED
          BY <4>1 DEF Owned
      <3>3. Shelved(r, db)
        BY <1>2, <1>3, <2>3, <2>4 DEF Shelved
      <3>4. QED
        BY <3>1, <3>2, <3>3
    <2>8. QED
      BY <1>1, <1>5, <2>3, <2>6, <2>7, QuietPreserves DEF JobOK, Committing
  <1>6. QED
    BY <1>1, <1>4, <1>5, RefusePreserves DEF ResolveExplicitSubject

\* Every list of candidates the extractor answers is one of candidates, also
\* once those without a subject have the request's.
LEMMA GroundedTyped ==
    ASSUME NEW candidates \in Extractions, NEW subject_name \in Name \cup {None}
    PROVE  /\ Grounded(candidates, subject_name) \in Seq(Candidate)
           /\ Len(Grounded(candidates, subject_name)) = Len(candidates)
  <1> DEFINE g == Grounded(candidates, subject_name)
  <1>1. candidates \in Seq(Candidate) /\ Len(candidates) \in Nat
    BY IngestAssumption
  <1>2. ASSUME NEW n \in DOMAIN candidates
        PROVE  g[n] \in Candidate
    <2>1. candidates[n] \in Candidate
      BY <1>1
    <2>2. \A x \in Name \cup {None} : [candidates[n] EXCEPT !.subject = x] \in Candidate
      BY <2>1 DEF Candidate
    <2>3. candidates[n].subject \in Name \cup {None}
      BY <2>1 DEF Candidate
    <2>4. QED
      BY <2>2, <2>3 DEF Grounded
  <1>3. g \in [1..Len(candidates) -> Candidate]
    BY <1>1, <1>2 DEF Grounded
  <1>4. QED
    BY <1>1, <1>3, SeqDef, LenProperties

LEMMA ExtractPreserves ==
    ASSUME IngestInv, NEW w \in Ingester, Extract(w)
    PROVE  IngestInv'
  <1> DEFINE j == job[w]
  <1>1. j.pc = "extract" /\ UNCHANGED <<db, tx, edits>> /\ j.pc \notin Committing
    BY DEF Extract, Committing
  <1>2. JobOK(j) /\ Shelved(j, db) /\ Owned(j, db)
    BY <1>1 DEF IngestInv, TxBelongsToCommit, View, Owns
  <1>3. j.steps = <<>> /\ j.edges \cup j.made = {} /\ j.next = 1
    <2>1. Len(j.steps) = 0 /\ j.next = 1
      BY <1>1, <1>2 DEF JobOK, InStep, Planning
    <2>2. j.steps = <<>>
      BY <1>2, <2>1, EmptySeq DEF JobOK, Typed
    <2>3. QED
      BY <1>2, <2>1, <2>2 DEF JobOK, PlanOK, EdgeOK
  <1>4. ASSUME NEW candidates \in Extractions,
               NEW stage, stage = IF candidates = <<>> THEN "done" ELSE "candidate",
               NEW grounded, grounded = Grounded(candidates, j.subject_name),
               Become(w, [j EXCEPT !.pc = stage, !.candidates = grounded])
        PROVE  IngestInv'
    <2> DEFINE r == [j EXCEPT !.pc = stage, !.candidates = grounded]
    <2>1. grounded \in Seq(Candidate) /\ Len(grounded) = Len(candidates)
      BY <1>2, <1>4, GroundedTyped DEF JobOK, Typed
    <2>2. Len(candidates) \in Nat /\ (candidates # <<>> => Len(candidates) > 0)
      BY IngestAssumption
    <2>3. /\ Typed(r) /\ r.pc = stage /\ r.candidates = grounded
          /\ \A f \in DOMAIN IdleJob \ {"pc", "candidates"} : r[f] = j[f]
      BY <1>2, <1>4, <2>1 DEF JobOK, Typed, Stages, IdleJob
    <2>4. /\ r.subject = j.subject /\ r.subject_name = j.subject_name
          /\ r.next = 1 /\ r.refs = j.refs
          /\ r.known = j.known /\ r.steps = <<>> /\ r.edges = j.edges /\ r.made = j.made
          /\ r.touched = j.touched
      BY <1>3, <2>3 DEF IdleJob
    <2>5. InStep(r)
      BY <1>4, <2>1, <2>2, <2>3, <2>4 DEF InStep, Planning
    <2>6. SubjectNamed(r) /\ InHand(r) /\ TouchedOK(r)
      BY <1>1, <1>2, <1>4, <2>3, <2>4
         DEF JobOK, SubjectNamed, InHand, TouchedOK, Planning, AboutOne, Committed
    <2>7. PlanOK(r) /\ Owned(r, db) /\ Shelved(r, db)
      <3>1. PlanOK(r)
        BY <1>2, <1>3, <1>4, <2>3, <2>4 DEF PlanOK, Linked, Committed
      <3>2. Owned(r, db)
        <4>1. \A n \in DOMAIN r.steps : FALSE
          BY <2>4
        <4>2. QED
          BY <4>1 DEF Owned
      <3>3. Shelved(r, db)
        BY <1>2, <1>3, <1>4, <2>3, <2>4 DEF Shelved
      <3>4. QED
        BY <3>1, <3>2, <3>3
    <2>8. r.pc \notin Committing
      BY <1>4, <2>3 DEF Committing
    <2>9. JobOK(r)
      BY <2>3, <2>5, <2>6, <2>7 DEF JobOK
    <2>10. QED
      BY <1>1, <1>4, <2>7, <2>8, <2>9, QuietPreserves
  <1>5. QED
    BY <1>1, <1>4, RefusePreserves DEF Extract

-----------------------------------------------------------------------------
(* Phase 2 *)

\* A planning step that stays with its candidate.
LEMMA PlanningStepOK ==
    ASSUME NEW j, JobOK(j), j.pc \in Planning, NEW d, Owned(j, d),
           NEW r, Typed(r), r.pc \in Planning, InHand(r),
           \A f \in DOMAIN IdleJob \ {"pc", "subject_key", "related", "refs", "known", "decision"} :
              r[f] = j[f],
           \A k \in Key : j.refs[k] # None => r.refs[k] = j.refs[k]
    PROVE  JobOK(r) /\ Owned(r, d)
  <1>1. /\ r.subject = j.subject /\ r.subject_name = j.subject_name
        /\ r.candidates = j.candidates /\ r.next = j.next
        /\ r.steps = j.steps /\ r.edges = j.edges /\ r.made = j.made
        /\ r.touched = j.touched
    BY DEF IdleJob
  <1>2. InStep(r)
    BY <1>1 DEF JobOK, InStep, Planning
  <1>3. SubjectNamed(r)
    BY <1>1, IngestAssumption DEF JobOK, Typed, SubjectNamed, Planning
  <1>4. TouchedOK(r)
    BY <1>1 DEF JobOK, TouchedOK, Planning, Committed
  <1>5. PlanOK(r) /\ Owned(r, d)
    BY <1>1, PlanExtends DEF Planning, Linked, Committed
  <1>6. QED
    BY <1>2, <1>3, <1>4, <1>5 DEF JobOK

LEMMA RefsWithExtends ==
    ASSUME NEW w \in Ingester, JobOK(job[w]), NEW name \in Name
    PROVE  /\ RefsWith(w, name) \in [Key -> EntityRef \cup {None}]
           /\ KeyOf[name] \in Key
           /\ RefsWith(w, name)[KeyOf[name]] # None
           /\ \A k \in Key : job[w].refs[k] # None => RefsWith(w, name)[k] = job[w].refs[k]
  <1> DEFINE ref == [existing |-> FindEntityByName(db, name), name |-> TrimOf[name],
                     created |-> FALSE]
  <1>1. KeyOf[name] \in Key /\ TrimOf[name] \in Name
    BY IngestAssumption
  <1>2. ref \in EntityRef
    BY <1>1, FindEntityTyped DEF EntityRef
  <1>3. ref # None /\ job[w].refs \in [Key -> EntityRef \cup {None}]
    BY <1>2, IngestAssumption DEF JobOK, Typed
  <1>4. QED
    BY <1>1, <1>2, <1>3 DEF RefsWith

\* The candidate a planning step is about.
LEMMA CurrentTyped ==
    ASSUME NEW w \in Ingester, JobOK(job[w]), job[w].pc \in Planning
    PROVE  /\ job[w].next \in DOMAIN job[w].candidates
           /\ Current(w) \in Candidate
  <1>1. job[w].candidates \in Seq(Candidate) /\ job[w].next \in Nat \ {0}
           /\ job[w].next <= Len(job[w].candidates)
    BY DEF JobOK, Typed, InStep
  <1>2. job[w].next \in DOMAIN job[w].candidates
    BY <1>1
  <1>3. QED
    BY <1>1, <1>2 DEF Current

\* The facts every quiet step starts from.
LEMMA QuietFacts ==
    ASSUME IngestInv, NEW w \in Ingester, job[w].pc \notin Committing
    PROVE  /\ JobOK(job[w]) /\ Shelved(job[w], db) /\ Owned(job[w], db)
           /\ ~Owns(w)
  BY DEF IngestInv, TxBelongsToCommit, View, Owns, Committing

LEMMA ResolveCandidateSubjectPreserves ==
    ASSUME IngestInv, NEW w \in Ingester, ResolveCandidateSubject(w)
    PROVE  IngestInv'
  <1> DEFINE j == job[w]
  <1>1. j.pc = "candidate" /\ UNCHANGED <<db, tx, edits>>
    BY DEF ResolveCandidateSubject
  <1>2. j.pc \notin Committing /\ j.pc \in Planning
    BY <1>1 DEF Committing, Planning
  <1>3. JobOK(j) /\ Shelved(j, db) /\ Owned(j, db) /\ Current(w) \in Candidate
    BY <1>2, QuietFacts, CurrentTyped
  <1>4. ASSUME NEW key \in Key, NEW refs \in [Key -> EntityRef \cup {None}], refs[key] # None,
               \A k \in Key : j.refs[k] # None => refs[k] = j.refs[k],
               Become(w, [j EXCEPT !.pc = "related", !.subject_key = key, !.related = <<>>,
                                   !.refs = refs])
        PROVE  IngestInv'
    <2> DEFINE r == [j EXCEPT !.pc = "related", !.subject_key = key, !.related = <<>>,
                              !.refs = refs]
    <2> HIDE DEF r
    <2>1. /\ r.pc = "related" /\ r.subject_key = key /\ r.related = <<>> /\ r.refs = refs
          /\ DOMAIN r = DOMAIN IdleJob
          /\ \A f \in DOMAIN IdleJob \ {"pc", "subject_key", "related", "refs"} : r[f] = j[f]
      BY <1>3 DEF r, JobOK, Typed, IdleJob
    <2>2. InHand(r)
      BY <1>4, <2>1, IngestAssumption DEF InHand, AboutOne
    <2>3. /\ r.subject = j.subject /\ r.subject_name = j.subject_name
          /\ r.candidates = j.candidates /\ r.next = j.next /\ r.known = j.known
          /\ r.decision = j.decision /\ r.steps = j.steps /\ r.edges = j.edges
          /\ r.made = j.made /\ r.source = j.source /\ r.touched = j.touched
          /\ r.cleared = j.cleared
      BY <2>1 DEF IdleJob
    <2>4. Typed(r)
      BY <1>3, <1>4, <2>1, <2>3 DEF JobOK, Typed, Stages
    <2>5. r.pc \in Planning
      BY <2>1 DEF Planning
    <2>6. JobOK(r) /\ Owned(r, db)
      BY <1>2, <1>3, <1>4, <2>1, <2>2, <2>4, <2>5, PlanningStepOK
    <2>7. Shelved(r, db)
      BY <1>3, <2>1, <2>3 DEF Shelved
    <2>8. r.pc \notin Committing
      BY <2>1 DEF Committing
    <2>9. QED
      BY <1>1, <1>2, <1>4, <2>7, <2>8, <2>6, QuietPreserves DEF r
  <1>5. ASSUME AboutExplicitSubject(w),
               Become(w, [j EXCEPT !.pc = "related", !.subject_key = KeyOf[j.subject_name],
                                   !.related = <<>>])
        PROVE  IngestInv'
    <2>1. j.subject_name # None /\ j.subject_name \in Name /\ j.refs[KeyOf[j.subject_name]] # None
      BY <1>2, <1>3, <1>5 DEF AboutExplicitSubject, JobOK, Typed, SubjectNamed
    <2>2. KeyOf[j.subject_name] \in Key /\ j.refs \in [Key -> EntityRef \cup {None}]
      BY <1>3, <2>1, IngestAssumption DEF JobOK, Typed
    <2>3. [j EXCEPT !.pc = "related", !.subject_key = KeyOf[j.subject_name], !.related = <<>>]
           = [j EXCEPT !.pc = "related", !.subject_key = KeyOf[j.subject_name], !.related = <<>>,
                       !.refs = j.refs]
      BY <1>3 DEF JobOK, Typed, IdleJob
    <2>4. QED
      BY <1>4, <1>5, <2>1, <2>2, <2>3
  <1>6. ASSUME Current(w).subject # None,
               Become(w, [j EXCEPT !.pc = "related", !.subject_key = KeyOf[Current(w).subject],
                                   !.related = <<>>, !.refs = RefsWith(w, Current(w).subject)])
        PROVE  IngestInv'
    <2>1. Current(w).subject \in Name
      BY <1>3, <1>6 DEF Candidate
    <2> DEFINE refs == RefsWith(w, Current(w).subject)
               key == KeyOf[Current(w).subject]
    <2>2. /\ refs \in [Key -> EntityRef \cup {None}]
          /\ key \in Key
          /\ refs[key] # None
          /\ \A k \in Key : j.refs[k] # None => refs[k] = j.refs[k]
      BY <1>3, <2>1, RefsWithExtends
    <2>3. Become(w, [j EXCEPT !.pc = "related", !.subject_key = key, !.related = <<>>,
                              !.refs = refs])
      BY <1>6
    <2> HIDE DEF refs, key
    <2>4. QED
      BY <1>4, <2>2, <2>3
  <1>7. QED
    BY <1>1, <1>2, <1>5, <1>6, RefusePreserves DEF ResolveCandidateSubject

LEMMA ResolveRelatedEntityPreserves ==
    ASSUME IngestInv, NEW w \in Ingester, ResolveRelatedEntity(w)
    PROVE  IngestInv'
  <1> DEFINE j == job[w]
             names == Current(w).related
             at == Len(j.related) + 1
  <1>1. j.pc = "related" /\ UNCHANGED <<db, tx, edits>>
    BY DEF ResolveRelatedEntity
  <1>2. j.pc \notin Committing /\ j.pc \in Planning /\ j.pc \in AboutOne
    BY <1>1 DEF Committing, Planning, AboutOne
  <1>3. JobOK(j) /\ Shelved(j, db) /\ Owned(j, db) /\ Current(w) \in Candidate
    BY <1>2, QuietFacts, CurrentTyped
  <1>4. ASSUME Become(w, [j EXCEPT !.pc = "resolve"])
        PROVE  IngestInv'
    <2> DEFINE r == [j EXCEPT !.pc = "resolve"]
    <2> HIDE DEF r
    <2>1. /\ r.pc = "resolve" /\ DOMAIN r = DOMAIN IdleJob
          /\ \A f \in DOMAIN IdleJob \ {"pc"} : r[f] = j[f]
      BY <1>3 DEF r, JobOK, Typed, IdleJob
    <2>2. /\ r.subject_key = j.subject_key /\ r.related = j.related /\ r.refs = j.refs
          /\ r.candidates = j.candidates /\ r.known = j.known /\ r.steps = j.steps
      BY <2>1 DEF IdleJob
    <2>3. Typed(r)
      BY <1>3, <2>1 DEF r, JobOK, Typed, Stages
    <2>4. InHand(r)
      BY <1>2, <1>3, <2>1, <2>2 DEF JobOK, InHand, AboutOne
    <2>5. r.pc \in Planning /\ r.pc \notin Committing
      BY <2>1 DEF Planning, Committing
    <2>6. JobOK(r) /\ Owned(r, db)
      BY <1>2, <1>3, <2>1, <2>2, <2>3, <2>4, <2>5, PlanningStepOK
    <2>7. Shelved(r, db)
      BY <1>3, <2>1, <2>2 DEF Shelved
    <2>8. QED
      BY <1>1, <1>2, <1>4, <2>5, <2>6, <2>7, QuietPreserves DEF r
  <1>5. ASSUME at <= Len(names),
               Become(w, [j EXCEPT !.related = Append(@, KeyOf[names[at]]),
                                   !.refs = RefsWith(w, names[at])])
        PROVE  IngestInv'
    <2> DEFINE key == KeyOf[names[at]]
               refs == RefsWith(w, names[at])
               r == [j EXCEPT !.related = Append(@, key), !.refs = refs]
    <2>1. names[at] \in Name /\ j.related \in Seq(Key)
      BY <1>3, <1>5 DEF JobOK, Typed, Candidate
    <2>2. /\ refs \in [Key -> EntityRef \cup {None}]
          /\ key \in Key
          /\ refs[key] # None
          /\ \A k \in Key : j.refs[k] # None => refs[k] = j.refs[k]
      BY <1>3, <2>1, RefsWithExtends
    <2>3. Append(j.related, key) \in Seq(Key)
      BY <2>1, <2>2
    <2> HIDE DEF r, refs, key
    <2>4. /\ r.related = Append(j.related, key) /\ r.refs = refs /\ DOMAIN r = DOMAIN IdleJob
          /\ \A f \in DOMAIN IdleJob \ {"related", "refs"} : r[f] = j[f]
      BY <1>3 DEF r, JobOK, Typed, IdleJob
    <2>5. /\ r.pc = j.pc /\ r.subject_key = j.subject_key
          /\ r.candidates = j.candidates /\ r.known = j.known /\ r.steps = j.steps
      BY <2>4 DEF IdleJob
    <2>6. Typed(r)
      BY <1>3, <2>2, <2>3 DEF r, JobOK, Typed
    <2>7. InHand(r)
      <3>1. r.subject_key \in Key /\ r.subject_key # None /\ r.refs[r.subject_key] # None
        BY <1>2, <1>3, <2>2, <2>4, <2>5 DEF JobOK, Typed, InHand
      <3>2. ASSUME NEW n \in DOMAIN r.related
            PROVE  r.refs[r.related[n]] # None
        <4>1. CASE n \in DOMAIN j.related
          <5>1. r.related[n] = j.related[n] /\ j.related[n] \in Key
            BY <2>1, <2>2, <2>4, <4>1
          <5>2. QED
            BY <1>2, <1>3, <2>2, <2>4, <4>1, <5>1 DEF JobOK, InHand
        <4>2. CASE n \notin DOMAIN j.related
          BY <2>1, <2>2, <2>3, <2>4, <4>2
        <4>3. QED
          BY <4>1, <4>2
      <3>3. QED
        BY <1>1, <2>5, <3>1, <3>2 DEF InHand
    <2>8. JobOK(r) /\ Owned(r, db)
      <3>1. r.pc \in Planning
        BY <1>2, <2>5
      <3>2. \A k \in Key : j.refs[k] # None => r.refs[k] = j.refs[k]
        BY <2>2, <2>4
      <3>3. QED
        BY <1>2, <1>3, <2>4, <2>6, <2>7, <3>1, <3>2, PlanningStepOK
    <2>9. Shelved(r, db)
      BY <1>1, <1>3, <2>5 DEF Shelved
    <2>10. QED
      BY <1>1, <1>2, <1>5, <2>5, <2>8, <2>9, QuietPreserves DEF r, refs, key
  <1>6. QED
    BY <1>4, <1>5 DEF ResolveRelatedEntity

\* What resolution decides is an action and, except for a new memory, one of
\* the memories it was given.
LEMMA DecisionsTyped ==
    ASSUME NEW c, NEW memories \in SUBSET Fact, NEW decision \in MemoryActions(c, memories)
    PROVE  /\ decision \in Decision
           /\ decision.action = "update" => decision.target # None
           /\ decision.target # None => \E f \in memories : f.id = decision.target
  <1>1. CASE decision = [action |-> "create", target |-> None]
    BY <1>1 DEF Decision, Action
  <1>2. ASSUME NEW m \in memories,
               decision = [action |-> SimilarAction(c, m), target |-> m.id]
        PROVE  /\ decision \in Decision
               /\ decision.action = "update" => decision.target # None
               /\ decision.target # None => \E f \in memories : f.id = decision.target
    <2>1. SimilarAction(c, m) \in Action
      BY DEF SimilarAction, Action
    <2>2. m.id \in MemoryID /\ m.id # None
      BY IngestAssumption DEF Fact
    <2>3. QED
      BY <1>2, <2>1, <2>2 DEF Decision
  <1>3. BestMatches(c, memories) \subseteq memories
    BY DEF BestMatches
  <1>4. \/ decision = [action |-> "create", target |-> None]
        \/ \E m \in BestMatches(c, memories) :
              decision = [action |-> SimilarAction(c, m), target |-> m.id]
    BY Zenon DEF MemoryActions
  <1>5. QED
    BY <1>1, <1>2, <1>3, <1>4

\* The memories read are facts about that entity and category.
LEMMA MemoryFactsShelved ==
    ASSUME NEW d \in Database, Good(d), NEW entity, NEW category, NEW t
    PROVE  LET facts == MemoryFacts(d, ActiveMemories(d, entity, category, t)) IN
           /\ facts \in SUBSET Fact
           /\ \A f \in facts : Shelf(d, f.id, entity, category)
  <1>1. ASSUME NEW m \in ActiveMemories(d, entity, category, t)
        PROVE  /\ m \in MemoryID /\ d.memories[m] \in MemoryRow
               /\ Shelf(d, m, entity, category)
    BY DEF ActiveMemories, HasMemory, Database, Good, RowsWereIssued, Shelf
  <1>2. QED
    BY <1>1 DEF MemoryFacts, Fact, MemoryRow

LEMMA ResolveMemoryPreserves ==
    ASSUME IngestInv, NEW w \in Ingester, ResolveMemory(w)
    PROVE  IngestInv'
  <1> DEFINE j == job[w]
             c == Current(w)
             entity == j.refs[j.subject_key].existing
             cached == CachedFor(w, entity, c.category)
             loaded == MemoryFacts(db, ActiveMemories(db, entity, c.category, now))
  <1>1. j.pc = "resolve" /\ UNCHANGED <<db, tx, edits>>
    BY DEF ResolveMemory
  <1>2. j.pc \notin Committing /\ j.pc \in Planning /\ j.pc \in AboutOne
    BY <1>1 DEF Committing, Planning, AboutOne
  <1>3. JobOK(j) /\ Shelved(j, db) /\ Owned(j, db) /\ Current(w) \in Candidate
    BY <1>2, QuietFacts, CurrentTyped
  <1>4. db \in Database /\ Good(db)
    BY DEF IngestInv, Inv, TypeOK
  <1>5. entity \in EntityID \cup {None}
    BY <1>2, <1>3 DEF JobOK, Typed, InHand, EntityRef
  \* Whatever memories the decision was made from, if they are facts about the subject.
  <1>6. ASSUME NEW decision \in Decision, NEW known \in SUBSET KnownList,
               decision.action = "update" => decision.target # None,
               decision.target # None => Shelf(db, decision.target, entity, c.category),
               \A entry \in known : \A f \in entry.memories :
                  Shelf(db, f.id, entry.entity, entry.category),
               Become(w, [j EXCEPT !.pc = "queue", !.decision = decision, !.known = known])
        PROVE  IngestInv'
    <2> DEFINE r == [j EXCEPT !.pc = "queue", !.decision = decision, !.known = known]
    <2> HIDE DEF r
    <2>1. /\ r.pc = "queue" /\ r.decision = decision /\ r.known = known
          /\ DOMAIN r = DOMAIN IdleJob
          /\ \A f \in DOMAIN IdleJob \ {"pc", "decision", "known"} : r[f] = j[f]
      BY <1>3 DEF r, JobOK, Typed, IdleJob
    <2>2. /\ r.subject_key = j.subject_key /\ r.related = j.related /\ r.refs = j.refs
          /\ r.candidates = j.candidates /\ r.next = j.next /\ r.steps = j.steps
      BY <2>1 DEF IdleJob
    <2>3. Typed(r)
      BY <1>3, <1>6 DEF r, JobOK, Typed, Stages
    <2>4. InHand(r)
      BY <1>2, <1>3, <1>6, <2>1, <2>2 DEF JobOK, InHand, AboutOne
    <2>5. r.pc \in Planning /\ r.pc \notin Committing
      BY <2>1 DEF Planning, Committing
    <2>6. JobOK(r) /\ Owned(r, db)
      BY <1>2, <1>3, <2>1, <2>2, <2>3, <2>4, <2>5, PlanningStepOK
    <2>7. Shelved(r, db)
      BY <1>3, <1>6, <2>1, <2>2 DEF Shelved, Current
    <2>8. QED
      BY <1>1, <1>2, <1>6, <2>5, <2>6, <2>7, QuietPreserves DEF r
  <1>7. j.known \in SUBSET KnownList /\ \A entry \in j.known : \A f \in entry.memories :
                  Shelf(db, f.id, entry.entity, entry.category)
    BY <1>3 DEF JobOK, Typed, Shelved
  <1>8. ASSUME NEW memories \in SUBSET Fact, NEW known \in SUBSET KnownList,
               \A f \in memories : Shelf(db, f.id, entity, c.category),
               \A entry \in known : \A f \in entry.memories :
                  Shelf(db, f.id, entry.entity, entry.category),
               Resolve(w, memories, known)
        PROVE  IngestInv'
    <2>1. PICK decision \in MemoryActions(c, memories) :
             Become(w, [j EXCEPT !.pc = "queue", !.decision = decision, !.known = known])
      BY <1>8 DEF Resolve
    <2>2. decision \in Decision /\ (decision.action = "update" => decision.target # None)
      BY <2>1, DecisionsTyped
    <2>3. decision.target # None => Shelf(db, decision.target, entity, c.category)
      BY <1>8, <2>1, DecisionsTyped
    <2>4. QED
      BY <1>6, <1>8, <2>1, <2>2, <2>3
  <1>9. CASE Become(w, [j EXCEPT !.pc = "queue",
                                 !.decision = [action |-> "merge", target |-> None]])
    <2> DEFINE decision == [action |-> "merge", target |-> None]
    <2>1. [j EXCEPT !.pc = "queue", !.decision = decision]
            = [j EXCEPT !.pc = "queue", !.decision = decision, !.known = j.known]
      BY <1>3 DEF JobOK, Typed, IdleJob
    <2>2. decision \in Decision /\ decision.action # "update" /\ decision.target = None
      BY DEF Decision, Action
    <2>3. QED
      BY <1>6, <1>7, <1>9, <2>1, <2>2
  <1>10. CASE Resolve(w, {}, j.known)
    BY <1>7, <1>8, <1>10
  <1>11. ASSUME NEW entry \in cached, Resolve(w, entry.memories, j.known)
         PROVE  IngestInv'
    <2>1. entry \in j.known /\ entry.entity = entity /\ entry.category = c.category
      BY <1>11 DEF CachedFor
    <2>2. entry.memories \in SUBSET Fact
      BY <1>7, <2>1 DEF KnownList
    <2>3. \A f \in entry.memories : Shelf(db, f.id, entity, c.category)
      BY <1>7, <2>1
    <2>4. QED
      BY <1>7, <1>8, <1>11, <2>2, <2>3
  <1>12. ASSUME entity # None,
                Resolve(w, loaded, j.known \cup {[entity |-> entity, category |-> c.category,
                                                  memories |-> loaded]})
         PROVE  IngestInv'
    <2> DEFINE entry == [entity |-> entity, category |-> c.category, memories |-> loaded]
               known == j.known \cup {entry}
    <2>1. loaded \in SUBSET Fact /\ \A f \in loaded : Shelf(db, f.id, entity, c.category)
      BY <1>4, MemoryFactsShelved
    <2>2. entry \in KnownList
      BY <1>3, <1>5, <1>12, <2>1 DEF KnownList, Candidate
    <2>3. known \in SUBSET KnownList
      BY <1>7, <2>2
    <2>4. \A e \in known : \A f \in e.memories : Shelf(db, f.id, e.entity, e.category)
      BY <1>7, <2>1
    <2>5. QED
      BY <1>8, <1>12, <2>1, <2>3, <2>4
  <1>13. QED
    BY <1>9, <1>10, <1>11, <1>12 DEF ResolveMemory

LEMMA PlanningFailsPreserves ==
    ASSUME IngestInv, NEW w \in Ingester, PlanningFails(w)
    PROVE  IngestInv'
  BY RefusePreserves DEF PlanningFails, Committing

\* The edges a candidate adds leave its subject for entities it names.
LEMMA NewEdgesTyped ==
    ASSUME NEW w \in Ingester, JobOK(job[w]), job[w].pc = "queue", NEW failing
    PROVE  \A edge \in NewEdges(w, failing) :
              /\ edge \in Edge
              /\ edge.from = job[w].subject_key
              /\ \E n \in DOMAIN job[w].related : job[w].related[n] = edge.to
  <1> DEFINE j == job[w]
             type == RelationshipType(Current(w))
  <1>1. Current(w) \in Candidate
    BY CurrentTyped DEF Planning
  <1>2. type # None => type \in RelType
    BY <1>1, IngestAssumption DEF RelationshipType, Candidate
  <1>3. j.subject_key \in Key /\ \A n \in DOMAIN j.related : j.related[n] \in Key
    BY DEF JobOK, Typed, InHand, AboutOne
  <1>4. ASSUME NEW edge \in NewEdges(w, failing)
        PROVE  /\ edge \in Edge
               /\ edge.from = j.subject_key
               /\ \E n \in DOMAIN j.related : j.related[n] = edge.to
    <2>1. type # None
      BY <1>4 DEF NewEdges
    <2>2. PICK n \in DOMAIN j.related :
             edge = [from |-> j.subject_key, to |-> j.related[n], type |-> type]
      BY <1>4, <2>1 DEF NewEdges, RelatedKeys
    <2>3. QED
      BY <1>2, <1>3, <2>1, <2>2 DEF Edge
  <1>5. QED
    BY <1>4

LEMMA QueueRelationshipsPreserves ==
    ASSUME IngestInv, NEW w \in Ingester, QueueRelationships(w)
    PROVE  IngestInv'
  <1> DEFINE j == job[w]
             c == Current(w)
             step == [subject |-> j.subject_key, existing |-> j.refs[j.subject_key].existing,
                      related |-> j.related, action |-> j.decision.action,
                      target |-> j.decision.target, memory |-> None]
             last == j.next = Len(j.candidates)
             place == Len(j.steps) + 1
  <1>1. j.pc = "queue" /\ UNCHANGED <<db, tx, edits>>
    BY DEF QueueRelationships
  <1>2. j.pc \notin Committing /\ j.pc \in Planning /\ j.pc \in AboutOne
    BY <1>1 DEF Committing, Planning, AboutOne
  <1>3. JobOK(j) /\ Shelved(j, db) /\ Owned(j, db)
    BY <1>2, QuietFacts
  <1> DEFINE hidden == {to \in RelatedKeys(w) :
                          AlreadyStored(w, to, RelationshipType(Current(w)))}
             planned(edges, failing) ==
                 [j EXCEPT !.steps = Append(@, step),
                     !.edges = edges,
                     !.reply = IF last THEN Counted(w, edges) ELSE @,
                     !.blind = @ \/ failing \cap hidden # {},
                     !.decision = None,
                     !.next = IF last THEN 1 ELSE @ + 1,
                     !.pc = IF ~last THEN "candidate"
                            ELSE IF j.dry_run THEN "done" ELSE "planned"]
  <1>4. PICK failing \in SUBSET RelatedKeys(w) :
           Become(w, planned(j.edges \cup NewEdges(w, failing), failing))
    BY DEF QueueRelationships
  <1> DEFINE r == planned(j.edges \cup NewEdges(w, failing), failing)
  <1> HIDE DEF r
  <1>5. /\ r.steps = Append(j.steps, step)
        /\ r.edges = j.edges \cup NewEdges(w, failing)
        /\ r.decision = None
        /\ r.next = IF last THEN 1 ELSE j.next + 1
        /\ r.pc = IF ~last THEN "candidate" ELSE IF j.dry_run THEN "done" ELSE "planned"
        /\ DOMAIN r = DOMAIN IdleJob
        /\ r.subject = j.subject /\ r.subject_name = j.subject_name
        /\ r.candidates = j.candidates /\ r.subject_key = j.subject_key
        /\ r.related = j.related /\ r.refs = j.refs /\ r.known = j.known
        /\ r.made = j.made /\ r.source = j.source /\ r.touched = j.touched
        /\ r.cleared = j.cleared
    BY <1>3 DEF r, JobOK, Typed, IdleJob
  <1>6. step \in PlannedStep /\ step.memory = None
    BY <1>1, <1>2, <1>3 DEF JobOK, Typed, InHand, EntityRef, Decision, PlannedStep
  <1>7. /\ j.steps \in Seq(PlannedStep) /\ r.steps \in Seq(PlannedStep)
        /\ place \in Nat /\ place = j.next
        /\ Len(r.steps) = place
        /\ DOMAIN r.steps = DOMAIN j.steps \cup {place}
        /\ r.steps[place] = step
        /\ \A n \in DOMAIN j.steps : n # place /\ r.steps[n] = j.steps[n]
    <2>1. j.steps \in Seq(PlannedStep) /\ j.next \in Nat \ {0} /\ Len(j.steps) = j.next - 1
      BY <1>2, <1>3 DEF JobOK, Typed, InStep
    <2>2. r.steps = Append(j.steps, step) /\ step \in PlannedStep
      BY <1>5, <1>6
    <2> DEFINE before == j.steps
               after == r.steps
    <2>3. before \in Seq(PlannedStep) /\ after = Append(before, step)
      BY <2>1, <2>2
    <2> HIDE DEF step, before, after
    <2>4. /\ after \in Seq(PlannedStep) /\ Len(after) = Len(before) + 1
          /\ DOMAIN after = DOMAIN before \cup {Len(before) + 1}
          /\ after[Len(before) + 1] = step
          /\ \A n \in DOMAIN before : n # Len(before) + 1 /\ after[n] = before[n]
      BY <2>2, <2>3, AppendToSeq
    <2>5. place = Len(before) + 1 /\ place = j.next /\ place \in Nat
      BY <2>1 DEF before
    <2>6. QED
      BY <2>1, <2>3, <2>4, <2>5 DEF before, after
  <1>8. Typed(r)
    <2>1. r.pc \in Stages /\ r.next \in Nat \ {0}
      BY <1>3, <1>5 DEF Stages, JobOK, Typed
    <2>2. r.edges \subseteq Edge
      BY <1>1, <1>3, <1>5, NewEdgesTyped DEF JobOK, Typed
    <2>3. QED
      BY <1>3, <1>5, <1>7, <2>1, <2>2 DEF JobOK, Typed
  <1>9. InStep(r)
    BY <1>2, <1>3, <1>5, <1>7 DEF JobOK, Typed, InStep, Planning
  <1>10. SubjectNamed(r) /\ InHand(r) /\ TouchedOK(r)
    BY <1>1, <1>2, <1>3, <1>5
       DEF JobOK, SubjectNamed, InHand, TouchedOK, Planning, AboutOne, Committed
  <1>11. PlanOK(r)
    <2>1. ASSUME NEW n \in DOMAIN r.steps
          PROVE  StepOK(r, r.steps[n])
      <3>1. CASE n \in DOMAIN j.steps
        <4>1. StepOK(j, j.steps[n]) /\ r.steps[n] = j.steps[n]
          BY <1>3, <1>7, <3>1 DEF JobOK, PlanOK
        <4>2. QED
          BY <1>5, <4>1 DEF StepOK
      <3>2. CASE n = place
        <4>1. InHand(j) /\ r.steps[n] = step
          BY <1>3, <1>7, <3>2 DEF JobOK
        <4>2. StepOK(r, step)
          BY <1>1, <1>2, <1>5, <4>1 DEF InHand, StepOK
        <4>3. QED
          BY <4>1, <4>2
      <3>3. QED
        BY <1>7, <3>1, <3>2
    <2>2. ASSUME NEW edge \in r.edges \cup r.made
          PROVE  EdgeOK(r, edge)
      <3>1. CASE edge \in j.edges \cup j.made
        <4>1. EdgeOK(j, edge)
          BY <1>3, <3>1 DEF JobOK, PlanOK
        <4>2. \A n \in DOMAIN j.steps : n \in DOMAIN r.steps /\ r.steps[n] = j.steps[n]
          BY <1>7
        <4>3. QED
          BY <4>1, <4>2 DEF EdgeOK
      <3>2. CASE edge \in NewEdges(w, failing)
        <4>1. r.steps[place].subject = edge.from
          BY <1>1, <1>3, <1>7, <3>2, NewEdgesTyped
        <4>2. \E i \in DOMAIN r.steps[place].related : r.steps[place].related[i] = edge.to
          BY <1>1, <1>3, <1>7, <3>2, NewEdgesTyped
        <4>3. QED
          BY <1>7, <4>1, <4>2 DEF EdgeOK
      <3>3. QED
        BY <1>5, <3>1, <3>2
    <2>3. r.pc \notin Linked
      BY <1>5 DEF Linked, Committed
    <2>4. QED
      BY <2>1, <2>2, <2>3 DEF PlanOK
  <1>12. Shelved(r, db)
    <2>1. ASSUME NEW n \in DOMAIN r.steps, r.steps[n].target # None
          PROVE  Shelf(db, r.steps[n].target, r.steps[n].existing, r.candidates[n].category)
      <3>1. CASE n \in DOMAIN j.steps
        BY <1>3, <1>5, <1>7, <2>1, <3>1 DEF Shelved
      <3>2. CASE n = place
        <4>1. r.steps[n] = step /\ r.candidates[n] = j.candidates[j.next]
          BY <1>5, <1>7, <3>2
        <4>2. j.decision.target # None
          BY <2>1, <4>1
        <4>3. Shelf(db, j.decision.target, j.refs[j.subject_key].existing,
                    j.candidates[j.next].category)
          BY <1>1, <1>3, <4>2 DEF Shelved
        <4>4. QED
          BY <4>1, <4>3
      <3>3. QED
        BY <1>7, <3>1, <3>2
    <2>2. QED
      BY <1>3, <1>5, <2>1 DEF Shelved
  <1>13. Owned(r, db)
    <2>1. ASSUME NEW n \in DOMAIN r.steps, r.steps[n].memory # None
          PROVE  n \in DOMAIN j.steps /\ r.steps[n] = j.steps[n] /\ r.refs = j.refs
      BY <1>5, <1>6, <1>7, <2>1
    <2>2. QED
      BY <1>3, <2>1 DEF Owned
  <1>14. r.pc \notin Committing
    BY <1>5 DEF Committing
  <1>15. JobOK(r)
    BY <1>8, <1>9, <1>10, <1>11 DEF JobOK
  <1>16. QED
    <2>1. Become(w, r)
      BY <1>4 DEF r
    <2>2. UNCHANGED <<db, tx, edits>> /\ j.pc \notin Committing
      BY <1>1, <1>2
    <2>3. QED
      BY <1>12, <1>13, <1>14, <1>15, <2>1, <2>2, QuietPreserves

-----------------------------------------------------------------------------
(* Phase 3: the transaction *)

\* The facts every step of the commit phase starts from.
LEMMA CommitFacts ==
    ASSUME IngestInv, NEW w \in Ingester, job[w].pc \in Committing
    PROVE  /\ JobOK(job[w]) /\ Shelved(job[w], db) /\ Owned(job[w], tx.work)
           /\ Covered(job[w], tx)
           /\ w \in Request /\ Owns(w) /\ tx \in Transaction /\ tx # None
           /\ View(w) = tx.work
           /\ db \in Database /\ Good(db)
           /\ tx.work \in Database /\ Good(tx.work)
           /\ tx.base = db
           /\ Evolves(db, tx.work)
  <1>1. Owns(w) /\ tx # None
    BY DEF IngestInv, TxBelongsToCommit, Committing, Owns
  <1>2. tx \in Transaction /\ tx.work \in Database /\ w \in Request
    BY <1>1, IngestAssumption DEF IngestInv, Inv, TypeOK, Transaction
  <1>3. QED
    BY <1>1, <1>2 DEF IngestInv, Inv, TypeOK, View

\* A write of the commit phase lands in the open transaction.
LEMMA CommitPhaseWrite ==
    ASSUME IngestInv, NEW w \in Ingester, job[w].pc \in Committing, NEW d \in Database, Write(w, d)
    PROVE  /\ tx' = [tx EXCEPT !.work = d]
           /\ db' = db
           /\ Owns(w)' /\ TxMoves(w)
           /\ View(w)' = d
           /\ tx'.work = d /\ tx'.base = tx.base
  <1>1. Owns(w) /\ tx \in Transaction /\ tx # None
    BY CommitFacts
  <1>2. tx' = [tx EXCEPT !.work = d] /\ db' = db
    BY <1>1 DEF Write
  <1>3. tx'.work = d /\ tx'.base = tx.base /\ tx'.owner = tx.owner
    BY <1>1, <1>2 DEF Transaction
  <1>4. tx' # None
    BY <1>1, <1>2, TransactionAssumption DEF Transaction
  <1>5. QED
    BY <1>1, <1>2, <1>3, <1>4 DEF Owns, TxMoves, View

LEMMA AbandonPreserves ==
    ASSUME IngestInv, NEW w \in Ingester, job[w].pc \in Committing,
           NEW code, Abandon(w, code), edits' = edits
    PROVE  IngestInv'
  <1> DEFINE r == [IdleJob EXCEPT !.pc = "failed", !.error = code]
  <1>1. /\ DOMAIN r = DOMAIN IdleJob /\ r.pc = "failed" /\ r.subject = None
        /\ \A f \in DOMAIN IdleJob \ {"pc", "error"} : r[f] = IdleJob[f]
    BY DEF IdleJob
  <1>2. JobOK(r) /\ Shelved(r, db) /\ Owned(r, View(w)')
    BY <1>1, BlankJobOK DEF BlankStages
  <1>3. ~Owns(w)' /\ TxMoves(w)
    BY DEF Abandon, Owns, TxMoves
  <1>4. Keeps(w, r)
    BY <1>1, <1>2, <1>3 DEF Abandon, Refuse, Keeps, Committing
  <1>5. Next
    BY IngestAssumption DEF Abandon, Rollback, Next
  <1>6. QED
    BY <1>3, <1>4, <1>5, StepPreserves

LEMMA CommitFailsPreserves ==
    ASSUME IngestInv, NEW w \in Ingester, CommitFails(w)
    PROVE  IngestInv'
  BY AbandonPreserves DEF CommitFails, Committing

\* A step that only moves a planned ingest on to a part of the commit phase.
LEMMA StageOK ==
    ASSUME NEW j, JobOK(j), j.pc \in {"planned", "entities", "relationships"},
           NEW d, NEW d2, Shelved(j, d), Owned(j, d2),
           NEW stage \in Committing,
           stage # "entities" => \A k \in Key : j.refs[k] # None => j.refs[k].existing # None,
           NEW r, r = [j EXCEPT !.pc = stage]
    PROVE  /\ JobOK(r) /\ Shelved(r, d) /\ Owned(r, d2)
           /\ r.pc = stage
           /\ Invalidated(r) = Invalidated(j)
  <1>1. /\ r.pc = stage /\ DOMAIN r = DOMAIN IdleJob
        /\ \A f \in DOMAIN IdleJob \ {"pc"} : r[f] = j[f]
    BY DEF JobOK, Typed, IdleJob
  <1>2. /\ r.subject = j.subject /\ r.subject_name = j.subject_name
        /\ r.candidates = j.candidates /\ r.next = j.next /\ r.refs = j.refs
        /\ r.known = j.known /\ r.steps = j.steps /\ r.edges = j.edges /\ r.made = j.made
        /\ r.touched = j.touched
    BY <1>1 DEF IdleJob
  <1>3. Typed(r)
    BY DEF JobOK, Typed, Stages, Committing
  <1>4. InStep(r) /\ SubjectNamed(r) /\ InHand(r) /\ TouchedOK(r)
    BY <1>1, <1>2 DEF JobOK, InStep, SubjectNamed, InHand, TouchedOK, Planning, AboutOne,
                      Committing, Committed
  <1>5. PlanOK(r)
    <2>1. \A n \in DOMAIN r.steps : StepOK(r, r.steps[n])
      BY <1>2 DEF JobOK, PlanOK, StepOK
    <2>2. \A edge \in r.edges \cup r.made : EdgeOK(r, edge)
      BY <1>2 DEF JobOK, PlanOK, EdgeOK
    <2>3. r.pc \in Linked => \A k \in Key : r.refs[k] # None => r.refs[k].existing # None
      BY <1>1, <1>2 DEF Linked, Committed
    <2>4. QED
      BY <2>1, <2>2, <2>3 DEF PlanOK
  <1>6. Shelved(r, d) /\ Owned(r, d2)
    <2>1. r.pc # "queue"
      BY <1>1 DEF Committing
    <2>2. Shelved(r, d)
      BY <1>2, <2>1 DEF Shelved
    <2>3. Owned(r, d2)
      BY <1>2 DEF Owned
    <2>4. QED
      BY <2>2, <2>3
  <1>7. Invalidated(r) = Invalidated(j)
    BY <1>2 DEF Invalidated, StepInvalidates, CreatedFor
  <1>8. QED
    BY <1>1, <1>3, <1>4, <1>5, <1>6, <1>7 DEF JobOK

LEMMA BeginIngestTxPreserves ==
    ASSUME IngestInv, NEW w \in Ingester, BeginIngestTx(w)
    PROVE  IngestInv'
  <1> DEFINE j == job[w]
             r == [j EXCEPT !.pc = "entities"]
  <1>1. /\ j.pc = "planned" /\ tx = None /\ edits' = edits
        /\ db' = db /\ tx' = [owner |-> w, work |-> db, base |-> db]
        /\ Become(w, r)
    BY DEF BeginIngestTx, BeginTx
  <1>2. JobOK(j) /\ Shelved(j, db) /\ Owned(j, db)
    BY <1>1, QuietFacts DEF Committing
  <1>3. JobOK(r) /\ Shelved(r, db) /\ Owned(r, db) /\ r.pc = "entities"
    BY <1>1, <1>2, StageOK DEF Committing
  <1>4. tx'.owner = w /\ tx'.work = db /\ tx'.base = db /\ tx' # None
    BY <1>1, TransactionAssumption, IngestAssumption DEF IngestInv, Inv, TypeOK, Transaction
  <1>5. Owns(w)' /\ TxMoves(w) /\ View(w)' = db
    BY <1>1, <1>4 DEF Owns, TxMoves, View
  <1>6. Covered(r, tx')
    BY <1>3, <1>4 DEF Covered, Touched
  <1>7. Keeps(w, r)
    BY <1>1, <1>3, <1>5, <1>6 DEF Keeps, Committing
  <1>8. Next
    BY IngestAssumption DEF BeginIngestTx, Next
  <1>9. QED
    BY <1>1, <1>5, <1>7, <1>8, StepPreserves

\* A step of the commit phase that writes nothing.
LEMMA CommitQuietPreserves ==
    ASSUME IngestInv, NEW w \in Ingester, job[w].pc \in Committing, UNCHANGED <<db, tx, edits>>,
           NEW r, Become(w, r), r.pc \in Committing,
           JobOK(r), Shelved(r, db), Owned(r, tx.work), Covered(r, tx)
    PROVE  IngestInv'
  <1>1. Owns(w) /\ Owns(w)' /\ View(w)' = tx.work /\ TxMoves(w)
    BY CommitFacts DEF Owns, View, TxMoves
  <1>2. Keeps(w, r)
    BY <1>1 DEF Keeps, Covered
  <1>3. QED
    BY <1>1, <1>2, StepPreserves DEF vars

\* A step of the commit phase that executes one statement.
LEMMA CommitWritePreserves ==
    ASSUME IngestInv, NEW w \in Ingester, job[w].pc \in Committing, edits' = edits,
           Statement(w), NEW d \in Database, Evolves(tx.work, d), Write(w, d),
           NEW r, Become(w, r), r.pc \in Committing,
           JobOK(r), Shelved(r, db), Owned(r, d),
           Touched(db, d) \subseteq IF r.pc = "entities" THEN {} ELSE Invalidated(r)
    PROVE  IngestInv'
  <1>1. /\ Owns(w)' /\ TxMoves(w) /\ View(w)' = d
        /\ tx'.work = d /\ tx'.base = db
    BY CommitFacts, CommitPhaseWrite
  <1>2. Keeps(w, r)
    BY <1>1 DEF Keeps, Covered
  <1>3. Next
    BY CommitFacts DEF Next
  <1>4. QED
    BY <1>1, <1>2, <1>3, StepPreserves

\* Rows change only under the entities in T: those are all a step touches.
LEMMA TouchedGrows ==
    ASSUME NEW d1, NEW d2, NEW d3, NEW T,
           \A e \in EntityID \ T : HasEntity(d1, e) => ContextRows(d3, e) = ContextRows(d2, e)
    PROVE  Touched(d1, d3) \subseteq Touched(d1, d2) \cup T
  BY DEF Touched

\* A new entity changes the rows of no stored one.
LEMMA InsertEntityContext ==
    ASSUME NEW d \in Database, NEW row, NEW e \in EntityID, e # NextEntity(d)
    PROVE  ContextRows(InsertEntity(d, row), e) = ContextRows(d, e)
  <1> DEFINE d2 == InsertEntity(d, row)
  <1> HIDE DEF d2
  <1>1. /\ d2.entities = [d.entities EXCEPT ![NextEntity(d)] = row]
        /\ d2.memories = d.memories
        /\ d2.relationships = d.relationships
    BY DEF d2, InsertEntity, Database
  <1>2. d2.entities[e] = d.entities[e]
    BY <1>1 DEF Database
  <1>3. ContextRows(d2, e) = ContextRows(d, e)
    BY <1>1, <1>2 DEF ContextRows, HasMemory, HasRelationship
  <1>4. QED
    BY <1>3 DEF d2

\* A new memory changes the rows of its entity only.
LEMMA InsertMemoryContext ==
    ASSUME NEW d \in Database, Good(d), NextMemory(d) \in MemoryID, NEW row \in MemoryRow,
           NEW e \in EntityID, e # row.entity_id
    PROVE  ContextRows(InsertMemory(d, row), e) = ContextRows(d, e)
  <1> DEFINE d2 == InsertMemory(d, row)
             n == NextMemory(d)
             mine(x) == {m \in MemoryID : HasMemory(x, m) /\ x.memories[m].entity_id = e}
  <1> HIDE DEF d2
  <1>1. /\ d2.entities = d.entities
        /\ d2.memories = [d.memories EXCEPT ![n] = row]
        /\ d2.relationships = d.relationships
    BY DEF d2, InsertMemory, Database
  <1>2. ~HasMemory(d, n)
    BY IDAssumption DEF Good, RowsWereIssued, NextMemory, Database, Issued
  <1>3. \A m \in MemoryID : m # n => d2.memories[m] = d.memories[m]
    BY <1>1 DEF Database
  <1>4. d2.memories[n] = row
    BY <1>1 DEF Database
  <1>5. mine(d2) = mine(d) /\ n \notin mine(d)
    BY <1>2, <1>3, <1>4 DEF HasMemory
  <1>6. {<<m, d2.memories[m]>> : m \in mine(d2)} = {<<m, d.memories[m]>> : m \in mine(d)}
    BY <1>3, <1>5
  <1>7. ContextRows(d2, e) = ContextRows(d, e)
    BY <1>1, <1>6 DEF ContextRows, HasRelationship
  <1>8. QED
    BY <1>7 DEF d2

\* An updated memory changes the rows of its entity only.
LEMMA UpdateMemoryContext ==
    ASSUME NEW d \in Database, NEW m \in MemoryID, HasMemory(d, m),
           NEW content, NEW confidence, NEW source, NEW expires,
           NEW e \in EntityID, e # d.memories[m].entity_id
    PROVE  ContextRows(UpdateMemoryRow(d, m, content, confidence, source, expires), e)
             = ContextRows(d, e)
  <1> DEFINE d2 == UpdateMemoryRow(d, m, content, confidence, source, expires)
             mine(x) == {n \in MemoryID : HasMemory(x, n) /\ x.memories[n].entity_id = e}
  <1> HIDE DEF d2
  <1>1. /\ d2.entities = d.entities
        /\ d2.memories = [d.memories EXCEPT ![m] = [@ EXCEPT !.content = content,
                                                    !.confidence = confidence,
                                                    !.source_id = source,
                                                    !.expires_at = expires]]
        /\ d2.relationships = d.relationships
    BY DEF d2, UpdateMemoryRow, Database
  <1>2. \A n \in MemoryID : n # m => d2.memories[n] = d.memories[n]
    BY <1>1 DEF Database
  <1>3. d2.memories[m].entity_id = d.memories[m].entity_id
    BY <1>1 DEF Database, HasMemory, MemoryRow
  <1>4. mine(d2) = mine(d) /\ m \notin mine(d)
    BY <1>2, <1>3 DEF HasMemory
  <1>5. {<<n, d2.memories[n]>> : n \in mine(d2)} = {<<n, d.memories[n]>> : n \in mine(d)}
    BY <1>2, <1>4
  <1>6. ContextRows(d2, e) = ContextRows(d, e)
    BY <1>1, <1>5 DEF ContextRows, HasRelationship
  <1>7. QED
    BY <1>6 DEF d2

\* A new edge changes the rows of its two ends only.
LEMMA InsertRelationshipContext ==
    ASSUME NEW d \in Database, Good(d), NextRelationship(d) \in RelationshipID,
           NEW row \in RelationshipRow, NEW e \in EntityID, e \notin {row.from, row.to}
    PROVE  ContextRows(InsertRelationship(d, row), e) = ContextRows(d, e)
  <1> DEFINE d2 == InsertRelationship(d, row)
             n == NextRelationship(d)
             mine(x) == {r \in RelationshipID :
                HasRelationship(x, r) /\ e \in {x.relationships[r].from, x.relationships[r].to}}
  <1> HIDE DEF d2
  <1>1. /\ d2.entities = d.entities
        /\ d2.memories = d.memories
        /\ d2.relationships = [d.relationships EXCEPT ![n] = row]
    BY DEF d2, InsertRelationship, Database
  <1>2. ~HasRelationship(d, n)
    BY IDAssumption DEF Good, RowsWereIssued, NextRelationship, Database, Issued
  <1>3. \A r \in RelationshipID : r # n => d2.relationships[r] = d.relationships[r]
    BY <1>1 DEF Database
  <1>4. d2.relationships[n] = row
    BY <1>1 DEF Database
  <1>5. mine(d2) = mine(d) /\ n \notin mine(d)
    BY <1>2, <1>3, <1>4 DEF HasRelationship
  <1>6. {<<r, d2.relationships[r]>> : r \in mine(d2)} = {<<r, d.relationships[r]>> : r \in mine(d)}
    BY <1>3, <1>5
  <1>7. ContextRows(d2, e) = ContextRows(d, e)
    BY <1>1, <1>6 DEF ContextRows, HasMemory
  <1>8. QED
    BY <1>7 DEF d2

\* Every entity the transaction creates is new to the reader that has the
\* committed database.
LEMMA CreatePlannedEntityPreserves ==
    ASSUME IngestInv, NEW w \in Ingester, CreatePlannedEntity(w)
    PROVE  IngestInv'
  <1> DEFINE j == job[w]
             work == tx.work
  <1>1. j.pc = "entities" /\ j.pc \in Committing /\ edits' = edits
    <2>1. j.pc = "entities" /\ edits' = edits
      BY DEF CreatePlannedEntity
    <2>2. QED
      BY <2>1 DEF Committing
  <1>2. /\ JobOK(j) /\ Shelved(j, db) /\ Owned(j, work) /\ Covered(j, tx)
        /\ View(w) = work /\ w \in Request
        /\ db \in Database /\ Good(db) /\ work \in Database /\ Good(work)
        /\ tx.base = db /\ Evolves(db, work)
    BY <1>1, CommitFacts
  <1>3. Touched(db, work) \subseteq {}
    BY <1>1, <1>2 DEF Covered
  <1>4. ASSUME PendingKeys(w) = {}, Become(w, [j EXCEPT !.pc = "relationships"]),
               UNCHANGED <<db, tx>>
        PROVE  IngestInv'
    <2> DEFINE r == [j EXCEPT !.pc = "relationships"]
    <2> HIDE DEF r
    <2>1. \A k \in Key : j.refs[k] # None => j.refs[k].existing # None
      BY <1>4 DEF PendingKeys
    <2>2. "relationships" \in Committing
      BY DEF Committing
    <2>3. JobOK(r) /\ Shelved(r, db) /\ Owned(r, work) /\ r.pc = "relationships"
      BY <1>1, <1>2, <2>1, <2>2, StageOK DEF r
    <2>4. Covered(r, tx)
      BY <1>2, <1>3, <2>3 DEF Covered
    <2>5. QED
      BY <1>1, <1>4, <2>2, <2>3, <2>4, CommitQuietPreserves DEF r
  <1>5. ASSUME NEW k \in PendingKeys(w),
               CreateEntity(w, [name |-> j.refs[k].name, external_id |-> None]),
               Become(w, [j EXCEPT !.refs[k] = [existing |-> NextEntity(View(w)),
                                               name |-> @.name, created |-> TRUE]])
        PROVE  IngestInv'
    <2> DEFINE row == [name |-> j.refs[k].name, external_id |-> None]
               n == NextEntity(work)
               d == InsertEntity(work, row)
               ref == [existing |-> n, name |-> j.refs[k].name, created |-> TRUE]
               r == [j EXCEPT !.refs[k] = [existing |-> NextEntity(View(w)),
                                           name |-> @.name, created |-> TRUE]]
    <2>1. k \in Key /\ j.refs[k] \in EntityRef /\ j.refs[k].existing = None
      BY <1>2, <1>5 DEF PendingKeys, JobOK, Typed
    <2>2. row \in EntityRow /\ n \in EntityID /\ n # None /\ ref \in EntityRef /\ ref # None
      <3>1. row \in EntityRow
        BY <2>1 DEF EntityRef, EntityRow
      <3>2. n \in EntityID /\ n # None
        BY <1>2, <1>5, NoneAssumption DEF CreateEntity
      <3>3. ref \in EntityRef
        BY <2>1, <3>2 DEF EntityRef
      <3>4. QED
        BY <3>1, <3>2, <3>3, IngestAssumption
    <2>3. Sound(work, d) /\ Write(w, d)
      BY <1>2, <1>5, <2>2, InsertEntitySound DEF CreateEntity
    <2>4. Statement(w)
      BY <1>5, <2>2 DEF Statement
    <2> HIDE DEF r
    <2>5. /\ r.refs = [j.refs EXCEPT ![k] = ref] /\ DOMAIN r = DOMAIN IdleJob
          /\ \A f \in DOMAIN IdleJob \ {"refs"} : r[f] = j[f]
      <3>1. DOMAIN j = DOMAIN IdleJob
        BY <1>2 DEF JobOK, Typed
      <3>2. QED
        BY <1>2, <3>1 DEF r, IdleJob
    <2> HIDE DEF ref, row, d
    <2>6. /\ r.pc = j.pc /\ r.subject = j.subject /\ r.subject_name = j.subject_name
          /\ r.candidates = j.candidates /\ r.next = j.next
          /\ r.known = j.known /\ r.steps = j.steps /\ r.edges = j.edges /\ r.made = j.made
          /\ r.touched = j.touched
          /\ r.subject_key = j.subject_key /\ r.related = j.related /\ r.decision = j.decision
          /\ r.source = j.source /\ r.cleared = j.cleared
      BY <2>5 DEF IdleJob
    <2>7. /\ r.refs \in [Key -> EntityRef \cup {None}]
          /\ r.refs[k] = ref
          /\ \A x \in Key : x # k => r.refs[x] = j.refs[x]
      BY <1>2, <2>1, <2>2, <2>5 DEF JobOK, Typed
    <2>8. Typed(r)
      BY <1>2, <2>5, <2>6, <2>7 DEF JobOK, Typed
    <2>9. \A x \in Key : j.refs[x] # None => r.refs[x] # None
      BY <2>2, <2>7
    <2>10. SubjectNamed(r)
      BY <1>2, <2>6, <2>9, IngestAssumption DEF JobOK, Typed, SubjectNamed
    <2>11. InStep(r) /\ InHand(r) /\ TouchedOK(r)
      BY <1>1, <1>2, <2>6 DEF JobOK, InStep, InHand, TouchedOK, AboutOne, Committed
    <2>12. PlanOK(r)
      <3>1. ASSUME NEW i \in DOMAIN j.steps
            PROVE  StepOK(r, j.steps[i])
        <4> DEFINE step == j.steps[i]
        <4>1. StepOK(j, step) /\ step \in PlannedStep
          BY <1>2 DEF JobOK, Typed, PlanOK
        <4>2. step.subject \in Key /\ step.related \in Seq(Key)
          BY <4>1 DEF PlannedStep
        <4> HIDE DEF step
        <4>3. r.refs[k].created
          BY <2>7 DEF ref
        <4>4. \/ step.existing = r.refs[step.subject].existing
              \/ r.refs[step.subject].created
          <5>1. CASE step.subject = k
            BY <4>3, <5>1
          <5>2. CASE step.subject # k
            <6>1. r.refs[step.subject] = j.refs[step.subject]
              BY <2>7, <4>2, <5>2
            <6>2. QED
              BY <4>1, <6>1 DEF StepOK
          <5>3. QED
            BY <5>1, <5>2
        <4>5. r.refs[step.subject] # None
          BY <2>9, <4>1, <4>2 DEF StepOK
        <4>6. ASSUME NEW x \in DOMAIN step.related
              PROVE  r.refs[step.related[x]] # None
          <5>1. step.related[x] \in Key
            BY <4>2
          <5>2. j.refs[step.related[x]] # None
            BY <4>1 DEF StepOK
          <5>3. QED
            BY <2>9, <5>1, <5>2
        <4>7. StepOK(r, step)
          BY <4>1, <4>4, <4>5, <4>6 DEF StepOK
        <4>8. QED
          BY <4>7 DEF step
      <3>2. \A edge \in r.edges \cup r.made : EdgeOK(r, edge)
        BY <1>2, <2>6 DEF JobOK, PlanOK, EdgeOK
      <3>3. r.pc \notin Linked
        BY <1>1, <2>6 DEF Linked, Committed
      <3>4. QED
        BY <2>6, <3>1, <3>2, <3>3 DEF PlanOK
    <2>13. Shelved(r, db)
      BY <1>1, <1>2, <2>6 DEF Shelved
    <2>14. Owned(r, d)
      <3>1. Owned(j, d) /\ d \in Database
        BY <1>2, <2>3, OwnedEvolves DEF Sound, JobOK
      <3>2. ASSUME NEW i \in DOMAIN j.steps, j.steps[i].memory # None,
                   HasMemory(d, j.steps[i].memory)
            PROVE  d.memories[j.steps[i].memory].entity_id
                      \in {j.steps[i].existing, r.refs[j.steps[i].subject].existing}
        <4> DEFINE step == j.steps[i]
        <4>1. j.steps[i] \in PlannedStep
          BY <1>2 DEF JobOK, Typed
        <4>2. d.memories[j.steps[i].memory] \in MemoryRow
          BY <3>1, <3>2, <4>1 DEF PlannedStep, Database, HasMemory
        <4>3. d.memories[j.steps[i].memory].entity_id \in EntityID
          BY <4>2 DEF MemoryRow
        <4>4. d.memories[j.steps[i].memory].entity_id
                 \in {j.steps[i].existing, j.refs[j.steps[i].subject].existing}
          BY <3>1, <3>2 DEF Owned
        <4>5. j.steps[i].subject \in Key
          BY <4>1 DEF PlannedStep
        <4>6. j.refs[j.steps[i].subject].existing
                 \in {r.refs[j.steps[i].subject].existing, None}
          BY <2>1, <2>7, <4>5
        <4>7. d.memories[j.steps[i].memory].entity_id # None
          BY <4>3, NoneAssumption
        <4>8. QED
          BY <4>4, <4>6, <4>7
      <3>3. \A i \in DOMAIN j.steps : j.steps[i].memory # None =>
               j.steps[i].memory <= d.issued.memory
        BY <3>1 DEF Owned
      <3>4. QED
        BY <2>6, <3>2, <3>3 DEF Owned
    <2>15. Touched(db, d) \subseteq {}
      <3>1. \A e \in EntityID : HasEntity(db, e) => e # n
        BY <1>2, IDAssumption
           DEF Good, RowsWereIssued, Evolves, IssuedGrows, NextEntity, Database, Issued
      <3>2. \A e \in EntityID : HasEntity(db, e) => ContextRows(d, e) = ContextRows(work, e)
        BY <1>2, <3>1, InsertEntityContext DEF d
      <3>3. QED
        BY <1>3, <3>2, TouchedGrows
    <2>16. JobOK(r)
      BY <2>8, <2>10, <2>11, <2>12 DEF JobOK
    <2>17. Become(w, r) /\ r.pc = "entities" /\ r.pc \in Committing
      BY <1>1, <1>5, <2>6 DEF r
    <2>18. QED
      BY <1>1, <2>3, <2>4, <2>13, <2>14, <2>15, <2>16, <2>17, CommitWritePreserves DEF Sound
  <1>6. QED
    BY <1>4, <1>5 DEF CreatePlannedEntity

\* What the final loop deletes for one step, with and without an edge of its subject.
LEMMA StepInvalidatesParts ==
    ASSUME NEW j, NEW step
    PROVE  LET own == ({step.existing} \cup CreatedFor(j, step.subject)) \ {None}
               related == {j.refs[step.related[n]].existing : n \in DOMAIN step.related}
               linked == \E edge \in j.made : edge.from = step.subject
           IN StepInvalidates(j, step) = IF linked THEN own \cup related ELSE own
  <1> DEFINE own == ({step.existing} \cup CreatedFor(j, step.subject)) \ {None}
             related == {j.refs[step.related[n]].existing : n \in DOMAIN step.related}
             linked == \E edge \in j.made : edge.from = step.subject
  <1>1. StepInvalidates(j, step) = own \cup (IF linked THEN related ELSE {})
    BY DEF StepInvalidates
  <1> HIDE DEF own, related, linked
  <1>2. StepInvalidates(j, step) = IF linked THEN own \cup related ELSE own
    BY <1>1
  <1>3. QED
    BY <1>2 DEF own, related, linked

\* A step's subject is among what the final loop invalidates.
LEMMA SubjectInvalidated ==
    ASSUME NEW j, JobOK(j), j.pc \in Linked, NEW n \in DOMAIN j.steps
    PROVE  /\ j.refs[j.steps[n].subject].existing \in EntityID
           /\ j.refs[j.steps[n].subject].existing \in Invalidated(j)
           /\ j.steps[n].existing # None => j.steps[n].existing \in Invalidated(j)
  <1> DEFINE step == j.steps[n]
  <1>1. StepOK(j, step) /\ step \in PlannedStep
    BY DEF JobOK, PlanOK, Typed
  <1>2. step.subject \in Key /\ j.refs[step.subject] # None
    BY <1>1 DEF StepOK, PlannedStep
  <1>3. j.refs[step.subject] \in EntityRef /\ j.refs[step.subject].existing # None
    BY <1>2 DEF JobOK, Typed, PlanOK
  <1>4. j.refs[step.subject].existing \in StepInvalidates(j, step)
    <2> DEFINE x == j.refs[step.subject].existing
    <2>1. x = step.existing \/ j.refs[step.subject].created
      BY <1>1 DEF StepOK
    <2>2. x \in ({step.existing} \cup CreatedFor(j, step.subject)) \ {None}
      BY <1>3, <2>1 DEF CreatedFor
    <2>3. QED
      BY <2>2 DEF StepInvalidates
  <1>5. step.existing # None => step.existing \in StepInvalidates(j, step)
    BY DEF StepInvalidates
  <1>6. QED
    BY <1>3, <1>4, <1>5 DEF Invalidated, EntityRef

\* Once every entity exists, the ends of an edge are entities that the final
\* loop invalidates if the edge is made.
LEMMA EdgeEnds ==
    ASSUME NEW j, JobOK(j), j.pc \in Linked, NEW edge \in j.edges \cup j.made
    PROVE  /\ edge \in Edge
           /\ j.refs[edge.from].existing \in EntityID
           /\ j.refs[edge.to].existing \in EntityID
           /\ j.refs[edge.from].existing \in Invalidated(j)
           /\ edge \in j.made => j.refs[edge.to].existing \in Invalidated(j)
  <1>1. PICK n \in DOMAIN j.steps :
           /\ j.steps[n].subject = edge.from
           /\ \E i \in DOMAIN j.steps[n].related : j.steps[n].related[i] = edge.to
    BY DEF JobOK, PlanOK, EdgeOK
  <1> DEFINE step == j.steps[n]
  <1>2. PICK i \in DOMAIN step.related : step.related[i] = edge.to
    BY <1>1
  <1>3. StepOK(j, step) /\ edge \in Edge
    BY DEF JobOK, PlanOK, Typed
  <1>4. edge.from \in Key /\ edge.to \in Key
    BY <1>3 DEF Edge
  <1>5. j.refs[edge.from] # None /\ j.refs[edge.to] # None
    BY <1>1, <1>2, <1>3 DEF StepOK
  <1>6. \A k \in {edge.from, edge.to} : j.refs[k] \in EntityRef /\ j.refs[k].existing # None
    BY <1>4, <1>5 DEF JobOK, Typed, PlanOK
  <1>7. j.refs[edge.from].existing \in EntityID /\ j.refs[edge.to].existing \in EntityID
    BY <1>6 DEF EntityRef
  <1>8. j.refs[edge.from].existing \in Invalidated(j)
    BY <1>1, SubjectInvalidated
  <1>9. ASSUME edge \in j.made
        PROVE  j.refs[edge.to].existing \in StepInvalidates(j, step)
    <2>1. \E made \in j.made : made.from = step.subject
      BY <1>1, <1>9
    <2>2. j.refs[edge.to].existing \in {j.refs[step.related[x]].existing : x \in DOMAIN step.related}
      BY <1>2
    <2> DEFINE related == {j.refs[step.related[x]].existing : x \in DOMAIN step.related}
    <2> HIDE DEF step
    <2>3. related \subseteq StepInvalidates(j, step)
      BY <2>1, StepInvalidatesParts
    <2> HIDE DEF related
    <2>4. QED
      BY <2>2, <2>3 DEF related
  <1>10. QED
    BY <1>3, <1>7, <1>8, <1>9 DEF Invalidated

\* Edges leave the plan, some of them for the list of those made.
LEMMA LinkStepOK ==
    ASSUME NEW j, JobOK(j), j.pc = "relationships",
           NEW d, NEW d2, Shelved(j, d), Owned(j, d2),
           NEW r, DOMAIN r = DOMAIN IdleJob,
           \A f \in DOMAIN IdleJob \ {"edges", "made"} : r[f] = j[f],
           r.edges \subseteq j.edges, j.made \subseteq r.made, r.made \subseteq j.edges \cup j.made
    PROVE  /\ JobOK(r) /\ Shelved(r, d) /\ Owned(r, d2)
           /\ r.pc = "relationships"
           /\ Invalidated(j) \subseteq Invalidated(r)
  <1>1. /\ r.pc = j.pc /\ r.subject = j.subject /\ r.subject_name = j.subject_name
        /\ r.candidates = j.candidates /\ r.next = j.next /\ r.refs = j.refs
        /\ r.known = j.known /\ r.steps = j.steps
        /\ r.touched = j.touched
        /\ r.subject_key = j.subject_key /\ r.related = j.related /\ r.decision = j.decision
        /\ r.source = j.source /\ r.cleared = j.cleared
    BY DEF IdleJob
  <1>2. Typed(r)
    BY <1>1 DEF JobOK, Typed
  <1>3. InStep(r) /\ SubjectNamed(r) /\ InHand(r) /\ TouchedOK(r)
    BY <1>1 DEF JobOK, InStep, SubjectNamed, InHand, TouchedOK, AboutOne, Committed
  <1>4. PlanOK(r)
    <2>1. \A n \in DOMAIN r.steps : StepOK(r, r.steps[n])
      BY <1>1 DEF JobOK, PlanOK, StepOK
    <2>2. \A edge \in r.edges \cup r.made : EdgeOK(r, edge)
      BY <1>1 DEF JobOK, PlanOK, EdgeOK
    <2>3. \A k \in Key : r.refs[k] # None => r.refs[k].existing # None
      BY <1>1 DEF JobOK, PlanOK, Linked
    <2>4. QED
      BY <2>1, <2>2, <2>3 DEF PlanOK
  <1>5. Shelved(r, d) /\ Owned(r, d2)
    <2>1. Shelved(r, d)
      BY <1>1 DEF Shelved
    <2>2. r.steps = j.steps /\ r.refs = j.refs
      BY <1>1
    <2>3. Owned(r, d2)
      BY <2>2 DEF Owned
    <2>4. QED
      BY <2>1, <2>3
  <1>6. Invalidated(j) \subseteq Invalidated(r)
    <2>1. ASSUME NEW n \in DOMAIN j.steps
          PROVE  StepInvalidates(j, j.steps[n]) \subseteq StepInvalidates(r, r.steps[n])
      <3>1. CASE \E edge \in j.made : edge.from = j.steps[n].subject
        <4>1. \E edge \in r.made : edge.from = r.steps[n].subject
          BY <1>1, <3>1
        <4>2. CreatedFor(r, r.steps[n].subject) = CreatedFor(j, j.steps[n].subject)
          BY <1>1 DEF CreatedFor
        <4>3. QED
          BY <1>1, <3>1, <4>1, <4>2, StepInvalidatesParts
      <3>2. CASE ~ \E edge \in j.made : edge.from = j.steps[n].subject
        BY <1>1, <3>2 DEF StepInvalidates, CreatedFor
      <3>3. QED
        BY <3>1, <3>2
    <2>2. QED
      BY <1>1, <2>1 DEF Invalidated
  <1>7. QED
    BY <1>1, <1>2, <1>3, <1>4, <1>5, <1>6 DEF JobOK

LEMMA CreatePlannedRelationshipPreserves ==
    ASSUME IngestInv, NEW w \in Ingester, CreatePlannedRelationship(w)
    PROVE  IngestInv'
  <1> DEFINE j == job[w]
             work == tx.work
  <1>1. j.pc = "relationships" /\ j.pc \in Committing /\ j.pc \in Linked /\ edits' = edits
    <2>1. j.pc = "relationships" /\ edits' = edits
      BY ZenonT(30) DEF CreatePlannedRelationship
    <2>2. QED
      BY <2>1 DEF Committing, Linked
  <1>2. /\ JobOK(j) /\ Shelved(j, db) /\ Owned(j, work) /\ Covered(j, tx)
        /\ View(w) = work /\ w \in Request
        /\ db \in Database /\ Good(db) /\ work \in Database /\ Good(work)
        /\ tx.base = db /\ Evolves(db, work)
    BY <1>1, CommitFacts
  <1>3. Touched(db, work) \subseteq Invalidated(j)
    BY <1>1, <1>2 DEF Covered
  <1>4. ASSUME Become(w, [j EXCEPT !.pc = "memories"]), UNCHANGED <<db, tx>>
        PROVE  IngestInv'
    <2> DEFINE r == [j EXCEPT !.pc = "memories"]
    <2> HIDE DEF r
    <2>1. \A k \in Key : j.refs[k] # None => j.refs[k].existing # None
      BY <1>1, <1>2 DEF JobOK, PlanOK
    <2>2. "memories" \in Committing
      BY DEF Committing
    <2>3. /\ JobOK(r) /\ Shelved(r, db) /\ Owned(r, work) /\ r.pc = "memories"
          /\ Invalidated(r) = Invalidated(j)
      BY <1>1, <1>2, <2>1, <2>2, StageOK DEF r
    <2>4. Covered(r, tx)
      BY <1>2, <1>3, <2>3 DEF Covered
    <2>5. QED
      BY <1>1, <1>4, <2>2, <2>3, <2>4, CommitQuietPreserves DEF r
  <1>5. ASSUME NEW edge \in j.edges, UNCHANGED <<db, tx>>,
               Become(w, [j EXCEPT !.edges = @ \ {edge}])
        PROVE  IngestInv'
    <2> DEFINE r == [j EXCEPT !.edges = @ \ {edge}]
    <2> HIDE DEF r
    <2>1. /\ DOMAIN r = DOMAIN IdleJob
          /\ \A f \in DOMAIN IdleJob \ {"edges", "made"} : r[f] = j[f]
          /\ r.edges \subseteq j.edges /\ r.made = j.made
      BY <1>2 DEF r, JobOK, Typed, IdleJob
    <2>2. /\ JobOK(r) /\ Shelved(r, db) /\ Owned(r, work) /\ r.pc = "relationships"
          /\ Invalidated(j) \subseteq Invalidated(r)
      BY <1>1, <1>2, <2>1, LinkStepOK
    <2>3. Covered(r, tx)
      BY <1>2, <1>3, <2>2 DEF Covered
    <2>4. QED
      BY <1>1, <1>5, <2>2, <2>3, CommitQuietPreserves DEF r
  <1>6. ASSUME NEW edge \in j.edges, CreateRelationship(w, EdgeRow(w, edge)),
               Become(w, [j EXCEPT !.edges = @ \ {edge}, !.made = @ \cup {edge}])
        PROVE  IngestInv'
    <2> DEFINE r == [j EXCEPT !.edges = @ \ {edge}, !.made = @ \cup {edge}]
               row == EdgeRow(w, edge)
               d == InsertRelationship(work, row)
    <2>1. row \in RelationshipRow
      <3>1. edge \in Edge /\ j.refs[edge.from].existing \in EntityID
              /\ j.refs[edge.to].existing \in EntityID
        BY <1>1, <1>2, EdgeEnds
      <3>2. QED
        BY <3>1 DEF EdgeRow, RelationshipRow, Edge
    <2>2. Sound(work, d) /\ Write(w, d) /\ NextRelationship(work) \in RelationshipID
      BY <1>2, <1>6, <2>1, InsertRelationshipSound DEF CreateRelationship
    <2>3. Statement(w)
      BY <1>6, <2>1 DEF Statement
    <2> HIDE DEF r
    <2>4. /\ DOMAIN r = DOMAIN IdleJob
          /\ \A f \in DOMAIN IdleJob \ {"edges", "made"} : r[f] = j[f]
          /\ r.edges = j.edges \ {edge} /\ r.made = j.made \cup {edge}
      BY <1>2 DEF r, JobOK, Typed, IdleJob
    <2>5. Owned(j, d)
      BY <1>2, <2>2, OwnedEvolves DEF Sound, JobOK
    <2>6. /\ JobOK(r) /\ Shelved(r, db) /\ Owned(r, d) /\ r.pc = "relationships"
          /\ Invalidated(j) \subseteq Invalidated(r)
      BY <1>1, <1>2, <2>4, <2>5, LinkStepOK
    <2>7. {row.from, row.to} \subseteq Invalidated(r)
      <3>1. edge \in r.made /\ r.refs = j.refs /\ r.pc \in Linked
        BY <2>4, <2>6 DEF IdleJob, Linked
      <3>2. /\ r.refs[edge.from].existing \in Invalidated(r)
            /\ r.refs[edge.to].existing \in Invalidated(r)
        BY <2>6, <3>1, EdgeEnds
      <3>3. QED
        BY <3>1, <3>2 DEF EdgeRow
    <2> HIDE DEF row
    <2>8. Touched(db, d) \subseteq Invalidated(r)
      <3> DEFINE T == {row.from, row.to}
      <3>1. \A e \in EntityID \ T : ContextRows(d, e) = ContextRows(work, e)
        BY <1>2, <2>1, <2>2, InsertRelationshipContext
      <3> HIDE DEF T, d
      <3>2. Touched(db, d) \subseteq Touched(db, work) \cup T
        BY <3>1, TouchedGrows
      <3> USE DEF T
      <3>3. QED
        BY <1>3, <2>6, <2>7, <3>2
    <2>9. r.pc \in Committing /\ Become(w, r)
      BY <1>6, <2>6 DEF r, Committing
    <2>10. QED
      BY <1>1, <2>2, <2>3, <2>6, <2>8, <2>9, CommitWritePreserves DEF Sound
  <1>7. ASSUME Abandon(w, "store_error")
        PROVE  IngestInv'
    BY <1>1, <1>7, AbandonPreserves
  <1>8. QED
    BY <1>4, <1>5, <1>6, <1>7, ZenonT(60) DEF CreatePlannedRelationship
\* What Owned says of one memory.
WrittenFor(j, step, m, d) ==
    /\ m <= d.issued.memory
    /\ HasMemory(d, m) => d.memories[m].entity_id \in {step.existing, j.refs[step.subject].existing}

\* Steps that differ in the memory they wrote only.
LEMMA SameStep ==
    ASSUME NEW j, NEW r, r.refs = j.refs, r.made = j.made, NEW d,
           NEW p, NEW q, q.subject = p.subject, q.existing = p.existing,
           q.related = p.related, q.action = p.action, q.target = p.target
    PROVE  /\ StepOK(j, p) => StepOK(r, q)
           /\ StepInvalidates(r, q) = StepInvalidates(j, p)
           /\ \A m : WrittenFor(j, p, m, d) => WrittenFor(r, q, m, d)
  <1>1. StepOK(j, p) => StepOK(r, q)
    BY DEF StepOK
  <1>2. StepInvalidates(r, q) = StepInvalidates(j, p)
    BY DEF StepInvalidates, CreatedFor
  <1>3. \A m : WrittenFor(j, p, m, d) => WrittenFor(r, q, m, d)
    BY DEF WrittenFor
  <1>4. QED
    BY <1>1, <1>2, <1>3

\* The step in hand is done and remembers the memory it wrote.
LEMMA ExecutedOK ==
    ASSUME NEW j, JobOK(j), j.pc = "memories", j.next <= Len(j.steps),
           NEW memory \in MemoryID \cup {None}, NEW d, NEW d2, Shelved(j, d), Owned(j, d2),
           memory # None => WrittenFor(j, j.steps[j.next], memory, d2),
           NEW r, r = Executed(j, memory)
    PROVE  /\ JobOK(r) /\ Shelved(r, d) /\ Owned(r, d2)
           /\ r.pc = "memories"
           /\ Invalidated(r) = Invalidated(j)
  <1> DEFINE i == j.next
             step == [j.steps[i] EXCEPT !.memory = memory]
  <1>1. j.steps \in Seq(PlannedStep) /\ i \in DOMAIN j.steps /\ i \in Nat \ {0}
    BY DEF JobOK, Typed
  <1>2. j.steps[i] \in PlannedStep
    BY <1>1
  <1>3. /\ step \in PlannedStep /\ step.memory = memory
        /\ step.subject = j.steps[i].subject /\ step.existing = j.steps[i].existing
        /\ step.related = j.steps[i].related /\ step.action = j.steps[i].action
        /\ step.target = j.steps[i].target
    BY <1>2 DEF PlannedStep
  <1>4. /\ r.steps = [j.steps EXCEPT ![i] = step] /\ r.next = i + 1 /\ DOMAIN r = DOMAIN IdleJob
        /\ \A f \in DOMAIN IdleJob \ {"steps", "next"} : r[f] = j[f]
    BY DEF Executed, JobOK, Typed, IdleJob
  <1> HIDE DEF step
  <1>5. /\ r.steps \in Seq(PlannedStep) /\ Len(r.steps) = Len(j.steps)
        /\ DOMAIN r.steps = DOMAIN j.steps
        /\ \A n \in DOMAIN j.steps : r.steps[n] = IF n = i THEN step ELSE j.steps[n]
    <2>1. r.steps = [j.steps EXCEPT ![i] = step]
      BY <1>4
    <2>2. step \in PlannedStep
      BY <1>3
    <2>3. QED
      BY <1>1, <2>1, <2>2, ReplaceInSeq
  <1>6. \A n \in DOMAIN j.steps :
           /\ r.steps[n].subject = j.steps[n].subject
           /\ r.steps[n].existing = j.steps[n].existing
           /\ r.steps[n].related = j.steps[n].related
           /\ r.steps[n].action = j.steps[n].action
           /\ r.steps[n].target = j.steps[n].target
           /\ n # i => r.steps[n].memory = j.steps[n].memory
    BY <1>3, <1>5
  <1>7. /\ r.pc = j.pc /\ r.subject = j.subject /\ r.subject_name = j.subject_name
        /\ r.candidates = j.candidates /\ r.refs = j.refs
        /\ r.known = j.known /\ r.edges = j.edges /\ r.made = j.made
        /\ r.touched = j.touched
        /\ r.subject_key = j.subject_key /\ r.related = j.related /\ r.decision = j.decision
        /\ r.source = j.source /\ r.cleared = j.cleared
    BY <1>4 DEF IdleJob
  <1>8. Typed(r)
    BY <1>1, <1>4, <1>5, <1>7 DEF JobOK, Typed
  <1> HIDE DEF i
  <1>same. ASSUME NEW n \in DOMAIN j.steps
           PROVE  /\ StepOK(j, j.steps[n]) => StepOK(r, r.steps[n])
                  /\ StepInvalidates(r, r.steps[n]) = StepInvalidates(j, j.steps[n])
                  /\ \A m : WrittenFor(j, j.steps[n], m, d2) => WrittenFor(r, r.steps[n], m, d2)
    <2> DEFINE p == j.steps[n]
               q == r.steps[n]
    <2>1. /\ q.subject = p.subject /\ q.existing = p.existing
          /\ q.related = p.related /\ q.action = p.action /\ q.target = p.target
      BY <1>6
    <2>2. r.refs = j.refs /\ r.made = j.made
      BY <1>7
    <2> HIDE DEF p, q
    <2>3. /\ StepOK(j, p) => StepOK(r, q)
          /\ StepInvalidates(r, q) = StepInvalidates(j, p)
          /\ \A m : WrittenFor(j, p, m, d2) => WrittenFor(r, q, m, d2)
      BY <2>1, <2>2, SameStep
    <2>4. QED
      BY <2>3 DEF p, q
  <1>9. InStep(r) /\ SubjectNamed(r) /\ InHand(r) /\ TouchedOK(r)
    BY <1>5, <1>7
       DEF JobOK, InStep, SubjectNamed, InHand, TouchedOK, Planning, AboutOne, Committed
  <1>10. PlanOK(r)
    <2>1. ASSUME NEW n \in DOMAIN r.steps
          PROVE  StepOK(r, r.steps[n])
      <3>1. StepOK(j, j.steps[n])
        BY <1>5 DEF JobOK, PlanOK
      <3>2. QED
        BY <1>5, <1>same, <3>1
    <2>2. ASSUME NEW edge \in r.edges \cup r.made
          PROVE  EdgeOK(r, edge)
      <3>1. EdgeOK(j, edge)
        BY <1>7 DEF JobOK, PlanOK
      <3>2. QED
        BY <1>5, <1>6, <3>1 DEF EdgeOK
    <2>3. r.pc \in Linked => \A k \in Key : r.refs[k] # None => r.refs[k].existing # None
      BY <1>7 DEF JobOK, PlanOK, Linked
    <2>4. QED
      BY <2>1, <2>2, <2>3 DEF PlanOK
  <1>11. Shelved(r, d)
    BY <1>5, <1>6, <1>7 DEF Shelved
  <1>12. Owned(r, d2)
    <2>1. ASSUME NEW n \in DOMAIN r.steps, r.steps[n].memory # None
          PROVE  WrittenFor(r, r.steps[n], r.steps[n].memory, d2)
      <3>1. CASE n = i
        <4>1. r.steps[n].memory = memory
          BY <1>1, <1>3, <1>5, <3>1
        <4>2. WrittenFor(j, j.steps[i], memory, d2)
          BY <2>1, <4>1 DEF i
        <4>3. WrittenFor(r, r.steps[n], memory, d2)
          BY <1>1, <1>same, <3>1, <4>2
        <4>4. QED
          BY <4>1, <4>3
      <3>2. CASE n # i
        <4>1. n \in DOMAIN j.steps /\ r.steps[n].memory = j.steps[n].memory
          BY <1>5, <1>6, <3>2
        <4>2. WrittenFor(j, j.steps[n], j.steps[n].memory, d2)
          <5>1. j.steps[n].memory # None
            BY <2>1, <4>1
          <5>2. QED
            BY <4>1, <5>1 DEF Owned, WrittenFor
        <4>3. WrittenFor(r, r.steps[n], j.steps[n].memory, d2)
          BY <1>same, <4>1, <4>2
        <4>4. QED
          BY <4>1, <4>3
      <3>3. QED
        BY <3>1, <3>2
    <2>2. QED
      BY <2>1 DEF Owned, WrittenFor
  <1>13. Invalidated(r) = Invalidated(j)
    <2>1. ASSUME NEW n \in DOMAIN j.steps
          PROVE  StepInvalidates(r, r.steps[n]) = StepInvalidates(j, j.steps[n])
      BY <1>same
    <2>2. QED
      BY <1>5, <2>1 DEF Invalidated
  <1>14. QED
    BY <1>7, <1>8, <1>9, <1>10, <1>11, <1>12, <1>13 DEF JobOK

LEMMA ExecutePlannedMemoryPreserves ==
    ASSUME IngestInv, NEW w \in Ingester, ExecutePlannedMemory(w)
    PROVE  IngestInv'
  <1> DEFINE j == job[w]
             work == tx.work
             step == j.steps[j.next]
             c == j.candidates[j.next]
             row == [entity_id |-> j.refs[step.subject].existing, category |-> c.category,
                     content |-> c.content, confidence |-> c.confidence, source_id |-> None,
                     expires_at |-> None]
  <1>1. /\ j.pc = "memories" /\ j.next <= Len(j.steps) /\ edits' = edits
        /\ j.pc \in Committing /\ j.pc \in Linked
    <2>1. j.pc = "memories" /\ j.next <= Len(j.steps) /\ edits' = edits
      BY ZenonT(30) DEF ExecutePlannedMemory
    <2>2. QED
      BY <2>1 DEF Committing, Linked
  <1>2. /\ JobOK(j) /\ Shelved(j, db) /\ Owned(j, work) /\ Covered(j, tx)
        /\ View(w) = work /\ w \in Request
        /\ db \in Database /\ Good(db) /\ work \in Database /\ Good(work)
        /\ tx.base = db /\ Evolves(db, work)
    BY <1>1, CommitFacts
  <1>3. Touched(db, work) \subseteq Invalidated(j)
    BY <1>1, <1>2 DEF Covered
  <1>4. j.next \in DOMAIN j.steps /\ step \in PlannedStep /\ c \in Candidate
    <2>1. j.next \in DOMAIN j.steps /\ step \in PlannedStep
      BY <1>1, <1>2 DEF JobOK, Typed
    <2>2. Len(j.steps) = Len(j.candidates) /\ j.candidates \in Seq(Candidate)
      BY <1>1, <1>2 DEF JobOK, Typed, InStep, Planning
    <2>3. QED
      BY <1>1, <1>2, <2>1, <2>2 DEF JobOK, Typed
  <1>5. /\ j.refs[step.subject].existing \in EntityID
        /\ j.refs[step.subject].existing \in Invalidated(j)
        /\ step.existing # None => step.existing \in Invalidated(j)
    BY <1>1, <1>2, <1>4, SubjectInvalidated
  <1>6. c.category \in Category /\ c.content \in Content /\ c.confidence \in Confidence
    BY <1>4 DEF Candidate
  <1>7. ASSUME CreateMemory(w, row), Become(w, Executed(j, NextMemory(View(w))))
        PROVE  IngestInv'
    <2> DEFINE n == NextMemory(work)
               d == InsertMemory(work, row)
               r == Executed(j, n)
    <2>1. row \in MemoryRow
      BY <1>5, <1>6 DEF MemoryRow
    <2>2. Sound(work, d) /\ Write(w, d) /\ n \in MemoryID
      BY <1>2, <1>7, <2>1, InsertMemorySound DEF CreateMemory
    <2>3. Statement(w)
      BY <1>7, <2>1 DEF Statement
    <2>4. n <= d.issued.memory /\ d.memories[n] = row
      <3>1. d.issued = [work.issued EXCEPT !.memory = n] /\ n \in Nat
              /\ d.memories = [work.memories EXCEPT ![n] = row]
        BY <1>2, <2>2, IDAssumption DEF InsertMemory, Database
      <3>2. work.issued \in Issued /\ work.memories \in [MemoryID -> MemoryRow \cup {None}]
        BY <1>2 DEF Database
      <3>3. d.issued.memory = n
        BY <3>1, <3>2 DEF Issued
      <3>4. d.memories[n] = row
        BY <2>2, <3>1, <3>2
      <3> HIDE DEF n, d, row
      <3>5. QED
        BY <3>1, <3>3, <3>4
    <2>5. Owned(j, d)
      BY <1>2, <2>2, OwnedEvolves DEF Sound, JobOK
    <2>6. row.entity_id = j.refs[step.subject].existing
      OBVIOUS
    <2> HIDE DEF row, d, r, n
    <2>7. /\ JobOK(r) /\ Shelved(r, db) /\ Owned(r, d) /\ r.pc = "memories"
          /\ Invalidated(r) = Invalidated(j)
      <3>1. WrittenFor(j, j.steps[j.next], n, d)
        BY <2>4, <2>6 DEF WrittenFor
      <3>2. r = Executed(j, n)
        BY DEF r
      <3> HIDE DEF j
      <3>3. QED
        BY <1>1, <1>2, <2>2, <2>5, <3>1, <3>2, ExecutedOK
    <2>8. Touched(db, d) \subseteq Invalidated(r)
      <3> DEFINE T == {row.entity_id}
      <3>1. \A e \in EntityID \ T : ContextRows(d, e) = ContextRows(work, e)
        BY <1>2, <2>1, <2>2, InsertMemoryContext DEF d, n
      <3>2. T \subseteq Invalidated(r)
        BY <1>5, <2>6, <2>7
      <3> HIDE DEF T
      <3>3. Touched(db, d) \subseteq Touched(db, work) \cup T
        BY <3>1, TouchedGrows
      <3>4. QED
        BY <1>3, <2>7, <3>2, <3>3
    <2>9. Become(w, r) /\ r.pc \in Committing
      BY <1>2, <1>7, <2>7 DEF r, n, Committing
    <2>10. QED
      BY <1>1, <2>2, <2>3, <2>7, <2>8, <2>9, CommitWritePreserves DEF Sound
  <1>8. ASSUME step.action = "update",
               HasMemory(View(w), step.target),
               UpdateMemory(w, step.target, c.content, c.confidence,
                            View(w).memories[step.target].source_id,
                            View(w).memories[step.target].expires_at),
               Become(w, Executed(j, step.target))
        PROVE  IngestInv'
    <2> DEFINE m == step.target
               source == work.memories[m].source_id
               expires == work.memories[m].expires_at
               d == UpdateMemoryRow(work, m, c.content, c.confidence, source, expires)
               r == Executed(j, m)
    <2>1. m # None /\ m \in MemoryID /\ HasMemory(work, m)
      <3>1. StepOK(j, step)
        BY <1>2, <1>4 DEF JobOK, PlanOK
      <3>2. QED
        BY <1>2, <1>4, <1>8, <3>1 DEF StepOK, PlannedStep
    <2>2. work.memories[m].entity_id = step.existing
      <3>1. Shelf(db, m, step.existing, j.candidates[j.next].category)
        BY <1>2, <1>4, <2>1 DEF Shelved
      <3>2. Shelf(work, m, step.existing, j.candidates[j.next].category)
        BY <1>2, <2>1, <3>1, ShelfEvolves
      <3>3. QED
        BY <2>1, <3>2 DEF Shelf
    <2>3. /\ step.existing \in EntityID /\ source \in SourceID \cup {None}
          /\ expires \in Time \cup {None}
      <3>1. work.memories[m] \in MemoryRow
        BY <1>2, <2>1 DEF Database, HasMemory
      <3>2. QED
        BY <2>2, <3>1 DEF MemoryRow
    <2>4. Sound(work, d) /\ Write(w, d)
      BY <1>2, <1>6, <1>8, <2>1, <2>3, UpdateMemorySound DEF UpdateMemory
    <2>5. Statement(w)
      BY <1>2, <1>6, <1>8, <2>1, <2>3 DEF Statement
    <2>6. Owned(j, d)
      BY <1>2, <2>4, OwnedEvolves DEF Sound, JobOK
    <2>7. m <= d.issued.memory /\ d.memories[m].entity_id = step.existing
      <3>1. m <= work.issued.memory
        BY <1>2, <2>1 DEF Good, RowsWereIssued
      <3>2. d.issued = work.issued /\ d.memories[m].entity_id = work.memories[m].entity_id
        <4> DEFINE old == work.memories[m]
                   new == [old EXCEPT !.content = c.content, !.confidence = c.confidence,
                                      !.source_id = source, !.expires_at = expires]
        <4>1. d.issued = work.issued /\ d.memories = [work.memories EXCEPT ![m] = new]
          BY <1>2 DEF UpdateMemoryRow, Database
        <4>2. DOMAIN work.memories = MemoryID /\ old \in MemoryRow
          BY <1>2, <2>1 DEF Database, HasMemory
        <4>3. new.entity_id = old.entity_id
          BY <4>2 DEF MemoryRow
        <4> HIDE DEF new, d
        <4>4. QED
          BY <2>1, <4>1, <4>2, <4>3
      <3>3. QED
        BY <2>2, <3>1, <3>2
    <2> HIDE DEF d, r
    <2>8. /\ JobOK(r) /\ Shelved(r, db) /\ Owned(r, d) /\ r.pc = "memories"
          /\ Invalidated(r) = Invalidated(j)
      <3>1. WrittenFor(j, j.steps[j.next], m, d)
        BY <2>7 DEF WrittenFor
      <3>2. r = Executed(j, m)
        BY DEF r
      <3> HIDE DEF j, m
      <3>3. QED
        BY <1>1, <1>2, <2>1, <2>6, <3>1, <3>2, ExecutedOK
    <2>9. Touched(db, d) \subseteq Invalidated(r)
      <3> DEFINE T == {step.existing}
      <3>1. \A e \in EntityID \ T : ContextRows(d, e) = ContextRows(work, e)
        <4>1. work.memories[m].entity_id = step.existing
          BY <2>2
        <4> HIDE DEF m, source, expires, work, step
        <4>2. QED
          BY <1>2, <2>1, <4>1, UpdateMemoryContext DEF d
      <3>2. T \subseteq Invalidated(r)
        BY <1>5, <2>3, <2>8, NoneAssumption
      <3> HIDE DEF T
      <3>3. Touched(db, d) \subseteq Touched(db, work) \cup T
        BY <3>1, TouchedGrows
      <3>4. QED
        BY <1>3, <2>8, <3>2, <3>3
    <2>10. Become(w, r) /\ r.pc \in Committing
      BY <1>8, <2>8 DEF r, Committing
    <2>11. QED
      BY <1>1, <2>4, <2>5, <2>8, <2>9, <2>10, CommitWritePreserves DEF Sound
  <1>9. ASSUME Become(w, Executed(j, None)), UNCHANGED <<db, tx>>
        PROVE  IngestInv'
    <2> DEFINE r == Executed(j, None)
    <2> HIDE DEF r
    <2>1. /\ JobOK(r) /\ Shelved(r, db) /\ Owned(r, work) /\ r.pc = "memories"
          /\ Invalidated(r) = Invalidated(j)
      <3>1. r = Executed(j, None)
        BY DEF r
      <3> HIDE DEF j
      <3>2. QED
        BY <1>1, <1>2, <3>1, ExecutedOK
    <2>2. Covered(r, tx)
      BY <1>2, <1>3, <2>1 DEF Covered
    <2>3. Become(w, r) /\ r.pc \in Committing
      BY <1>9, <2>1 DEF r, Committing
    <2>4. QED
      BY <1>1, <1>9, <2>1, <2>2, <2>3, CommitQuietPreserves
  <1>10. ASSUME NEW code, Abandon(w, code)
         PROVE  IngestInv'
    BY <1>1, <1>10, AbandonPreserves
  <1>11. QED
    BY <1>7, <1>8, <1>9, <1>10, ZenonT(60) DEF ExecutePlannedMemory

\* The same plan with the same refs, once its entities exist.
LEMMA SamePlan ==
    ASSUME NEW j, JobOK(j), j.pc \in Linked, NEW r, r.refs = j.refs, r.steps = j.steps,
           r.edges = j.edges, r.made = j.made
    PROVE  PlanOK(r)
  <1>1. \A n \in DOMAIN r.steps : StepOK(r, r.steps[n])
    BY DEF JobOK, PlanOK, StepOK
  <1>2. \A edge \in r.edges \cup r.made : EdgeOK(r, edge)
    BY DEF JobOK, PlanOK, EdgeOK
  <1>3. \A k \in Key : r.refs[k] # None => r.refs[k].existing # None
    BY DEF JobOK, PlanOK
  <1>4. QED
    BY <1>1, <1>2, <1>3 DEF PlanOK

LEMMA CommitIngestTxPreserves ==
    ASSUME IngestInv, NEW w \in Ingester, CommitIngestTx(w)
    PROVE  IngestInv'
  <1> DEFINE j == job[w]
             changed == Touched(db, tx.work)
             r == [j EXCEPT !.pc = "audit", !.next = 1, !.touched = changed]
  <1>1. /\ j.pc = "memories" /\ edits' = edits /\ Commit(w) /\ Become(w, r)
        /\ j.pc \in Committing /\ j.pc \in Linked
    BY DEF CommitIngestTx, Committing, Linked
  <1>2. /\ JobOK(j) /\ Shelved(j, db) /\ Owned(j, tx.work) /\ Covered(j, tx)
        /\ w \in Request /\ tx.base = db
    BY <1>1, CommitFacts
  <1>3. changed \subseteq Invalidated(j) /\ changed \subseteq EntityID
    BY <1>1, <1>2 DEF Covered, Touched
  <1> HIDE DEF r, changed
  <1>4. /\ r.pc = "audit" /\ r.next = 1 /\ r.touched = changed /\ DOMAIN r = DOMAIN IdleJob
        /\ \A f \in DOMAIN IdleJob \ {"pc", "next", "touched"} : r[f] = j[f]
    BY <1>2 DEF r, JobOK, Typed, IdleJob
  <1>5. /\ r.subject = j.subject /\ r.subject_name = j.subject_name
        /\ r.candidates = j.candidates /\ r.refs = j.refs
        /\ r.known = j.known /\ r.edges = j.edges /\ r.made = j.made /\ r.steps = j.steps
        /\ r.subject_key = j.subject_key /\ r.related = j.related /\ r.decision = j.decision
        /\ r.source = j.source /\ r.cleared = j.cleared
    BY <1>4 DEF IdleJob
  <1>6. Typed(r)
    BY <1>2, <1>3, <1>4, <1>5 DEF JobOK, Typed, Stages
  <1>7. Invalidated(r) = Invalidated(j)
    BY <1>5 DEF Invalidated, StepInvalidates, CreatedFor
  <1>8. InStep(r) /\ SubjectNamed(r) /\ InHand(r) /\ TouchedOK(r)
    BY <1>1, <1>2, <1>3, <1>4, <1>5, <1>7
       DEF JobOK, InStep, SubjectNamed, InHand, TouchedOK, Planning, AboutOne, Committed
  <1>9. PlanOK(r)
    BY <1>1, <1>2, <1>4, <1>5, SamePlan DEF JobOK, Linked, Committed
  <1>10. Shelved(r, db) /\ Owned(r, tx.work)
    <2>1. Shelved(r, db)
      BY <1>2, <1>4, <1>5 DEF Shelved
    <2>2. Owned(r, tx.work)
      BY <1>2, <1>5 DEF Owned
    <2>3. QED
      BY <2>1, <2>2
  <1>11. ~Owns(w)' /\ View(w)' = tx.work /\ TxMoves(w)
    BY <1>1 DEF Commit, Owns, View, TxMoves
  <1>12. Keeps(w, r)
    BY <1>1, <1>4, <1>6, <1>8, <1>9, <1>10, <1>11 DEF r, Keeps, JobOK, Committing
  <1>13. Next
    BY <1>1, <1>2 DEF Next
  <1>14. QED
    BY <1>1, <1>11, <1>12, <1>13, StepPreserves

-----------------------------------------------------------------------------
(* After the commit *)

\* A step after the commit that executes one statement of its own.
LEMMA LaterWritePreserves ==
    ASSUME IngestInv, NEW w \in Ingester, job[w].pc \in Committed, edits' = edits,
           Statement(w), NEW d, Write(w, d), Sound(db, d),
           NEW r, Become(w, r), r.pc \in Committed, JobOK(r), Shelved(r, db), Owned(r, db)
    PROVE  IngestInv'
  <1>1. job[w].pc \notin Committing /\ r.pc \notin Committing
    BY DEF Committing, Committed
  <1>2. ~Owns(w) /\ ~Owns(w)' /\ TxMoves(w) /\ db' = d
    BY <1>1, QuietFacts DEF Write, Owns, TxMoves
  <1>3. View(w)' = d /\ Owned(r, d)
    <2>1. db \in Database /\ d \in Database
      BY DEF IngestInv, Inv, TypeOK, Sound
    <2>2. QED
      BY <1>2, <2>1, OwnedEvolves DEF Sound, View, JobOK
  <1>4. Keeps(w, r)
    BY <1>1, <1>2, <1>3 DEF Keeps
  <1>5. Next
    BY IngestAssumption DEF Next
  <1>6. QED
    BY <1>2, <1>4, <1>5, StepPreserves

\* What a step between the commit and the answer has to show.
LEMMA LaterStepOK ==
    ASSUME NEW j, JobOK(j), j.pc \in Committed, NEW d, Shelved(j, d), Owned(j, d),
           NEW r, DOMAIN r = DOMAIN IdleJob,
           \A f \in DOMAIN IdleJob \ {"pc", "next", "source", "touched", "cleared"} : r[f] = j[f],
           r.pc \in Committed \cup {"done"}, r.next \in Nat \ {0}, r.source \in SourceID \cup {None},
           r.touched \subseteq EntityID, r.cleared \subseteq EntityID,
           r.touched \subseteq IF r.pc = "done" THEN r.cleared ELSE Invalidated(j)
    PROVE  JobOK(r) /\ Shelved(r, d) /\ Owned(r, d)
  <1>1. /\ r.subject = j.subject /\ r.subject_name = j.subject_name
        /\ r.candidates = j.candidates /\ r.refs = j.refs
        /\ r.known = j.known /\ r.edges = j.edges /\ r.made = j.made /\ r.steps = j.steps
        /\ r.subject_key = j.subject_key /\ r.related = j.related /\ r.decision = j.decision
    BY DEF IdleJob
  <1>2. Typed(r)
    <2>1. r.pc \in Stages
      BY DEF Stages, Committed
    <2>2. QED
      BY <1>1, <2>1 DEF JobOK, Typed
  <1>3. Invalidated(r) = Invalidated(j)
    BY <1>1 DEF Invalidated, StepInvalidates, CreatedFor
  <1>4. InStep(r) /\ SubjectNamed(r) /\ InHand(r)
    BY <1>1 DEF JobOK, InStep, SubjectNamed, InHand, Planning, AboutOne, Committed
  <1>5. TouchedOK(r)
    BY <1>3 DEF TouchedOK, Committed
  <1>6. PlanOK(r)
    BY <1>1, SamePlan DEF JobOK, Linked
  <1>7. Shelved(r, d) /\ Owned(r, d)
    <2>1. r.pc # "queue"
      BY DEF Committed
    <2>2. Shelved(r, d)
      BY <1>1, <2>1 DEF Shelved
    <2>3. Owned(r, d)
      BY <1>1 DEF Owned
    <2>4. QED
      BY <2>2, <2>3
  <1>8. QED
    BY <1>2, <1>4, <1>5, <1>6, <1>7 DEF JobOK

\* The facts every step after the commit starts from.
LEMMA LaterFacts ==
    ASSUME IngestInv, NEW w \in Ingester, job[w].pc \in Committed
    PROVE  /\ JobOK(job[w]) /\ Shelved(job[w], db) /\ Owned(job[w], db)
           /\ ~Owns(w) /\ View(w) = db /\ job[w].pc \notin Committing
           /\ db \in Database /\ Good(db)
           /\ w \in Request
           /\ DOMAIN job[w] = DOMAIN IdleJob
           /\ job[w].next \in Nat \ {0} /\ job[w].source \in SourceID \cup {None}
           /\ job[w].touched \subseteq EntityID /\ job[w].cleared \subseteq EntityID
           /\ job[w].touched \subseteq Invalidated(job[w])
  <1>1. job[w].pc \notin Committing
    BY DEF Committing, Committed
  <1>2. JobOK(job[w]) /\ Shelved(job[w], db) /\ Owned(job[w], db) /\ ~Owns(w) /\ View(w) = db
    BY <1>1, QuietFacts DEF View
  <1>3. QED
    BY <1>1, <1>2, IngestAssumption DEF IngestInv, Inv, TypeOK, JobOK, Typed, TouchedOK

\* A step after the commit that leaves the store alone.
LEMMA LaterQuietPreserves ==
    ASSUME IngestInv, NEW w \in Ingester, job[w].pc \in Committed, UNCHANGED <<db, tx, edits>>,
           NEW r, Become(w, r), DOMAIN r = DOMAIN IdleJob,
           \A f \in DOMAIN IdleJob \ {"pc", "next", "cleared"} : r[f] = job[w][f],
           r.pc \in Committed \cup {"done"}, r.next \in Nat \ {0}, r.cleared \subseteq EntityID,
           r.pc = "done" => job[w].touched \subseteq r.cleared
    PROVE  IngestInv'
  <1>1. r.source = job[w].source /\ r.touched = job[w].touched
    BY DEF IdleJob
  <1>2. JobOK(r) /\ Shelved(r, db) /\ Owned(r, db)
    BY <1>1, LaterFacts, LaterStepOK
  <1>3. job[w].pc \notin Committing /\ r.pc \notin Committing
    BY DEF Committing, Committed
  <1>4. QED
    BY <1>2, <1>3, QuietPreserves

LEMMA RecordIngestSourcePreserves ==
    ASSUME IngestInv, NEW w \in Ingester, RecordIngestSource(w)
    PROVE  IngestInv'
  <1> DEFINE j == job[w]
             row == [subject_entity_id |-> j.subject]
             d == InsertSource(db, row)
  <1>1. j.pc = "audit" /\ edits' = edits /\ j.pc \in Committed
    <2>1. j.pc = "audit" /\ edits' = edits
      BY ZenonT(30) DEF RecordIngestSource
    <2>2. QED
      BY <2>1 DEF Committed
  <1>2. /\ JobOK(j) /\ Shelved(j, db) /\ Owned(j, db)
        /\ View(w) = db /\ w \in Request /\ db \in Database /\ Good(db)
        /\ DOMAIN j = DOMAIN IdleJob
        /\ j.next \in Nat \ {0} /\ j.source \in SourceID \cup {None}
        /\ j.touched \subseteq EntityID /\ j.cleared \subseteq EntityID
        /\ j.touched \subseteq Invalidated(j)
    BY <1>1, LaterFacts
  <1>3. row \in SourceRow
    BY <1>2, IngestAssumption DEF JobOK, Typed, SourceRow
  <1> HIDE DEF row
  <1>4. ASSUME CreateIngestSource(w, row), NEW r, Become(w, r), DOMAIN r = DOMAIN IdleJob,
               \A f \in DOMAIN IdleJob \ {"pc", "source"} : r[f] = j[f],
               r.pc \in {"backfill", "invalidate"}, r.source \in SourceID \cup {None}
        PROVE  IngestInv'
    <2>1. Sound(db, d) /\ Write(w, d)
      BY <1>2, <1>3, <1>4, InsertSourceSound DEF CreateIngestSource
    <2>2. Statement(w)
      BY <1>3, <1>4 DEF Statement
    <2>3. r.next = j.next /\ r.touched = j.touched /\ r.cleared = j.cleared
      BY <1>4 DEF IdleJob
    <2>4. r.pc \in Committed /\ r.pc # "done"
      BY <1>4 DEF Committed
    <2>5. JobOK(r) /\ Shelved(r, db) /\ Owned(r, db)
      BY <1>1, <1>2, <1>4, <2>3, <2>4, LaterStepOK
    <2>6. QED
      BY <1>1, <1>4, <2>1, <2>2, <2>4, <2>5, LaterWritePreserves
  <1>5. CASE CreateIngestSource(w, row)
             /\ Become(w, [j EXCEPT !.pc = "backfill", !.source = NextSource(db)])
    <2> DEFINE r == [j EXCEPT !.pc = "backfill", !.source = NextSource(db)]
    <2>1. NextSource(db) \in SourceID
      BY <1>2, <1>5 DEF CreateIngestSource
    <2>2. /\ DOMAIN r = DOMAIN IdleJob /\ r.pc = "backfill" /\ r.source = NextSource(db)
          /\ \A f \in DOMAIN IdleJob \ {"pc", "source"} : r[f] = j[f]
      BY <1>2 DEF IdleJob
    <2>3. Become(w, r) /\ CreateIngestSource(w, row)
      BY <1>5
    <2> HIDE DEF r
    <2>4. QED
      BY <1>4, <2>1, <2>2, <2>3
  <1>6. CASE CreateIngestSource(w, row) /\ Become(w, [j EXCEPT !.pc = "invalidate"])
    <2> DEFINE r == [j EXCEPT !.pc = "invalidate"]
    <2>1. /\ DOMAIN r = DOMAIN IdleJob /\ r.pc = "invalidate" /\ r.source = j.source
          /\ \A f \in DOMAIN IdleJob \ {"pc", "source"} : r[f] = j[f]
      BY <1>2 DEF IdleJob
    <2>2. Become(w, r) /\ CreateIngestSource(w, row)
      BY <1>6
    <2> HIDE DEF r
    <2>3. QED
      BY <1>2, <1>4, <2>1, <2>2
  <1>7. CASE Become(w, [j EXCEPT !.pc = "invalidate"]) /\ UNCHANGED <<db, tx>>
    <2> DEFINE r == [j EXCEPT !.pc = "invalidate"]
    <2>1. /\ DOMAIN r = DOMAIN IdleJob /\ r.pc = "invalidate"
          /\ r.next = j.next /\ r.cleared = j.cleared
          /\ \A f \in DOMAIN IdleJob \ {"pc", "next", "cleared"} : r[f] = j[f]
      BY <1>2 DEF IdleJob
    <2>2. r.pc \in Committed
      BY <2>1 DEF Committed
    <2>3. Become(w, r)
      BY <1>7
    <2> HIDE DEF r
    <2>4. QED
      BY <1>1, <1>2, <1>7, <2>1, <2>2, <2>3, LaterQuietPreserves
  <1>8. QED
    BY <1>5, <1>6, <1>7, ZenonT(60) DEF RecordIngestSource, row

LEMMA BackfillSourcePreserves ==
    ASSUME IngestInv, NEW w \in Ingester, BackfillSource(w)
    PROVE  IngestInv'
  <1> DEFINE j == job[w]
             m == j.steps[j.next].memory
             owner == db.memories[m].entity_id
             content == db.memories[m].content
             confidence == db.memories[m].confidence
             expires == db.memories[m].expires_at
             d == UpdateMemoryRow(db, m, content, confidence, j.source, expires)
  <1>1. j.pc = "backfill" /\ edits' = edits /\ j.pc \in Committed /\ j.pc \in Linked
    <2>1. j.pc = "backfill" /\ edits' = edits
      BY ZenonT(30) DEF BackfillSource
    <2>2. QED
      BY <2>1 DEF Committed, Linked
  <1>2. /\ JobOK(j) /\ Shelved(j, db) /\ Owned(j, db)
        /\ View(w) = db /\ w \in Request /\ db \in Database /\ Good(db)
        /\ DOMAIN j = DOMAIN IdleJob
        /\ j.next \in Nat \ {0} /\ j.source \in SourceID \cup {None}
        /\ j.touched \subseteq EntityID /\ j.cleared \subseteq EntityID
        /\ j.touched \subseteq Invalidated(j)
    BY <1>1, LaterFacts
  <1>3. CASE Become(w, [j EXCEPT !.pc = "invalidate"]) /\ UNCHANGED <<db, tx>>
    <2> DEFINE r == [j EXCEPT !.pc = "invalidate"]
    <2>1. /\ DOMAIN r = DOMAIN IdleJob /\ r.pc = "invalidate"
          /\ r.next = j.next /\ r.cleared = j.cleared
          /\ \A f \in DOMAIN IdleJob \ {"pc", "next", "cleared"} : r[f] = j[f]
      BY <1>2 DEF IdleJob
    <2>2. r.pc \in Committed
      BY <2>1 DEF Committed
    <2>3. Become(w, r)
      BY <1>3
    <2> HIDE DEF r
    <2>4. QED
      BY <1>1, <1>2, <1>3, <2>1, <2>2, <2>3, LaterQuietPreserves
  <1>4. CASE Become(w, [j EXCEPT !.next = @ + 1]) /\ UNCHANGED <<db, tx>>
    <2> DEFINE r == [j EXCEPT !.next = @ + 1]
    <2>1. /\ DOMAIN r = DOMAIN IdleJob /\ r.pc = j.pc
          /\ r.next = j.next + 1 /\ r.cleared = j.cleared
          /\ \A f \in DOMAIN IdleJob \ {"pc", "next", "cleared"} : r[f] = j[f]
      BY <1>2 DEF IdleJob
    <2>2. Become(w, r)
      BY <1>4
    <2> HIDE DEF r
    <2>3. r.next \in Nat \ {0} /\ r.pc # "done"
      BY <1>1, <1>2, <2>1
    <2>4. QED
      BY <1>1, <1>2, <1>4, <2>1, <2>2, <2>3, LaterQuietPreserves
  <1>5. ASSUME j.next <= Len(j.steps), m # None, HasMemory(db, m),
               UpdateMemory(w, m, content, confidence, j.source, expires),
               Become(w, [j EXCEPT !.next = @ + 1, !.touched = @ \cup {owner},
                                   !.cleared = @ \ {owner}])
        PROVE  IngestInv'
    <2> DEFINE r == [j EXCEPT !.next = @ + 1, !.touched = @ \cup {owner},
                              !.cleared = @ \ {owner}]
    <2>1. j.next \in DOMAIN j.steps /\ m \in MemoryID
      <3>1. j.steps \in Seq(PlannedStep) /\ j.next \in DOMAIN j.steps
        <4> HIDE DEF m, owner, content, confidence, expires, d, r
        <4>1. j.steps \in Seq(PlannedStep)
          BY <1>2 DEF JobOK, Typed
        <4>2. QED
          BY <1>2, <1>5, <4>1
      <3>2. j.steps[j.next] \in PlannedStep
        BY <3>1
      <3>3. QED
        BY <1>5, <3>1, <3>2 DEF PlannedStep
    <2>2. /\ owner \in EntityID /\ content \in Content /\ confidence \in Confidence
          /\ expires \in Time \cup {None}
      <3>1. db.memories[m] \in MemoryRow
        BY <1>2, <1>5, <2>1 DEF Database, HasMemory
      <3>2. QED
        BY <3>1 DEF MemoryRow
    <2>3. Sound(db, d) /\ Write(w, d)
      BY <1>2, <1>5, <2>1, <2>2, UpdateMemorySound DEF UpdateMemory
    <2>4. Statement(w)
      BY <1>2, <1>5, <2>1, <2>2 DEF Statement
    <2>5. owner \in Invalidated(j)
      <3>1. owner \in {j.steps[j.next].existing, j.refs[j.steps[j.next].subject].existing}
        BY <1>2, <1>5, <2>1 DEF Owned
      <3>2. owner # None
        BY <2>2, NoneAssumption
      <3>3. QED
        BY <1>1, <1>2, <2>1, <3>1, <3>2, SubjectInvalidated
    <2>6. /\ DOMAIN r = DOMAIN IdleJob /\ r.pc = j.pc /\ r.next = j.next + 1
          /\ r.touched = j.touched \cup {owner} /\ r.cleared = j.cleared \ {owner}
          /\ r.source = j.source
          /\ \A f \in DOMAIN IdleJob \ {"pc", "next", "source", "touched", "cleared"} : r[f] = j[f]
      BY <1>2 DEF IdleJob
    <2>7. Become(w, r)
      BY <1>5
    <2> HIDE DEF r, owner, content, confidence, expires, d
    <2>8. r.next \in Nat \ {0} /\ r.pc \in Committed /\ r.pc # "done"
      BY <1>1, <1>2, <2>6
    <2>9. r.touched \subseteq EntityID /\ r.cleared \subseteq EntityID
             /\ r.touched \subseteq Invalidated(j)
      BY <1>2, <2>2, <2>5, <2>6
    <2>10. JobOK(r) /\ Shelved(r, db) /\ Owned(r, db)
      BY <1>1, <1>2, <2>6, <2>8, <2>9, LaterStepOK
    <2>11. QED
      BY <1>1, <2>3, <2>4, <2>7, <2>8, <2>10, LaterWritePreserves
  <1>6. QED
    BY <1>3, <1>4, <1>5, ZenonT(60) DEF BackfillSource

LEMMA InvalidateContextsPreserves ==
    ASSUME IngestInv, NEW w \in Ingester, InvalidateContexts(w)
    PROVE  IngestInv'
  <1> DEFINE j == job[w]
             cleared == j.cleared \cup Invalidated(j)
             r == [j EXCEPT !.pc = "done", !.cleared = cleared]
  <1>1. /\ j.pc = "invalidate" /\ UNCHANGED <<db, tx, edits>> /\ Become(w, r)
        /\ j.pc \in Committed /\ j.pc \in Linked
    BY DEF InvalidateContexts, Invalidated, Committed, Linked
  <1>2. /\ JobOK(j)
        /\ DOMAIN j = DOMAIN IdleJob
        /\ j.next \in Nat \ {0}
        /\ j.touched \subseteq EntityID /\ j.cleared \subseteq EntityID
        /\ j.touched \subseteq Invalidated(j)
    BY <1>1, LaterFacts
  <1>3. Invalidated(j) \subseteq EntityID
    <2>1. ASSUME NEW n \in DOMAIN j.steps
          PROVE  StepInvalidates(j, j.steps[n]) \subseteq EntityID
      <3> DEFINE step == j.steps[n]
                 own == ({step.existing} \cup CreatedFor(j, step.subject)) \ {None}
                 related == {j.refs[step.related[i]].existing : i \in DOMAIN step.related}
      <3>1. step \in PlannedStep /\ StepOK(j, step)
        BY <1>2 DEF JobOK, Typed, PlanOK
      <3>2. step.existing \in EntityID \cup {None} /\ step.subject \in Key
               /\ step.related \in Seq(Key)
        BY <3>1 DEF PlannedStep
      <3>3. own \subseteq EntityID
        <4>1. j.refs[step.subject].existing \in EntityID
          BY <1>1, <1>2, SubjectInvalidated
        <4>2. QED
          BY <3>2, <4>1 DEF CreatedFor
      <3>4. related \subseteq EntityID
        <4>1. ASSUME NEW i \in DOMAIN step.related
              PROVE  j.refs[step.related[i]].existing \in EntityID
          <5>1. step.related[i] \in Key
            BY <3>2
          <5>2. j.refs[step.related[i]] # None
            BY <3>1 DEF StepOK
          <5>3. j.refs[step.related[i]] \in EntityRef /\ j.refs[step.related[i]].existing # None
            BY <1>1, <1>2, <5>1, <5>2 DEF JobOK, Typed, PlanOK
          <5>4. QED
            BY <5>3 DEF EntityRef
        <4>2. QED
          BY <4>1
      <3>5. StepInvalidates(j, step) \in {own, own \cup related}
        BY StepInvalidatesParts
      <3> HIDE DEF own, related, step
      <3>6. StepInvalidates(j, step) \subseteq EntityID
        BY <3>3, <3>4, <3>5
      <3>7. QED
        BY <3>6 DEF step
    <2>2. QED
      BY <2>1 DEF Invalidated
  <1>4. /\ r.pc = "done" /\ r.cleared = cleared /\ r.next = j.next
        /\ DOMAIN r = DOMAIN IdleJob
        /\ \A f \in DOMAIN IdleJob \ {"pc", "next", "cleared"} : r[f] = j[f]
    BY <1>2 DEF IdleJob
  <1> HIDE DEF r
  <1>5. r.cleared \subseteq EntityID /\ j.touched \subseteq r.cleared /\ r.next \in Nat \ {0}
    BY <1>2, <1>3, <1>4
  <1>6. QED
    BY <1>1, <1>4, <1>5, LaterQuietPreserves

-----------------------------------------------------------------------------
(* The rest of the server *)

\* A step of no ingest while the connection is idle.
LEMMA EditPreserves ==
    ASSUME IngestInv, NEW q \in Request \ Ingester, Edit(q)
    PROVE  IngestInv'
  <1>1. tx = None /\ job' = job /\ edits' = edits + 1 /\ edits < MaxEdits /\ Statement(q)
    <2>1. tx = None /\ job' = job /\ edits' = edits + 1 /\ edits < MaxEdits
      BY ZenonT(30) DEF Edit
    <2>2. ASSUME NEW m \in MemoryID, NEW content \in Content, NEW confidence \in Confidence,
                 NEW expires \in Time \cup {None}, HasMemory(db, m),
                 UpdateMemory(q, m, content, confidence, db.memories[m].source_id, expires)
          PROVE  Statement(q)
      <3>1. db.memories[m] \in MemoryRow
        BY <2>2 DEF IngestInv, Inv, TypeOK, Database, HasMemory
      <3>2. db.memories[m].source_id \in SourceID \cup {None}
        BY <3>1 DEF MemoryRow
      <3>3. QED
        BY <2>2, <3>2 DEF Statement
    <2>3. ASSUME NEW row \in ClientMemories, CreateMemory(q, row)
          PROVE  Statement(q)
      BY <2>3, IngestAssumption DEF Statement
    <2>4. Statement(q)
      <3>1. ASSUME NEW e \in EntityID, DeleteEntity(q, e)
            PROVE  Statement(q)
        BY <3>1 DEF Statement
      <3>2. ASSUME NEW m \in MemoryID, DeleteMemory(q, m)
            PROVE  Statement(q)
        BY <3>2 DEF Statement
      <3>3. ASSUME NEW row \in RelationshipRow, CreateRelationship(q, row)
            PROVE  Statement(q)
        BY <3>3 DEF Statement
      <3>4. ASSUME NEW r \in RelationshipID, DeleteRelationship(q, r)
            PROVE  Statement(q)
        BY <3>4 DEF Statement
      <3>5. ASSUME NEW row \in EntityRow, CreateEntity(q, row)
            PROVE  Statement(q)
        BY <3>5 DEF Statement
      <3>6. ASSUME NEW e \in EntityID, NEW row \in EntityRow, UpdateEntity(q, e, row)
            PROVE  Statement(q)
        BY <3>6 DEF Statement
      <3>7. QED
        BY <2>2, <2>3, <3>1, <3>2, <3>3, <3>4, <3>5, <3>6, ZenonT(60) DEF Edit
    <2>5. QED
      BY <2>1, <2>4
  <1>2. PICK d \in Database : Sound(View(q), d) /\ Write(q, d)
    BY <1>1, StatementSound DEF IngestInv
  <1>3. tx' = None /\ db' = d /\ db \in Database /\ Evolves(db, d)
    BY <1>1, <1>2 DEF Write, Owns, View, Sound, IngestInv, Inv, TypeOK
  <1>4. Inv'
    <2>1. Next
      BY <1>1 DEF Next
    <2>2. QED
      BY <2>1, NextPreserves DEF IngestInv
  <1>5. edits' \in 0..MaxEdits
    BY <1>1, IngestAssumption DEF IngestInv
  <1>6. ASSUME NEW v \in Ingester
        PROVE  /\ JobOK(job'[v])
               /\ Shelved(job'[v], db')
               /\ Owned(job'[v], View(v)')
               /\ Owns(v)' => Covered(job'[v], tx')
    <2>1. job'[v] = job[v] /\ JobOK(job[v]) /\ Typed(job[v]) /\ Shelved(job[v], db)
      BY <1>1 DEF IngestInv, JobOK
    <2>2. ~Owns(v) /\ ~Owns(v)' /\ View(v) = db /\ View(v)' = d
      BY <1>1, <1>3 DEF Owns, View
    <2>3. Owned(job[v], db)
      BY <2>2 DEF IngestInv
    <2>4. Shelved(job[v], d) /\ Owned(job[v], d)
      BY <1>3, <2>1, <2>3, ShelvedEvolves, OwnedEvolves
    <2>5. QED
      BY <1>3, <2>1, <2>2, <2>4
  <1>7. TxBelongsToCommit'
    BY <1>1, <1>3 DEF IngestInv, TxBelongsToCommit, Owns
  <1>8. QED
    BY <1>1, <1>4, <1>5, <1>6, <1>7 DEF IngestInv

LEMMA ServerStopsPreserves ==
    ASSUME IngestInv, ServerStops
    PROVE  IngestInv'
  <1>1. /\ tx' = None /\ db' = db /\ edits' = edits
        /\ job' = [w \in Ingester |->
                     IF job[w].pc \in {"idle", "done", "failed", "lost"} THEN job[w]
                     ELSE [IdleJob EXCEPT !.pc = "lost"]]
    BY DEF ServerStops
  <1>2. Inv'
    <2>1. [Next]_vars
      <3>1. CASE tx = None
        BY <1>1, <3>1 DEF vars
      <3>2. CASE tx # None
        BY <1>1, <3>2 DEF Next, Crash
      <3>3. QED
        BY <3>1, <3>2
    <2>2. QED
      BY <2>1, NextPreserves DEF IngestInv
  <1>3. \A v \in Ingester : ~Owns(v)' /\ View(v)' = db
    BY <1>1 DEF Owns, View
  <1>4. ASSUME NEW v \in Ingester
        PROVE  /\ JobOK(job'[v]) /\ Shelved(job'[v], db) /\ Owned(job'[v], db)
               /\ job'[v].pc \notin Committing
    <2>1. CASE job[v].pc \in {"idle", "done", "failed", "lost"}
      <3>1. job'[v] = job[v] /\ job[v].pc \notin Committing
        BY <1>1, <2>1 DEF Committing
      <3>2. QED
        BY <3>1, QuietFacts
    <2>2. CASE job[v].pc \notin {"idle", "done", "failed", "lost"}
      <3> DEFINE r == [IdleJob EXCEPT !.pc = "lost"]
      <3>1. job'[v] = r
        BY <1>1, <2>2
      <3>2. /\ DOMAIN r = DOMAIN IdleJob /\ r.pc = "lost" /\ r.subject = None
            /\ \A f \in DOMAIN IdleJob \ {"pc"} : r[f] = IdleJob[f]
        BY DEF IdleJob
      <3> HIDE DEF r
      <3>3. JobOK(r) /\ Shelved(r, db) /\ Owned(r, db)
        BY <3>2, BlankJobOK DEF BlankStages
      <3>4. QED
        BY <3>1, <3>2, <3>3 DEF Committing
    <2>3. QED
      BY <2>1, <2>2
  <1>5. TxBelongsToCommit'
    BY <1>1, <1>3, <1>4 DEF TxBelongsToCommit, Committing
  <1>6. job' = [w \in Ingester |-> job'[w]]
    BY <1>1
  <1>7. QED
    BY <1>1, <1>2, <1>3, <1>4, <1>5, <1>6 DEF IngestInv

-----------------------------------------------------------------------------
(* The state machine *)

LEMMA IngestInitHolds == IngestInit => IngestInv
  <1> SUFFICES ASSUME IngestInit
               PROVE  IngestInv
    OBVIOUS
  <1>1. db \in Database /\ Good(db)
    BY InitialAssumption DEF IngestInit, Consistent, Good
  <1>2. tx = None /\ edits = 0 /\ job = [w \in Ingester |-> IdleJob]
    BY DEF IngestInit
  <1>3. IdleJob.pc = "idle" /\ IdleJob.subject = None
    BY DEF IdleJob
  <1>4. JobOK(IdleJob) /\ Shelved(IdleJob, db) /\ Owned(IdleJob, db)
    BY <1>3, BlankJobOK DEF BlankStages
  <1>5. \A w \in Ingester : ~Owns(w) /\ View(w) = db
    BY <1>2 DEF Owns, View
  <1>6. TxBelongsToCommit
    BY <1>2, <1>3, <1>5 DEF TxBelongsToCommit
  <1>7. Inv
    BY <1>1, <1>2 DEF Inv, TypeOK
  <1>8. edits \in 0..MaxEdits
    BY <1>2, IngestAssumption
  <1>9. QED
    BY <1>2, <1>4, <1>5, <1>6, <1>7, <1>8 DEF IngestInv

\* Whatever an ingest, another client or the end of the process does.
LEMMA IngestNextPreserves ==
    ASSUME IngestInv, [IngestNext]_ingestVars
    PROVE  IngestInv'
  <1>1. ASSUME NEW w \in Ingester, Receive(w)
        PROVE  IngestInv'
    BY <1>1, ReceivePreserves
  <1>2. ASSUME NEW w \in Ingester, Proceed(w)
        PROVE  IngestInv'
    BY <1>2, ResolveExplicitSubjectPreserves, ExtractPreserves,
       ResolveCandidateSubjectPreserves, ResolveRelatedEntityPreserves, ResolveMemoryPreserves,
       QueueRelationshipsPreserves, BeginIngestTxPreserves, CreatePlannedEntityPreserves,
       CreatePlannedRelationshipPreserves, ExecutePlannedMemoryPreserves,
       CommitIngestTxPreserves, RecordIngestSourcePreserves, BackfillSourcePreserves,
       InvalidateContextsPreserves
       DEF Proceed
  <1>3. ASSUME NEW w \in Ingester, PlanningFails(w)
        PROVE  IngestInv'
    BY <1>3, PlanningFailsPreserves
  <1>4. ASSUME NEW w \in Ingester, CommitFails(w)
        PROVE  IngestInv'
    BY <1>4, CommitFailsPreserves
  <1>5. ASSUME NEW q \in Request \ Ingester, Edit(q)
        PROVE  IngestInv'
    BY <1>5, EditPreserves
  <1>6. CASE ServerStops
    BY <1>6, ServerStopsPreserves
  <1>7. CASE TimePasses \/ UNCHANGED ingestVars
    <2>1. db' = db /\ tx' = tx /\ job' = job /\ edits' = edits
      BY <1>7 DEF TimePasses, ingestVars
    <2>2. QED
      BY <2>1 DEF IngestInv, Inv, TypeOK, TxBelongsToCommit, Owns, View
  <1>8. QED
    BY <1>1, <1>2, <1>3, <1>4, <1>5, <1>6, <1>7 DEF IngestNext, ServerStep

\* Every reachable state of the pipeline satisfies the inductive invariant.
THEOREM IngestInvariantHolds == IngestSpec => []IngestInv
  <1>1. IngestInit => IngestInv
    BY IngestInitHolds
  <1>2. IngestInv /\ [IngestNext]_ingestVars => IngestInv'
    BY IngestNextPreserves
  <1>3. QED
    BY <1>1, <1>2, PTL DEF IngestSpec

Clocked == now \in Time \cup {0}

LEMMA ClockTyped == IngestSpec => []Clocked
  <1>1. IngestInit => Clocked
    BY DEF IngestInit, Clocked
  <1>2. Clocked /\ [IngestNext]_ingestVars => Clocked'
    BY DEF Clocked, IngestNext, TimePasses, ingestVars
  <1>3. QED
    BY <1>1, <1>2, PTL DEF IngestSpec

\* The locals of every ingest keep their types, for every list of candidates.
THEOREM IngestTypeCorrect == IngestSpec => []IngestTypeOK
  <1>1. IngestInv /\ Clocked => IngestTypeOK
    <2> SUFFICES ASSUME IngestInv, Clocked
                 PROVE  IngestTypeOK
      OBVIOUS
    <2>1. ASSUME NEW w \in Ingester
          PROVE  /\ job[w].pc \in Stages
                 /\ job[w].subject \in Subjects \cup {None}
                 /\ \A k \in Key : job[w].refs[k] \in EntityRef \cup {None}
                 /\ job[w].edges \cup job[w].made \subseteq Edge
                 /\ job[w].source \in SourceID \cup {None}
                 /\ job[w].touched \cup job[w].cleared \subseteq EntityID
                 /\ \A n \in DOMAIN job[w].steps : job[w].steps[n].action \in Action
      <3>1. Typed(job[w])
        BY DEF IngestInv, JobOK
      <3>2. \A n \in DOMAIN job[w].steps : job[w].steps[n].action \in Action
        <4>1. \A n \in DOMAIN job[w].steps : job[w].steps[n] \in PlannedStep
          BY <3>1 DEF Typed
        <4>2. QED
          BY <4>1 DEF PlannedStep
      <3>3. \A k \in Key : job[w].refs[k] \in EntityRef \cup {None}
        BY <3>1 DEF Typed
      <3>4. QED
        BY <3>1, <3>2, <3>3 DEF Typed
    <2>2. TypeOK /\ edits \in 0..MaxEdits
      BY DEF IngestInv, Inv
    <2>3. QED
      BY <2>1, <2>2 DEF IngestTypeOK, Clocked
  <1>2. QED
    BY <1>1, IngestInvariantHolds, ClockTyped, PTL

\* A transaction is open exactly while the ingest that opened it is in its
\* commit phase, whatever errors, conflicts and crashes end it.
THEOREM TransactionsAreScoped == IngestSpec => []TxBelongsToCommit
  <1>1. IngestInv => TxBelongsToCommit
    BY DEF IngestInv
  <1>2. QED
    BY <1>1, IngestInvariantHolds, PTL

\* A planned update can only meet a memory of its own subject and category,
\* however long ago and from however stale a read it was planned.
THEOREM UpdatesKeepTheirSubject == IngestSpec => []UpdatesStayWithSubject
  <1>1. IngestInv => UpdatesStayWithSubject
    BY DEF IngestInv, Shelved, Shelf, UpdatesStayWithSubject
  <1>2. QED
    BY <1>1, IngestInvariantHolds, PTL

\* An answered ingest has invalidated every cached context its writes made
\* stale, for every plan and every interleaving with other writers.
THEOREM WritesAreInvalidated == IngestSpec => []InvalidationCoversWrites
  <1>1. IngestInv => InvalidationCoversWrites
    BY DEF IngestInv, JobOK, TouchedOK, InvalidationCoversWrites
  <1>2. QED
    BY <1>1, IngestInvariantHolds, PTL

\* The pipeline leaves the store consistent, inside its transactions too.
THEOREM IngestKeepsStoreConsistent == IngestSpec => []StoreConsistent
  <1>1. IngestInv => StoreConsistent
    BY DEF IngestInv, Inv, Good, StoreConsistent, Consistent
  <1>2. QED
    BY <1>1, IngestInvariantHolds, PTL
=============================================================================

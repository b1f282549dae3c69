------------------------------ MODULE MCIngest ------------------------------
(***************************************************************************)
(* Small instances of Ingest: alice is stored with one memory, bob may or  *)
(* may not be, and every extraction is about alice.                        *)
(***************************************************************************)
EXTENDS Ingest, TLC

CONSTANTS alice, bob, c1, c2, c3, fact, preference, relationship, knows, related_to

MCName == {alice, bob}
MCContent == {c1, c2, c3}
MCKeyOf == [n \in MCName |-> n]
MCTrimOf == [n \in MCName |-> n]

\* c1 and c2 are similar but materially different; c3 is like neither.
MCScore == [p \in Content \X Content |->
    IF p[1] = p[2] THEN 100 ELSE IF c3 \in {p[1], p[2]} THEN 30 ELSE 90]

Says(content, category, confidence) ==
    [valid |-> TRUE, subject |-> alice, related |-> <<>>, reltype |-> None,
     category |-> category, content |-> content, confidence |-> confidence]

Links(content, category, reltype) ==
    [valid |-> TRUE, subject |-> alice, related |-> <<bob>>, reltype |-> reltype,
     category |-> category, content |-> content, confidence |-> 1]

GraphExtractions ==
    {<<>>, <<Links(c2, relationship, None)>>, <<[Links(c3, fact, None) EXCEPT !.subject = None]>>,
     <<Says(c2, fact, 2), Links(c3, fact, knows)>>,
     <<Says(c2, fact, 2), [Says(c3, fact, 1) EXCEPT !.valid = FALSE]>>,
     <<Says(c1, fact, 1), Says(c2, fact, 1), Says(c3, fact, 1)>>}

\* The first says what alice's memory does, twice: of a list that repeats itself
\* both entries are stored, once that memory has expired.
RetryExtractions ==
    {<<Says(c1, fact, 1), Says(c1, fact, 1)>>, <<Says(c1, fact, 1), Says(c1, preference, 1)>>}

\* Both candidates of the list are more confident than what is stored.
TwiceExtractions == {<<Says(c2, fact, 3), Says(c1, fact, 2)>>}

\* An update that also links two entities, and one of another category.
PairExtractions ==
    {<<[Links(c2, fact, knows) EXCEPT !.confidence = 2]>>, <<Says(c2, preference, 2)>>}

SameExtractions == {<<Says(c3, fact, 1)>>}

NamedRow(name) == [name |-> name, external_id |-> None]

MemoryOfAlice(category) ==
    [entity_id |-> 1, category |-> category, content |-> c1, confidence |-> 1,
     source_id |-> None, expires_at |-> None]

JustAlice(row) == InsertMemory(InsertEntity(EmptyDatabase, NamedRow(alice)), row)

AliceAndBob(row) == InsertEntity(JustAlice(row), NamedRow(bob))

FactDatabases == {AliceAndBob(MemoryOfAlice(fact))}

\* In one of these what alice is known for expires when the clock first moves.
RetryDatabases ==
    {EmptyDatabase, JustAlice([MemoryOfAlice(fact) EXCEPT !.expires_at = 1])}
SerialExtractions == GraphExtractions \cup RetryExtractions

\* The instances are what NoDuplicateEntities asks for.
ASSUME InstanceAssumption == NamesAreClean

\* A client stores for alice what she is already known for, or once was.
AliceMemories == {MemoryOfAlice(fact)}

\* The instance of SerialSpec that is explored: once another client has edited
\* the store no further ingest begins, and once a second has begun none edits.
Begun == {w \in Ingester : job[w].pc # "idle"}

SmallSerialStep ==
    /\ UNCHANGED now
    /\ Cardinality(Begun) > 1 => edits' = edits
    /\ SerialNext
    /\ edits' > 0 => Cardinality(Begun') <= 1

SmallSerialNext == SmallSerialStep \/ TimePasses

SmallSerialSpec == IngestInit /\ [][SmallSerialNext]_ingestVars

IngesterSymmetry == Permutations(Ingester)
=============================================================================

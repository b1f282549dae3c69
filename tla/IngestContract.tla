--------------------------- MODULE IngestContract ---------------------------
(***************************************************************************)
(* What the ingest pipeline promises its caller (SPEC 6.4, 11.4, 14.2): a  *)
(* request that is not a dry run takes effect in one step, in which every  *)
(* planned entity, edge and memory appears and nothing else changes, or it *)
(* takes no effect at all; after that step it only annotates the memories  *)
(* it wrote with their source.  Edits by other clients happen in between.  *)
(***************************************************************************)
EXTENDS Tables, Sequences, FiniteSets

CONSTANT Ingester

VARIABLES
    db,         \* the committed database
    edits,      \* how many edits other clients have made
    outcome     \* what became of each ingest

contractVars == <<db, edits, outcome>>

\* writes is what the request says it did: the memory of each candidate, None
\* for one that needed no write, and the row a created one was given.
Open == [state |-> "open"]
Closed == [state |-> "closed"]
Previewed == [state |-> "preview"]

ContractInit ==
    /\ db \in Database
    /\ edits = 0
    /\ outcome \in [Ingester -> {Open}]

-----------------------------------------------------------------------------
(* The effect of a commit *)

Written(o, action) == {n \in DOMAIN o.writes : o.writes[n].action = action}

WrittenIDs(o, action) == {o.writes[n].memory : n \in Written(o, action)}

\* The last candidate that updates m decides its content.
LastUpdate(o, m) ==
    CHOOSE n \in Written(o, "update") :
        /\ o.writes[n].memory = m
        /\ \A k \in Written(o, "update") : o.writes[k].memory = m => k <= n

MemoriesApplied(o, d1, d2) ==
    /\ Cardinality(WrittenIDs(o, "create")) = Cardinality(Written(o, "create"))
    /\ \A n \in Written(o, "create") :
          /\ ~HasMemory(d1, o.writes[n].memory)
          /\ d2.memories[o.writes[n].memory] = o.writes[n].row
    /\ \A m \in WrittenIDs(o, "update") :
          /\ HasMemory(d1, m)
          /\ d2.memories[m] =
               [d1.memories[m] EXCEPT !.content = o.writes[LastUpdate(o, m)].row.content,
                                      !.confidence = o.writes[LastUpdate(o, m)].row.confidence]
    /\ \A m \in MemoryID \ (WrittenIDs(o, "create") \cup WrittenIDs(o, "update")) :
          d2.memories[m] = d1.memories[m]

GraphApplied(o, d1, d2) ==
    /\ {e \in EntityID : d2.entities[e] # d1.entities[e]} = o.entities
    /\ \A e \in o.entities : ~HasEntity(d1, e) /\ HasEntity(d2, e)
    /\ {d2.relationships[r] : r \in {x \in RelationshipID :
            d2.relationships[x] # d1.relationships[x]}} = o.edges
    /\ \A row \in o.edges : ~RelationshipExists(d1, row.from, row.to, row.type)

Applied(o, d1, d2) ==
    /\ MemoriesApplied(o, d1, d2)
    /\ GraphApplied(o, d1, d2)
    /\ d2.ingest_sources = d1.ingest_sources

\* The audit stage adds source rows and source ids, and changes no content.
OnlyAudit(o, d1, d2) ==
    /\ d2.entities = d1.entities
    /\ d2.relationships = d1.relationships
    /\ \A m \in MemoryID : d2.memories[m] # d1.memories[m] =>
          /\ m \in WrittenIDs(o, "create") \cup WrittenIDs(o, "update")
          /\ HasMemory(d1, m) /\ HasMemory(d2, m)
          /\ d2.memories[m] = [d1.memories[m] EXCEPT !.source_id = d2.memories[m].source_id]

-----------------------------------------------------------------------------

\* Every ingest but w is where it was.
OthersWait(w) == \A v \in Ingester \ {w} : outcome'[v] = outcome[v]

StartPreview(w) ==
    /\ outcome[w] = Open
    /\ outcome'[w] = Previewed
    /\ OthersWait(w)
    /\ UNCHANGED <<db, edits>>

TakeEffect(w) ==
    /\ outcome[w] = Open
    /\ outcome'[w].state = "committed"
    /\ Applied(outcome'[w], db, db')
    /\ OthersWait(w)
    /\ UNCHANGED edits

Annotate(w) ==
    /\ outcome[w].state = "committed"
    /\ OnlyAudit(outcome[w], db, db')
    /\ UNCHANGED <<edits, outcome>>

\* The request is answered, refused or lost.
Finish(w) ==
    /\ outcome[w] # Closed
    /\ outcome'[w] = Closed
    /\ OthersWait(w)
    /\ UNCHANGED <<db, edits>>

AllLost ==
    /\ \A w \in Ingester : outcome'[w] \in {outcome[w], Closed}
    /\ UNCHANGED <<db, edits>>

EditByOthers ==
    /\ edits' = edits + 1
    /\ UNCHANGED outcome

ContractNext ==
    \/ EditByOthers
    \/ AllLost
    \/ \E w \in Ingester : StartPreview(w) \/ TakeEffect(w) \/ Annotate(w) \/ Finish(w)

ContractSpec == ContractInit /\ [][ContractNext]_contractVars
=============================================================================

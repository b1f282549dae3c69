----------------------------- MODULE Traversal -----------------------------
(***************************************************************************)
(* Store.FindPath and Store.GetEntityContext.  On the SQL backends both    *)
(* are breadth-first walks over the relationships, one query per expanded  *)
(* entity and one per row of the answer; on AGE one cypher query finds the *)
(* ids, and the rows are looked up in the tables, which the graph mirrors. *)
(* No transaction holds either together: other requests delete entities    *)
(* and create or delete relationships between the queries.  The pages of   *)
(* 500 rows a query may take are one read here.                            *)
(* A relationship is its pair of ends: parallel ones of other types add    *)
(* nothing to a walk.                                                      *)
(***************************************************************************)
EXTENDS Naturals, FiniteSets, Sequences, SequencesExt

CONSTANTS
    Entity,         \* entity ids
    Backends,       \* "sql" and "age", or one of them
    InitialGraphs,  \* the sets of relationships the store may hold at first
    PathDepth,      \* the values of max_depth callers give
    ContextDepth,   \* the values of depth callers give
    MaxEdits,       \* bound on the edits of other requests
    None            \* Go nil

Edge == Entity \X Entity

ASSUME TraversalAssumption ==
    /\ IsFiniteSet(Entity)
    /\ Backends \subseteq {"sql", "age"}
    /\ InitialGraphs \subseteq SUBSET Edge
    /\ PathDepth \subseteq 1..6
    /\ ContextDepth \subseteq 0..3
    /\ MaxEdits \in Nat
    /\ None \notin Entity \cup Edge

VARIABLES
    entities,       \* the rows of entities
    edges,          \* the rows of relationships
    edits,          \* how many edits other requests have made
    walk            \* the state of the traversal

traversalVars == <<entities, edges, edits, walk>>

IdleWalk ==
    [pc |-> "idle", backend |-> None, from |-> None, to |-> None, limit |-> 0, queue |-> <<>>,
     visited |-> {}, depths |-> [e \in Entity |-> 0], prev |-> [e \in Entity |-> None],
     chain |-> <<>>, path |-> <<>>, hop |-> 0, frontier |-> <<>>, next |-> <<>>,
     current |-> None, todo |-> {}, expanded |-> {}, resolved |-> {},
     began |-> {}, lost |-> FALSE]

TraversalInit ==
    /\ entities = Entity
    /\ edges \in InitialGraphs
    /\ edits = 0
    /\ walk = IdleWalk

Walk(w) ==
    /\ walk' = w
    /\ UNCHANGED <<entities, edges, edits>>

NotFound(w) == [w EXCEPT !.pc = "not_found"]

\* A walk begins.  began and lost are history: the relationships there were,
\* and whether other requests have deleted anything since.
NewWalk(backend, from, limit) ==
    [IdleWalk EXCEPT !.backend = backend, !.from = from, !.limit = limit, !.began = edges]

-----------------------------------------------------------------------------
(* FindPath *)

StartPath ==
    /\ walk.pc = "idle"
    /\ \E backend \in Backends, from, to \in Entity, limit \in PathDepth :
          Walk(IF from = to
               THEN [NewWalk(backend, from, limit) EXCEPT !.pc = "build", !.to = to,
                        !.chain = <<[entity |-> from, relationship |-> None]>>]
               ELSE IF backend = "sql"
               THEN [NewWalk(backend, from, limit) EXCEPT !.pc = "search", !.to = to,
                        !.queue = <<from>>, !.visited = {from}]
               ELSE [NewWalk(backend, from, limit) EXCEPT !.pc = "query", !.to = to])

\* Mutant: relationships are followed in both directions.
OutgoingEitherWay(e) == {x \in Entity : {<<e, x>>, <<x, e>>} \cap edges # {}}

\* Mutant: relationships are followed backwards.
OutgoingReversed(e) == {x \in Entity : <<x, e>> \in edges}

Outgoing(e) == {to \in Entity : <<e, to>> \in edges}

\* The head of the queue is too deep to expand.
SkipDeep ==
    /\ walk.pc = "search"
    /\ walk.queue # <<>>
    /\ walk.depths[Head(walk.queue)] >= walk.limit
    /\ Walk([walk EXCEPT !.queue = Tail(@)])

\* Walk back from the target, whose entry carries no relationship; every other
\* entry carries the relationship that leaves it.
Chain(prev, from, to) ==
    LET back[n \in 0..Cardinality(Entity)] ==
            IF n = 0 THEN to
            ELSE IF back[n-1] \in {from, None} THEN None ELSE prev[back[n-1]]
        length == CHOOSE n \in DOMAIN back : back[n] = from
    IN [i \in 1..(length + 1) |->
           [entity |-> back[i-1],
            relationship |-> IF i = 1 THEN None ELSE <<back[i-1], back[i-2]>>]]

\* One query for the outgoing relationships of the head.  The loop over them
\* stops as soon as one reaches the target.
ExpandPath ==
    LET current == Head(walk.queue)
        new == Outgoing(current) \ walk.visited
    IN
    /\ walk.pc = "search"
    /\ walk.queue # <<>>
    /\ walk.depths[current] < walk.limit
    /\ \/ /\ walk.to \in new
          /\ Walk([walk EXCEPT !.pc = "build",
                 !.chain = Chain([walk.prev EXCEPT ![walk.to] = current], walk.from, walk.to)])
       \/ /\ walk.to \notin new
          /\ \E order \in SetToSeqs(new) :
                Walk([walk EXCEPT !.queue = Tail(@) \o order,
                    !.visited = @ \cup new,
                    !.depths = [e \in Entity |-> IF e \in new THEN @[current] + 1 ELSE @[e]],
                    !.prev = [e \in Entity |-> IF e \in new THEN current ELSE @[e]]])

NoPath ==
    /\ walk.pc = "search"
    /\ walk.queue = <<>>
    /\ Walk(NotFound(walk))

\* One iteration of buildPath's second loop, from the far end of the chain.
\* The entry the iteration starts with is answered without its relationship.
BuildNode ==
    LET i == Len(walk.chain) - Len(walk.path)
        node == walk.chain[i]
        relationship == IF i < Len(walk.chain) THEN node.relationship ELSE None
    IN
    /\ walk.pc = "build"
    /\ walk.backend = "sql" \/ walk.from = walk.to
    /\ \/ /\ node.entity \in entities
          /\ Walk([walk EXCEPT !.pc = IF i = 1 THEN "path" ELSE "build",
                               !.path = Append(@, [entity |-> node.entity,
                                                   relationship |-> relationship])])
       \/ /\ node.entity \notin entities
          /\ Walk(NotFound(walk))

\* The shortest directed paths from one entity to another, as the nodes they
\* pass; cypher's shortestPath answers any one of them.
ShortestPaths(from, to, limit) ==
    LET paths(n) == {p \in [1..(n+1) -> Entity] :
                        /\ p[1] = from /\ p[n+1] = to
                        /\ \A i \in 1..n : p[i+1] \in Outgoing(p[i])}
        lengths == {n \in 1..limit : paths(n) # {}}
    IN IF lengths = {} THEN {} ELSE paths(CHOOSE n \in lengths : \A m \in lengths : n <= m)

\* Mutant: a node is paired with the relationship that leaves it.
PathRowsLeaving(p) ==
    [i \in DOMAIN p |-> [entity |-> p[i],
                         relationship |-> IF i = Len(p) THEN None ELSE <<p[i], p[i+1]>>]]

\* relationships(p)[idx - 1]: the one that reaches the node.
PathRows(p) ==
    [i \in DOMAIN p |-> [entity |-> p[i],
                         relationship |-> IF i = 1 THEN None ELSE <<p[i-1], p[i]>>]]

\* The cypher query of the AGE backend.
QueryPath ==
    LET found == ShortestPaths(walk.from, walk.to, walk.limit) IN
    /\ walk.pc = "query"
    /\ \/ \E p \in found : Walk([walk EXCEPT !.pc = "build", !.chain = PathRows(p)])
       \/ found = {} /\ Walk(NotFound(walk))

\* One iteration over its rows: GetEntity, then GetRelationship, which a deleted
\* entity has taken with it.
LookUpNode ==
    LET row == walk.chain[Len(walk.path) + 1]
        found == row.entity \in entities /\ row.relationship \in edges \cup {None}
    IN
    /\ walk.pc = "build"
    /\ walk.backend = "age" /\ walk.from # walk.to
    /\ \/ /\ found
          /\ Walk([walk EXCEPT !.pc = IF Len(walk.path) + 1 = Len(walk.chain) THEN "path" ELSE @,
                               !.path = Append(@, row)])
       \/ ~found /\ Walk(NotFound(walk))

-----------------------------------------------------------------------------
(* GetEntityContext *)

StartContext ==
    /\ walk.pc = "idle"
    /\ \E backend \in Backends, root \in Entity, depth \in ContextDepth :
          LET new == NewWalk(backend, root, depth) IN
          Walk(IF root \notin entities THEN NotFound(new)
               ELSE IF backend = "sql"
               THEN [new EXCEPT !.pc = "hop", !.frontier = <<root>>, !.visited = {root}]
               ELSE [new EXCEPT !.pc = IF depth = 0 THEN "context" ELSE "match"])

\* The next iteration of the loop over hops, or its end.
NextHop ==
    /\ walk.pc = "hop"
    /\ Walk([walk EXCEPT !.pc = IF walk.hop < walk.limit THEN "frontier" ELSE "context",
                         !.hop = @ + 1])

\* Both directions, those an earlier entity of the walk had left out.
Incident(e) == {edge \in edges : e \in {edge[1], edge[2]}}

\* One query for the relationships of the next entity of the frontier.
ExpandContext ==
    /\ walk.pc = "frontier"
    /\ \/ /\ walk.frontier # <<>>
          /\ Walk([walk EXCEPT !.pc = "resolve", !.current = Head(walk.frontier),
                 !.frontier = Tail(@), !.todo = Incident(Head(walk.frontier)) \ walk.expanded,
                 !.expanded = @ \cup Incident(Head(walk.frontier))])
       \/ /\ walk.frontier = <<>>
          /\ Walk([walk EXCEPT !.pc = "hop", !.frontier = walk.next, !.next = <<>>])

\* Mutant: the remote entity is always the target of the relationship.
RemoteTarget(edge, current) == edge[2]

Remote(edge, current) == IF edge[2] = current THEN edge[1] ELSE edge[2]

\* One iteration over those relationships, or its end.
ResolveRelated ==
    /\ walk.pc = "resolve"
    /\ \/ /\ walk.todo = {}
          /\ Walk([walk EXCEPT !.pc = "frontier"])
       \/ \E edge \in walk.todo :
             LET related == Remote(edge, walk.current) IN
             \/ /\ related \in entities
                /\ Walk([walk EXCEPT !.todo = @ \ {edge},
                       !.resolved = @ \cup {[relationship |-> edge, related_entity |-> related]},
                       !.visited = @ \cup {related},
                       !.next = IF related \in walk.visited THEN @ ELSE Append(@, related)])
             \/ /\ related \notin entities
                /\ Walk(NotFound(walk))

\* The cypher query: the relationships of all paths of up to depth
\* relationships from the root, in either direction.
MatchContext ==
    LET around(found) == found \cup UNION {{e[1], e[2]} : e \in UNION {Incident(x) : x \in found}}
        ball[n \in Nat] == IF n = 0 THEN {walk.from} ELSE around(ball[n-1])
    IN
    /\ walk.pc = "match"
    /\ Walk([walk EXCEPT !.pc = "lookup", !.todo = UNION {Incident(x) : x \in ball[walk.limit - 1]}])

\* Its rows: the related entity is the target, or the source of a relationship
\* that ends at the root.
LookUpRelated ==
    /\ walk.pc = "lookup"
    /\ \/ /\ walk.todo = {}
          /\ Walk([walk EXCEPT !.pc = "context"])
       \/ \E edge \in walk.todo :
             LET related == Remote(edge, walk.from) IN
             \/ /\ edge \in edges
                /\ Walk([walk EXCEPT !.todo = @ \ {edge},
                       !.resolved = @ \cup {[relationship |-> edge, related_entity |-> related]}])
             \/ /\ edge \notin edges
                /\ Walk(NotFound(walk))

-----------------------------------------------------------------------------
(* Other requests *)

MayEdit ==
    /\ edits < MaxEdits
    /\ walk.pc \notin {"path", "context", "not_found"}
    /\ edits' = edits + 1

Note == walk' = [walk EXCEPT !.lost = walk.pc # "idle"]

\* Mutant: relationships outlive their ends.
DeleteEntityOnly(e) ==
    /\ MayEdit
    /\ e \in entities
    /\ entities' = entities \ {e}
    /\ UNCHANGED edges
    /\ Note

DeleteEntity(e) ==
    /\ MayEdit
    /\ e \in entities
    /\ entities' = entities \ {e}
    /\ edges' = {edge \in edges : e \notin {edge[1], edge[2]}}
    /\ Note

CreateRelationship(edge) ==
    /\ MayEdit
    /\ {edge[1], edge[2]} \subseteq entities
    /\ edge \notin edges
    /\ edges' = edges \cup {edge}
    /\ UNCHANGED <<entities, walk>>

DeleteRelationship(edge) ==
    /\ MayEdit
    /\ edge \in edges
    /\ edges' = edges \ {edge}
    /\ UNCHANGED entities
    /\ Note

TraversalNext ==
    \/ StartPath \/ SkipDeep \/ ExpandPath \/ NoPath \/ BuildNode
    \/ QueryPath \/ LookUpNode \/ MatchContext \/ LookUpRelated
    \/ StartContext \/ NextHop \/ ExpandContext \/ ResolveRelated
    \/ \E e \in Entity : DeleteEntity(e)
    \/ \E edge \in Edge : CreateRelationship(edge) \/ DeleteRelationship(edge)

TraversalSpec == TraversalInit /\ [][TraversalNext]_traversalVars

-----------------------------------------------------------------------------
(* Reference definitions: the entities within n relationships of e,        *)
(* following them forwards, and in either direction.                       *)

ReachIn(graph, e, n) ==
    LET r[k \in 0..n] ==
        IF k = 0 THEN {e}
        ELSE r[k-1] \cup {x \in Entity : \E y \in r[k-1] : <<y, x>> \in graph}
    IN r[n]

Reach(e, n) == ReachIn(edges, e, n)

Ball(e, n) ==
    LET b[k \in 0..n] ==
        IF k = 0 THEN {e}
        ELSE b[k-1] \cup {x \in Entity : \E y \in b[k-1] : {<<x, y>>, <<y, x>>} \cap edges # {}}
    IN b[n]

-----------------------------------------------------------------------------
(* Properties *)

TraversalTypeOK ==
    /\ entities \subseteq Entity
    /\ edges \subseteq entities \X entities
    /\ edits \in 0..MaxEdits
    /\ walk.pc \in {"idle", "search", "query", "match", "lookup", "build", "path", "hop", "frontier", "resolve",
                    "context", "not_found"}
    /\ walk.visited \subseteq Entity
    /\ walk.expanded \subseteq Edge

\* On a store nobody edits, FindPath finds a target exactly when it is within
\* max_depth relationships, and what it answers is a shortest path: directed,
\* connected, and no longer than it must be.
PathIsShortest ==
    edits = 0 =>
       /\ walk.pc = "path" =>
             LET length == Len(walk.path) - 1 IN
             /\ walk.path[1].entity = walk.from
             /\ walk.path[length + 1].entity = walk.to
             /\ \A i \in 1..length : <<walk.path[i].entity, walk.path[i+1].entity>> \in edges
             /\ length <= walk.limit
             /\ \A n \in 0..(length - 1) : walk.to \notin Reach(walk.from, n)
       /\ walk.pc = "not_found" /\ walk.to # None => walk.to \notin Reach(walk.from, walk.limit)

\* On a store nobody edits, a context at depth n holds every relationship of
\* the entities less than n away, each once, with the entity at its far end; on
\* the SQL backends these are together all the entities within n relationships,
\* on AGE only for n = 1: farther out it shows the target of a relationship.
ContextIsBall ==
    edits = 0 /\ walk.pc = "context" =>
       LET inner == IF walk.limit = 0 THEN {} ELSE Ball(walk.from, walk.limit - 1) IN
       /\ {r.relationship : r \in walk.resolved} = UNION {Incident(e) : e \in inner}
       /\ Cardinality(walk.resolved) = Cardinality({r.relationship : r \in walk.resolved})
       /\ \A r \in walk.resolved : r.related_entity \in {r.relationship[1], r.relationship[2]}
       /\ walk.backend = "sql" \/ walk.limit <= 1 =>
             {walk.from} \cup {r.related_entity : r \in walk.resolved} = Ball(walk.from, walk.limit)

\* An answer fails only because of what was missing when the walk began or was
\* deleted while it ran: relationships created between two of its queries
\* neither hide a target that was within reach nor break a context.
FailureHasCause ==
    walk.pc = "not_found" /\ ~walk.lost =>
       \/ walk.from \notin entities
       \/ walk.to # None /\ walk.to \notin ReachIn(walk.began, walk.from, walk.limit)

\* If nothing was deleted meanwhile, an answered path stands in the store: each
\* hop is a relationship, there are no more of them than max_depth, and on AGE
\* each is shown by the node it reaches.  Relationships created between two
\* queries do not join halves of different walks.
AnsweredPathStands ==
    walk.pc = "path" /\ ~walk.lost =>
       /\ Len(walk.path) - 1 <= walk.limit
       /\ \A i \in 1..(Len(walk.path) - 1) :
             LET hop == <<walk.path[i].entity, walk.path[i+1].entity>> IN
             /\ hop \in edges
             /\ walk.backend = "age" => walk.path[i+1].relationship = hop

\* Every step of a path is carried by the node it leaves or the node it
\* reaches, as the response of the path endpoint shows them.
PathCarriesItsEdges ==
    walk.pc = "path" =>
       \A i \in 1..(Len(walk.path) - 1) :
          <<walk.path[i].entity, walk.path[i+1].entity>>
             \in {walk.path[i].relationship, walk.path[i+1].relationship}
=============================================================================

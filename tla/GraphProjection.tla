--------------------------- MODULE GraphProjection ---------------------------
(***************************************************************************)
(* The AGE store: every write is one transaction with a statement on the   *)
(* tables and cypher statements on a graph that mirrors them, and          *)
(* Reconcile, which a server runs when it starts, clears that graph and    *)
(* rebuilds it from pages of the tables with statements that each commit   *)
(* at once, while other servers go on writing.                             *)
(*                                                                         *)
(* Whose a memory is and which entities a relationship joins never change, *)
(* so a row is its id; of a vertex or an edge only its presence matters,   *)
(* since reads take from the graph nothing but ids and the immutable type. *)
(* Two MERGEs of one vertex at the same time are taken to make one vertex. *)
(***************************************************************************)
EXTENDS Integers, Sequences, FiniteSets, Functions, Process

CONSTANTS
    EntityID, MemoryID, RelationshipID,
    OwnerOf,        \* the entity of a memory
    EndsOf,         \* the two ends of a relationship
    PageSize,       \* the limit Reconcile lists with: 500
    MaxWrites,      \* bound on the transactions clients begin
    None, Spoiled   \* see rebuild

ID == EntityID \cup MemoryID \cup RelationshipID

ASSUME ProjectionAssumption ==
    /\ EntityID \cap (MemoryID \cup RelationshipID) = {} /\ MemoryID \cap RelationshipID = {}
    /\ OwnerOf \in [MemoryID -> EntityID]
    /\ EndsOf \in [RelationshipID -> EntityID \X EntityID]
    /\ PageSize \in Nat \ {0}
    /\ MaxWrites \in Nat
    /\ None \notin Server /\ Spoiled \notin Server \cup {None}

VARIABLES
    rows,       \* the ids in each table
    updatedAt,  \* of each id, when the transaction that wrote its row began: a
                \* table is listed newest first
    issued,     \* the ids handed out so far
    graph,      \* the ids that have a vertex or an edge
    writes,     \* how many transactions have begun
    begun,      \* the server of each that has written nothing yet, None elsewhere
    write,      \* those that have, None elsewhere
    scan,       \* the Reconcile of each server
    rebuild     \* history: None while the graph is known to be whole, else the
                \* server that cleared it last, or Spoiled when that server's
                \* listing missed something

projectionVars == <<rows, updatedAt, issued, graph, writes, begun, write, scan, rebuild>>

Kinds == <<"entities", "memories", "relationships">>

Table == Range(Kinds)

KindOf(id) ==
    IF id \in EntityID THEN "entities" ELSE IF id \in MemoryID THEN "memories" ELSE "relationships"

Exists(id) == id \in rows[KindOf(id)]

\* The entities a row refers to, an entity to itself.
Anchors(id) ==
    IF id \in EntityID THEN {id}
    ELSE IF id \in MemoryID THEN {OwnerOf[id]} ELSE {EndsOf[id][1], EndsOf[id][2]}

\* What syncEntity, syncMemory and syncRelationship merge into the graph.
Synced(id) == Anchors(id) \cup {id}

\* The rows that go with a row: ON DELETE CASCADE.
Cascade(id) == {x \in ID : id \in Synced(x)}

\* Mutant: the vertex is deleted, its edges are not.
DetachVertexOnly(id) == {id}

\* What deleteEntityNode, deleteMemoryNode and deleteRelationshipEdge match.
\* DETACH takes the edges of a vertex with it, but not the vertices of memories.
Detached(id) == {id} \cup (Cascade(id) \ MemoryID)

IdleScan == [pc |-> "idle", kind |-> 1, total |-> 0, listed |-> <<>>,
             deleted |-> FALSE, moved |-> FALSE]

ScanStages == {"idle", "clear", "count", "page", "sync", "done", "failed"}

-----------------------------------------------------------------------------
(* Writes: CreateEntity, UpdateEntity, ..., DeleteRelationship *)

\* Transactions are numbered in the order they begin.
Transaction == 1..MaxWrites

\* Those that hold locks.
Open == {n \in Transaction : write[n] # None}

\* Two statements that lock a common row; a foreign key shares its target.
Conflict(a, b) ==
    \/ a.id = b.id
    \/ a.op = "delete" /\ b.id \in Cascade(a.id)
    \/ b.op = "delete" /\ a.id \in Cascade(b.id)
    \/ a.op = "delete" /\ b.op = "delete" /\ Cascade(a.id) \cap Cascade(b.id) # {}

\* A Reconcile that has begun to read the tables.
Scanning(s) == scan[s].pc \in {"count", "page", "sync"}

Possible(op, id) ==
    \/ op = "create" /\ id \notin issued /\ \A e \in Anchors(id) \ {id} : Exists(e)
    \/ op = "update" /\ id \notin RelationshipID /\ Exists(id)
    \/ op = "delete" /\ Exists(id)

BeginTx(s) ==
    /\ writes < MaxWrites
    /\ writes' = writes + 1
    /\ begun' = [begun EXCEPT ![writes + 1] = s]
    /\ UNCHANGED <<rows, updatedAt, issued, graph, write, scan, rebuild>>

\* The statement on the table, once the locks it needs are free.
WriteRow(n, op, id) ==
    LET new == [pc |-> "graph", server |-> begun[n], op |-> op, id |-> id, add |-> {}, remove |-> {}] IN
    /\ begun[n] # None
    /\ Possible(op, id)
    /\ \A other \in Open : ~Conflict(new, write[other])
    /\ begun' = [begun EXCEPT ![n] = None]
    /\ write' = [write EXCEPT ![n] = new]
    /\ issued' = issued \cup {id}
    /\ scan' = [t \in Server |-> [scan[t] EXCEPT !.deleted = @ \/ (op = "delete" /\ Scanning(t))]]
    /\ UNCHANGED <<rows, updatedAt, graph, writes, rebuild>>

\* A vertex some open transaction has written: its row is locked.
Locked(ids, open) ==
    \E n \in open : (write[n].add \cup write[n].remove) \cap ids \cap graph # {}

\* The cypher statements of the transaction.
WriteGraph(n) ==
    LET w == write[n] IN
    /\ w # None
    /\ w.pc = "graph"
    /\ \/ /\ w.op = "delete"
          /\ ~Locked(Detached(w.id), Open \ {n})
          /\ write' = [write EXCEPT ![n].pc = "commit", ![n].remove = Detached(w.id) \cap graph]
       \/ /\ w.op # "delete"
          /\ ~Locked(Synced(w.id), Open \ {n})
          /\ write' = [write EXCEPT ![n].pc = "commit", ![n].add = Synced(w.id)]
    /\ UNCHANGED <<rows, updatedAt, issued, graph, writes, begun, scan, rebuild>>

\* NOW() is when the transaction began, so an update changes the order of its
\* table, and a row may commit behind one that is newer.  A relationship keeps
\* created_at, and is never updated.
CommitRow(n) ==
    LET w == write[n] IN
    \/ /\ w.op = "delete"
       /\ rows' = [kind \in Table |-> rows[kind] \ Cascade(w.id)]
       /\ UNCHANGED updatedAt
    \/ /\ w.op # "delete"
       /\ rows' = [rows EXCEPT ![KindOf(w.id)] = @ \cup {w.id}]
       /\ updatedAt' = [updatedAt EXCEPT ![w.id] = n]

\* An update that began before the last one of its row and waited for its lock
\* takes the row back in the order.
Overtaken(n) == write[n].op = "update" /\ updatedAt[write[n].id] > n

\* What moves the rows of a table under the page a Reconcile reads next.
Disturbs(n, r) ==
    /\ Kinds[r.kind] = KindOf(write[n].id)
    /\ \/ write[n].op = "create" /\ r.pc = "page"
       \/ Overtaken(n) /\ r.pc \in {"count", "page"} /\ r.listed # <<>>

CommitWrite(n) ==
    LET w == write[n] IN
    /\ w # None
    /\ w.pc = "commit"
    /\ CommitRow(n)
    /\ graph' = (graph \ w.remove) \cup w.add
    /\ write' = [write EXCEPT ![n] = None]
    /\ scan' = [s \in Server |-> [scan[s] EXCEPT !.moved = @ \/ Disturbs(n, scan[s])]]
    /\ UNCHANGED <<issued, writes, begun, rebuild>>

\* A statement or the commit fails: RunInTx rolls both back.
AbortWrite(n) ==
    /\ write[n] # None \/ begun[n] # None
    /\ write' = [write EXCEPT ![n] = None]
    /\ begun' = [begun EXCEPT ![n] = None]
    /\ UNCHANGED <<rows, updatedAt, issued, graph, writes, scan, rebuild>>

-----------------------------------------------------------------------------
(* Reconcile *)

\* Rows it has listed may be gone, or others may have slipped past its pages.
Stale(r) == r.deleted \/ r.moved

Scan(s, record) == scan' = [scan EXCEPT ![s] = record]

\* deleteAllGraph sees no vertex of an open transaction, and waits for those
\* that have written one it sees.
ClearGraph(s) ==
    /\ scan[s].pc = "clear"
    /\ ~Locked(ID, Open)
    /\ graph' = {}
    /\ Scan(s, [scan[s] EXCEPT !.pc = "count",
                               !.deleted = \E n \in Open : write[n].op = "delete"])
    /\ rebuild' = s
    /\ UNCHANGED <<rows, updatedAt, issued, writes, begun, write>>

\* A page is two queries: how many rows there are, then LIMIT and OFFSET.
CountRows(s) ==
    /\ scan[s].pc = "count"
    /\ Scan(s, [scan[s] EXCEPT !.pc = "page", !.total = Cardinality(rows[Kinds[scan[s].kind]])])
    /\ UNCHANGED <<rows, updatedAt, issued, graph, writes, begun, write, rebuild>>

\* How many rows of its table are listed before one.
Rank(kind, id) == Cardinality({x \in rows[kind] : updatedAt[x] > updatedAt[id]})

Page(kind, offset) ==
    LET left == Cardinality(rows[kind]) - offset IN
    [i \in 1..(IF left < PageSize THEN left ELSE PageSize) |->
        CHOOSE id \in rows[kind] : Rank(kind, id) = offset + i - 1]

\* Mutant: a full count is taken for more to come.
HasMoreAtEnd(listed, total) == Len(listed) <= total

HasMore(listed, total) == Len(listed) < total

ReadPage(s) ==
    LET r == scan[s]
        all == r.listed \o Page(Kinds[r.kind], Len(r.listed))
    IN
    /\ r.pc = "page"
    /\ Scan(s, [r EXCEPT !.listed = all, !.pc = IF HasMore(all, r.total) THEN "count" ELSE "sync"])
    /\ UNCHANGED <<rows, updatedAt, issued, graph, writes, begun, write, rebuild>>

\* The next listed row.  What may come between the lookups of the entities and
\* the cypher statements of one row may also come before them all.
SyncRow(s) ==
    LET r == scan[s]
        id == Head(r.listed)
    IN
    /\ r.pc = "sync"
    /\ r.listed # <<>>
    /\ \/ /\ id \in EntityID \/ \A e \in Anchors(id) : Exists(e)
          /\ ~Locked(Synced(id), Open)
          /\ graph' = graph \cup Synced(id)
          /\ Scan(s, [r EXCEPT !.listed = Tail(@)])
          /\ rebuild' = IF Stale(r) THEN Spoiled ELSE rebuild
       \/ /\ id \notin EntityID /\ \E e \in Anchors(id) : ~Exists(e)
          /\ Scan(s, [r EXCEPT !.pc = "failed"])
          /\ UNCHANGED <<graph, rebuild>>
    /\ UNCHANGED <<rows, updatedAt, issued, writes, begun, write>>

\* Every row of a table is synchronised: on to the next, or Reconcile returns.
EndTable(s) ==
    LET r == scan[s]
        last == r.kind = Len(Kinds)
    IN
    /\ r.pc = "sync"
    /\ r.listed = <<>>
    /\ Scan(s, [r EXCEPT !.pc = IF last THEN "done" ELSE "count",
                         !.kind = IF last THEN 1 ELSE @ + 1, !.total = 0])
    /\ rebuild' = IF Stale(r) THEN Spoiled ELSE IF last /\ rebuild = s THEN None ELSE rebuild
    /\ UNCHANGED <<rows, updatedAt, issued, graph, writes, begun, write>>

Reconcile(s) == ClearGraph(s) \/ CountRows(s) \/ ReadPage(s) \/ SyncRow(s) \/ EndTable(s)

-----------------------------------------------------------------------------
(* Properties *)

\* The graph is the tables' mirror whatever writes commit, fail or die half
\* way, and however updates reorder the pages Reconcile reads: every row has its
\* vertex or edge, and nothing else has one but memories deleted with their
\* entity.  Excepted is a graph some server has cleared and not yet rebuilt, or
\* has rebuilt while a row was deleted, created between the count and the rows
\* of a page, or taken back in the order by an update that waited: it is wrong
\* until the next start.
GraphMirrorsRows ==
    rebuild = None =>
        /\ graph \cap EntityID = rows["entities"]
        /\ graph \cap RelationshipID = rows["relationships"]
        /\ rows["memories"] \subseteq graph
        /\ \A m \in (graph \cap MemoryID) \ rows["memories"] : ~Exists(OwnerOf[m])
=============================================================================

---------------------------- MODULE ContextCache ----------------------------
(***************************************************************************)
(* Service.GetEntityContext and the Redis cache in front of it.  A reader  *)
(* asks the cache, reads the store on a miss or a cache error, and stores  *)
(* what it read.  A writer changes the store and then deletes the cached   *)
(* contexts of the entities it touched, at every depth.  Neither holds a   *)
(* lock: the steps of readers and writers interleave, and so do the expiry *)
(* of entries, cache failures and the loss of the server.                  *)
(* Rows are abstract: an entity row and an entity's set of memories are    *)
(* each a version number, and the traversal in the store is one read.      *)
(***************************************************************************)
EXTENDS Naturals

CONSTANTS
    Entity,         \* entity ids
    Depth,          \* the depths readers ask for
    Reader, Writer, \* requests in progress
    Absent,         \* no row, no cached value
    MaxWrites       \* bound on the writes to the store

ASSUME CacheAssumption ==
    /\ Depth \subseteq 0..3
    /\ MaxWrites \in Nat
    /\ Absent \notin [row : Nat, memories : Nat]

VARIABLES
    rows,       \* the version of each entity's row and of its memories, or Absent
    edges,      \* the relationships, each the set of its two ends
    writes,     \* how many writes the store has taken
    cached,     \* what Redis holds for each entity and depth
    reader,     \* each reader's stage, the key it reads and the value it loaded
    pending,    \* the entities each writer has yet to invalidate
    raced       \* history: the entities whose last write was not invalidated
                \* cleanly, because a fill straddled it, the deletion was lost
                \* or none was owed

cacheVars == <<rows, edges, writes, cached, reader, pending, raced>>

Key == Entity \X Depth

Pair == {{a, b} : a, b \in Entity}

-----------------------------------------------------------------------------
(* Contexts *)

Neighbours(e) == {n \in Entity : n # e /\ {e, n} \in edges}

Around(S) == S \cup UNION {Neighbours(x) : x \in S}

\* The entities whose relationships the traversal from e to a depth asks for.
Expanded(e, depth) ==
    CASE depth = 0 -> {}
      [] depth = 1 -> {e}
      [] depth = 2 -> Around({e})
      [] depth = 3 -> Around(Around({e}))

\* The entity's row and memories, every relationship within depth hops, and
\* the row of the entity at its other end.
Context(e, depth) ==
    LET shown == {edge \in edges : edge \cap Expanded(e, depth) # {}}
    IN [own |-> rows[e],
        relationships |-> {<<edge, {<<n, rows[n].row>> : n \in edge}>> : edge \in shown}]

EdgesOf(e) == {edge \in edges : e \in edge}

\* An answer: nothing, or a context.
Idle == [pc |-> "idle", key |-> Absent, value |-> Absent]

CacheInit ==
    /\ rows = [e \in Entity |-> [row |-> 0, memories |-> 0]]
    /\ edges = {}
    /\ writes = 0
    /\ cached = [k \in Key |-> Absent]
    /\ reader = [r \in Reader |-> Idle]
    /\ pending = [w \in Writer |-> {}]
    /\ raced = {}

-----------------------------------------------------------------------------
(* Readers *)

\* A hit is the answer.
Hit(r, k) ==
    /\ reader[r].pc = "idle"
    /\ cached[k] # Absent
    /\ UNCHANGED cacheVars

\* Nothing is cached, or the cache cannot be reached: fall through to the store.
Miss(r, k) ==
    /\ reader[r].pc = "idle"
    /\ reader' = [reader EXCEPT ![r] = [pc |-> "load", key |-> k, value |-> Absent]]
    /\ UNCHANGED <<rows, edges, writes, cached, pending, raced>>

\* An entity that does not exist is an error, and errors are not cached.
Load(r) ==
    LET k == reader[r].key IN
    /\ reader[r].pc = "load"
    /\ \/ /\ rows[k[1]] # Absent
          /\ reader' = [reader EXCEPT ![r] = [pc |-> "fill", key |-> k, value |-> Context(k[1], k[2])]]
       \/ /\ rows[k[1]] = Absent
          /\ reader' = [reader EXCEPT ![r] = Idle]
    /\ UNCHANGED <<rows, edges, writes, cached, pending, raced>>

Fill(r) ==
    /\ reader[r].pc = "fill"
    /\ cached' = [cached EXCEPT ![reader[r].key] = reader[r].value]
    /\ reader' = [reader EXCEPT ![r] = Idle]
    /\ UNCHANGED <<rows, edges, writes, pending, raced>>

\* The cache refuses the value: the caller gets it all the same.
FillFails(r) ==
    /\ reader[r].pc = "fill"
    /\ reader' = [reader EXCEPT ![r] = Idle]
    /\ UNCHANGED <<rows, edges, writes, cached, pending, raced>>

-----------------------------------------------------------------------------
(* Writers: one write to the store, then the invalidations it owes *)

\* Some reader has loaded a context of e and not stored it yet.
Filling(e) == \E r \in Reader : reader[r].pc = "fill" /\ reader[r].key[1] = e

\* What a write changes of an entity's own part of a context.
Changes(e) == rows'[e] # rows[e] \/ EdgesOf(e)' # EdgesOf(e)

\* A write owes the invalidation of some entities, and forgets others.
Owe(w, entities, forgotten) ==
    /\ writes < MaxWrites
    /\ pending[w] = {}
    /\ writes' = writes + 1
    /\ pending' = [pending EXCEPT ![w] = entities]
    /\ raced' = raced \cup forgotten \cup {e \in Entity : Changes(e) /\ Filling(e)}
    /\ UNCHANGED <<cached, reader>>

\* CreateMemory, UpdateMemory and DeleteMemory.
WriteMemory(w, e) ==
    /\ rows[e] # Absent
    /\ rows' = [rows EXCEPT ![e].memories = @ + 1]
    /\ UNCHANGED edges
    /\ Owe(w, {e}, {})

UpdateEntity(w, e) ==
    /\ rows[e] # Absent
    /\ rows' = [rows EXCEPT ![e].row = @ + 1]
    /\ UNCHANGED edges
    /\ Owe(w, {e}, {})

\* The cascade removes the relationships; only the entity itself is invalidated,
\* not those at their other ends.
DeleteEntity(w, e) ==
    /\ rows[e] # Absent
    /\ rows' = [rows EXCEPT ![e] = Absent]
    /\ edges' = {edge \in edges : e \notin edge}
    /\ Owe(w, {e}, Neighbours(e))

\* Mutant: the two ends are passed as one id.
CreateRelationshipOwingPair(w, pair) ==
    /\ pair \notin edges
    /\ \A e \in pair : rows[e] # Absent
    /\ edges' = edges \cup {pair}
    /\ UNCHANGED rows
    /\ Owe(w, {pair}, {})

\* Mutant: only one of the two ends is invalidated.
CreateRelationshipOwingOneEnd(w, pair) ==
    /\ pair \notin edges
    /\ \A e \in pair : rows[e] # Absent
    /\ edges' = edges \cup {pair}
    /\ UNCHANGED rows
    /\ \E e \in pair : Owe(w, {e}, {})

CreateRelationship(w, pair) ==
    /\ pair \notin edges
    /\ \A e \in pair : rows[e] # Absent
    /\ edges' = edges \cup {pair}
    /\ UNCHANGED rows
    /\ Owe(w, pair, {})

DeleteRelationship(w, pair) ==
    /\ pair \in edges
    /\ edges' = edges \ {pair}
    /\ UNCHANGED rows
    /\ Owe(w, pair, {})

\* The commit of an ingest: a memory of the subject and an edge to a related entity.
CommitIngest(w, subject, related) ==
    /\ rows[subject] # Absent
    /\ rows[related] # Absent
    /\ rows' = [rows EXCEPT ![subject].memories = @ + 1]
    /\ edges' = edges \cup {{subject, related}}
    /\ Owe(w, {subject, related}, {})

WriteStore(w) ==
    \/ \E e \in Entity : WriteMemory(w, e) \/ UpdateEntity(w, e) \/ DeleteEntity(w, e)
    \/ \E pair \in Pair : CreateRelationship(w, pair) \/ DeleteRelationship(w, pair)
    \/ \E s, r \in Entity : CommitIngest(w, s, r)

\* DeleteEntityContext deletes the keys of every depth in one command.
Invalidate(w, e) ==
    /\ e \in pending[w]
    /\ cached' = [k \in Key |-> IF k[1] = e THEN Absent ELSE cached[k]]
    /\ pending' = [pending EXCEPT ![w] = @ \ {e}]
    /\ raced' = IF Filling(e) THEN raced ELSE raced \ {e}
    /\ UNCHANGED <<rows, edges, writes, reader>>

-----------------------------------------------------------------------------
(* Redis, and faults *)

\* Mutant: values are stored without a time to live.
ExpireNever(k) == FALSE

\* Every value is stored with a time to live: the default is 300 seconds.  A
\* configured time of 0 means none, and then no value expires.
Expire(k) ==
    /\ cached[k] # Absent
    /\ cached' = [cached EXCEPT ![k] = Absent]
    /\ UNCHANGED <<rows, edges, writes, reader, pending, raced>>

\* The delete fails, its context is cancelled, or the read-back of the written
\* row fails and the method returns before it: the entry stays.
InvalidationLost(w, e) ==
    /\ e \in pending[w]
    /\ pending' = [pending EXCEPT ![w] = @ \ {e}]
    /\ raced' = raced \cup {e}
    /\ UNCHANGED <<rows, edges, writes, cached, reader>>

\* The server stops; Redis and the store keep what they have.
ServerStops ==
    /\ reader' = [r \in Reader |-> Idle]
    /\ pending' = [w \in Writer |-> {}]
    /\ raced' = raced \cup UNION {pending[w] : w \in Writer}
    /\ UNCHANGED <<rows, edges, writes, cached>>

-----------------------------------------------------------------------------

ReaderStep(r) == Load(r) \/ Fill(r) \/ FillFails(r)

\* Every interleaving of requests and expiry, no fault.
FaultlessNext ==
    \/ \E r \in Reader : ReaderStep(r) \/ \E k \in Key : Hit(r, k) \/ Miss(r, k)
    \/ \E w \in Writer : WriteStore(w) \/ \E e \in Entity : Invalidate(w, e)
    \/ \E k \in Key : Expire(k)

FaultlessSpec == CacheInit /\ [][FaultlessNext]_cacheVars

CacheNext ==
    \/ FaultlessNext
    \/ \E w \in Writer, e \in Entity : InvalidationLost(w, e)
    \/ ServerStops

CacheSafetySpec == CacheInit /\ [][CacheNext]_cacheVars

\* Requests finish and, with a time to live above 0, entries expire; no fault and
\* no write is owed.
CacheSpec ==
    /\ CacheSafetySpec
    /\ \A r \in Reader : WF_cacheVars(ReaderStep(r))
    /\ \A k \in Key : WF_cacheVars(Expire(k))

-----------------------------------------------------------------------------
(* Properties *)

CacheTypeOK ==
    /\ \A e \in Entity : rows[e] \in [row : 0..MaxWrites, memories : 0..MaxWrites] \cup {Absent}
    /\ edges \subseteq Pair
    /\ writes \in 0..MaxWrites
    /\ DOMAIN cached = Key
    /\ \A r \in Reader : reader[r].pc \in {"idle", "load", "fill"}
    /\ \A w \in Writer : pending[w] \subseteq Entity
    /\ raced \subseteq Entity

\* No writer owes an invalidation of e.
Settled(e) == \A w \in Writer : e \notin pending[w]

\* A cached context shows its entity's row and memories as they are.
OwnRowsFresh(k) == cached[k] # Absent => cached[k].own = rows[k[1]]

\* The relationships of its own entity that a context shows.
OwnEdges(k, context) == {x[1] : x \in {y \in context.relationships : k[1] \in y[1]}}

\* A context shows a version of its own entity: its row, its memories and, beyond
\* depth 0, its relationships.
Shows(k, context, version, related) ==
    /\ context.own = version
    /\ k[2] > 0 => OwnEdges(k, context) = related

\* It agrees with the store about it.
Agrees(k, context) == Shows(k, context, rows[k[1]], EdgesOf(k[1]))

\* Once a write to an entity has been answered, no cached context of it, at any
\* depth, shows an older row or older memories.
AnsweredWritesVisible == \A k \in Key : Settled(k[1]) => OwnRowsFresh(k)

\* A fill that straddles a write, a lost deletion and the deletion of an entity
\* at the other end of a relationship are the only ways to an older row, older
\* memories or older relationships of its entity in a cached context after the
\* write is answered, and the next clean invalidation repairs all three: each
\* method, those on relationships included, invalidates both ends of what it
\* changed, after the commit, at every depth.
OnlyRacesGoStale ==
    \A k \in Key : Settled(k[1]) /\ k[1] \notin raced /\ cached[k] # Absent => Agrees(k, cached[k])

\* A context is right about every row it shows.
Fresh(k) == cached[k] # Absent => cached[k] = Context(k[1], k[2])

\* Whatever was lost or raced, and although the neighbours of a changed or
\* deleted entity are never invalidated, expiry heals the cache if there is a time
\* to live: when writes stop, every cached context becomes right and stays so.
CacheHeals == <>[](\A k \in Key : Fresh(k))
=============================================================================

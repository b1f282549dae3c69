# Elephas in TLA+

A verification development of Elephas, the memory service of this repository:
TLA+ modules translated from the Go and SQL sources, TLC configurations that
check them on small instances, and TLAPS proofs, for every value of the
constants, of every safety property of the passing runs. `PROJECT.json` lists the
components, runs, mutants, findings, hazards and theorems, and maps every
definition to the lines it models. Paths below are relative to the repository.

## The system

| component | state | operations | depends on |
|---|---|---|---|
| schema (`internal/migrate/migrations/*/0001`) | tables `entities`, `memories`, `relationships`, `ingest_sources`, index `memories_fts` | SQL statements, cascades, triggers | – |
| SQL store (`internal/store/sqlstore`) | none of its own: a `sql.DB` or `sql.Tx` | the `Store` interface: CRUD, lookups, search, `GetEntityContext`, `FindPath`, `RunInTx` | schema, connection pool |
| connection pool (`store/sqlite`, `store/postgres`, `database/sql`) | open connections, waiting requests | take and release a connection | – |
| ingest pipeline (`service_ingest.go`) | per request: plan, entity refs, loaded memories | `Ingest` | store, extractor, resolution, cache |
| conflict resolution (`service_ingest.go`) | none | `resolveMemoryAction` | – |
| service CRUD and context cache (`service_crud.go`, `internal/cache/redis`) | cached entity contexts in Redis, by entity and depth | CRUD methods, `GetEntityContext`, invalidation | store, Redis |
| graph traversal (`sqlstore`, `store/age`) | per request: breadth-first frontier, or the rows of a cypher query | `GetEntityContext`, `FindPath` | store |
| AGE projection (`internal/store/age`) | a graph beside the tables | the `Store` interface, `Reconcile` | SQL store |
| migration runner (`internal/migrate`) | table `elephas_migrations`, the schema | `Run`, `Current` | database |
| server lifecycle (`cmd/elephas`) | where each process is between start and exit; in-flight requests | start, serve, signal, exit | migrations, projection, service |
| extractor client (`internal/extractor/openai`) | none | `Extract` | an external model |
| HTTP API, config, logging | none | decode, dispatch, encode | service |

A request is a goroutine. Its handler calls one `Service` method, which calls
the store, each statement taking a connection from the pool, and after a write
deletes cached contexts in Redis. Only the transaction of an ingest spans
several statements.

What makes it hard:

- **Planning is not in the transaction.** An ingest reads names, memories and
  relationships, asks an external model, decides, and only then begins a
  transaction. Other requests change the rows in between.
- **Partial failure.** A statement of the plan may fail, the audit and backfill
  run after the commit and may fail on their own, and the caller may repeat a
  request that did commit.
- **The cache has no lock and no version.** A read of the store and the write
  of what was read into Redis are two steps; so are a write and its
  invalidation, and either may be lost.
- **One connection.** The sqlite pool has one connection, so whatever nests
  statements, or forgets to end a transaction, stops the server.
- **Deletes cascade**, into memories, relationships, audit rows and the index.
- **Walks are not snapshots.** `GetEntityContext` and `FindPath` are many queries.
- **Several servers start on one database.** Whether a migration is missing is
  read before the transaction that applies it, and a start rebuilds the graph
  other servers are using, from pages of tables they are changing.
- **A signal does not wait.** `ListenAndServe` returns when `Shutdown` begins, so
  `main` returns with requests in flight.

Correctness, per component: the store never holds a row that names a missing
row, its index is exact, transactions lose no update, rows keep their identity,
the audit log only grows; an ingest is atomic, is always answered, writes only
about its subject, stores nothing beside an unexpired memory that says the same
and lowers no confidence; resolution
follows the order of SPEC 11; cached contexts are never older than an answered
write, or become right in time; requests never wait for each other for ever;
walks agree with their graph definitions; the migration table says what the
schema is, and no process serves on a schema that is not its own; a start ends,
and fails only because of what others did; the graph mirrors the tables.

## Modules

| module | models | checked by |
|---|---|---|
| `Tables` | the schema and the effect of every statement: a database is a record of tables, a statement an operator on it | used by `MemoryStore`, `Resolution`, `IngestContract` |
| `MemoryStore` | the mutating methods of `Store` and `RunInTx` for concurrent requests on the sqlite connection; crash | `store`, `MemoryStoreProofs` |
| `Resolution` | `resolveMemoryAction` over an arbitrary similarity function | through `Ingest` |
| `Ingest` | `Service.Ingest`, statement by statement, for several ingests, CRUD clients, failures and a stop; what `Extract` answers | `ingest_*`, `IngestProofs`, `IngestSerialProofs` |
| `IngestContract` | what an ingest promises: one atomic effect or none | `ingest_serial` (refinement), `IngestAtomicProofs` |
| `ContextCache` | `GetEntityContext`, the invalidating methods, Redis | `cache`, `cache_race`, `ContextCacheProofs` |
| `ConnPool` | who holds and who waits for connections | `pool_*`, `ConnPoolProofs` |
| `Traversal` | `FindPath`, `buildPath` and `GetEntityContext` of both backends, query by query | `path`, `path_edges`, `TraversalProofs` |
| `Process` | where each process is in `main` | used by the next three |
| `Migrations` | `Runner.Run` and `Current` for several servers | `rollout`, `ServerProofs` |
| `GraphProjection` | the AGE store's writes on tables and graph, and `Reconcile` | `rollout`, `ServerProofs` |
| `Server` | the life of the processes: composes the two with starts, requests, signals and deaths | `rollout`, `ServerProofs` |

`Ingest` extends `MemoryStore` and `Resolution`: its transaction is `BeginTx`, its writes are the
store's actions, its rollback is an action of its own only because it also
ends the request. `ContextCache`, `ConnPool` and `Traversal` take the store at a
coarser grain, each with the state its own questions need. `Server` extends
`Migrations` and `GraphProjection`, which share only `Process`, and makes their
steps the steps of a process in the right stage. `MC*` modules give
the constants of the instances.

How state and actions correspond to the code:

- `Tables`: a table is a function from ids to rows or `None`. Ids are numbered
  in the order `uuid.New` made them, which is the order of `created_at`;
  `issued` remembers the last one so that an id is never used twice. The
  foreign keys with their `ON DELETE` clauses, the two `UNIQUE` constraints and
  the three full-text triggers are in `DeleteEntityRow`, the `Can...`
  operators and the updates of `memories_fts`. Columns nothing depends on are
  left out, and of a confidence only its order matters. `expires_at` is the first
  instant at which the engine takes the memory for expired (`Active`); which
  instant that is for a given timestamp, the engine's comparison decides: see the
  hazard at `store.go:1012`.
- `MemoryStore`: `db` is the committed database, `tx` the open transaction with
  its working copy. `CanRun` is the wait for the single connection
  (`sqlite.go:33`), `View` and `Write` the runner a store method uses.
- `Ingest`: `job[w]` holds the locals of one call: `refs` is `entityRefs`,
  `known` is `memoryCache`, `steps` and `edges` the plan, `pc` the place in the
  function. `touched` and `cleared` are history. A candidate that
  `validateCandidate` refuses has `valid` false. An explicit subject is
  given by id or external id in the code and by id here: both are one read.
  `reply` is the response's counters, taken from the plan as in the code.
  The confidence, the names and the texts are members of small sets;
  `Score`, `KeyOf` and `TrimOf` stand for `trigramSimilarity`, `entityKey` and
  `strings.TrimSpace`. `now` is the clock of the database, which
  `ListActiveMemoriesByEntityAndCategory` compares `expires_at` with; it moves
  between any two steps (`TimePasses`). An ingest neither sets nor changes the
  `expires_at` of what it writes, so an update of an expiring memory still expires.
  The reads of `queueRelationships`, one per related entity, may fail each by
  itself (`failing`), but are taken at one moment: each is repeated in the
  transaction before anything depends on it. The edits of other clients are all
  the mutating CRUD methods.
- `ContextCache`: `rows` counts versions of an entity's row and of its
  memories, `cached` is Redis, `pending` what each writer still has to
  invalidate. `raced` is history: the entities whose last write a fill straddled,
  whose invalidation was lost, or was never owed: deleting an entity takes the
  relationships of its neighbours, and invalidates only itself. A store method reads the row it wrote back by
  a statement of its own, which changes nothing; when that read fails the write
  stays and the service returns before it invalidates, which is
  `InvalidationLost` here and an alternative of `RecordIngestSource` in `Ingest`.
- `ConnPool`: `waiting` is the set of requests that wait for a connection
  (`connRequests` of `database/sql`). A released connection goes to any of them:
  the Go version of `go.mod` draws one at random (`TakeRandom`).
- `Traversal`: `walk` holds the locals of one call; other requests edit the
  graph between its queries. On AGE a cypher query sees all of the graph at
  once, which there is the tables' own (see `GraphProjection`), and every row
  it answers is looked up afterwards.
- `Migrations`: `catalog.recorded` is the table, `catalog.schema` what has taken
  effect; `runner[s]` the place in `Run`. The statements of a migration are one
  step, whose effect is the transaction's until `CommitMigration`. A second
  transaction that executes the same migration waits for the first
  (`AppliedElsewhere`), then finds what `IF NOT EXISTS` forgives, or an object
  it does not (`create_graph` raises an error the `DO` block of `0002` need not
  catch): either outcome is allowed. Two `CREATE TABLE IF NOT EXISTS` that race
  may fail one of them. `raced` is history. A death after the commit and before
  its answer is `Exit` after `CommitMigration`.
- `GraphProjection`: `rows` holds the ids of each table, `graph` the ids that
  have a vertex or an edge. Transactions are numbered as they begin, and
  `updatedAt` is such a number, because `NOW()` is the time of `BEGIN` and not of
  the statement: a list query sorts by it (`Rank`), and a row may commit behind a
  newer one. `BeginTx` is `BEGIN` (in `begun`); `WriteRow` the statement on the
  table, which waits for row and foreign key locks (`Conflict`) and may so come
  after those of transactions that began later; `WriteGraph` the cypher
  statements, which wait for vertices (`Locked`); `CommitWrite` both effects. Two
  `MERGE`s of one vertex at once are taken to make one. Reads take from the graph
  only ids and the immutable type, so the properties copied onto vertices are
  left out. Rows that were there before have distinct times (`InitialTimes`): how
  the database orders those with one time is fixed. The statements of one
  `sync...` are one step: between the lookup of an entity and the `MERGE` nothing
  else of Reconcile happens, and what others do there they may also do before.
  `scan[s]` holds the locals of `Reconcile` and of the list it is reading; a page
  is two queries. `deleted`, `moved` and `rebuild` are history.
- `Server`: `stage` is the place in `main`. `Exit` is a return of `main`, a
  kill, or during a start a signal: it ends the process' transactions without
  commit. The comment at `main.go:102` promises requests in flight "a bounded
  window to complete", but `main` returns as soon as `ListenAndServe` does, so
  `Exit` may follow `Signal` at once.

## Runs

`tlc -config <run>.cfg <module>`; all within the bounds stated, exhaustively.

| run | shows | bounds, and why they suffice |
|---|---|---|
| `store` | constraints and cascades leave no dangling row, the index is exact, no update is lost, rows keep their identity, the audit log only grows | 2 entities, 2 relationships, 1 memory with 2 contents, 1 source, 2 requests: two rows to collide, one of each kind to cascade, an id that must not be reused, a content that must be replaced |
| `ingest_pair` | updates stay with their subject; what was changed is invalidated; the transaction is held exactly in the commit phase; every ingest is answered | 2 ingests, 1 edit of any kind by a client, but for storing a memory (the ingests and `ingest_serial` do that); lists that create, update and link |
| `ingest_serial` | `Ingest` implements `IngestContract`; when a caller repeats ingests one after the other, nothing is stored beside an unexpired memory of the same text, unless the list says it twice; the counters of an answer are what its transaction made | 2 ingests and a client with 1 edit of any kind (a second ingest only where there is no edit, which `SmallSerialSpec` of `MCIngest` sees to): a try and its repetition, or two tries; a memory that never expires, or expires at any step of either ingest; explicit or implied subject, dry run, every kind of candidate, an invalid one, a list beyond the limit, lists that repeat themselves |
| `cache` | outside the races named, invalidation is complete at every depth, for rows, memories and relationships; expiry heals every race and fault | 2 entities, depths 0 and 1, 1 reader, 1 writer, 2 writes, crashes, lost deletions. Safety for any number of readers and writers is proved |
| `pool_enough` | the pool never stops while it is larger than the number of nesting requests; it conserves connections; once no more requests come, all end | 4 clients, 2 of which nest, 3 connections: one connection more than nesters, so that the last one is always used, and a client that has to wait |
| `path` | both walks of both backends agree with their definitions if nothing was edited, and fail only because of what is missing; every path AGE answers is one of relationships that were there together | all graphs on 4 entities with at most 4 relationships (loops, cycles, parallel routes), 1 edit between any two queries; depths below, at and beyond the distances that occur |
| `rollout` | what is recorded is the schema; nobody serves on an older one; a start ends, and fails only because of a race; the graph mirrors the tables | 2 servers, 2 migrations, 3 entities, 1 memory and 1 relationship, pages of 1 row, 3 starts and writes together, at most 2 of them writes: two starts that race, or a start while two requests write, one of which may reorder a page and the other cascade. More of everything: see Proofs |

The depth bound of the contexts (0 to 3) is the code's; two of them suffice to
tell a deletion of one key from a deletion of all. `Max...` constants and the id
sets are the only bounds; each is a guard of the action it limits.

Deadlock is checked except where the system really stops: ingest instances end
when every ingest has been answered, walks end with an answer, servers may be
down for good (`rollout`), and `pool_sqlite` is about a system that is stuck.

What `GraphMirrorsRows` excepts, because the code does nothing about it: from
`deleteAllGraph` until that Reconcile ends, the graph is partial for every server;
and three things that may happen during it leave the rebuilt graph with a vertex
too many or too few until the next start. A row was deleted. A row was created
between the count and the rows of a page, which pushes an old row out of the
window. Or an update waited for a lock of one that began after it: its older
`NOW()` takes the row back in the order (`Overtaken`), the next page repeats it and
misses another. The last needs a third transaction, whose row the first two
leave between them, and so is beyond the bounds of `rollout`: that nothing else
spoils a rebuild, whatever the number of transactions, is proved. Vertices of memories whose entity was deleted stay: `DETACH
DELETE` takes only the edges. No query reads memory vertices.

### Disagreements found

These runs expect a violation, of something the repository says:

| run | what the code does |
|---|---|
| `ingest_confidence` | two candidates of one list update one memory, the less confident last (SPEC 11.2) |
| `ingest_race` | two concurrent ingests of a fact store it twice (SPEC 2.1, 6) |
| `cache_race` | a reader caches what it read before an invalidation (comment in `Ingest`) |
| `pool_sqlite` | a search with entity contexts waits for its own connection (SPEC 12.3) |
| `path_edges` | the first relationship of a path is missing from the answer (SPEC 7.5) |

The causes are narrow. When ingests come one after the other (`SerialSpec`), what
`ingest_race` finds cannot happen: only a list that says one thing twice stores it
twice (`OnlyListsRepeat`, run `ingest_serial`, proved in `IngestSerialProofs`).
`OnlyRacesGoStale` has the exceptions to `AnsweredWritesVisible` named, and says
of relationships what that says of rows and memories: an entity is in `raced` from
a write that a fill straddled, whose deletion was lost, or that deleted a
neighbour, until the next invalidation no fill straddles. And with a pool larger than the number of
nesting requests (`pool_enough`) none waits for ever.

Smaller remarks, which no run covers. The error of a failed commit is the
store's, so an update whose target has disappeared is answered `not_found`,
where SPEC 14.2 lets the caller expect `store_error`. The AGE backend pairs a
path's node with the relationship that reaches it, the SQL backends with the
one that leaves it. An AGE context shows of a relationship two hops away its
target, which may be the nearer end (`ContextIsBall` names what holds instead),
and lists at most 500 memories.

### Fairness

- `IngestFairSpec`: weak fairness of each ingest's own steps. Each request is a
  goroutine. No order among those that wait for the connection is assumed: ingests
  and edits are finitely many, so the connection is free for good in the end.
  Faults, edits, the clock and a stop owe nothing.
- `CacheSpec`: requests in progress finish, and values stored with a time to
  live expire. That is so for every TTL but 0, which the configuration accepts
  (`config.go:93`) and for which `CacheHeals` does not hold; the default is 300
  seconds. Writes and faults owe nothing; the writes are bounded (`MaxWrites`),
  so that they stop.
- `ServerSpec`: a process that starts goes on, and so does a request in
  flight as soon as its locks are free. Starts, clients, signals and faults owe
  nothing; a request may also fail at any time. Events are bounded (`MaxEvents`):
  `EveryStartSettles` says that a start ends once others write no more, not that
  it keeps up with an endless stream of writes.
- `PoolSpec`: a request that holds what it needs goes on. There is no timeout
  on a wait for a connection, and no order among those that wait: while requests
  keep coming one may be passed over for ever, so `EveryRequestEnds` asks for the
  end of each only if from some time on no further request begins.

## Proofs

`MemoryStoreProofs` proves, for arbitrary sets of ids, names, contents and
requests (assuming `IDAssumption`, `NoneAssumption`, `RequestAssumption`: ids
are numbers above zero, `None` is no id and no row, no request is `None`), that
`TypeOK`, `StoreConsistent`, `SearchIndexExact`, `NoLostUpdate`,
`RowsKeepIdentity` and `AuditOnlyGrows` hold. None but `NoLostUpdate` is
inductive: a deletion leaves no dangling row only if rows were consistent, a new
row collides with nothing only if ids above the counters are unused, and what a
commit does to a row is known only from what the transaction did since it
began. The invariant `Inv` therefore adds `RowsWereIssued`, and for an open
transaction that its working copy `Evolves` from its base: identity and audit
properties between base and copy, closed under one more statement
(`EvolvesTransitive`). One lemma per statement shows that it preserves the
database invariant `Good` and evolves it; `StatementSound` lifts them to the
actions, `NextPreserves` to `Next`. The two action properties follow because a
committed step is either one statement or a whole transaction, and both evolve
`db`.

`IngestProofs` proves of `IngestSpec` (edits, failures, crashes and stops
included) `IngestTypeOK`, `TxBelongsToCommit`, `UpdatesStayWithSubject`,
`InvalidationCoversWrites` and, once more, `StoreConsistent`: every step of the
pipeline keeps the store's invariant `Inv`, because its statements are the
store's. Beyond the assumptions of the store it takes `IngestAssumption` (what
validation and the type of a decision guarantee) and `InitialAssumption`. None of
the properties is inductive, since a plan is made from reads that others make
stale. `IngestInv` says instead what survives them: `JobOK`, what a request knows
at each stage of the function; `Shelved`, that a memory it once read is by now
gone or still of the entity and category it was read under, which no evolution
of the store undoes (`ShelvedEvolves`, from `RowsKeepIdentity`); `Owned`, the same
for what it wrote; and `Covered`, that what its transaction has changed since it
began concerns only entities it will invalidate. One lemma per action
(`...Preserves`) keeps it.

`IngestAtomicProofs` proves the refinement, `IngestTakesEffectAtomically`:
`IngestSpec` implements `IngestContract` under the mapping in `Ingest`. The steps
before the commit must be stutters, so the proof needs to know at the commit what
all of them did together. `AtomicInv` adds that: `Orderly`, which parts of the
plan are executed at which stage, and `Effect`, that between the database the
transaction began from and its working copy exactly the recorded entities,
edges and memories have appeared or changed (`EntitiesDone`, `EdgesDone`,
`CreatesDone`, `UpdatesDone`, `OthersKept`). Each statement extends `Effect` by one
record, the commit is then the contract's one step, and everything else,
crashes and roll-backs too, is one of its stutters, edits or refusals.

`IngestSerialProofs` proves of `SerialSpec`, ingests one after the other, each a
repetition or not, with failures, stops and memories that expire, what holds as
long as nobody else writes: `ReplyCountsWhatWasMade`, `NoDuplicateEntities` and
`OnlyListsRepeat`. An ingest decides before its transaction, so `SerialInv` says that
the plan of the one under way fits the store until the commit (`Fits`). Its names
that were found are stored under their key, and no two keys stand for one entity
(`RefsFound`, `RefsDistinct`); those that were not found are not stored
(`RefsMissing`); its edges are new (`EdgesNew`), unless a read failed and it plans
them blindly; each decision is right for the memories that have not expired
(`DecisionFits`), every one of which the ingest has read, though some of those it
read may have expired since (`Recalls`, `KnownFits`); and the counters are what
there is to make or has been made (`Counts`). Time only takes memories away from
those a decision must be right for, so the plan stays right when it passes
(`TimePassesSerial`).

At the commit, take two memories of one entity, category and text that have not
expired (`Twins`). Each is as it was, or as the last step that wrote it made it
(`WrittenOrKept`). If both are as they were, they were twins before. If one was
written and the other not (`KeptAndWritten`), the step has not created it, because
the other one was compared with and is similar enough; so it has updated its
target, the nearest memory, which therefore had the same text already and has
kept its expiry: again they were twins before. If both were written, two entries
of the list say the same (`CommitRepeats`). No other step makes twins: it leaves the
contents alone, or time passes (`StepRepeats`).

What they take for granted: `ResolutionAssumption`, about the similarity, that it
is symmetric, that texts with the highest score cannot be told apart by it (the
code's score is highest exactly for equal bags of trigrams), and that the
threshold is above 0 and at most the highest score, which `config.go:127`
enforces. `TrimAssumption`, that a name and its trimmed form have one key, because
`normalizedText` begins by trimming. And `EntitiesNotDuplicated` alone has a
hypothesis, `NamesAreClean`: names come without blanks around them, and the store
begins with distinct ones. With blanks, `FindEntityByName` does not find what
`createPlannedEntities` stored (the hazard at `service_ingest.go:400`). Names that
differ otherwise and have one key are covered. `MemoriesNotDuplicated` has none: it
holds of every threshold, of lists that repeat themselves too, whose repetitions
it names, and of a content that normalises to nothing it says nothing, since
such a content is the same text as no other.

`TraversalProofs` proves everything the runs say about walks, for any finite set
of entities, any graph and any number of edits: `PathIsShortest`,
`ContextIsBall`, `AnsweredPathStands`, `FailureHasCause` and `TraversalTypeOK`. The
invariant for `FindPath` is the one of breadth-first search: the parents form a
tree whose depths count its steps (`TreeOK`), the queue is in order of depth and
holds at most two of them (`QueueOK`), and whatever has left the queue has its
successors visited (`SearchStands`), the last two about the graph as it was when
the walk began as long as nothing was deleted. From it the reversed chain of
`buildPath` is a path, and shortest; `BuildOK` carries it to the answer. For
`GetEntityContext`, `HopOK` says which ball of the graph the frontier is, `LookUpOK`
what of a cypher answer has been looked up. `Reach` and `Ball` are recursive
functions on numbers; that they are what their recursion says, and that a chain
of parents is a walk, is proved with an induction over Nat stated without an
operator parameter (`SetInduction`).

`ConnPoolProofs` proves `PoolTypeOK`, `ConnectionsConserved` and `SomebodyRuns`, the
last one assuming `Cardinality(Nester) < PoolSize`, which the sqlite pool breaks
(`pool_sqlite`). `PoolInv` adds to them that only requests that nest wait
while they hold one (`OnlyNestersNest`): if all did, each of the `PoolSize`
connections would be held by a different nester.

`ContextCacheProofs` proves `CacheTypeOK` and `OnlyRacesGoStale` of `CacheSafetySpec`,
which has every race, lost deletion and stop of the server, for any entities, depths,
readers and writers. `CacheInv` adds to the latter the shape of the variables and
`FillsAreFresh`: what a reader is about to store agrees with the entity's current
row, memories and relationships, unless the entity is in `raced`. A write owes an
invalidation of whatever it changed of an entity and marks what is about to be
stored of it, and the deletion of an entity marks its neighbours; an invalidation clears
every depth, and clears the mark only if nothing is about to be stored. That a
version stays within `MaxWrites` needs that versions are counted by the writes
(`VersionsCounted`).

`ServerProofs` proves of `ServerSpec`, for any number of servers, migrations,
rows and events, that `SchemaIsRecorded` and `ServesCurrentSchema` hold and
that a runner fails only if it raced. `SchemaInv` adds to the first what each runner
knows (`RunnerAgrees`): all migrations before the one it looks at are recorded,
the one it has found missing is either still missing or was recorded by another
runner meanwhile, which marked it as raced; and a finished runner, or a process
past its migrations, has seen them all. None of that is lost, because the
catalog only grows (`AgreementSurvives`). One lemma per step of the runner shows
that it keeps the invariant; everything else the servers do leaves it alone.

It builds on this and proves, for any number of servers,
rows, writes and starts and any page size, that `GraphMirrorsRows`,
`FailedStartHasCause` and `ServerTypeOK` hold. It assumes `ProjectionAssumption`,
`ServerAssumption` (an earlier deployment left tables that satisfy their keys,
with distinct times) and `MigrationsAssumption`. `ProjectionInv` says what holds while
a graph is being rebuilt and others write. `RowsRefer` are the foreign keys,
`TimesDiffer` that no two rows have one time, so that every row has a place of its
own in its table (`RankFacts`, `RankOnto`). `WritesOK` is what an open transaction
may count on because nobody else's conflicts with it: that its row and what the
row refers to are still there at the commit. `GraphWithinRows` says that the graph
has nothing the tables lack, and that a deletion has matched all it must remove.
`Rebuilding` is the heart: of the tables that are done every row is in the graph,
and of the table in hand each row is in the graph, is listed, or has a rank on a
page still to come. It survives other writes because a commit takes its row to
the front, which only moves the others further back (`RankGrows`), and merges the
row itself; and a page lists every rank in its window (`PageLists`), so that the
count read before it shows when nothing is left. These hold of a scan that is
`Clean`; what the proof had to except became the exceptions of the property, and
the update that waits was found this way: its commit makes ranks shrink. That a
scan which fails met a deletion needs less (`Intact`). `StagesOK` says which
processes may have transactions, and that a start has failed only for a cause.

Only model-checked: liveness (`EveryIngestIsAnswered`, `CacheHeals`,
`EveryRequestEnds`, `EveryStartSettles`), which is beyond the prover.

## Not modelled

- Search queries and their ranking, the filters of lists and of search, the one on
  `expires_at` included (the one of the list resolution reads is modelled, and
  contexts show memories whether they have expired or not); lists are modelled as Reconcile uses them. What a client sees that
  follows pages itself is known from the code: rows may repeat or be missing.
- Postgres transactions that overlap on several connections under `Ingest`
  (`GraphProjection` has overlapping transactions, of one statement each).
- The session set-up of pooled connections (`ensureSession`), and the payload
  of vertices, which a concurrent Reconcile may set to an older version.
- A rollout of a new program beside an old one: all servers here have the same
  migrations. Backends other than AGE have no `Reconcile`; their starts are the
  migrations alone.
- HTTP decoding and status codes, configuration, logging, `Stats`: no state.
- `trigramSimilarity` as an algorithm: any similarity function is allowed. What
  counts as one name: `KeyOf` and `TrimOf` are arbitrary.

## Plan

1. A `READ COMMITTED` store with several connections under `Ingest`, and what
   is left of `NoLostUpdate` there.
2. Names with different spellings in the instances of `Ingest`; resolution
   against the wording of SPEC 11.3 over all scores.

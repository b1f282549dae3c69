------------------------------ MODULE ConnPool ------------------------------
(***************************************************************************)
(* Requests and the connections of one sql.DB.  A statement or transaction *)
(* takes a connection, or waits for one when MaxOpenConns are in use; a    *)
(* released connection goes to whichever of those that wait the pool draws *)
(* at random: there is no order among them.  SearchMemories keeps its      *)
(* connection while it iterates over the result and, when the query asks   *)
(* for entity contexts, runs GetEntityContext for every row: statements    *)
(* that need a connection of their own.  The AGE backend's                 *)
(* GetEntityContext nests its lookups in the same way.                     *)
(***************************************************************************)
EXTENDS Integers, FiniteSets

CONSTANTS
    Client,         \* concurrent requests
    Nester,         \* those whose statements nest
    PoolSize,       \* SetMaxOpenConns
    MaxNested       \* bound on the nested statements of one request

ASSUME PoolAssumption ==
    /\ IsFiniteSet(Client)
    /\ Nester \subseteq Client
    /\ PoolSize \in Nat \ {0}
    /\ MaxNested \in Nat \ {0}

VARIABLES
    free,       \* connections nobody holds
    waiting,    \* the requests that wait for one
    stage,      \* what each request is doing
    holds,      \* how many connections it has
    left        \* nested statements it still has to run

poolVars == <<free, waiting, stage, holds, left>>

Stages == {"idle", "wait_outer", "rows", "wait_inner", "nested"}

\* The stage a request enters when its connection arrives.
Granted(s) == IF s = "wait_outer" THEN "rows" ELSE "nested"

Waiting(c) == stage[c] \in {"wait_outer", "wait_inner"}

PoolInit ==
    /\ free = PoolSize
    /\ waiting = {}
    /\ stage = [c \in Client |-> "idle"]
    /\ holds = [c \in Client |-> 0]
    /\ left = [c \in Client |-> 0]

-----------------------------------------------------------------------------
(* database/sql *)

\* Take a free connection, or wait for one.
Ask(c, wait) ==
    \/ /\ free > 0
       /\ free' = free - 1
       /\ holds' = [holds EXCEPT ![c] = @ + 1]
       /\ stage' = [stage EXCEPT ![c] = Granted(wait)]
       /\ UNCHANGED waiting
    \/ /\ free = 0
       /\ waiting' = waiting \cup {c}
       /\ stage' = [stage EXCEPT ![c] = wait]
       /\ UNCHANGED <<free, holds>>

\* Give one connection to any of those that wait, or back to the pool.
Release(c, next) ==
    \/ /\ waiting = {}
       /\ free' = free + 1
       /\ holds' = [holds EXCEPT ![c] = @ - 1]
       /\ stage' = [stage EXCEPT ![c] = next]
       /\ UNCHANGED waiting
    \/ \E d \in waiting :
          /\ waiting' = waiting \ {d}
          /\ holds' = [holds EXCEPT ![c] = @ - 1, ![d] = @ + 1]
          /\ stage' = [stage EXCEPT ![c] = next, ![d] = Granted(stage[d])]
          /\ UNCHANGED free

-----------------------------------------------------------------------------
(* Requests *)

\* Mutant: every request runs statements while it holds the rows of another.
BeginNesting(c) ==
    /\ stage[c] = "idle"
    /\ \E n \in 0..MaxNested : left' = [left EXCEPT ![c] = n]
    /\ Ask(c, "wait_outer")

\* The query of the request.
Begin(c) ==
    /\ stage[c] = "idle"
    /\ \E n \in 0..MaxNested :
          /\ c \notin Nester => n = 0
          /\ left' = [left EXCEPT ![c] = n]
    /\ Ask(c, "wait_outer")

\* Mutant: a nested statement after the last row.
BeginNestedAnyway(c) ==
    /\ stage[c] = "rows"
    /\ Ask(c, "wait_inner")
    /\ UNCHANGED left

\* A row of the result asks for its entity context.
BeginNested(c) ==
    /\ stage[c] = "rows"
    /\ left[c] > 0
    /\ Ask(c, "wait_inner")
    /\ UNCHANGED left

\* Mutant: the rows of a nested statement are never closed.
EndNestedLeaking(c) ==
    /\ stage[c] = "nested"
    /\ left' = [left EXCEPT ![c] = @ - 1]
    /\ stage' = [stage EXCEPT ![c] = "rows"]
    /\ UNCHANGED <<free, waiting, holds>>

EndNested(c) ==
    /\ stage[c] = "nested"
    /\ left' = [left EXCEPT ![c] = @ - 1]
    /\ Release(c, "rows")

\* Mutant: the method returns without rows.Close.
FinishLeaking(c) ==
    /\ stage[c] = "rows"
    /\ left[c] = 0
    /\ stage' = [stage EXCEPT ![c] = "idle"]
    /\ UNCHANGED <<free, waiting, holds, left>>

\* rows.Close: the result is exhausted, or the transaction is over.
Finish(c) ==
    /\ stage[c] = "rows"
    /\ left[c] = 0
    /\ Release(c, "idle")
    /\ UNCHANGED left

\* A nested statement fails: the deferred rows.Close gives the first
\* connection back as the method returns the error.
NestedFails(c) ==
    /\ stage[c] = "nested"
    /\ left' = [left EXCEPT ![c] = 0]
    /\ Release(c, "rows")

RequestStep(c) == BeginNested(c) \/ EndNested(c) \/ Finish(c) \/ NestedFails(c)

PoolNext == \E c \in Client : Begin(c) \/ RequestStep(c)

\* Requests that can run do; clients owe nothing, and no statement has a timeout.
PoolSpec == PoolInit /\ [][PoolNext]_poolVars /\ \A c \in Client : WF_poolVars(RequestStep(c))

-----------------------------------------------------------------------------
(* Properties *)

PoolTypeOK ==
    /\ free \in 0..PoolSize
    /\ waiting \subseteq Client
    /\ stage \in [Client -> Stages]
    /\ holds \in [Client -> 0..2]
    /\ left \in [Client -> 0..MaxNested]

\* The connections in use: the first, and while a statement nests the second, of
\* each request.
Held == {h \in Client \X {1, 2} : h[2] <= holds[h[1]]}

\* No path loses a connection or gives one back twice, and nobody waits while
\* one is free: what is held and what is free add up to the pool, a request that
\* is answered holds nothing, and one that has its rows holds one connection.
ConnectionsConserved ==
    /\ free + Cardinality(Held) = PoolSize
    /\ \A c \in Client : holds[c] =
          IF stage[c] \in {"idle", "wait_outer"} THEN 0 ELSE IF stage[c] = "nested" THEN 2 ELSE 1
    /\ waiting # {} => free = 0
    /\ \A c \in Client : Waiting(c) <=> c \in waiting

\* The requests never all wait for each other: either a connection is free or
\* one that holds a connection can go on.  It takes more connections than
\* there are requests that nest.
SomebodyRuns == free > 0 \/ \E c \in Client : holds[c] > 0 /\ ~Waiting(c)

\* Once no further requests come, every one that has started is answered.  While
\* they do come one may be passed over again and again, since who gets a released
\* connection is drawn at random.
EveryRequestEnds ==
    <>[][\A c \in Client : ~Begin(c)]_poolVars =>
        \A c \in Client : stage[c] # "idle" ~> stage[c] = "idle"
=============================================================================

---------------------------- MODULE ConnPoolProofs ----------------------------
(***************************************************************************)
(* What holds of the connection pool for any number of requests, nested    *)
(* statements and connections.  The inductive invariant adds to the books  *)
(* of the pool that only requests that nest ask for a second connection:   *)
(* all who wait while holding one are such.                                *)
(***************************************************************************)
EXTENDS ConnPool, FiniteSetTheorems, TLAPS

\* A request with nested statements left to run is one that nests, and one that
\* runs or awaits such a statement has one left.
OnlyNestersNest ==
    \A c \in Client : /\ left[c] > 0 => c \in Nester
                      /\ stage[c] \in {"wait_inner", "nested"} => left[c] > 0

PoolInv == PoolTypeOK /\ ConnectionsConserved /\ OnlyNestersNest

-----------------------------------------------------------------------------
(* Counting *)

\* Finitely many connections are held.
LEMMA HeldFinite ==
    ASSUME NEW h
    PROVE  IsFiniteSet({x \in Client \X {1, 2} : x[2] <= h[x[1]]})
  <1>1. IsFiniteSet(Client \X {1, 2})
    <2>1. IsFiniteSet({1, 2})
      <3>1. {1, 2} = {1} \cup {2}
        OBVIOUS
      <3>2. IsFiniteSet({1})
        BY FS_Singleton
      <3>3. IsFiniteSet({1} \cup {2})
        BY <3>2, FS_AddElement, Zenon
      <3>4. QED
        BY <3>1, <3>3, Zenon
    <2>2. QED
      BY <2>1, FS_Product, PoolAssumption
  <1>2. QED
    BY <1>1, FS_Subset

\* What one request takes or gives is one connection.
LEMMA HeldTakes ==
    ASSUME holds \in [Client -> 0..2], NEW c \in Client, holds[c] \in {0, 1},
           holds' = [holds EXCEPT ![c] = @ + 1]
    PROVE  Cardinality(Held') = Cardinality(Held) + 1
  <1> DEFINE x == <<c, holds[c] + 1>>
  <1>1. Held' = Held \cup {x} /\ x \notin Held
    BY DEF Held
  <1>2. IsFiniteSet(Held)
    BY HeldFinite DEF Held
  <1> HIDE DEF x
  <1>3. QED
    BY <1>1, <1>2, FS_AddElement

\* What one request gives back is one connection.
LEMMA HeldGives ==
    ASSUME holds \in [Client -> 0..2], NEW c \in Client, holds[c] \in {1, 2},
           holds' = [holds EXCEPT ![c] = @ - 1]
    PROVE  Cardinality(Held') = Cardinality(Held) - 1
  <1> DEFINE x == <<c, holds[c]>>
  <1>1. Held' = Held \ {x} /\ x \in Held
    BY DEF Held
  <1>2. IsFiniteSet(Held)
    BY HeldFinite DEF Held
  <1> HIDE DEF x
  <1>3. QED
    BY <1>1, <1>2, FS_RemoveElement

\* What one request hands over to another is the same number of connections.
LEMMA HeldPasses ==
    ASSUME holds \in [Client -> 0..2], NEW c \in Client, NEW d \in Client \ {c},
           holds[c] \in {1, 2}, holds[d] \in {0, 1},
           holds' = [holds EXCEPT ![c] = @ - 1, ![d] = @ + 1]
    PROVE  Cardinality(Held') = Cardinality(Held)
  <1> DEFINE x == <<c, holds[c]>>
             y == <<d, holds[d] + 1>>
             rest == Held \ {x}
  <1>1. Held' = rest \cup {y} /\ x \in Held /\ y \notin rest
    BY DEF Held
  <1>2. IsFiniteSet(Held)
    BY HeldFinite DEF Held
  <1> HIDE DEF x, y
  <1>3. IsFiniteSet(rest) /\ Cardinality(rest) = Cardinality(Held) - 1
    BY <1>1, <1>2, FS_RemoveElement
  <1> HIDE DEF rest
  <1>4. Cardinality(Held') = Cardinality(rest) + 1
    BY <1>1, <1>3, FS_AddElement
  <1>5. Cardinality(Held) \in Nat
    BY <1>2, FS_CardinalityType
  <1>6. QED
    BY <1>3, <1>4, <1>5

-----------------------------------------------------------------------------
(* The steps *)

\* The requests that wait are those the pool knows of.
WaitersWait(w, s) == \A c \in Client : s[c] \in {"wait_outer", "wait_inner"} <=> c \in w

HoldsAt(s) == IF s \in {"idle", "wait_outer"} THEN 0 ELSE IF s = "nested" THEN 2 ELSE 1

\* The parts of the invariant, as the lemmas about single requests use them.
LEMMA InvParts ==
    PoolInv <=> /\ PoolTypeOK
                /\ free + Cardinality(Held) = PoolSize
                /\ \A c \in Client : holds[c] = HoldsAt(stage[c])
                /\ waiting # {} => free = 0
                /\ WaitersWait(waiting, stage)
                /\ OnlyNestersNest
  BY DEF PoolInv, ConnectionsConserved, HoldsAt, Waiting, WaitersWait

\* A request asks for a connection: it has the free one or waits.
LEMMA AskKeeps ==
    ASSUME PoolInv, NEW c \in Client, NEW wait \in {"wait_outer", "wait_inner"},
           stage[c] = IF wait = "wait_outer" THEN "idle" ELSE "rows", Ask(c, wait),
           left' \in [Client -> 0..MaxNested], \A d \in Client \ {c} : left'[d] = left[d],
           left'[c] > 0 => c \in Nester, wait = "wait_inner" => left'[c] > 0
    PROVE  PoolInv'
  <1>1. /\ free \in Nat /\ free <= PoolSize /\ PoolSize \in Nat /\ waiting \subseteq Client
        /\ stage \in [Client -> Stages] /\ holds \in [Client -> 0..2]
        /\ Cardinality(Held) \in Nat /\ free + Cardinality(Held) = PoolSize
        /\ \A d \in Client : holds[d] = HoldsAt(stage[d])
        /\ waiting # {} => free = 0
        /\ WaitersWait(waiting, stage) /\ OnlyNestersNest
    <2>1. Cardinality(Held) \in Nat
      BY HeldFinite, FS_CardinalityType DEF Held
    <2>2. QED
      BY <2>1, InvParts, PoolAssumption DEF PoolTypeOK
  <1>2. holds[c] \in {0, 1} /\ holds[c] = HoldsAt(wait) /\ stage[c] \notin {"wait_outer", "wait_inner"}
    BY <1>1 DEF HoldsAt
  <1>3. CASE free > 0 /\ free' = free - 1 /\ holds' = [holds EXCEPT ![c] = @ + 1]
             /\ stage' = [stage EXCEPT ![c] = Granted(wait)] /\ waiting' = waiting
    <2>1. Granted(wait) \in {"rows", "nested"} /\ HoldsAt(Granted(wait)) = HoldsAt(wait) + 1
      BY DEF Granted, HoldsAt
    <2>2. Cardinality(Held') = Cardinality(Held) + 1
      BY <1>1, <1>2, <1>3, HeldTakes
    <2>3. waiting = {}
      BY <1>1, <1>3
    <2>4. WaitersWait(waiting', stage')
      BY <1>1, <1>2, <1>3, <2>1 DEF WaitersWait
    <2>5. PoolTypeOK'
      BY <1>1, <1>2, <1>3, <2>1 DEF PoolTypeOK, Stages
    <2>6. \A d \in Client : holds'[d] = HoldsAt(stage'[d])
      BY <1>1, <1>2, <1>3, <2>1
    <2>7. OnlyNestersNest'
      BY <1>1, <1>3, <2>1 DEF OnlyNestersNest, Granted
    <2>8. free' + Cardinality(Held') = PoolSize
      BY <1>1, <1>3, <2>2
    <2>9. waiting' = {}
      BY <1>3, <2>3
    <2>10. QED
      BY <2>4, <2>5, <2>6, <2>7, <2>8, <2>9 DEF PoolInv, ConnectionsConserved, HoldsAt, Waiting, WaitersWait
  <1>4. CASE free = 0 /\ waiting' = waiting \cup {c} /\ stage' = [stage EXCEPT ![c] = wait]
             /\ UNCHANGED <<free, holds>>
    <2>1. WaitersWait(waiting', stage')
      BY <1>1, <1>2, <1>4 DEF WaitersWait
    <2>2. PoolTypeOK'
      BY <1>1, <1>4 DEF PoolTypeOK, Stages
    <2>3. \A d \in Client : holds'[d] = HoldsAt(stage'[d])
      BY <1>1, <1>2, <1>4
    <2>4. OnlyNestersNest'
      BY <1>1, <1>4 DEF OnlyNestersNest
    <2>5. free' + Cardinality(Held') = PoolSize /\ free' = 0
      BY <1>1, <1>4 DEF Held
    <2>6. QED
      BY <2>1, <2>2, <2>3, <2>4, <2>5 DEF PoolInv, ConnectionsConserved, HoldsAt, Waiting, WaitersWait
  <1>5. QED
    BY <1>3, <1>4 DEF Ask

\* A request gives a connection back: one of those that wait has it, or the pool.
LEMMA ReleaseKeeps ==
    ASSUME PoolInv, NEW c \in Client, NEW next \in {"rows", "idle"},
           stage[c] = IF next = "rows" THEN "nested" ELSE "rows", Release(c, next),
           left' \in [Client -> 0..MaxNested], \A d \in Client \ {c} : left'[d] = left[d],
           left'[c] > 0 => c \in Nester
    PROVE  PoolInv'
  <1>1. /\ free \in Nat /\ free <= PoolSize /\ PoolSize \in Nat /\ waiting \subseteq Client
        /\ stage \in [Client -> Stages] /\ holds \in [Client -> 0..2]
        /\ Cardinality(Held) \in Nat /\ free + Cardinality(Held) = PoolSize
        /\ \A d \in Client : holds[d] = HoldsAt(stage[d])
        /\ waiting # {} => free = 0
        /\ WaitersWait(waiting, stage) /\ OnlyNestersNest
    <2>1. Cardinality(Held) \in Nat
      BY HeldFinite, FS_CardinalityType DEF Held
    <2>2. QED
      BY <2>1, InvParts, PoolAssumption DEF PoolTypeOK
  <1>2. /\ holds[c] \in {1, 2} /\ holds[c] = HoldsAt(next) + 1 /\ HoldsAt(next) \in {0, 1}
        /\ stage[c] \notin {"wait_outer", "wait_inner"} /\ next \notin {"wait_outer", "wait_inner"}
    BY <1>1 DEF HoldsAt
  <1>3. CASE waiting = {} /\ free' = free + 1 /\ holds' = [holds EXCEPT ![c] = @ - 1]
             /\ stage' = [stage EXCEPT ![c] = next] /\ waiting' = waiting
    <2>1. Cardinality(Held') = Cardinality(Held) - 1
      BY <1>1, <1>2, <1>3, HeldGives
    <2>2. Cardinality(Held') \in Nat
      BY HeldFinite, FS_CardinalityType DEF Held
    <2>3. WaitersWait(waiting', stage')
      BY <1>1, <1>2, <1>3 DEF WaitersWait
    <2>4. PoolTypeOK'
      BY <1>1, <1>2, <1>3, <2>1, <2>2 DEF PoolTypeOK, Stages
    <2>5. \A d \in Client : holds'[d] = HoldsAt(stage'[d])
      BY <1>1, <1>2, <1>3
    <2>6. OnlyNestersNest'
      BY <1>1, <1>3 DEF OnlyNestersNest
    <2>7. free' + Cardinality(Held') = PoolSize
      BY <1>1, <1>3, <2>1
    <2>8. QED
      BY <1>3, <2>3, <2>4, <2>5, <2>6, <2>7 DEF PoolInv, ConnectionsConserved, HoldsAt, Waiting
  <1>4. ASSUME NEW first \in waiting, waiting' = waiting \ {first},
               holds' = [holds EXCEPT ![c] = @ - 1, ![first] = @ + 1],
               stage' = [stage EXCEPT ![c] = next, ![first] = Granted(stage[first])],
               free' = free
        PROVE  PoolInv'
    <2> DEFINE granted == Granted(stage[first])
    <2>1. first \in Client /\ stage[first] \in {"wait_outer", "wait_inner"} /\ first # c
      BY <1>1, <1>2 DEF WaitersWait
    <2>2. /\ granted \in {"rows", "nested"} /\ HoldsAt(granted) = HoldsAt(stage[first]) + 1
          /\ holds[first] \in {0, 1}
      BY <1>1, <2>1 DEF Granted, HoldsAt
    <2>3. granted = "nested" => stage[first] = "wait_inner"
      BY <2>1 DEF Granted
    <2> HIDE DEF granted
    <2>4. /\ holds' = [holds EXCEPT ![c] = @ - 1, ![first] = @ + 1]
          /\ stage' = [stage EXCEPT ![c] = next, ![first] = granted]
      BY <1>4 DEF granted
    <2>5. Cardinality(Held') = Cardinality(Held)
      BY <1>1, <1>2, <2>1, <2>2, <2>4, HeldPasses
    <2>6. WaitersWait(waiting', stage') /\ waiting' \subseteq Client
      BY <1>1, <1>2, <1>4, <2>1, <2>2, <2>4 DEF WaitersWait
    <2>7. PoolTypeOK'
      <3>1. holds' \in [Client -> 0..2]
        <4>1. holds[c] - 1 \in 0..2 /\ holds[first] + 1 \in 0..2
          BY <1>2, <2>2
        <4>2. QED
          BY <1>1, <2>1, <2>4, <4>1
      <3>2. stage' \in [Client -> Stages]
        BY <1>1, <2>1, <2>2, <2>4 DEF Stages
      <3>3. free' \in 0..PoolSize
        BY <1>1, <1>4
      <3>4. QED
        BY <2>6, <3>1, <3>2, <3>3 DEF PoolTypeOK
    <2>8. \A d \in Client : holds'[d] = HoldsAt(stage'[d])
      <3>1. \A d \in Client \ {c, first} : holds'[d] = holds[d] /\ stage'[d] = stage[d]
        BY <1>1, <2>1, <2>4
      <3>2. holds'[c] = holds[c] - 1 /\ stage'[c] = next
        BY <1>1, <2>1, <2>4
      <3>3. holds'[first] = holds[first] + 1 /\ stage'[first] = granted
        BY <1>1, <2>1, <2>4
      <3>4. holds'[first] = HoldsAt(granted)
        BY <1>1, <2>1, <2>2, <3>3
      <3>5. holds'[c] = HoldsAt(next)
        BY <1>2, <3>2
      <3>6. \A d \in Client \ {c, first} : holds'[d] = HoldsAt(stage'[d])
        BY <1>1, <3>1
      <3>7. QED
        BY <3>2, <3>3, <3>4, <3>5, <3>6
    <2>9. OnlyNestersNest'
      BY <1>1, <2>1, <2>2, <2>3, <2>4 DEF OnlyNestersNest
    <2>10. free' + Cardinality(Held') = PoolSize /\ free' = 0
      BY <1>1, <1>4, <2>5
    <2>11. QED
      BY <2>6, <2>7, <2>8, <2>9, <2>10 DEF PoolInv, ConnectionsConserved, HoldsAt, Waiting, WaitersWait
  <1>5. QED
    BY <1>3, <1>4 DEF Release

\* At first all connections are free and nobody waits.
LEMMA PoolInitHolds == PoolInit => PoolInv
  <1> SUFFICES ASSUME PoolInit
               PROVE  PoolInv
    OBVIOUS
  <1>1. /\ free = PoolSize /\ waiting = {} /\ \A c \in Client : stage[c] = "idle" /\ holds[c] = 0 /\ left[c] = 0
    BY DEF PoolInit
  <1>2. PoolTypeOK
    BY PoolAssumption DEF PoolInit, PoolTypeOK, Stages
  <1>3. Cardinality(Held) = 0
    <2>1. Held = {}
      BY <1>1 DEF Held
    <2>2. QED
      BY <2>1, FS_EmptySet
  <1>4. WaitersWait(waiting, stage)
    BY <1>1 DEF WaitersWait
  <1>5. OnlyNestersNest
    BY <1>1 DEF OnlyNestersNest
  <1>6. QED
    BY <1>1, <1>2, <1>3, <1>4, <1>5, InvParts, PoolAssumption DEF HoldsAt

\* Every step of a request keeps the invariant.
LEMMA PoolNextPreserves ==
    ASSUME PoolInv, [PoolNext]_poolVars
    PROVE  PoolInv'
  <1>1. left \in [Client -> 0..MaxNested] /\ MaxNested \in Nat /\ OnlyNestersNest
    BY PoolAssumption DEF PoolInv, PoolTypeOK
  <1>2. ASSUME NEW c \in Client, Begin(c)
        PROVE  PoolInv'
    <2>1. PICK n \in 0..MaxNested : (c \notin Nester => n = 0) /\ left' = [left EXCEPT ![c] = n]
      BY <1>2 DEF Begin
    <2>2. /\ left' \in [Client -> 0..MaxNested] /\ \A d \in Client \ {c} : left'[d] = left[d]
          /\ left'[c] > 0 => c \in Nester
      BY <1>1, <2>1
    <2>3. stage[c] = "idle" /\ Ask(c, "wait_outer")
      BY <1>2 DEF Begin
    <2>4. QED
      BY <2>2, <2>3, AskKeeps
  <1>3. ASSUME NEW c \in Client, BeginNested(c)
        PROVE  PoolInv'
    <2>1. stage[c] = "rows" /\ left[c] > 0 /\ Ask(c, "wait_inner") /\ left' = left
      BY <1>3 DEF BeginNested
    <2>2. QED
      BY <1>1, <2>1, AskKeeps DEF OnlyNestersNest
  <1>4. ASSUME NEW c \in Client, EndNested(c)
        PROVE  PoolInv'
    <2>1. stage[c] = "nested" /\ Release(c, "rows") /\ left' = [left EXCEPT ![c] = @ - 1]
      BY <1>4 DEF EndNested
    <2>2. left[c] > 0 /\ c \in Nester
      BY <2>1, <1>1 DEF OnlyNestersNest
    <2>3. left' \in [Client -> 0..MaxNested] /\ \A d \in Client \ {c} : left'[d] = left[d]
      BY <1>1, <2>1, <2>2
    <2>4. QED
      BY <2>1, <2>2, <2>3, ReleaseKeeps
  <1>5. ASSUME NEW c \in Client, Finish(c)
        PROVE  PoolInv'
    <2>1. stage[c] = "rows" /\ Release(c, "idle") /\ left' = left
      BY <1>5 DEF Finish
    <2>2. QED
      BY <1>1, <2>1, ReleaseKeeps DEF OnlyNestersNest
  <1>6. ASSUME NEW c \in Client, NestedFails(c)
        PROVE  PoolInv'
    <2>1. stage[c] = "nested" /\ Release(c, "rows") /\ left' = [left EXCEPT ![c] = 0]
      BY <1>6 DEF NestedFails
    <2>2. /\ left' \in [Client -> 0..MaxNested] /\ \A d \in Client \ {c} : left'[d] = left[d]
          /\ left'[c] = 0
      BY <1>1, <2>1
    <2>3. QED
      BY <2>1, <2>2, ReleaseKeeps
  <1>7. CASE UNCHANGED poolVars
    BY <1>7 DEF poolVars, PoolInv, PoolTypeOK, ConnectionsConserved, Held, Waiting,
                OnlyNestersNest
  <1>8. QED
    BY <1>2, <1>3, <1>4, <1>5, <1>6, <1>7 DEF PoolNext, RequestStep

\* The connections are all accounted for, the pool knows exactly those who
\* wait, and only those who nest wait while they hold one.
THEOREM PoolInvariantHolds == PoolSpec => []PoolInv
  <1>1. PoolInv /\ [PoolNext]_poolVars => PoolInv'
    BY PoolNextPreserves
  <1>2. QED
    BY <1>1, PoolInitHolds, PTL DEF PoolSpec

\* The pool never has more than its size free, and nobody holds more than two
\* connections.
THEOREM PoolTypeCorrect == PoolSpec => []PoolTypeOK
  <1>1. PoolInv => PoolTypeOK
    BY DEF PoolInv
  <1>2. QED
    BY <1>1, PoolInvariantHolds, PTL

\* Whatever fails, in whatever order requests take, await and are given
\* connections, none is lost or given back twice, and none is idle while a
\* request waits for one.
THEOREM NoConnectionIsLost == PoolSpec => []ConnectionsConserved
  <1>1. PoolInv => ConnectionsConserved
    BY DEF PoolInv
  <1>2. QED
    BY <1>1, PoolInvariantHolds, PTL

\* Everyone who waits while holding a connection nests: when the pool has one
\* connection more than there are such requests, one of the holders runs.
LEMMA EnoughConnections ==
    ASSUME PoolInv, Cardinality(Nester) < PoolSize
    PROVE  SomebodyRuns
  <1> SUFFICES ASSUME free = 0, \A c \in Client : holds[c] > 0 => Waiting(c)
               PROVE  FALSE
    BY PoolAssumption DEF SomebodyRuns, PoolInv, PoolTypeOK
  <1>1. Cardinality(Held) = PoolSize
    <2>1. Cardinality(Held) \in Nat
      BY HeldFinite, FS_CardinalityType DEF Held
    <2>2. QED
      BY <2>1, PoolAssumption DEF PoolInv, ConnectionsConserved
  <1>2. Held \subseteq Nester \X {1}
    <2> SUFFICES ASSUME NEW h \in Held
                 PROVE  h[1] \in Nester /\ h = <<h[1], 1>>
      OBVIOUS
    <2>1. h[1] \in Client /\ h[2] \in {1, 2} /\ h[2] <= holds[h[1]] /\ h = <<h[1], h[2]>>
      BY DEF Held
    <2>2. holds[h[1]] \in 0..2
      BY <2>1 DEF PoolInv, PoolTypeOK
    <2>3. stage[h[1]] = "wait_inner" /\ holds[h[1]] = 1
      BY <2>1, <2>2, InvParts DEF HoldsAt, Waiting
    <2>4. h[1] \in Nester
      BY <2>1, <2>3 DEF PoolInv, OnlyNestersNest
    <2>5. h[2] = 1
      BY <2>1, <2>3
    <2>6. QED
      BY <2>1, <2>4, <2>5
  <1>3. IsFiniteSet(Nester) /\ Cardinality(Nester) \in Nat
    BY PoolAssumption, FS_Subset, FS_CardinalityType
  <1>4. IsFiniteSet(Nester \X {1}) /\ Cardinality(Nester \X {1}) = Cardinality(Nester)
    <2>1. IsFiniteSet({1}) /\ Cardinality({1}) = 1
      BY FS_Singleton
    <2>2. Cardinality(Nester \X {1}) = Cardinality(Nester) * Cardinality({1})
          /\ IsFiniteSet(Nester \X {1})
      BY <1>3, <2>1, FS_Product
    <2>3. QED
      BY <1>3, <2>1, <2>2
  <1>5. Cardinality(Held) <= Cardinality(Nester \X {1})
    BY <1>2, <1>4, FS_Subset
  <1>6. QED
    BY <1>1, <1>3, <1>4, <1>5, PoolAssumption

\* However many requests there are, they never all wait for each other while
\* fewer of them nest than the pool has connections (SearchMemories with
\* entity contexts, and the AGE contexts, need a second one).
THEOREM SomebodyAlwaysRuns ==
    ASSUME Cardinality(Nester) < PoolSize
    PROVE  PoolSpec => []SomebodyRuns
  <1>1. PoolInv => SomebodyRuns
    BY EnoughConnections
  <1>2. QED
    BY <1>1, PoolInvariantHolds, PTL
=============================================================================

--------------------------- MODULE TraversalProofs ---------------------------
(***************************************************************************)
(* What holds of FindPath and GetEntityContext for every set of entities,  *)
(* every graph and however other requests edit it between two queries.     *)
(***************************************************************************)
EXTENDS Traversal, FiniteSetTheorems, WellFoundedInduction, TLAPS

-----------------------------------------------------------------------------
(* Induction and recursion over the naturals, for sets and functions *)

\* A set of numbers has a least one.
LEMMA LeastElement ==
    ASSUME NEW S, S \subseteq Nat, S # {}
    PROVE  \E n \in S : \A m \in S : n <= m
  <1>1. PICK n \in S : \A m \in S : ~ (<<m, n>> \in OpToRel(<, Nat))
    BY NatLessThanWellFounded, WFMin
  <1>2. \A m \in S : ~(m < n)
    BY <1>1 DEF OpToRel
  <1>3. \A m \in S : n \in Nat /\ m \in Nat
    OBVIOUS
  <1>4. QED
    BY <1>2, <1>3

\* A set that holds 0 and with each number the next holds them all.
LEMMA SetInduction ==
    ASSUME NEW S, 0 \in S, \A n \in Nat : n \in S => n + 1 \in S
    PROVE  Nat \subseteq S
  <1> SUFFICES ASSUME Nat \ S # {} PROVE FALSE
    OBVIOUS
  <1>1. PICK n \in Nat \ S : \A m \in Nat \ S : n <= m
    BY LeastElement
  <1>2. n # 0 /\ n - 1 \in Nat /\ n - 1 \in S
    BY <1>1
  <1>3. (n - 1) + 1 \in S
    BY <1>2
  <1>4. QED
    BY <1>1, <1>3

Iterates(f, T, c, g, m) ==
    f \in [0..m -> T] /\ f[0] = c /\ \A k \in 1..m : f[k] = g[f[k-1]]

AllIterates(f, T, c, g) ==
    f \in [Nat -> T] /\ f[0] = c /\ \A k \in Nat : f[k+1] = g[f[k]]

\* A function may be applied over and over to a first value.
LEMMA IterateUpTo ==
    ASSUME NEW T, NEW c \in T, NEW g \in [T -> T], NEW n \in Nat
    PROVE  \E f : Iterates(f, T, c, g, n)
  <1> DEFINE S == {m \in Nat : \E f : Iterates(f, T, c, g, m)}
  <1>1. 0 \in S
    <2>1. Iterates([k \in 0..0 |-> c], T, c, g, 0)
      BY DEF Iterates
    <2>2. QED
      BY <2>1
  <1>2. ASSUME NEW m \in Nat, m \in S
        PROVE  m + 1 \in S
    <2>1. PICK f : Iterates(f, T, c, g, m)
      BY <1>2
    <2> DEFINE h == [k \in 0..(m+1) |-> IF k = m + 1 THEN g[f[m]] ELSE f[k]]
    <2>2. f \in [0..m -> T] /\ f[m] \in T /\ g[f[m]] \in T
      BY <2>1 DEF Iterates
    <2>3. h \in [0..(m+1) -> T]
      BY <2>2
    <2>4. \A k \in 1..(m+1) : h[k] = g[h[k-1]]
      <3>1. CASE m = 0
        BY <2>2, <3>1
      <3>2. ASSUME NEW k \in 1..(m+1), k # m + 1
            PROVE  h[k] = f[k] /\ h[k-1] = f[k-1] /\ k \in 1..m
        BY <3>2
      <3>3. h[m+1] = g[f[m]] /\ h[m] = f[m]
        OBVIOUS
      <3>4. QED
        BY <2>1, <3>2, <3>3 DEF Iterates
    <2>5. h[0] = c
      BY <2>1 DEF Iterates
    <2> HIDE DEF h
    <2>6. Iterates(h, T, c, g, m + 1)
      BY <2>3, <2>4, <2>5 DEF Iterates
    <2>7. QED
      BY <2>6
  <1> HIDE DEF S
  <1>3. Nat \subseteq S
    BY <1>1, <1>2, SetInduction
  <1>4. QED
    BY <1>3 DEF S

\* A function may be applied over and over without end: what CHOOSE needs to
\* find a recursive function over Nat.
LEMMA Iterate ==
    ASSUME NEW T, NEW c \in T, NEW g \in [T -> T]
    PROVE  \E f : AllIterates(f, T, c, g)
  <1> DEFINE F(m) == CHOOSE f : Iterates(f, T, c, g, m)
  <1>1. ASSUME NEW m \in Nat
        PROVE  Iterates(F(m), T, c, g, m)
    <2>1. \E f : Iterates(f, T, c, g, m)
      BY IterateUpTo
    <2>2. QED
      BY <2>1, Zenon
  <1> HIDE DEF F
  <1>2. ASSUME NEW m \in Nat
        PROVE  F(m+1)[m] = F(m)[m]
    <2> DEFINE S == {k \in Nat : k <= m => F(m+1)[k] = F(m)[k]}
    <2>1. 0 \in S
      BY <1>1 DEF Iterates
    <2>2. ASSUME NEW k \in Nat, k \in S
          PROVE  k + 1 \in S
      <3>1. CASE k + 1 <= m
        <4>1. k + 1 \in 1..m /\ k + 1 \in 1..(m+1) /\ (k + 1) - 1 = k /\ F(m+1)[k] = F(m)[k]
          BY <2>2, <3>1
        <4>2. F(m)[k+1] = g[F(m)[k]] /\ F(m+1)[k+1] = g[F(m+1)[k]]
          BY <1>1, <4>1 DEF Iterates
        <4>3. QED
          BY <4>1, <4>2
      <3>2. QED
        BY <3>1
    <2> HIDE DEF S
    <2>3. Nat \subseteq S
      BY <2>1, <2>2, SetInduction
    <2>4. QED
      BY <2>3 DEF S
  <1> DEFINE f == [m \in Nat |-> F(m)[m]]
  <1>3. f \in [Nat -> T] /\ f[0] = c
    BY <1>1 DEF Iterates
  <1>4. ASSUME NEW k \in Nat
        PROVE  f[k+1] = g[f[k]]
    <2>1. k + 1 \in 1..(k+1) /\ (k + 1) - 1 = k
      OBVIOUS
    <2>2. F(k+1)[k+1] = g[F(k+1)[k]]
      BY <1>1, <2>1 DEF Iterates
    <2>3. QED
      BY <1>2, <2>2
  <1> HIDE DEF f
  <1>5. AllIterates(f, T, c, g)
    BY <1>3, <1>4 DEF AllIterates
  <1>6. QED
    BY <1>5

-----------------------------------------------------------------------------
(* The reference definitions *)

Grow(graph, A) == A \cup {x \in Entity : \E y \in A : <<y, x>> \in graph}

\* What is within reach of n + 1 relationships: what is within reach of n, and
\* the targets of the relationships that leave it.
LEMMA ReachInSteps ==
    ASSUME NEW graph, NEW e \in Entity
    PROVE  /\ ReachIn(graph, e, 0) = {e}
           /\ \A n \in Nat : /\ ReachIn(graph, e, n) \subseteq Entity
                             /\ ReachIn(graph, e, n+1) = Grow(graph, ReachIn(graph, e, n))
  <1> DEFINE T == SUBSET Entity
             c == {e}
             g == [A \in T |-> Grow(graph, A)]
  <1>1. g \in [T -> T] /\ c \in T
    BY DEF Grow
  <1> HIDE DEF T, c, g
  <1>2. PICK f : AllIterates(f, T, c, g)
    BY <1>1, Iterate
  <1>3. f[0] = {e} /\ \A k \in Nat : f[k] \in SUBSET Entity /\ f[k+1] = Grow(graph, f[k])
    BY <1>2 DEF AllIterates, T, c, g
  <1>4. ASSUME NEW n \in Nat
        PROVE  ReachIn(graph, e, n) = f[n]
    <2> DEFINE Def(r) == [k \in 0..n |->
                            IF k = 0 THEN {e}
                            ELSE r[k-1] \cup {x \in Entity : \E y \in r[k-1] : <<y, x>> \in graph}]
               r0 == CHOOSE r : r = Def(r)
               fn == [k \in 0..n |-> f[k]]
    <2>1. fn = Def(fn)
      <3>1. ASSUME NEW k \in 0..n, k # 0
            PROVE  f[k] = f[k-1] \cup {x \in Entity : \E y \in f[k-1] : <<y, x>> \in graph}
        <4>1. k - 1 \in Nat /\ (k - 1) + 1 = k
          BY <3>1
        <4>2. QED
          BY <1>3, <4>1 DEF Grow
      <3>2. \A k \in 0..n : k # 0 => k - 1 \in 0..n
        OBVIOUS
      <3>3. QED
        BY <1>3, <3>1, <3>2
    <2>2. r0 = Def(r0)
      BY <2>1, Zenon
    <2>3. ReachIn(graph, e, n) = r0[n]
      BY DEF ReachIn
    <2> HIDE DEF r0, fn
    <2> DEFINE S == {k \in Nat : k <= n => r0[k] = f[k]}
    <2>4. 0 \in S
      <3>1. 0 \in 0..n
        OBVIOUS
      <3>2. QED
        BY <1>3, <2>2, <3>1
    <2>5. ASSUME NEW k \in Nat, k \in S
          PROVE  k + 1 \in S
      <3>1. CASE k + 1 <= n
        <4>1. k + 1 \in 0..n /\ k + 1 # 0 /\ (k + 1) - 1 = k /\ r0[k] = f[k]
          BY <2>5, <3>1
        <4>2. r0[k+1] = Grow(graph, r0[k])
          BY ZenonT(30), <2>2, <4>1 DEF Grow
        <4>3. QED
          BY <1>3, <4>1, <4>2
      <3>2. QED
        BY <3>1
    <2> HIDE DEF S
    <2>6. Nat \subseteq S
      BY <2>4, <2>5, SetInduction
    <2>7. QED
      BY <2>3, <2>6 DEF S
  <1>5. QED
    BY <1>3, <1>4

\* Who has followed every relationship of the entities less than d away has
\* visited, at their distance at most, all within d.
LEMMA ReachIsVisited ==
    ASSUME NEW graph, NEW e \in Entity, NEW d \in Nat, NEW depths \in [Entity -> Nat],
           NEW visited, e \in visited, visited \subseteq Entity, depths[e] = 0,
           \A x \in visited, y \in Entity :
              depths[x] < d /\ <<x, y>> \in graph => y \in visited /\ depths[y] <= depths[x] + 1
    PROVE  \A n \in 0..d : \A x \in ReachIn(graph, e, n) : x \in visited /\ depths[x] <= n
  <1> DEFINE S == {n \in Nat : n <= d =>
                     \A x \in ReachIn(graph, e, n) : x \in visited /\ depths[x] <= n}
  <1>1. 0 \in S
    BY ReachInSteps
  <1>2. ASSUME NEW n \in Nat, n \in S
        PROVE  n + 1 \in S
    <2>1. ASSUME n + 1 <= d, NEW y \in ReachIn(graph, e, n + 1)
          PROVE  y \in visited /\ depths[y] <= n + 1
      <3>1. \A x \in ReachIn(graph, e, n) : x \in visited /\ depths[x] <= n
        BY <1>2, <2>1
      <3>2. y \in Grow(graph, ReachIn(graph, e, n))
        BY <2>1, ReachInSteps
      <3>3. CASE y \in ReachIn(graph, e, n)
        BY <3>1, <3>3
      <3>4. CASE y \in Entity /\ \E x \in ReachIn(graph, e, n) : <<x, y>> \in graph
        <4>1. PICK x \in ReachIn(graph, e, n) : <<x, y>> \in graph
          BY <3>4
        <4>2. x \in visited /\ depths[x] <= n /\ depths[x] \in Nat
          BY <3>1
        <4>3. y \in visited /\ depths[y] <= depths[x] + 1 /\ depths[y] \in Nat
          BY <2>1, <3>4, <4>1, <4>2
        <4>4. QED
          BY <4>2, <4>3
      <3>5. QED
        BY <3>2, <3>3, <3>4 DEF Grow
    <2>2. QED
      BY <2>1
  <1> HIDE DEF S
  <1>3. Nat \subseteq S
    BY <1>1, <1>2, SetInduction
  <1>4. QED
    BY <1>3 DEF S

IsWalk(p, graph, from, to, n) ==
    /\ p \in [1..(n+1) -> Entity]
    /\ p[1] = from /\ p[n+1] = to
    /\ \A i \in 1..n : <<p[i], p[i+1]>> \in graph

\* What is within reach is reached by a walk.
LEMMA ReachIsWalked ==
    ASSUME NEW graph, NEW e \in Entity
    PROVE  \A n \in Nat : \A x \in ReachIn(graph, e, n) : \E m \in 0..n : \E p : IsWalk(p, graph, e, x, m)
  <1> DEFINE Walked(x, n) == \E m \in 0..n : \E p : IsWalk(p, graph, e, x, m)
             S == {n \in Nat : \A x \in ReachIn(graph, e, n) : Walked(x, n)}
  <1>1. 0 \in S
    <2> DEFINE p == [i \in 1..1 |-> e]
    <2>1. IsWalk(p, graph, e, e, 0)
      BY DEF IsWalk
    <2>2. ReachIn(graph, e, 0) = {e} /\ 0 \in 0..0
      BY ReachInSteps
    <2> HIDE DEF p
    <2>3. QED
      BY <2>1, <2>2
  <1>2. ASSUME NEW n \in Nat, n \in S
        PROVE  n + 1 \in S
    <2>1. ASSUME NEW y \in ReachIn(graph, e, n + 1)
          PROVE  Walked(y, n + 1)
      <3>1. y \in Grow(graph, ReachIn(graph, e, n))
        BY ZenonT(30), ReachInSteps
      <3>2. CASE y \in ReachIn(graph, e, n)
        <4>1. PICK m \in 0..n : \E p : IsWalk(p, graph, e, y, m)
          BY <1>2, <3>2
        <4>2. m \in 0..(n+1)
          OBVIOUS
        <4>3. QED
          BY <4>1, <4>2
      <3>3. CASE y \in Entity /\ \E x \in ReachIn(graph, e, n) : <<x, y>> \in graph
        <4>1. PICK x \in ReachIn(graph, e, n) : <<x, y>> \in graph
          BY <3>3
        <4>2. PICK m \in 0..n : \E p : IsWalk(p, graph, e, x, m)
          BY <1>2
        <4>3. PICK p : IsWalk(p, graph, e, x, m)
          BY <4>2
        <4> DEFINE q == [i \in 1..(m+2) |-> IF i = m + 2 THEN y ELSE p[i]]
        <4>4. q \in [1..((m+1)+1) -> Entity] /\ q[1] = e /\ q[(m+1)+1] = y
          BY <3>3, <4>3 DEF IsWalk
        <4>5. ASSUME NEW i \in 1..(m+1)
              PROVE  <<q[i], q[i+1]>> \in graph
          <5>1. CASE i = m + 1
            BY <4>1, <4>3, <5>1 DEF IsWalk
          <5>2. CASE i \in 1..m
            BY <4>3, <5>2 DEF IsWalk
          <5>3. QED
            BY <5>1, <5>2
        <4> HIDE DEF q
        <4>6. IsWalk(q, graph, e, y, m + 1)
          BY <4>4, <4>5 DEF IsWalk
        <4>7. m + 1 \in 0..(n+1)
          OBVIOUS
        <4>8. QED
          BY <4>6, <4>7
      <3>4. QED
        BY <3>1, <3>2, <3>3 DEF Grow
    <2> HIDE DEF Walked
    <2>2. QED
      BY <2>1
  <1> HIDE DEF S
  <1>3. Nat \subseteq S
    BY <1>1, <1>2, SetInduction
  <1>4. QED
    BY <1>3 DEF S
\* The balls of any graph; a ball grows by the entities a relationship joins
\* with it, either way.
BallIn(graph, e, n) ==
    LET b[k \in 0..n] ==
        IF k = 0 THEN {e}
        ELSE b[k-1] \cup {x \in Entity : \E y \in b[k-1] : {<<x, y>>, <<y, x>>} \cap graph # {}}
    IN b[n]

Widen(graph, A) == A \cup {x \in Entity : \E y \in A : {<<x, y>>, <<y, x>>} \cap graph # {}}

\* What is within n + 1 relationships, either way: what is within n, and the
\* other ends of the relationships of it.
LEMMA BallSteps ==
    ASSUME NEW graph, NEW e \in Entity
    PROVE  /\ BallIn(graph, e, 0) = {e}
           /\ \A n \in Nat : /\ BallIn(graph, e, n) \subseteq Entity
                             /\ BallIn(graph, e, n+1) = Widen(graph, BallIn(graph, e, n))
  <1> DEFINE T == SUBSET Entity
             c == {e}
             g == [A \in T |-> Widen(graph, A)]
  <1>1. g \in [T -> T] /\ c \in T
    BY DEF Widen
  <1> HIDE DEF T, c, g
  <1>2. PICK f : AllIterates(f, T, c, g)
    BY <1>1, Iterate
  <1>3. f[0] = {e} /\ \A k \in Nat : f[k] \in SUBSET Entity /\ f[k+1] = Widen(graph, f[k])
    BY <1>2 DEF AllIterates, T, c, g
  <1>4. ASSUME NEW n \in Nat
        PROVE  BallIn(graph, e, n) = f[n]
    <2> DEFINE Def(r) == [k \in 0..n |->
                            IF k = 0 THEN {e}
                            ELSE r[k-1] \cup {x \in Entity : \E y \in r[k-1] :
                                                 {<<x, y>>, <<y, x>>} \cap graph # {}}]
               r0 == CHOOSE r : r = Def(r)
               fn == [k \in 0..n |-> f[k]]
    <2>1. fn = Def(fn)
      <3>1. ASSUME NEW k \in 0..n, k # 0
            PROVE  f[k] = f[k-1] \cup {x \in Entity : \E y \in f[k-1] :
                                          {<<x, y>>, <<y, x>>} \cap graph # {}}
        <4>1. k - 1 \in Nat /\ (k - 1) + 1 = k
          BY <3>1
        <4>2. QED
          BY <1>3, <4>1 DEF Widen
      <3>2. \A k \in 0..n : k # 0 => k - 1 \in 0..n
        OBVIOUS
      <3>3. QED
        BY <1>3, <3>1, <3>2
    <2>2. r0 = Def(r0)
      BY <2>1, Zenon
    <2>3. BallIn(graph, e, n) = r0[n]
      BY DEF BallIn
    <2> HIDE DEF r0, fn
    <2> DEFINE S == {k \in Nat : k <= n => r0[k] = f[k]}
    <2>4. 0 \in S
      <3>1. 0 \in 0..n
        OBVIOUS
      <3>2. QED
        BY <1>3, <2>2, <3>1
    <2>5. ASSUME NEW k \in Nat, k \in S
          PROVE  k + 1 \in S
      <3>1. CASE k + 1 <= n
        <4>1. k + 1 \in 0..n /\ k + 1 # 0 /\ (k + 1) - 1 = k /\ r0[k] = f[k]
          BY <2>5, <3>1
        <4> DEFINE m == k + 1
        <4> HIDE DEF m
        <4>2. m \in 0..n /\ m # 0 /\ m - 1 = k
          BY <4>1 DEF m
        <4>3. r0[m] = Widen(graph, r0[m-1])
          BY <2>2, <4>2, Zenon DEF Widen
        <4>4. QED
          BY <1>3, <4>1, <4>2, <4>3 DEF m
      <3>2. QED
        BY <3>1
    <2> HIDE DEF S
    <2>6. Nat \subseteq S
      BY <2>4, <2>5, SetInduction
    <2>7. QED
      BY <2>3, <2>6 DEF S
  <1>5. QED
    BY <1>3, <1>4

-----------------------------------------------------------------------------
(* The chain FindPath walks back *)

\* The entries of a chain along the entities s, from the target back.
Links(s, len) ==
    [i \in 1..(len + 1) |-> [entity |-> s[i-1],
                             relationship |-> IF i = 1 THEN None ELSE <<s[i-1], s[i-2]>>]]

LeadsBack(prev, from, to, s, len) ==
    /\ prev \in [Entity -> Entity \cup {None}]
    /\ from \in Entity
    /\ to \in Entity
    /\ len \in 1..Cardinality(Entity)
    /\ s \in [0..len -> Entity]
    /\ s[0] = to /\ s[len] = from
    /\ \A k \in 0..(len - 1) : s[k] # from /\ s[k+1] = prev[s[k]]

\* If the pointers lead from the target back to the start, Chain walks back
\* along them and stops there.
LEMMA ChainFollows ==
    ASSUME NEW prev, NEW from, NEW to, NEW len, NEW s, LeadsBack(prev, from, to, s, len)
    PROVE  Chain(prev, from, to) = Links(s, len)
  <1> DEFINE C == Cardinality(Entity)
             Def(r) == [n \in 0..C |->
                          IF n = 0 THEN to
                          ELSE IF r[n-1] \in {from, None} THEN None ELSE prev[r[n-1]]]
             b == [n \in 0..C |-> IF n <= len THEN s[n] ELSE None]
             r0 == CHOOSE r : r = Def(r)
             length == CHOOSE n \in DOMAIN r0 : r0[n] = from
  <1>0. /\ prev \in [Entity -> Entity \cup {None}] /\ from \in Entity /\ to \in Entity
        /\ len \in 1..Cardinality(Entity) /\ s \in [0..len -> Entity]
        /\ s[0] = to /\ s[len] = from
        /\ \A k \in 0..(len - 1) : s[k] # from /\ s[k+1] = prev[s[k]]
    BY DEF LeadsBack
  <1> USE <1>0
  <1>1. C \in Nat /\ len \in Nat /\ len <= C /\ 1 <= len /\ None \notin Entity
    BY FS_CardinalityType, TraversalAssumption
  <1> HIDE DEF C
  <1>2. b = Def(b)
    <2>1. ASSUME NEW n \in 0..C, n # 0
          PROVE  b[n] = IF b[n-1] \in {from, None} THEN None ELSE prev[b[n-1]]
      <3>1. CASE n <= len
        <4>1. n - 1 \in 0..(len - 1) /\ (n - 1) + 1 = n /\ n - 1 \in 0..C /\ n - 1 <= len
          BY <1>1, <2>1, <3>1
        <4>2. b[n] = s[n] /\ b[n-1] = s[n-1] /\ s[n-1] # from /\ s[n] = prev[s[n-1]]
          BY <3>1, <4>1
        <4>3. s[n-1] # None
          BY <1>1, <4>1
        <4>4. QED
          BY <4>2, <4>3
      <3>2. CASE n = len + 1
        <4>1. b[n] = None /\ n - 1 = len /\ b[n-1] = from
          BY <1>1, <2>1, <3>2
        <4>2. QED
          BY <4>1
      <3>3. CASE n > len + 1
        <4>1. b[n] = None /\ b[n-1] = None
          BY <1>1, <2>1, <3>3
        <4>2. QED
          BY <4>1
      <3>4. QED
        BY <1>1, <3>1, <3>2, <3>3
    <2>2. b[0] = to /\ 0 \in 0..C
      BY <1>1
    <2> DEFINE db == Def(b)
    <2>3. \A n \in 0..C : db[n] = b[n]
      BY <2>1, <2>2
    <2>4. db = [n \in 0..C |-> db[n]] /\ b = [n \in 0..C |-> b[n]]
      OBVIOUS
    <2> HIDE DEF db, b
    <2>5. db = b
      BY <2>3, <2>4
    <2>6. QED
      BY <2>5 DEF db
  <1>3. r0 = Def(r0)
    BY <1>2, Zenon
  <1>4. Chain(prev, from, to) =
           [i \in 1..(length + 1) |->
               [entity |-> r0[i-1], relationship |-> IF i = 1 THEN None ELSE <<r0[i-1], r0[i-2]>>]]
    BY Zenon DEF Chain, C
  <1>5. DOMAIN r0 = 0..C
    BY <1>3
  <1> HIDE DEF r0
  <1>6. ASSUME NEW n \in 0..C
        PROVE  r0[n] = b[n]
    <2> DEFINE S == {k \in Nat : k <= C => r0[k] = b[k]}
    <2>1. 0 \in S
      <3>1. r0[0] = to /\ b[0] = to
        BY <1>1, <1>3
      <3>2. QED
        BY <3>1
    <2>2. ASSUME NEW k \in Nat, k \in S
          PROVE  k + 1 \in S
      <3>1. CASE k + 1 <= C
        <4> DEFINE m == k + 1
        <4> HIDE DEF m
        <4>1. m \in 0..C /\ m # 0 /\ m - 1 = k /\ r0[k] = b[k]
          BY <1>1, <2>2, <3>1 DEF m
        <4>2. r0[m] = IF r0[m-1] \in {from, None} THEN None ELSE prev[r0[m-1]]
          BY <1>3, <4>1, Zenon
        <4> HIDE DEF b
        <4>3. b[m] = IF b[m-1] \in {from, None} THEN None ELSE prev[b[m-1]]
          BY <1>2, <4>1, Zenon
        <4>4. QED
          BY <4>1, <4>2, <4>3 DEF m
      <3>2. QED
        BY <3>1
    <2> HIDE DEF S
    <2>3. Nat \subseteq S
      BY <2>1, <2>2, SetInduction
    <2>4. n \in S
      BY <1>1, <2>3
    <2>5. QED
      BY <1>1, <2>4 DEF S
  <1>7. \A n \in 0..C : r0[n] = from <=> n = len
    <2>1. ASSUME NEW n \in 0..C
          PROVE  b[n] = from <=> n = len
      <3>1. CASE n < len
        BY <1>1, <3>1
      <3>2. CASE n = len
        BY <1>1, <3>2
      <3>3. CASE n > len
        BY <1>1, <3>3
      <3>4. QED
        BY <1>1, <3>1, <3>2, <3>3
    <2>2. QED
      BY <1>6, <2>1
  <1>8. length = len
    <2>1. len \in 0..C
      BY <1>1
    <2>2. QED
      BY <1>5, <1>7, <2>1
  <1>9. \A k \in 0..len : r0[k] = s[k]
    BY <1>1, <1>6
  <1> HIDE DEF length
  <1>10. ASSUME NEW i \in 1..(len + 1)
         PROVE  [entity |-> r0[i-1], relationship |-> IF i = 1 THEN None ELSE <<r0[i-1], r0[i-2]>>]
                = [entity |-> s[i-1], relationship |-> IF i = 1 THEN None ELSE <<s[i-1], s[i-2]>>]
    <2>1. i - 1 \in 0..len /\ (i # 1 => i - 2 \in 0..len)
      BY <1>1
    <2>2. r0[i-1] = s[i-1] /\ (i # 1 => r0[i-2] = s[i-2])
      BY <1>9, <2>1
    <2>3. QED
      BY <2>2
  <1>11. QED
    BY <1>4, <1>8, <1>10 DEF Links

-----------------------------------------------------------------------------
(* The state of a traversal *)

Node == [entity : Entity, relationship : Edge \cup {None}]

Related == [relationship : Edge, related_entity : Entity]

Stages == {"idle", "search", "query", "match", "lookup", "build", "path", "hop", "frontier",
           "resolve", "context", "not_found"}

PathStages == {"search", "query", "build", "path"}
ContextStages == {"hop", "frontier", "resolve", "match", "lookup", "context"}

Typed(w) ==
    /\ DOMAIN w = DOMAIN IdleWalk
    /\ w.pc \in Stages
    /\ w.backend \in {"sql", "age", None}
    /\ w.from \in Entity \cup {None}
    /\ w.to \in Entity \cup {None}
    /\ w.limit \in Nat
    /\ w.queue \in Seq(Entity)
    /\ w.visited \subseteq Entity
    /\ w.depths \in [Entity -> Nat]
    /\ w.prev \in [Entity -> Entity \cup {None}]
    /\ w.chain \in Seq(Node)
    /\ w.path \in Seq(Node)
    /\ w.hop \in Nat
    /\ w.frontier \in Seq(Entity)
    /\ w.next \in Seq(Entity)
    /\ w.current \in Entity \cup {None}
    /\ w.todo \subseteq Edge
    /\ w.expanded \subseteq Edge
    /\ w.resolved \subseteq Related
    /\ w.began \subseteq Edge
    /\ w.lost \in BOOLEAN

Asked(w) ==
    /\ w.pc # "idle" => w.from \in Entity
    /\ w.pc \in PathStages => w.to \in Entity /\ w.backend \in {"sql", "age"}
    /\ w.pc \in ContextStages => w.to = None /\ w.backend \in {"sql", "age"}

\* The store, and what the history of the walk says of it.
StoreOK(ents, graph, n) ==
    /\ ents \subseteq Entity
    /\ graph \subseteq ents \X ents
    /\ n \in 0..MaxEdits
    /\ n = 0 => ents = Entity

HistoryOK(w, graph, n) ==
    /\ w.pc = "idle" => w = IdleWalk
    /\ w.pc # "idle" /\ ~w.lost => w.began \subseteq graph
    /\ n = 0 => ~w.lost /\ (w.pc # "idle" => w.began = graph)

-----------------------------------------------------------------------------
(* FindPath's breadth-first search *)

InQueue(w) == {w.queue[i] : i \in DOMAIN w.queue}

\* Every visited entity but the first is one step deeper than the one it was
\* reached from.
TreeOK(w) ==
    /\ w.from \in w.visited
    /\ w.to \notin w.visited
    /\ w.depths[w.from] = 0
    /\ \A x \in w.visited \ {w.from} :
          w.prev[x] \in w.visited /\ w.depths[x] = w.depths[w.prev[x]] + 1
    /\ \A x \in w.visited : w.depths[x] <= w.limit

\* The queue is in the order of the depths, which differ by one at most, and
\* what has left it is no deeper.
QueueOK(w) ==
    /\ InQueue(w) \subseteq w.visited
    /\ \A i, j \in DOMAIN w.queue :
          /\ i < j => w.depths[w.queue[i]] <= w.depths[w.queue[j]]
          /\ w.depths[w.queue[i]] <= w.depths[w.queue[j]] + 1
    /\ \A x \in w.visited \ InQueue(w) : \A i \in DOMAIN w.queue :
          w.depths[x] <= w.depths[w.queue[i]]

\* If nothing was deleted, the tree stands in the store, and the search has
\* followed what there was when it began from all it took off the queue.
SearchStands(w, graph) ==
    /\ \A x \in w.visited \ {w.from} : <<w.prev[x], x>> \in graph
    /\ \A x \in w.visited \ InQueue(w), y \in Entity :
          w.depths[x] < w.limit /\ <<x, y>> \in w.began =>
             y \in w.visited /\ w.depths[y] <= w.depths[x] + 1

SearchOK(w, graph) ==
    w.pc = "search" =>
        /\ w.from # w.to
        /\ w.backend = "sql"
        /\ w.path = <<>>
        /\ TreeOK(w)
        /\ QueueOK(w)
        /\ ~w.lost => SearchStands(w, graph)

-----------------------------------------------------------------------------
(* The path FindPath builds *)

Backwards(w) == w.backend = "sql" \/ w.from = w.to

\* The i-th node from the start: FindPath's chain of the SQL backends begins
\* at the target.
At(w, i) == IF Backwards(w) THEN w.chain[Len(w.chain) + 1 - i] ELSE w.chain[i]

BuildOK(w, graph, n) ==
    w.pc \in {"build", "path"} =>
        /\ w.chain # <<>>
        /\ w.from = w.to => Len(w.chain) = 1
        /\ Len(w.chain) - 1 <= w.limit
        /\ At(w, 1).entity = w.from
        /\ At(w, Len(w.chain)).entity = w.to
        /\ ~w.lost => \A i \in 1..(Len(w.chain) - 1) : <<At(w, i).entity, At(w, i+1).entity>> \in graph
        /\ ~Backwards(w) =>
              /\ w.chain[1].relationship = None
              /\ \A i \in 1..(Len(w.chain) - 1) :
                    w.chain[i+1].relationship = <<w.chain[i].entity, w.chain[i+1].entity>>
        /\ n = 0 => \A m \in 0..(Len(w.chain) - 2) : w.to \notin ReachIn(w.began, w.from, m)
        /\ Len(w.path) <= Len(w.chain)
        /\ w.pc = "path" <=> Len(w.path) = Len(w.chain)
        /\ \A i \in DOMAIN w.path : /\ w.path[i].entity = At(w, i).entity
                                    /\ ~Backwards(w) => w.path[i] = w.chain[i]

QueryOK(w) == w.pc = "query" => w.backend = "age" /\ w.from # w.to /\ w.path = <<>>

FailOK(w, ents) ==
    w.pc = "not_found" /\ ~w.lost =>
       \/ w.from \notin ents
       \/ w.to # None /\ w.to \notin ReachIn(w.began, w.from, w.limit)

-----------------------------------------------------------------------------
(* The context GetEntityContext collects *)

IncidentIn(graph, e) == {edge \in graph : e \in {edge[1], edge[2]}}

Around(graph, A) == UNION {IncidentIn(graph, x) : x \in A}

Relationships(w) == {r.relationship : r \in w.resolved}

Relateds(w) == {r.related_entity : r \in w.resolved}

Queued(s) == {s[i] : i \in DOMAIN s}

\* Each relationship is answered once, with one of its ends.
AnsweredOnce(w) ==
    /\ \A r1, r2 \in w.resolved : r1.relationship = r2.relationship => r1 = r2
    /\ \A r \in w.resolved : r.related_entity \in {r.relationship[1], r.relationship[2]}

\* The ball whose entities the walk expands now.
Expanding(w, graph) == BallIn(graph, w.from, IF w.pc = "hop" THEN w.hop ELSE w.hop - 1)

HopOK(w, graph) ==
    /\ w.backend = "sql"
    /\ w.hop <= w.limit
    /\ w.todo \subseteq w.expanded
    /\ Relationships(w) = w.expanded \ w.todo
    /\ AnsweredOnce(w)
    /\ w.visited = {w.from} \cup Relateds(w)
    /\ Queued(w.frontier) \subseteq Expanding(w, graph)
    /\ w.expanded \subseteq Around(graph, Expanding(w, graph))
    /\ \A r \in w.resolved : \A x \in {r.relationship[1], r.relationship[2]} :
          x = r.related_entity \/ x \in Expanding(w, graph)
    /\ \A x \in Expanding(w, graph) :
          x \in Queued(w.frontier) \/ IncidentIn(graph, x) \subseteq w.expanded
    /\ w.pc = "hop" =>
          /\ w.todo = {}
          /\ w.next = <<>>
          /\ w.visited = BallIn(graph, w.from, w.hop)
          /\ w.expanded = IF w.hop = 0 THEN {} ELSE Around(graph, BallIn(graph, w.from, w.hop - 1))
    /\ w.pc # "hop" =>
          /\ w.hop # 0
          /\ Queued(w.next) = w.visited \ Expanding(w, graph)
          /\ w.visited \subseteq BallIn(graph, w.from, w.hop)
          /\ Expanding(w, graph) \subseteq w.visited
    /\ w.pc = "frontier" => w.todo = {}
    /\ w.pc = "resolve" => /\ w.current \in Expanding(w, graph)
                           /\ \A edge \in w.todo : w.current \in {edge[1], edge[2]}

LookUpOK(w, graph) ==
    /\ w.backend = "age"
    /\ w.limit # 0
    /\ w.todo \cap Relationships(w) = {}
    /\ w.todo \cup Relationships(w) = Around(graph, BallIn(graph, w.from, w.limit - 1))
    /\ AnsweredOnce(w)
    /\ \A r \in w.resolved : r.related_entity = Remote(r.relationship, w.from)

AnswerOK(w, graph) ==
    /\ Relationships(w) = IF w.limit = 0 THEN {} ELSE Around(graph, BallIn(graph, w.from, w.limit - 1))
    /\ AnsweredOnce(w)
    /\ w.backend = "sql" \/ w.limit <= 1 =>
          {w.from} \cup Relateds(w) = BallIn(graph, w.from, w.limit)

ContextOK(w, graph) ==
    /\ w.pc \in {"hop", "frontier", "resolve"} => HopOK(w, graph)
    /\ w.pc = "match" => w.backend = "age" /\ w.limit # 0 /\ w.resolved = {}
    /\ w.pc = "lookup" => LookUpOK(w, graph)
    /\ w.pc = "context" => AnswerOK(w, graph)

TodoStands(w, graph) == w.pc \in {"resolve", "lookup"} /\ ~w.lost => w.todo \subseteq graph

-----------------------------------------------------------------------------
(* The inductive invariant *)

WalkOK(w, ents, graph, n) ==
    /\ Typed(w)
    /\ Asked(w)
    /\ StoreOK(ents, graph, n)
    /\ HistoryOK(w, graph, n)
    /\ SearchOK(w, graph)
    /\ QueryOK(w)
    /\ BuildOK(w, graph, n)
    /\ FailOK(w, ents)
    /\ TodoStands(w, graph)
    /\ n = 0 => ContextOK(w, graph)

TraversalInv == WalkOK(walk, entities, edges, edits)

-----------------------------------------------------------------------------
(* The beginning of a walk *)

\* A step that leaves the question and the history of a walk alone.
LEMMA WalkGoesOn ==
    ASSUME NEW w, NEW ents, NEW graph, NEW n, Asked(w), HistoryOK(w, graph, n),
           NEW r, w.pc # "idle", r.pc # "idle", r.began = w.began, r.lost = w.lost,
           r.from = w.from, r.to = w.to, r.backend = w.backend,
           r.pc \in PathStages => w.pc \in PathStages,
           r.pc \in ContextStages => w.pc \in ContextStages
    PROVE  Asked(r) /\ HistoryOK(r, graph, n)
  BY DEF Asked, HistoryOK

\* Nothing is asked of a traversal that has not begun.
LEMMA IdleTyped == Typed(IdleWalk)
  <1>1. <<>> \in Seq(Entity) /\ <<>> \in Seq(Node)
    OBVIOUS
  <1>2. [e \in Entity |-> 0] \in [Entity -> Nat] /\ [e \in Entity |-> None] \in [Entity -> Entity \cup {None}]
    OBVIOUS
  <1>3. QED
    BY <1>1, <1>2 DEF Typed, IdleWalk, Stages

\* The store is complete and no walk has begun.
LEMMA TraversalInitOK ==
    ASSUME TraversalInit
    PROVE  TraversalInv
  <1>1. StoreOK(entities, edges, edits)
    BY TraversalAssumption DEF TraversalInit, StoreOK, Edge
  <1>2. Typed(walk) /\ walk = IdleWalk /\ walk.pc = "idle" /\ walk.lost = FALSE
    BY IdleTyped DEF TraversalInit, IdleWalk
  <1>3. QED
    BY <1>1, <1>2 DEF TraversalInv, WalkOK, Asked, PathStages, ContextStages, HistoryOK, SearchOK,
       QueryOK, BuildOK, FailOK, TodoStands, ContextOK

Fresh(w, backend, from, limit, graph) ==
    /\ Typed(w)
    /\ DOMAIN w = DOMAIN IdleWalk
    /\ w.backend = backend /\ backend \in {"sql", "age"} /\ w.from = from /\ w.limit = limit
    /\ w.began = graph /\ w.lost = FALSE /\ w.to = None
    /\ w.path = <<>> /\ w.queue = <<>> /\ w.next = <<>> /\ w.frontier = <<>>
    /\ w.depths = [e \in Entity |-> 0]
    /\ w.todo = {} /\ w.expanded = {} /\ w.resolved = {} /\ w.visited = {} /\ w.hop = 0

\* A walk begins with empty collections and remembers the relationships there
\* were.
LEMMA NewWalkIsFresh ==
    ASSUME TraversalInv, NEW backend \in Backends, NEW from \in Entity, NEW limit \in Nat
    PROVE  Fresh(NewWalk(backend, from, limit), backend, from, limit, edges)
  <1> DEFINE w == NewWalk(backend, from, limit)
  <1>1. edges \subseteq Edge
    BY DEF TraversalInv, WalkOK, StoreOK, Edge
  <1>2. backend \in {"sql", "age"}
    BY TraversalAssumption
  <1>3. Typed(w)
    BY <1>1, <1>2, IdleTyped DEF Typed, NewWalk, IdleWalk, Stages
  <1>4. QED
    BY <1>2, <1>3 DEF Fresh, NewWalk, IdleWalk

\* FindPath begins: at the target already, with the search, or with the
\* cypher query.
LEMMA StartPathPreserves ==
    ASSUME TraversalInv, StartPath
    PROVE  TraversalInv'
  <1>1. PICK backend \in Backends, from, to \in Entity, limit \in PathDepth :
          Walk(IF from = to
               THEN [NewWalk(backend, from, limit) EXCEPT !.pc = "build", !.to = to,
                        !.chain = <<[entity |-> from, relationship |-> None]>>]
               ELSE IF backend = "sql"
               THEN [NewWalk(backend, from, limit) EXCEPT !.pc = "search", !.to = to,
                        !.queue = <<from>>, !.visited = {from}]
               ELSE [NewWalk(backend, from, limit) EXCEPT !.pc = "query", !.to = to])
    BY Zenon DEF StartPath
  <1> DEFINE w == NewWalk(backend, from, limit)
  <1>a. w = NewWalk(backend, from, limit)
    OBVIOUS
  <1> HIDE DEF w
  <1> DEFINE node == [entity |-> from, relationship |-> None]
  <1>2. limit \in Nat /\ 0 < limit /\ None \notin Entity
    BY TraversalAssumption
  <1>3. /\ Typed(w) /\ DOMAIN w = DOMAIN IdleWalk
        /\ w.backend = backend /\ backend \in {"sql", "age"} /\ w.from = from /\ w.limit = limit
        /\ w.began = edges /\ w.lost = FALSE /\ w.path = <<>>
        /\ w.depths = [e \in Entity |-> 0]
    <2>1. Fresh(w, backend, from, limit, edges)
      BY <1>2, <1>a, NewWalkIsFresh
    <2>2. QED
      BY <2>1 DEF Fresh
  <1>4. UNCHANGED <<entities, edges, edits>> /\ StoreOK(entities, edges, edits)
    BY <1>1 DEF Walk, TraversalInv, WalkOK
  <1>5. node \in Node
    BY DEF Node
  <1> HIDE DEF node
  <1>6. CASE from = to
    <2> DEFINE r == [w EXCEPT !.pc = "build", !.to = to, !.chain = <<node>>]
    <2>1. walk' = r
      BY <1>1, <1>a, <1>6 DEF Walk, node
    <2>2. <<node>> \in Seq(Node) /\ Len(<<node>>) = 1 /\ <<node>>[1] = node
          /\ node.entity = from
      BY <1>5 DEF node
    <2>3. /\ Typed(r) /\ r.pc = "build" /\ r.backend = backend /\ r.from = from /\ r.to = to
          /\ r.limit = limit /\ r.began = edges /\ r.lost = FALSE /\ r.path = <<>>
          /\ r.chain = <<node>>
      BY <1>3, <2>2 DEF Typed, IdleWalk, Stages
    <2> HIDE DEF r
    <2>4. BuildOK(r, edges, edits)
      <3>1. Backwards(r) /\ At(r, 1) = node
        BY <1>6, <2>2, <2>3 DEF Backwards, At
      <3>2. \A i \in DOMAIN r.path : FALSE
        BY <2>3
      <3>3. Len(r.chain) = 1 /\ Len(r.path) = 0 /\ r.chain # <<>>
        BY <2>2, <2>3
      <3>4. QED
        BY <1>2, <1>6, <2>2, <2>3, <3>1, <3>2, <3>3 DEF BuildOK
    <2>5. WalkOK(r, entities, edges, edits)
      BY <1>3, <1>4, <2>3, <2>4 DEF WalkOK, Asked, PathStages, ContextStages, HistoryOK, SearchOK,
         QueryOK, FailOK, TodoStands, ContextOK
    <2>6. QED
      BY <1>4, <2>1, <2>5 DEF TraversalInv
  <1>7. CASE from # to /\ backend = "sql"
    <2> DEFINE r == [w EXCEPT !.pc = "search", !.to = to, !.queue = <<from>>, !.visited = {from}]
    <2>1. walk' = r
      BY <1>1, <1>a, <1>7 DEF Walk
    <2>2. <<from>> \in Seq(Entity) /\ DOMAIN <<from>> = {1} /\ <<from>>[1] = from
      OBVIOUS
    <2>3. /\ Typed(r) /\ r.pc = "search" /\ r.backend = backend /\ r.from = from /\ r.to = to
          /\ r.limit = limit /\ r.began = edges /\ r.lost = FALSE /\ r.path = <<>>
          /\ r.queue = <<from>> /\ r.visited = {from} /\ r.depths = [e \in Entity |-> 0]
      BY <1>3, <2>2 DEF Typed, IdleWalk, Stages
    <2> HIDE DEF r
    <2>4. InQueue(r) = {from}
      BY <2>2, <2>3 DEF InQueue
    <2>5. TreeOK(r) /\ QueueOK(r) /\ SearchStands(r, edges)
      BY <1>2, <1>7, <2>2, <2>3, <2>4 DEF TreeOK, QueueOK, SearchStands
    <2>6. WalkOK(r, entities, edges, edits)
      BY <1>4, <1>7, <2>3, <2>5 DEF WalkOK, Asked, PathStages, ContextStages, HistoryOK, SearchOK,
         QueryOK, BuildOK, FailOK, TodoStands, ContextOK
    <2>7. QED
      BY <1>4, <2>1, <2>6 DEF TraversalInv
  <1>8. CASE from # to /\ backend # "sql"
    <2> DEFINE r == [w EXCEPT !.pc = "query", !.to = to]
    <2>1. walk' = r
      BY <1>1, <1>a, <1>8 DEF Walk
    <2>2. /\ Typed(r) /\ r.pc = "query" /\ r.backend = "age" /\ r.from = from /\ r.to = to
          /\ r.began = edges /\ r.lost = FALSE /\ r.path = <<>>
      BY <1>3, <1>8 DEF Typed, IdleWalk, Stages
    <2> HIDE DEF r
    <2>3. WalkOK(r, entities, edges, edits)
      BY <1>4, <1>8, <2>2 DEF WalkOK, Asked, PathStages, ContextStages, HistoryOK, SearchOK,
         QueryOK, BuildOK, FailOK, TodoStands, ContextOK
    <2>4. QED
      BY <1>4, <2>1, <2>3 DEF TraversalInv
  <1>9. QED
    BY <1>6, <1>7, <1>8

-----------------------------------------------------------------------------
(* The search *)

\* The loop over the answered relationships takes each new entity once.
LEMMA OrderCovers ==
    ASSUME NEW S, IsFiniteSet(S), NEW order \in SetToSeqs(S)
    PROVE  order \in Seq(S) /\ {order[i] : i \in DOMAIN order} = S
  <1> DEFINE N == Cardinality(S)
  <1>1. N \in Nat
    BY FS_CardinalityType
  <1>2. order \in [1..N -> S] /\ \A i, j \in 1..N : i # j => order[i] # order[j]
    BY DEF SetToSeqs
  <1>3. IsFiniteSet(1..N) /\ Cardinality(1..N) = N
    BY <1>1, FS_Interval
  <1> DEFINE I == 1..N
  <1>4. order \in Injection(I, S)
    BY <1>2 DEF Injection, IsInjective
  <1>5. order \in Surjection(I, S)
    <2>1. Cardinality(I) = Cardinality(S)
      BY <1>3
    <2> HIDE DEF I
    <2>2. QED
      BY <1>4, <2>1, FS_Injection
  <1>6. \A x \in S : \E i \in I : order[i] = x
    BY <1>5 DEF Surjection
  <1> HIDE DEF N
  <1>7. QED
    BY <1>1, <1>2, <1>6

\* The head of the queue is the shallowest of it, and what is behind it is at
\* most one deeper.
HeadFirst(w, head, tail) ==
    /\ head \in Entity /\ tail \in Seq(Entity)
    /\ head \in w.visited
    /\ InQueue(w) = {head} \cup Queued(tail)
    /\ \A i \in DOMAIN tail : /\ tail[i] \in w.visited
                              /\ w.depths[head] <= w.depths[tail[i]]
                              /\ w.depths[tail[i]] <= w.depths[head] + 1
    /\ \A i, j \in DOMAIN tail : i < j => w.depths[tail[i]] <= w.depths[tail[j]]
    /\ \A x \in w.visited \ Queued(tail) : w.depths[x] <= w.depths[head]

\* Taking the head off a queue that is in order.
LEMMA QueueTail ==
    ASSUME NEW w, Typed(w), QueueOK(w), w.queue # <<>>
    PROVE  HeadFirst(w, Head(w.queue), Tail(w.queue))
  <1> DEFINE q == w.queue
             tail == Tail(q)
             head == Head(q)
  <1>1. q \in Seq(Entity) /\ q # <<>>
    BY DEF Typed
  <1> HIDE DEF q
  <1>2. Len(q) \in Nat /\ 1 <= Len(q) /\ head = q[1] /\ DOMAIN q = 1..Len(q)
    BY <1>1
  <1>3. tail \in Seq(Entity) /\ DOMAIN tail = 1..(Len(q) - 1)
    BY <1>1
  <1>4. \A i \in DOMAIN tail : tail[i] = q[i+1] /\ i + 1 \in DOMAIN q /\ i + 1 # 1
    BY <1>1, <1>2, <1>3
  <1>5. \A i \in DOMAIN q : i # 1 => i - 1 \in DOMAIN tail /\ tail[i-1] = q[i]
    BY <1>1, <1>2, <1>3
  <1>6. 1 \in DOMAIN q
    BY <1>2
  <1> HIDE DEF tail, head
  <1>7. InQueue(w) = {head} \cup Queued(tail)
    <2>1. InQueue(w) = {q[i] : i \in DOMAIN q}
      BY DEF InQueue, q
    <2>2. QED
      BY <2>1, <1>2, <1>4, <1>5, <1>6 DEF Queued
  <1>8. head \in Entity
    BY <1>1, <1>2
  <1>9. /\ \A x \in {q[i] : i \in DOMAIN q} : x \in w.visited
        /\ \A i, j \in DOMAIN q : /\ i < j => w.depths[q[i]] <= w.depths[q[j]]
                                  /\ w.depths[q[i]] <= w.depths[q[j]] + 1
        /\ \A x \in w.visited \ InQueue(w) : \A i \in DOMAIN q : w.depths[x] <= w.depths[q[i]]
    BY DEF QueueOK, InQueue, q
  <1>10. head \in w.visited
    BY <1>2, <1>6, <1>9
  <1>11. \A i \in DOMAIN tail : tail[i] \in w.visited
    BY <1>4, <1>9
  <1>12. \A i \in DOMAIN tail : /\ w.depths[head] <= w.depths[tail[i]]
                                /\ w.depths[tail[i]] <= w.depths[head] + 1
    <2>1. ASSUME NEW i \in DOMAIN tail
          PROVE  1 < i + 1 /\ i + 1 \in DOMAIN q /\ tail[i] = q[i+1]
      BY <1>2, <1>3, <1>4
    <2>2. QED
      BY <1>2, <1>6, <1>9, <2>1
  <1>13. \A i, j \in DOMAIN tail : i < j => w.depths[tail[i]] <= w.depths[tail[j]]
    <2>1. ASSUME NEW i \in DOMAIN tail, NEW j \in DOMAIN tail, i < j
          PROVE  w.depths[tail[i]] <= w.depths[tail[j]]
      <3>1. i + 1 < j + 1 /\ i + 1 \in DOMAIN q /\ j + 1 \in DOMAIN q
            /\ tail[i] = q[i+1] /\ tail[j] = q[j+1]
        BY <1>2, <1>3, <1>4, <2>1
      <3>2. QED
        BY <1>9, <3>1
    <2>2. QED
      BY <2>1
  <1>14. \A x \in w.visited \ Queued(tail) : w.depths[x] <= w.depths[head]
    <2>1. w.depths[head] \in Nat
      BY <1>8 DEF Typed
    <2>2. QED
      BY <1>2, <1>6, <1>7, <1>9, <2>1
  <1>15. QED
    BY <1>3, <1>7, <1>8, <1>10, <1>11, <1>12, <1>13, <1>14 DEF HeadFirst, tail, head, q

\* A step of the search that keeps its tree and its queue.
LEMMA SearchGoesOn ==
    ASSUME TraversalInv, walk.pc = "search", NEW r, Walk(r), Typed(r), r.pc = "search",
           r.from = walk.from, r.to = walk.to, r.limit = walk.limit, r.backend = walk.backend,
           r.began = walk.began, r.lost = walk.lost, r.path = walk.path,
           TreeOK(r), QueueOK(r), ~r.lost => SearchStands(r, edges)
    PROVE  TraversalInv'
  <1>1. Asked(r) /\ HistoryOK(r, edges, edits)
    BY WalkGoesOn DEF TraversalInv, WalkOK, PathStages, ContextStages
  <1>2. SearchOK(r, edges)
    BY DEF TraversalInv, WalkOK, SearchOK
  <1>3. WalkOK(r, entities, edges, edits)
    BY <1>1, <1>2 DEF TraversalInv, WalkOK, QueryOK, BuildOK, FailOK, TodoStands, ContextOK
  <1>4. QED
    BY <1>3 DEF Walk, TraversalInv

\* What is max_depth away is taken off the queue without a query.
LEMMA SkipDeepPreserves ==
    ASSUME TraversalInv, SkipDeep
    PROVE  TraversalInv'
  <1> DEFINE w == walk
             head == Head(w.queue)
             tail == Tail(w.queue)
             r == [w EXCEPT !.queue = tail]
  <1>1. /\ w.pc = "search" /\ w.queue # <<>> /\ w.depths[head] >= w.limit
        /\ Walk(r)
    BY DEF SkipDeep
  <1>2. Typed(w) /\ TreeOK(w) /\ QueueOK(w) /\ (~w.lost => SearchStands(w, edges))
    BY <1>1 DEF TraversalInv, WalkOK, SearchOK
  <1>3. HeadFirst(w, head, tail)
    BY <1>1, <1>2, QueueTail
  <1> HIDE DEF head, tail
  <1>4. /\ Typed(r) /\ r.pc = "search" /\ r.queue = tail
        /\ r.from = w.from /\ r.to = w.to /\ r.limit = w.limit /\ r.backend = w.backend
        /\ r.began = w.began /\ r.lost = w.lost /\ r.visited = w.visited /\ r.path = w.path
        /\ r.depths = w.depths /\ r.prev = w.prev
    BY <1>1, <1>2, <1>3 DEF Typed, IdleWalk, HeadFirst
  <1> HIDE DEF r
  <1>5. TreeOK(r)
    BY <1>2, <1>4 DEF TreeOK
  <1>6. InQueue(r) = Queued(tail)
    BY <1>4 DEF InQueue, Queued
  <1>7. w.depths \in [Entity -> Nat] /\ w.visited \subseteq Entity /\ head \in Entity
        /\ \A i \in DOMAIN tail : tail[i] \in Entity /\ tail[i] \in Queued(tail)
    BY <1>2, <1>3 DEF Typed, HeadFirst, Queued
  <1>8. QueueOK(r)
    <2>1. InQueue(r) \subseteq r.visited
      BY <1>3, <1>4, <1>6 DEF HeadFirst, Queued
    <2>2. ASSUME NEW i \in DOMAIN tail, NEW j \in DOMAIN tail
          PROVE  /\ i < j => w.depths[tail[i]] <= w.depths[tail[j]]
                 /\ w.depths[tail[i]] <= w.depths[tail[j]] + 1
      BY <1>3, <1>7 DEF HeadFirst
    <2>3. ASSUME NEW x \in w.visited \ Queued(tail), NEW i \in DOMAIN tail
          PROVE  w.depths[x] <= w.depths[tail[i]]
      BY <1>3, <1>7 DEF HeadFirst
    <2>4. QED
      BY <1>4, <1>6, <2>1, <2>2, <2>3 DEF QueueOK
  <1>9. ASSUME ~w.lost
        PROVE  SearchStands(r, edges)
    <2>1. \A x \in w.visited \ Queued(tail) : x \notin InQueue(w) \/ ~(w.depths[x] < w.limit)
      <3>1. w.limit \in Nat
        BY <1>2 DEF Typed
      <3>2. QED
        BY <1>1, <1>3, <1>7, <3>1 DEF HeadFirst
    <2>2. QED
      BY <1>2, <1>4, <1>6, <1>9, <2>1 DEF SearchStands
  <1>10. QED
    BY <1>1, <1>4, <1>5, <1>8, <1>9, SearchGoesOn

\* The queue is empty: all within max_depth has been visited, and the target
\* has not.
LEMMA NoPathPreserves ==
    ASSUME TraversalInv, NoPath
    PROVE  TraversalInv'
  <1> DEFINE w == walk
             r == NotFound(w)
  <1>1. w.pc = "search" /\ w.queue = <<>> /\ Walk(r)
    BY DEF NoPath
  <1>2. /\ Typed(w) /\ TreeOK(w) /\ (~w.lost => SearchStands(w, edges))
        /\ Asked(w) /\ HistoryOK(w, edges, edits) /\ StoreOK(entities, edges, edits)
    BY <1>1 DEF TraversalInv, WalkOK, SearchOK
  <1>3. /\ Typed(r) /\ r.pc = "not_found" /\ r.from = w.from /\ r.to = w.to /\ r.limit = w.limit
        /\ r.backend = w.backend /\ r.began = w.began /\ r.lost = w.lost
    BY <1>2 DEF Typed, IdleWalk, NotFound, Stages
  <1> HIDE DEF r
  <1>4. ASSUME ~w.lost
        PROVE  w.to \notin ReachIn(w.began, w.from, w.limit)
    <2>1. InQueue(w) = {}
      BY <1>1 DEF InQueue
    <2>2. /\ w.from \in Entity /\ w.depths \in [Entity -> Nat] /\ w.limit \in Nat
          /\ w.from \in w.visited /\ w.visited \subseteq Entity /\ w.depths[w.from] = 0
          /\ w.to \notin w.visited
      BY <1>2 DEF Typed, TreeOK
    <2>3. \A x \in w.visited, y \in Entity :
             w.depths[x] < w.limit /\ <<x, y>> \in w.began =>
                y \in w.visited /\ w.depths[y] <= w.depths[x] + 1
      BY <1>2, <1>4, <2>1 DEF SearchStands
    <2> DEFINE from == w.from
               began == w.began
               limit == w.limit
               visited == w.visited
               depths == w.depths
    <2> HIDE DEF from, began, limit, visited, depths
    <2>4. \A n \in 0..limit : \A x \in ReachIn(began, from, n) : x \in visited /\ depths[x] <= n
      BY <2>2, <2>3, ReachIsVisited DEF from, began, limit, visited, depths
    <2>5. limit \in 0..limit
      BY <2>2 DEF limit
    <2>6. QED
      BY <2>2, <2>4, <2>5 DEF from, began, limit, visited
  <1>5. FailOK(r, entities)
    <2>1. w.to \in Entity /\ None \notin Entity
      BY <1>1, <1>2, TraversalAssumption DEF Asked, PathStages
    <2>2. QED
      BY <1>3, <1>4, <2>1 DEF FailOK
  <1>6. Asked(r) /\ HistoryOK(r, edges, edits)
    BY <1>1, <1>2, <1>3, WalkGoesOn DEF PathStages, ContextStages
  <1>7. WalkOK(r, entities, edges, edits)
    BY <1>2, <1>3, <1>5, <1>6 DEF WalkOK, SearchOK, QueryOK, BuildOK, TodoStands, ContextOK
  <1>8. QED
    BY <1>1, <1>7 DEF Walk, TraversalInv

\* A sequence over a set is one over any larger set.
LEMMA SeqWidens ==
    ASSUME NEW S, NEW T, S \subseteq T, NEW s \in Seq(S)
    PROVE  s \in Seq(T)
  <1>1. s \in [1..Len(s) -> S] /\ Len(s) \in Nat
    OBVIOUS
  <1>2. s \in [1..Len(s) -> T]
    BY <1>1
  <1>3. QED
    BY <1>1, <1>2

\* What is queued behind a tail.
LEMMA QueuedBehind ==
    ASSUME NEW tail \in Seq(Entity), NEW order \in Seq(Entity)
    PROVE  /\ tail \o order \in Seq(Entity)
           /\ Queued(tail \o order) = Queued(tail) \cup Queued(order)
           /\ \A i \in DOMAIN (tail \o order) :
                 \/ i \in DOMAIN tail /\ (tail \o order)[i] = tail[i]
                 \/ i > Len(tail) /\ (tail \o order)[i] \in Queued(order)
  <1> DEFINE q == tail \o order
             m == Len(tail)
             n == Len(order)
  <1>1. q \in Seq(Entity) /\ m \in Nat /\ n \in Nat /\ DOMAIN tail = 1..m /\ DOMAIN order = 1..n
        /\ DOMAIN q = 1..(m + n)
    OBVIOUS
  <1>2. \A i \in 1..m : i \in DOMAIN q /\ q[i] = tail[i]
    OBVIOUS
  <1>3. \A i \in 1..(m + n) : i > m => i - m \in 1..n /\ q[i] = order[i - m]
    OBVIOUS
  <1>4. \A i \in 1..n : m + i \in DOMAIN q /\ q[m + i] = order[i]
    OBVIOUS
  <1> HIDE DEF q, m, n
  <1>5. \A i \in DOMAIN q : \/ i \in DOMAIN tail /\ q[i] = tail[i]
                            \/ i > m /\ q[i] \in Queued(order)
    BY SMTT(30), <1>1, <1>2, <1>3 DEF Queued
  <1>6. Queued(q) = Queued(tail) \cup Queued(order)
    <2>1. Queued(q) \subseteq Queued(tail) \cup Queued(order)
      BY <1>5 DEF Queued
    <2>2. Queued(tail) \subseteq Queued(q)
      BY <1>1, <1>2 DEF Queued
    <2>3. Queued(order) \subseteq Queued(q)
      BY <1>1, <1>4 DEF Queued
    <2>4. QED
      BY <2>1, <2>2, <2>3
  <1>7. QED
    BY <1>1, <1>5, <1>6 DEF q, m

\* The head is expanded, and the target is not among what it leads to.
LEMMA ExpandGoesOn ==
    ASSUME TraversalInv, walk.pc = "search", walk.queue # <<>>,
           walk.depths[Head(walk.queue)] < walk.limit,
           NEW new, new = Outgoing(Head(walk.queue)) \ walk.visited,
           walk.to \notin new, NEW order \in SetToSeqs(new),
           Walk([walk EXCEPT !.queue = Tail(@) \o order,
                    !.visited = @ \cup new,
                    !.depths = [e \in Entity |-> IF e \in new THEN @[Head(walk.queue)] + 1 ELSE @[e]],
                    !.prev = [e \in Entity |-> IF e \in new THEN Head(walk.queue) ELSE @[e]]])
    PROVE  TraversalInv'
  <1> DEFINE w == walk
             head == Head(w.queue)
             tail == Tail(w.queue)
             q == tail \o order
             depths == [e \in Entity |-> IF e \in new THEN w.depths[head] + 1 ELSE w.depths[e]]
             prev == [e \in Entity |-> IF e \in new THEN head ELSE w.prev[e]]
             r == [w EXCEPT !.queue = q, !.visited = w.visited \cup new, !.depths = depths, !.prev = prev]
  <1>1. Walk(r)
    OBVIOUS
  <1>2. Typed(w) /\ TreeOK(w) /\ QueueOK(w) /\ (~w.lost => SearchStands(w, edges))
        /\ HistoryOK(w, edges, edits)
    BY DEF TraversalInv, WalkOK, SearchOK
  <1>3. HeadFirst(w, head, tail)
    BY <1>2, QueueTail
  <1>4. new = {y \in Entity : <<head, y>> \in edges} \ w.visited
    BY DEF Outgoing
  <1>5. w.depths[head] < w.limit /\ w.to \notin new
    OBVIOUS
  <1>6. order \in Seq(new) /\ Queued(order) = new
    <2>1. IsFiniteSet(new)
      BY <1>4, TraversalAssumption, FS_Subset
    <2>2. QED
      BY <2>1, OrderCovers DEF Queued
  <1> HIDE DEF head, tail
  <1>7. tail \in Seq(Entity) /\ order \in Seq(Entity)
    <2>1. new \subseteq Entity
      BY <1>4
    <2>2. order \in Seq(Entity)
      BY <1>6, <2>1, SeqWidens
    <2>3. QED
      BY <1>3, <2>2 DEF HeadFirst
  <1>8. /\ q \in Seq(Entity) /\ Queued(q) = Queued(tail) \cup new
        /\ \A i \in DOMAIN q : (i \in DOMAIN tail /\ q[i] = tail[i]) \/ (i > Len(tail) /\ q[i] \in new)
    BY <1>6, <1>7, QueuedBehind
  <1>9. /\ w.depths \in [Entity -> Nat] /\ w.visited \subseteq Entity /\ head \in Entity
        /\ w.prev \in [Entity -> Entity \cup {None}] /\ w.limit \in Nat
        /\ \A i \in DOMAIN tail : tail[i] \in Entity /\ tail[i] \in Queued(tail)
    BY <1>2, <1>3 DEF Typed, HeadFirst, Queued
  <1>10. /\ depths \in [Entity -> Nat] /\ prev \in [Entity -> Entity \cup {None}]
         /\ \A e \in w.visited : depths[e] = w.depths[e] /\ prev[e] = w.prev[e]
         /\ \A e \in new : depths[e] = w.depths[head] + 1 /\ prev[e] = head
    <2>1. new \subseteq Entity /\ new \cap w.visited = {} /\ w.depths[head] \in Nat
      BY <1>4, <1>9
    <2>2. ASSUME NEW e \in Entity
          PROVE  /\ depths[e] \in Nat /\ prev[e] \in Entity \cup {None}
                 /\ e \in new => depths[e] = w.depths[head] + 1 /\ prev[e] = head
                 /\ e \notin new => depths[e] = w.depths[e] /\ prev[e] = w.prev[e]
      BY <1>9, <2>1
    <2>3. depths = [e \in Entity |-> depths[e]] /\ prev = [e \in Entity |-> prev[e]]
      OBVIOUS
    <2> HIDE DEF depths, prev
    <2>4. QED
      BY <1>9, <2>1, <2>2, <2>3
  <1> HIDE DEF q, depths, prev
  <1>11. /\ Typed(r) /\ r.pc = "search" /\ r.queue = q
         /\ r.from = w.from /\ r.to = w.to /\ r.limit = w.limit /\ r.backend = w.backend
         /\ r.began = w.began /\ r.lost = w.lost /\ r.path = w.path /\ r.visited = w.visited \cup new
         /\ r.depths = depths /\ r.prev = prev
    BY <1>2, <1>4, <1>8, <1>10 DEF Typed, IdleWalk
  <1> HIDE DEF r
  <1>12. /\ head \in w.visited /\ new \cap w.visited = {}
         /\ \A i \in DOMAIN tail : /\ tail[i] \in w.visited
                                   /\ w.depths[head] <= w.depths[tail[i]]
                                   /\ w.depths[tail[i]] <= w.depths[head] + 1
         /\ \A i, j \in DOMAIN tail : i < j => w.depths[tail[i]] <= w.depths[tail[j]]
         /\ \A x \in w.visited \ Queued(tail) : w.depths[x] <= w.depths[head]
         /\ InQueue(w) = {head} \cup Queued(tail)
    BY <1>3, <1>4 DEF HeadFirst
  <1>13. TreeOK(r)
    <2>1. /\ w.from \in w.visited /\ w.to \notin w.visited /\ w.depths[w.from] = 0
          /\ \A x \in w.visited \ {w.from} :
                w.prev[x] \in w.visited /\ w.depths[x] = w.depths[w.prev[x]] + 1
          /\ \A x \in w.visited : w.depths[x] <= w.limit
      BY <1>2 DEF TreeOK
    <2>2. ASSUME NEW x \in (w.visited \cup new) \ {w.from}
          PROVE  prev[x] \in w.visited \cup new /\ depths[x] = depths[prev[x]] + 1
      <3>1. CASE x \in new
        BY <1>10, <1>12, <3>1
      <3>2. CASE x \in w.visited
        BY <1>10, <2>1, <3>2
      <3>3. QED
        BY <3>1, <3>2
    <2>3. ASSUME NEW x \in w.visited \cup new
          PROVE  depths[x] <= w.limit
      BY <1>5, <1>9, <1>10, <2>1
    <2>4. QED
      BY <1>5, <1>10, <1>11, <2>1, <2>2, <2>3 DEF TreeOK
  <1>14. InQueue(r) = Queued(tail) \cup new
    BY <1>8, <1>11 DEF InQueue, Queued
  <1>15. ASSUME NEW i \in DOMAIN q
         PROVE  /\ q[i] \in w.visited \cup new /\ depths[q[i]] \in Nat
                /\ w.depths[head] <= depths[q[i]] /\ depths[q[i]] <= w.depths[head] + 1
                /\ i \notin DOMAIN tail => depths[q[i]] = w.depths[head] + 1
                /\ i \in DOMAIN tail => q[i] = tail[i] /\ depths[q[i]] = w.depths[tail[i]]
    <2>1. w.depths[head] \in Nat
      BY <1>9
    <2>2. CASE i \in DOMAIN tail /\ q[i] = tail[i]
      <3>1. depths[q[i]] = w.depths[tail[i]] /\ w.depths[tail[i]] \in Nat
        BY <1>9, <1>10, <1>12, <2>2
      <3>2. QED
        BY <1>12, <2>1, <2>2, <3>1
    <2>3. CASE i > Len(tail) /\ q[i] \in new
      <3>1. i \notin DOMAIN tail
        BY <1>7, <2>3
      <3>2. QED
        BY <1>10, <2>1, <2>3, <3>1
    <2>4. QED
      BY <1>8, <2>2, <2>3
  <1>16. QueueOK(r)
    <2>1. ASSUME NEW i \in DOMAIN q, NEW j \in DOMAIN q, i < j
          PROVE  depths[q[i]] <= depths[q[j]]
      <3>1. CASE j \in DOMAIN tail
        <4>1. i \in DOMAIN tail
          BY <1>7, <1>8, <2>1, <3>1
        <4>2. QED
          BY <1>12, <1>15, <2>1, <3>1, <4>1
      <3>2. CASE j \notin DOMAIN tail
        BY <1>9, <1>15, <3>2
      <3>3. QED
        BY <3>1, <3>2
    <2>2. ASSUME NEW i \in DOMAIN q, NEW j \in DOMAIN q
          PROVE  depths[q[i]] <= depths[q[j]] + 1
      BY <1>9, <1>15
    <2>3. ASSUME NEW x \in (w.visited \cup new) \ (Queued(tail) \cup new), NEW i \in DOMAIN q
          PROVE  depths[x] <= depths[q[i]]
      <3>1. x \in w.visited \ Queued(tail)
        BY <2>3
      <3>2. depths[x] = w.depths[x] /\ w.depths[x] <= w.depths[head] /\ x \in Entity
        BY <1>9, <1>10, <1>12, <3>1
      <3>3. QED
        BY <1>9, <1>15, <3>2
    <2>4. QED
      BY <1>11, <1>12, <1>14, <2>1, <2>2, <2>3 DEF QueueOK, Queued
  <1>17. ASSUME ~w.lost
         PROVE  SearchStands(r, edges)
    <2>1. /\ \A x \in w.visited \ {w.from} : <<w.prev[x], x>> \in edges
          /\ \A x \in w.visited \ InQueue(w), y \in Entity :
                w.depths[x] < w.limit /\ <<x, y>> \in w.began =>
                   y \in w.visited /\ w.depths[y] <= w.depths[x] + 1
      BY <1>2, <1>17 DEF SearchStands
    <2>2. w.began \subseteq edges
      BY <1>2, <1>17 DEF HistoryOK
    <2>3. ASSUME NEW x \in (w.visited \cup new) \ {w.from}
          PROVE  <<prev[x], x>> \in edges
      BY <1>4, <1>10, <2>1
    <2>4. ASSUME NEW x \in (w.visited \cup new) \ (Queued(tail) \cup new), NEW y \in Entity,
                 depths[x] < w.limit, <<x, y>> \in w.began
          PROVE  y \in w.visited \cup new /\ depths[y] <= depths[x] + 1
      <3>1. x \in w.visited /\ x \notin Queued(tail) /\ depths[x] = w.depths[x] /\ x \in Entity
        BY <1>9, <1>10, <2>4
      <3>2. CASE x # head
        <4>1. x \in w.visited \ InQueue(w)
          BY <1>12, <3>1, <3>2
        <4>2. y \in w.visited /\ w.depths[y] <= w.depths[x] + 1
          BY <2>1, <2>4, <3>1, <4>1
        <4>3. QED
          BY <1>10, <3>1, <4>2
      <3>3. CASE x = head /\ y \in new
        BY <1>9, <1>10, <3>1, <3>3
      <3>4. CASE x = head /\ y \notin new
        <4>1. y \in w.visited
          BY <1>4, <2>2, <2>4, <3>4
        <4>2. w.depths[y] <= w.depths[head] + 1 /\ depths[y] = w.depths[y]
          <5>1. CASE y \in Queued(tail)
            <6>1. PICK i \in DOMAIN tail : tail[i] = y
              BY <5>1 DEF Queued
            <6>2. QED
              BY <1>10, <1>12, <4>1, <6>1
          <5>2. CASE y \notin Queued(tail)
            BY <1>9, <1>10, <1>12, <4>1, <5>2
          <5>3. QED
            BY <5>1, <5>2
        <4>3. QED
          BY <3>1, <3>4, <4>1, <4>2
      <3>5. QED
        BY <3>2, <3>3, <3>4
    <2>5. QED
      BY <1>11, <1>14, <2>3, <2>4 DEF SearchStands
  <1>18. QED
    BY <1>1, <1>11, <1>13, <1>16, <1>17, SearchGoesOn
\* The entities from x back to the start, along which it was reached.
PathBack(w, x, s, d) ==
    /\ s \in [0..d -> Entity]
    /\ s[0] = x
    /\ s[d] = w.from
    /\ \A k \in 0..d : s[k] \in w.visited /\ w.depths[s[k]] = d - k
    /\ \A k \in 0..(d-1) : s[k+1] = w.prev[s[k]]

\* From every visited entity the pointers lead back to the start, one step
\* less deep at a time.
LEMMA VisitedIsReached ==
    ASSUME NEW w, Typed(w), TreeOK(w), NEW e \in w.visited
    PROVE  \E s : PathBack(w, e, s, w.depths[e])
  <1> DEFINE Reached(x, d) == \E s : PathBack(w, x, s, d)
             S == {d \in Nat : \A x \in w.visited : w.depths[x] = d => Reached(x, d)}
             visited == w.visited
             depths == w.depths
             prev == w.prev
             from == w.from
  <1>1. /\ depths \in [Entity -> Nat] /\ visited \subseteq Entity /\ from \in visited
        /\ depths[from] = 0
        /\ \A x \in visited \ {from} : prev[x] \in visited /\ depths[x] = depths[prev[x]] + 1
    BY DEF Typed, TreeOK
  <1>2. 0 \in S
    <2>1. ASSUME NEW x \in visited, depths[x] = 0
          PROVE  Reached(x, 0)
      <3> HIDE DEF visited, depths, prev, from
      <3>1. x = from
        <4>1. ASSUME x # from PROVE FALSE
          BY <1>1, <2>1, <4>1
        <4>2. QED
          BY <4>1
      <3> DEFINE s == [k \in 0..0 |-> x]
      <3>2. PathBack(w, x, s, 0)
        BY <1>1, <2>1, <3>1 DEF PathBack, visited, depths, prev, from
      <3> HIDE DEF s
      <3>3. QED
        BY <3>2
    <2>2. QED
      BY <2>1
  <1>3. ASSUME NEW d \in Nat, d \in S
        PROVE  d + 1 \in S
    <2>1. ASSUME NEW x \in visited, depths[x] = d + 1
          PROVE  Reached(x, d + 1)
      <3> DEFINE y == prev[x]
      <3>1. x # from /\ y \in visited /\ depths[y] = d
        BY <1>1, <2>1
      <3>2. PICK s : PathBack(w, y, s, d)
        BY <1>3, <3>1
      <3> DEFINE t == [k \in 0..(d+1) |-> IF k = 0 THEN x ELSE s[k-1]]
      <3>3. /\ s \in [0..d -> Entity] /\ s[0] = y /\ s[d] = from
            /\ \A k \in 0..d : s[k] \in visited /\ depths[s[k]] = d - k
            /\ \A k \in 0..(d-1) : s[k+1] = prev[s[k]]
        BY <3>2 DEF PathBack
      <3> HIDE DEF visited, depths, from, y
      <3>4. ASSUME NEW k \in 0..(d+1), k # 0
            PROVE  /\ t[k] = s[k-1] /\ k - 1 \in 0..d
                   /\ t[k] \in Entity /\ t[k] \in visited /\ depths[t[k]] = (d + 1) - k
        BY <3>3, <3>4
      <3>5. 0 \in 0..(d+1) /\ d + 1 \in 0..(d+1) /\ t[0] = x /\ x \in Entity
        BY <1>1
      <3>6. t \in [0..(d+1) -> Entity]
        <4>1. ASSUME NEW k \in 0..(d+1) PROVE t[k] \in Entity
          BY <3>4, <3>5
        <4>2. t = [k \in 0..(d+1) |-> t[k]]
          OBVIOUS
        <4> HIDE DEF t
        <4>3. QED
          BY <4>1, <4>2
      <3>7. t[d+1] = from
        BY <3>3, <3>4, <3>5
      <3>8. \A k \in 0..(d+1) : t[k] \in visited /\ depths[t[k]] = (d + 1) - k
        BY <2>1, <3>4, <3>5
      <3>9. ASSUME NEW k \in 0..d
            PROVE  t[k+1] = prev[t[k]]
        <4>1. k + 1 \in 0..(d+1) /\ k + 1 # 0 /\ (k + 1) - 1 = k /\ t[k+1] = s[k]
          BY <3>4
        <4>2. CASE k = 0
          BY <3>3, <3>5, <4>1, <4>2 DEF y
        <4>3. CASE k # 0
          <5>1. k - 1 \in 0..(d-1) /\ (k - 1) + 1 = k /\ t[k] = s[k-1]
            BY <3>4, <4>3
          <5>2. s[k] = prev[s[k-1]]
            BY <3>3, <5>1
          <5>3. QED
            BY <4>1, <5>1, <5>2
        <4>4. QED
          BY <4>2, <4>3
      <3> HIDE DEF t, prev
      <3>10. (d + 1) - 1 = d
        OBVIOUS
      <3>11. PathBack(w, x, t, d + 1)
        BY <3>5, <3>6, <3>7, <3>8, <3>9, <3>10 DEF PathBack, visited, depths, from, prev
      <3>12. QED
        BY <3>11
    <2>2. d + 1 \in Nat
      OBVIOUS
    <2> HIDE DEF Reached
    <2>3. QED
      BY <2>1, <2>2
  <1>4. Nat \subseteq S
    <2> HIDE DEF S
    <2>1. QED
      BY <1>2, <1>3, SetInduction
  <1>5. w.depths[e] \in Nat
    BY <1>1
  <1>6. QED
    BY <1>4, <1>5
\* The chain of a target the head leads to: the target and the path back from
\* the head.
ChainOf(w, s, len, head) ==
    /\ len = w.depths[head] + 1
    /\ len \in 1..Cardinality(Entity)
    /\ s \in [0..len -> Entity]
    /\ s[0] = w.to /\ s[1] = head /\ s[len] = w.from
    /\ \A k \in 1..len : s[k] \in w.visited
    /\ \A k \in 1..(len - 1) : s[k] # w.from /\ s[k+1] = w.prev[s[k]]

\* A target the head leads to: the way back is one longer than that of the
\* head, and passes no entity twice.
LEMMA TargetIsReached ==
    ASSUME NEW w, Typed(w), TreeOK(w), NEW head \in w.visited, w.to \in Entity
    PROVE  \E s : ChainOf(w, s, w.depths[head] + 1, head)
  <1> DEFINE d == w.depths[head]
             from == w.from
             to == w.to
  <1>1. PICK t : PathBack(w, head, t, d)
    BY VisitedIsReached
  <1>2. d \in Nat /\ from \in Entity /\ w.depths[from] = 0 /\ w.visited \subseteq Entity
    BY DEF Typed, TreeOK
  <1> HIDE DEF d, from, to
  <1>3. /\ t \in [0..d -> Entity] /\ t[0] = head /\ t[d] = from
        /\ \A k \in 0..d : t[k] \in w.visited /\ w.depths[t[k]] = d - k
        /\ \A k \in 0..(d-1) : t[k+1] = w.prev[t[k]]
    BY <1>1 DEF PathBack, from
  <1>4. d + 1 <= Cardinality(Entity)
    <2> DEFINE I == 0..d
    <2>1. t \in Injection(I, Entity)
      <3>1. ASSUME NEW k \in 0..d, NEW l \in 0..d, t[k] = t[l]
            PROVE  k = l
        <4>1. w.depths[t[k]] = d - k /\ w.depths[t[l]] = d - l
          BY <1>3
        <4>2. QED
          BY <1>2, <3>1, <4>1
      <3>2. QED
        BY <1>3, <3>1 DEF Injection, IsInjective
    <2>2. IsFiniteSet(Entity)
      BY TraversalAssumption
    <2>3. Cardinality(I) = d + 1
      <3>1. 0 \in Int /\ d \in Int /\ ~(0 > d)
        BY <1>2
      <3>2. Cardinality(0..d) = d - 0 + 1
        BY <3>1, FS_Interval
      <3>3. QED
        BY <1>2, <3>2
    <2> HIDE DEF I
    <2>4. Cardinality(I) <= Cardinality(Entity)
      BY <2>1, <2>2, FS_Injection
    <2>5. QED
      BY <2>3, <2>4
  <1> DEFINE len == d + 1
             s == [k \in 0..len |-> IF k = 0 THEN to ELSE t[k-1]]
  <1>5. len \in 1..Cardinality(Entity) /\ len - 1 = d
    <2>1. Cardinality(Entity) \in Nat
      BY FS_CardinalityType, TraversalAssumption
    <2>2. QED
      BY <1>2, <1>4, <2>1
  <1>6. ASSUME NEW k \in 0..len, k # 0
        PROVE  s[k] = t[k-1] /\ k - 1 \in 0..d /\ s[k] \in Entity
    BY <1>2, <1>3, <1>6
  <1>7. s[0] = to /\ 0 \in 0..len
    BY <1>2
  <1>8. s \in [0..len -> Entity]
    <2>1. to \in Entity
      BY DEF to
    <2>2. ASSUME NEW k \in 0..len PROVE s[k] \in Entity
      BY <1>6, <1>7, <2>1
    <2>3. s = [k \in 0..len |-> s[k]]
      OBVIOUS
    <2> HIDE DEF s, len
    <2>4. QED
      BY <2>2, <2>3
  <1> HIDE DEF s
  <1>9. s[1] = head /\ s[len] = from
    <2>1. 1 \in 0..len /\ len \in 0..len /\ 1 - 1 = 0 /\ len # 0
      BY <1>2
    <2>2. s[1] = t[0] /\ s[len] = t[d]
      BY <1>5, <1>6, <2>1
    <2>3. QED
      BY <1>3, <2>2
  <1>10. ASSUME NEW k \in 1..len
         PROVE  s[k] \in w.visited
    BY <1>3, <1>6
  <1>11. ASSUME NEW k \in 1..d
         PROVE  s[k] # from /\ s[k+1] = w.prev[s[k]]
    <2>1. k \in 0..len /\ k + 1 \in 0..len /\ (k + 1) - 1 = k /\ k - 1 \in 0..(d-1) /\ (k - 1) + 1 = k
          /\ k # 0 /\ k + 1 # 0 /\ k - 1 \in 0..d /\ d - (k - 1) # 0
      BY <1>2
    <2>2. s[k] = t[k-1] /\ s[k+1] = t[k]
      BY <1>6, <2>1
    <2>3. t[k] = w.prev[t[k-1]] /\ w.depths[t[k-1]] # 0
      BY <1>3, <2>1
    <2>4. QED
      BY <1>2, <2>2, <2>3
  <1>12. ChainOf(w, s, len, head)
    BY <1>5, <1>7, <1>8, <1>9, <1>10, <1>11 DEF ChainOf, d, from, to
  <1>13. QED
    BY <1>12 DEF d

\* The entries of a chain are nodes.
LEMMA LinksTyped ==
    ASSUME NEW len \in Nat, NEW s \in [0..len -> Entity]
    PROVE  /\ Links(s, len) \in Seq(Node)
           /\ Len(Links(s, len)) = len + 1
           /\ \A i \in 1..(len + 1) : Links(s, len)[i].entity = s[i-1]
  <1> DEFINE c == Links(s, len)
  <1>1. ASSUME NEW i \in 1..(len + 1)
        PROVE  c[i] \in Node /\ c[i].entity = s[i-1]
    <2>1. i - 1 \in 0..len /\ (i # 1 => i - 2 \in 0..len)
      OBVIOUS
    <2>2. c[i] = [entity |-> s[i-1], relationship |-> IF i = 1 THEN None ELSE <<s[i-1], s[i-2]>>]
      BY DEF Links
    <2>3. s[i-1] \in Entity /\ (i # 1 => <<s[i-1], s[i-2]>> \in Edge)
      BY <2>1 DEF Edge
    <2> HIDE DEF c
    <2>4. QED
      BY <2>2, <2>3 DEF Node
  <1>2. DOMAIN c = 1..(len + 1) /\ c = [i \in 1..(len + 1) |-> c[i]]
    BY DEF Links
  <1> HIDE DEF c
  <1>3. c \in [1..(len + 1) -> Node] /\ len + 1 \in Nat
    BY <1>1, <1>2
  <1>4. c \in Seq(Node)
    BY <1>3
  <1>5. Len(c) = len + 1
    BY <1>3, <1>4
  <1>6. QED
    BY <1>1, <1>4, <1>5 DEF c

\* The head leads to the target.
LEMMA ExpandFinds ==
    ASSUME TraversalInv, walk.pc = "search", walk.queue # <<>>,
           walk.depths[Head(walk.queue)] < walk.limit,
           walk.to \in Outgoing(Head(walk.queue)) \ walk.visited,
           Walk([walk EXCEPT !.pc = "build",
                 !.chain = Chain([walk.prev EXCEPT ![walk.to] = Head(walk.queue)], walk.from, walk.to)])
    PROVE  TraversalInv'
  <1> DEFINE w == walk
             head == Head(w.queue)
             tail == Tail(w.queue)
             from == w.from
             to == w.to
             prev == [w.prev EXCEPT ![to] = head]
             len == w.depths[head] + 1
  <1>1. /\ Typed(w) /\ TreeOK(w) /\ QueueOK(w) /\ (~w.lost => SearchStands(w, edges))
        /\ Asked(w) /\ HistoryOK(w, edges, edits) /\ StoreOK(entities, edges, edits)
        /\ from # to /\ w.backend = "sql" /\ w.path = <<>>
    BY DEF TraversalInv, WalkOK, SearchOK
  <1>2. HeadFirst(w, head, tail)
    BY <1>1, QueueTail
  <1>3. to \in Entity /\ to \notin w.visited /\ <<head, to>> \in edges
    BY DEF Outgoing
  <1>4. w.depths[head] < w.limit
    OBVIOUS
  <1>5. Walk([w EXCEPT !.pc = "build", !.chain = Chain(prev, from, to)])
    OBVIOUS
  <1> HIDE DEF head, tail
  <1>6. /\ head \in w.visited /\ head \in Entity
        /\ \A x \in InQueue(w) : w.depths[head] <= w.depths[x]
    BY <1>2 DEF HeadFirst, Queued
  <1>7. PICK s : ChainOf(w, s, len, head)
    BY <1>1, <1>3, <1>6, TargetIsReached
  <1>8. /\ w.depths \in [Entity -> Nat] /\ w.depths[head] \in Nat /\ w.limit \in Nat
        /\ w.prev \in [Entity -> Entity \cup {None}] /\ from \in Entity /\ w.visited \subseteq Entity
    BY <1>1, <1>6 DEF Typed, TreeOK
  <1>9. /\ len \in Nat /\ len \in 1..Cardinality(Entity) /\ len <= w.limit
        /\ s \in [0..len -> Entity] /\ s[0] = to /\ s[1] = head /\ s[len] = from
        /\ \A k \in 1..len : s[k] \in w.visited
        /\ \A k \in 1..(len - 1) : s[k] # from /\ s[k+1] = w.prev[s[k]]
    BY <1>4, <1>7, <1>8 DEF ChainOf
  <1>10. Chain(prev, from, to) = Links(s, len)
    <2>1. prev \in [Entity -> Entity \cup {None}]
      BY <1>3, <1>6, <1>8
    <2>2. ASSUME NEW k \in 0..(len - 1)
          PROVE  s[k] # from /\ s[k+1] = prev[s[k]]
      <3>1. CASE k = 0
        BY <1>1, <1>3, <1>8, <1>9, <3>1
      <3>2. CASE k # 0
        <4>1. k \in 1..(len - 1) /\ k \in 1..len
          BY <1>9, <3>2
        <4>2. s[k] \in w.visited /\ s[k] # to /\ s[k] \in Entity
          BY <1>3, <1>8, <1>9, <4>1
        <4>3. prev[s[k]] = w.prev[s[k]]
          BY <1>8, <4>2
        <4>4. QED
          BY <1>9, <4>1, <4>3
      <3>3. QED
        BY <3>1, <3>2
    <2>3. from \in Entity /\ len \in 1..Cardinality(Entity) /\ s \in [0..len -> Entity]
          /\ s[0] = to /\ s[len] = from
      BY <1>8, <1>9
    <2> HIDE DEF prev, from, to, len
    <2>4. LeadsBack(prev, from, to, s, len)
      BY <1>3, <2>1, <2>2, <2>3 DEF LeadsBack
    <2>5. QED
      BY <2>4, ChainFollows
  <1> HIDE DEF prev
  <1> DEFINE c == Links(s, len)
             r == [w EXCEPT !.pc = "build", !.chain = c]
  <1>11. /\ c \in Seq(Node) /\ Len(c) = len + 1
         /\ \A i \in 1..(len + 1) : c[i].entity = s[i-1]
    BY <1>9, LinksTyped
  <1>12. Walk(r)
    BY <1>5, <1>10
  <1> HIDE DEF c, len
  <1>13. /\ Typed(r) /\ r.pc = "build" /\ r.chain = c /\ r.from = from /\ r.to = to
         /\ r.limit = w.limit /\ r.backend = "sql" /\ r.began = w.began /\ r.lost = w.lost
         /\ r.path = <<>>
    BY <1>1, <1>11 DEF Typed, IdleWalk, Stages
  <1> HIDE DEF r
  <1>14. Backwards(r) /\ \A i \in 1..(len + 1) : At(r, i).entity = s[len + 1 - i]
    <2>1. ASSUME NEW i \in 1..(len + 1)
          PROVE  At(r, i).entity = s[len + 1 - i]
      <3>1. Len(c) + 1 - i \in 1..(len + 1) /\ (Len(c) + 1 - i) - 1 = len + 1 - i
        BY SMTT(30), <1>9, <1>11
      <3>2. At(r, i) = c[Len(c) + 1 - i]
        BY <1>13 DEF At, Backwards
      <3>3. QED
        BY <1>11, <3>1, <3>2
    <2>2. QED
      BY <1>13, <2>1 DEF Backwards
  <1>15. ASSUME ~r.lost, NEW i \in 1..len
         PROVE  <<At(r, i).entity, At(r, i+1).entity>> \in edges
    <2>1. i \in 1..(len+1) /\ i + 1 \in 1..(len+1) /\ len + 1 - (i + 1) = len - i
      BY <1>9
    <2>2. At(r, i).entity = s[len + 1 - i] /\ At(r, i+1).entity = s[len - i]
      BY <1>14, <2>1
    <2>3. <<s[len + 1 - i], s[len - i]>> \in edges
      <3>1. CASE i = len
        <4>1. len + 1 - i = 1 /\ len - i = 0
          BY <1>9, <3>1
        <4>2. QED
          BY <1>3, <1>9, <4>1
      <3>2. CASE i # len
        <4> DEFINE k == len - i
        <4>1. k \in 1..(len - 1) /\ k \in 1..len /\ len + 1 - i = k + 1
          BY <1>9, <3>2
        <4>2. s[k] \in w.visited \ {from} /\ s[k+1] = w.prev[s[k]]
          BY <1>9, <4>1
        <4>3. <<w.prev[s[k]], s[k]>> \in edges
          BY <1>1, <1>13, <1>15, <4>2 DEF SearchStands
        <4>4. QED
          BY <4>1, <4>2, <4>3
      <3>3. QED
        BY <3>1, <3>2
    <2>4. QED
      BY <2>2, <2>3
  <1>16. ASSUME edits = 0, NEW m \in 0..(len - 1)
         PROVE  to \notin ReachIn(w.began, from, m)
    <2> DEFINE began == w.began
               visited == w.visited
               depths == w.depths
               d == depths[head]
    <2>1. ~w.lost
      BY <1>1, <1>16 DEF HistoryOK
    <2>2. ASSUME NEW x \in visited, NEW y \in Entity, depths[x] < d, <<x, y>> \in began
          PROVE  y \in visited /\ depths[y] <= depths[x] + 1
      <3>1. depths[x] \in Nat /\ depths[x] < w.limit
        BY <1>4, <1>8, <2>2
      <3>2. x \notin InQueue(w)
        BY <1>6, <1>8, <2>2, <3>1
      <3>3. QED
        BY <1>1, <2>1, <2>2, <3>1, <3>2 DEF SearchStands
    <2>3. /\ from \in visited /\ depths[from] = 0 /\ d \in Nat /\ depths \in [Entity -> Nat]
          /\ visited \subseteq Entity /\ from \in Entity /\ m \in 0..d /\ to \notin visited
      BY <1>1, <1>3, <1>8, <1>9 DEF TreeOK, len
    <2> HIDE DEF began, visited, depths, d, from, to
    <2>4. \A n \in 0..d : \A x \in ReachIn(began, from, n) : x \in visited /\ depths[x] <= n
      BY <2>2, <2>3, ReachIsVisited
    <2>5. QED
      BY <2>3, <2>4 DEF began
  <1>17. BuildOK(r, edges, edits)
    <2>1. /\ r.chain # <<>> /\ Len(r.chain) - 1 = len /\ Len(r.chain) = len + 1
          /\ Len(r.chain) - 2 = len - 1 /\ Len(r.path) = 0
      BY <1>9, <1>11, <1>13
    <2>2. At(r, 1).entity = from /\ At(r, Len(r.chain)).entity = to
      <3>1. 1 \in 1..(len+1) /\ len + 1 \in 1..(len+1) /\ len + 1 - 1 = len /\ len + 1 - (len + 1) = 0
        BY <1>9
      <3>2. At(r, 1).entity = s[len] /\ At(r, len + 1).entity = s[0]
        BY <1>14, <3>1
      <3>3. QED
        BY <1>9, <2>1, <3>2
    <2>3. \A i \in DOMAIN r.path : FALSE
      BY <1>13
    <2>4. r.pc = "build" /\ Len(r.path) <= Len(r.chain) /\ Len(r.path) # Len(r.chain) /\ Len(r.chain) - 1 <= r.limit
      BY <1>9, <1>13, <2>1
    <2>5. Backwards(r) /\ r.began = w.began /\ r.from = from /\ r.to = to /\ r.from # r.to
      BY <1>1, <1>13, <1>14
    <2>6. ~r.lost => \A i \in 1..(Len(r.chain) - 1) : <<At(r, i).entity, At(r, i+1).entity>> \in edges
      BY <1>15, <2>1
    <2>7. edits = 0 => \A m \in 0..(Len(r.chain) - 2) : r.to \notin ReachIn(r.began, r.from, m)
      BY <1>16, <2>1, <2>5
    <2> HIDE DEF from, to
    <2>8. QED
      BY <2>1, <2>2, <2>3, <2>4, <2>5, <2>6, <2>7 DEF BuildOK
  <1>18. Asked(r) /\ HistoryOK(r, edges, edits)
    BY <1>1, <1>13, WalkGoesOn DEF PathStages, ContextStages
  <1>19. WalkOK(r, entities, edges, edits)
    BY <1>1, <1>13, <1>17, <1>18 DEF WalkOK, SearchOK, QueryOK, FailOK, TodoStands, ContextOK
  <1>20. QED
    BY <1>12, <1>19 DEF Walk, TraversalInv

\* One query of the search, whether it finds the target or not.
LEMMA ExpandPathPreserves ==
    ASSUME TraversalInv, ExpandPath
    PROVE  TraversalInv'
  <1> DEFINE new == Outgoing(Head(walk.queue)) \ walk.visited
  <1>1. walk.pc = "search" /\ walk.queue # <<>> /\ walk.depths[Head(walk.queue)] < walk.limit
    BY DEF ExpandPath
  <1>2. CASE walk.to \in new
    BY <1>1, <1>2, ExpandFinds DEF ExpandPath
  <1>3. CASE walk.to \notin new
    BY <1>1, <1>3, ExpandGoesOn, Zenon DEF ExpandPath
  <1>4. QED
    BY <1>2, <1>3

-----------------------------------------------------------------------------
(* The path is built *)

\* The nodes of a chain, from either end.
LEMMA AtTyped ==
    ASSUME NEW w, Typed(w), NEW i \in 1..Len(w.chain)
    PROVE  At(w, i) \in Node
  <1>1. w.chain \in Seq(Node)
    BY DEF Typed
  <1>2. i \in DOMAIN w.chain /\ Len(w.chain) + 1 - i \in DOMAIN w.chain
    BY <1>1
  <1>3. w.chain[i] \in Node /\ w.chain[Len(w.chain) + 1 - i] \in Node
    BY <1>1, <1>2
  <1>4. QED
    BY <1>3 DEF At

\* What a path being built has yet to show.
LEMMA PathIsShort ==
    ASSUME TraversalInv, walk.pc = "build"
    PROVE  /\ Len(walk.chain) \in Nat /\ Len(walk.path) \in Nat
           /\ Len(walk.path) + 1 \in 1..Len(walk.chain)
           /\ walk.from \in Entity /\ walk.to \in Entity
  <1>1. Typed(walk) /\ BuildOK(walk, edges, edits) /\ Asked(walk)
    BY DEF TraversalInv, WalkOK
  <1>2. /\ Len(walk.path) <= Len(walk.chain)
        /\ Len(walk.path) # Len(walk.chain)
    BY <1>1 DEF BuildOK
  <1>3. Len(walk.chain) \in Nat /\ Len(walk.path) \in Nat
    BY <1>1 DEF Typed
  <1>4. walk.from \in Entity /\ walk.to \in Entity
    BY <1>1 DEF Asked, PathStages
  <1>5. QED
    BY <1>2, <1>3, <1>4

\* A node is shown.
LEMMA NodeShown ==
    ASSUME TraversalInv, walk.pc = "build", NEW entry \in Node, NEW pc,
           pc = IF Len(walk.path) + 1 = Len(walk.chain) THEN "path" ELSE "build",
           entry.entity = At(walk, Len(walk.path) + 1).entity,
           ~Backwards(walk) => entry = walk.chain[Len(walk.path) + 1],
           Walk([walk EXCEPT !.pc = pc, !.path = Append(walk.path, entry)])
    PROVE  TraversalInv'
  <1> DEFINE w == walk
             n == Len(w.path)
             q == Append(w.path, entry)
             r == [w EXCEPT !.pc = pc, !.path = q]
  <1>1. /\ Typed(w) /\ BuildOK(w, edges, edits) /\ Asked(w) /\ HistoryOK(w, edges, edits)
        /\ StoreOK(entities, edges, edits)
    BY DEF TraversalInv, WalkOK
  <1>2. w.path \in Seq(Node) /\ n \in Nat /\ Len(w.chain) \in Nat /\ n + 1 \in 1..Len(w.chain)
    BY <1>1, PathIsShort DEF Typed
  <1>3. /\ q \in Seq(Node) /\ Len(q) = n + 1 /\ DOMAIN q = 1..(n + 1) /\ q[n+1] = entry
        /\ \A i \in DOMAIN w.path : q[i] = w.path[i]
        /\ DOMAIN w.path = 1..n
    BY <1>2
  <1>4. Walk(r)
    OBVIOUS
  <1> HIDE DEF q
  <1>5. pc \in {"path", "build"} /\ (pc = "path" <=> n + 1 = Len(w.chain))
    OBVIOUS
  <1>6. /\ Typed(r) /\ r.pc = pc /\ r.chain = w.chain /\ r.from = w.from /\ r.to = w.to
        /\ r.limit = w.limit /\ r.backend = w.backend /\ r.began = w.began /\ r.lost = w.lost
        /\ r.path = q
    BY <1>1, <1>3, <1>5 DEF Typed, IdleWalk, Stages
  <1> HIDE DEF r
  <1>7. (Backwards(r) <=> Backwards(w)) /\ \A i : At(r, i) = At(w, i)
    BY <1>6 DEF Backwards, At
  <1>8. BuildOK(r, edges, edits)
    <2>1. ASSUME NEW i \in DOMAIN q
          PROVE  q[i].entity = At(r, i).entity /\ (~Backwards(r) => q[i] = r.chain[i])
      <3>1. CASE i = n + 1
        BY <1>3, <1>6, <1>7, <3>1
      <3>2. CASE i # n + 1
        <4>1. i \in DOMAIN w.path /\ q[i] = w.path[i]
          BY <1>2, <1>3, <3>2
        <4>2. w.path[i].entity = At(w, i).entity /\ (~Backwards(w) => w.path[i] = w.chain[i])
          BY <1>1, <4>1 DEF BuildOK
        <4>3. QED
          BY <1>6, <1>7, <4>1, <4>2
      <3>3. QED
        BY <3>1, <3>2
    <2>2. Len(r.path) <= Len(r.chain) /\ (r.pc = "path" <=> Len(r.path) = Len(r.chain))
      BY <1>2, <1>3, <1>5, <1>6
    <2>3. /\ w.chain # <<>>
          /\ w.from = w.to => Len(w.chain) = 1
          /\ Len(w.chain) - 1 <= w.limit
          /\ At(w, 1).entity = w.from
          /\ At(w, Len(w.chain)).entity = w.to
          /\ ~w.lost => \A i \in 1..(Len(w.chain) - 1) :
                           <<At(w, i).entity, At(w, i+1).entity>> \in edges
          /\ ~Backwards(w) =>
                /\ w.chain[1].relationship = None
                /\ \A i \in 1..(Len(w.chain) - 1) :
                      w.chain[i+1].relationship = <<w.chain[i].entity, w.chain[i+1].entity>>
          /\ edits = 0 => \A m \in 0..(Len(w.chain) - 2) : w.to \notin ReachIn(w.began, w.from, m)
      BY <1>1 DEF BuildOK
    <2>4. QED
      BY <1>6, <1>7, <2>1, <2>2, <2>3 DEF BuildOK
  <1>9. Asked(r) /\ HistoryOK(r, edges, edits)
    BY <1>1, <1>5, <1>6, WalkGoesOn DEF PathStages, ContextStages
  <1>10. WalkOK(r, entities, edges, edits)
    BY <1>1, <1>5, <1>6, <1>8, <1>9 DEF WalkOK, SearchOK, QueryOK, FailOK, TodoStands, ContextOK
  <1>11. QED
    BY <1>4, <1>10 DEF Walk, TraversalInv

\* A node is gone: if nothing was deleted, it is an end of no relationship, so
\* the path is that of the start alone.
LEMMA NodeMissing ==
    ASSUME TraversalInv, walk.pc = "build",
           At(walk, Len(walk.path) + 1).entity \notin entities \/ walk.lost,
           Walk(NotFound(walk))
    PROVE  TraversalInv'
  <1> DEFINE w == walk
             n == Len(w.path) + 1
             r == NotFound(w)
  <1>1. /\ Typed(w) /\ BuildOK(w, edges, edits) /\ Asked(w) /\ HistoryOK(w, edges, edits)
        /\ StoreOK(entities, edges, edits)
    BY DEF TraversalInv, WalkOK
  <1>2. n \in Nat /\ Len(w.chain) \in Nat /\ n \in 1..Len(w.chain)
    BY PathIsShort
  <1>3. /\ Typed(r) /\ r.pc = "not_found" /\ r.from = w.from /\ r.to = w.to
        /\ r.limit = w.limit /\ r.backend = w.backend /\ r.began = w.began /\ r.lost = w.lost
    BY <1>1 DEF Typed, IdleWalk, Stages, NotFound
  <1>4. Walk(r) /\ (At(w, n).entity \notin entities \/ w.lost)
    OBVIOUS
  <1> HIDE DEF r, n
  <1>5. ASSUME ~w.lost
        PROVE  w.from \notin entities
    <2>1. \A i \in 1..(Len(w.chain) - 1) : <<At(w, i).entity, At(w, i+1).entity>> \in edges
      BY <1>1, <1>5 DEF BuildOK
    <2>2. \A i \in 1..(Len(w.chain) - 1) : At(w, i).entity \in entities /\ At(w, i+1).entity \in entities
      BY <1>1, <2>1 DEF StoreOK
    <2>3. n \notin 1..(Len(w.chain) - 1)
      BY <1>4, <1>5, <2>2
    <2>4. n = 1
      <3>1. CASE n - 1 \in 1..(Len(w.chain) - 1)
        <4>1. (n - 1) + 1 = n
          BY <1>2
        <4>2. QED
          BY <1>4, <1>5, <2>2, <3>1, <4>1
      <3>2. QED
        BY <1>2, <3>1
    <2>5. At(w, 1).entity = w.from
      BY <1>1 DEF BuildOK
    <2>6. QED
      BY <1>4, <1>5, <2>4, <2>5
  <1>6. FailOK(r, entities)
    BY <1>3, <1>5 DEF FailOK
  <1>7. Asked(r) /\ HistoryOK(r, edges, edits)
    BY <1>1, <1>3, WalkGoesOn DEF PathStages, ContextStages
  <1>8. WalkOK(r, entities, edges, edits)
    BY <1>1, <1>3, <1>6, <1>7 DEF WalkOK, SearchOK, QueryOK, BuildOK, TodoStands, ContextOK
  <1>9. QED
    BY <1>4, <1>8 DEF Walk, TraversalInv

\* One iteration of buildPath's second loop.
LEMMA BuildNodePreserves ==
    ASSUME TraversalInv, BuildNode
    PROVE  TraversalInv'
  <1> DEFINE w == walk
             i == Len(w.chain) - Len(w.path)
             node == w.chain[i]
             relationship == IF i < Len(w.chain) THEN node.relationship ELSE None
             entry == [entity |-> node.entity, relationship |-> relationship]
             pc == IF i = 1 THEN "path" ELSE "build"
  <1>1. walk.pc = "build" /\ Backwards(w)
    BY DEF BuildNode, Backwards
  <1>2. \/ Walk([w EXCEPT !.pc = pc, !.path = Append(w.path, entry)])
        \/ node.entity \notin entities /\ Walk(NotFound(w))
    BY DEF BuildNode
  <1>3. /\ Len(w.chain) \in Nat /\ Len(w.path) \in Nat /\ Len(w.path) + 1 \in 1..Len(w.chain)
        /\ Typed(w)
    BY <1>1, PathIsShort DEF TraversalInv, WalkOK
  <1>4. Len(w.chain) + 1 - (Len(w.path) + 1) = i /\ (i = 1 <=> Len(w.path) + 1 = Len(w.chain))
    <2>1. \A a, b \in Nat : a + 1 - (b + 1) = a - b /\ (a - b = 1 <=> b + 1 = a)
      OBVIOUS
    <2>2. QED
      BY <1>3, <2>1
  <1>5. At(w, Len(w.path) + 1) = node
    BY <1>1, <1>4 DEF At
  <1>6. node \in Node
    BY <1>3, <1>5, AtTyped
  <1> HIDE DEF node, i
  <1>7. entry \in Node /\ entry.entity = At(w, Len(w.path) + 1).entity
    BY <1>5, <1>6 DEF Node
  <1> HIDE DEF entry
  <1>8. pc = IF Len(walk.path) + 1 = Len(walk.chain) THEN "path" ELSE "build"
    BY <1>4
  <1> HIDE DEF pc
  <1>9. CASE Walk([w EXCEPT !.pc = pc, !.path = Append(w.path, entry)])
    BY <1>1, <1>7, <1>8, <1>9, NodeShown
  <1>10. CASE node.entity \notin entities /\ Walk(NotFound(w))
    BY <1>1, <1>5, <1>10, NodeMissing
  <1>11. QED
    BY <1>2, <1>9, <1>10

\* One row of the cypher answer is looked up in the tables.
LEMMA LookUpNodePreserves ==
    ASSUME TraversalInv, LookUpNode
    PROVE  TraversalInv'
  <1> DEFINE w == walk
             n == Len(w.path) + 1
             row == w.chain[n]
             found == row.entity \in entities /\ row.relationship \in edges \cup {None}
             pc == IF n = Len(w.chain) THEN "path" ELSE w.pc
  <1>1. walk.pc = "build" /\ ~Backwards(w)
    BY TraversalAssumption DEF LookUpNode, Backwards
  <1>2. \/ Walk([w EXCEPT !.pc = pc, !.path = Append(w.path, row)])
        \/ ~found /\ Walk(NotFound(w))
    BY DEF LookUpNode
  <1>3. /\ Len(w.chain) \in Nat /\ n \in Nat /\ n \in 1..Len(w.chain)
        /\ Typed(w) /\ BuildOK(w, edges, edits)
    BY <1>1, PathIsShort DEF TraversalInv, WalkOK
  <1>4. At(w, n) = row
    BY <1>1 DEF At
  <1>5. row \in Node
    BY <1>3, <1>4, AtTyped
  <1>6. pc = IF Len(walk.path) + 1 = Len(walk.chain) THEN "path" ELSE "build"
    BY <1>1
  <1>7. ASSUME ~w.lost
        PROVE  row.relationship \in edges \cup {None}
    <2>1. CASE n = 1
      BY <1>1, <1>3, <2>1 DEF BuildOK
    <2>2. CASE n # 1
      <3> DEFINE k == n - 1
      <3>1. k \in 1..(Len(w.chain) - 1) /\ k + 1 = n
        BY <1>3, <2>2
      <3> HIDE DEF k, n
      <3>2. w.chain[k+1].relationship = <<w.chain[k].entity, w.chain[k+1].entity>>
        BY <1>1, <1>3, <3>1 DEF BuildOK
      <3>3. <<At(w, k).entity, At(w, k+1).entity>> \in edges
        BY <1>1, <1>3, <1>7, <3>1 DEF BuildOK
      <3>4. At(w, k) = w.chain[k] /\ At(w, k+1) = w.chain[k+1]
        BY <1>1 DEF At
      <3>5. QED
        BY <3>1, <3>2, <3>3, <3>4
    <2>3. QED
      BY <2>1, <2>2
  <1> HIDE DEF pc, row
  <1>8. CASE Walk([w EXCEPT !.pc = pc, !.path = Append(w.path, row)])
    <2>1. row = walk.chain[Len(walk.path) + 1]
      BY DEF row
    <2>2. QED
      BY <1>1, <1>4, <1>5, <1>6, <1>8, <2>1, NodeShown
  <1>9. CASE ~found /\ Walk(NotFound(w))
    BY <1>1, <1>4, <1>7, <1>9, NodeMissing
  <1>10. QED
    BY <1>2, <1>8, <1>9

-----------------------------------------------------------------------------
(* The cypher query for a path *)

\* p is a walk of n relationships, and there is none of fewer.
ShortestWalk(p, graph, from, to, n) ==
    /\ IsWalk(p, graph, from, to, n)
    /\ \A m \in Nat : 0 < m /\ m < n => ~ \E q : IsWalk(q, graph, from, to, m)

\* What the cypher query answers is a shortest path, and it answers nothing
\* only if there is no path.
LEMMA ShortestPathsAnswered ==
    ASSUME NEW from, NEW to, NEW limit \in Nat
    PROVE  /\ \A p \in ShortestPaths(from, to, limit) :
                 \E n \in 1..limit : ShortestWalk(p, edges, from, to, n)
           /\ ShortestPaths(from, to, limit) = {} =>
                 \A n \in 1..limit : ~ \E q : IsWalk(q, edges, from, to, n)
  <1> DEFINE paths(n) == {p \in [1..(n+1) -> Entity] :
                             /\ p[1] = from /\ p[n+1] = to
                             /\ \A i \in 1..n : p[i+1] \in Outgoing(p[i])}
             lengths == {n \in 1..limit : paths(n) # {}}
             least == CHOOSE n \in lengths : \A m \in lengths : n <= m
             found == ShortestPaths(from, to, limit)
  <1>1. found = IF lengths = {} THEN {} ELSE paths(least)
    BY DEF ShortestPaths
  <1>2. ASSUME NEW n \in Nat, NEW p
        PROVE  p \in paths(n) <=> IsWalk(p, edges, from, to, n)
    <2>1. ASSUME p \in [1..(n+1) -> Entity], NEW i \in 1..n
          PROVE  p[i+1] \in Outgoing(p[i]) <=> <<p[i], p[i+1]>> \in edges
      <3>1. p[i+1] \in Entity
        BY <2>1
      <3>2. QED
        BY <3>1 DEF Outgoing
    <2>2. QED
      BY <2>1 DEF IsWalk
  <1> HIDE DEF paths
  <1>3. \A n \in 1..limit : n \in lengths <=> \E q : IsWalk(q, edges, from, to, n)
    BY <1>2
  <1>4. ASSUME lengths # {}
        PROVE  least \in lengths /\ \A m \in lengths : least <= m
    <2>1. lengths \subseteq Nat
      OBVIOUS
    <2> HIDE DEF lengths
    <2>2. \E n \in lengths : \A m \in lengths : n <= m
      BY <1>4, <2>1, LeastElement
    <2>3. QED
      BY <2>2, Zenon
  <1>5. lengths \subseteq 1..limit
    OBVIOUS
  <1> HIDE DEF lengths, least, found
  <1>6. ASSUME found = {}
        PROVE  \A n \in 1..limit : ~ \E q : IsWalk(q, edges, from, to, n)
    <2>1. ASSUME lengths # {}
          PROVE  FALSE
      <3>1. least \in lengths /\ least \in 1..limit
        BY <1>4, <1>5, <2>1
      <3>2. PICK q : IsWalk(q, edges, from, to, least)
        BY <1>3, <3>1
      <3>3. q \in paths(least)
        BY <1>2, <3>1, <3>2
      <3>4. QED
        BY <1>1, <1>6, <2>1, <3>3
    <2>2. QED
      BY <1>3, <2>1
  <1>7. ASSUME NEW p \in found
        PROVE  \E n \in 1..limit : ShortestWalk(p, edges, from, to, n)
    <2>1. lengths # {} /\ p \in paths(least)
      BY <1>1, <1>7
    <2>2. least \in 1..limit /\ \A m \in lengths : least <= m
      BY <1>4, <1>5, <2>1
    <2>3. IsWalk(p, edges, from, to, least)
      BY <1>2, <2>1, <2>2
    <2>4. ASSUME NEW m \in Nat, 0 < m, m < least
          PROVE  ~ \E q : IsWalk(q, edges, from, to, m)
      <3>1. m \in 1..limit /\ ~(least <= m)
        BY <2>2, <2>4
      <3>2. QED
        BY <1>3, <2>2, <3>1
    <2>5. ShortestWalk(p, edges, from, to, least)
      BY <2>3, <2>4 DEF ShortestWalk
    <2>6. QED
      BY <2>2, <2>5
  <1>8. QED
    BY <1>6, <1>7 DEF found

\* What is within reach, but not at once, is reached by a walk in any graph that
\* has those relationships.
LEMMA ReachedByWalk ==
    ASSUME NEW graph, NEW wider, graph \subseteq wider, NEW from \in Entity, NEW to,
           from # to, NEW n \in Nat, to \in ReachIn(graph, from, n)
    PROVE  \E m \in 1..n : \E q : IsWalk(q, wider, from, to, m)
  <1>1. PICK m \in 0..n : \E q : IsWalk(q, graph, from, to, m)
    BY ReachIsWalked
  <1>2. PICK q : IsWalk(q, graph, from, to, m)
    BY <1>1
  <1>3. m # 0
    BY <1>2 DEF IsWalk
  <1>4. IsWalk(q, wider, from, to, m)
    BY <1>2 DEF IsWalk
  <1>5. QED
    BY <1>3, <1>4

\* Each node of a cypher path is shown with the relationship that reaches it.
LEMMA PathRowsTyped ==
    ASSUME NEW n \in Nat, NEW p \in [1..(n+1) -> Entity]
    PROVE  /\ PathRows(p) \in Seq(Node)
           /\ Len(PathRows(p)) = n + 1
           /\ PathRows(p)[1].relationship = None
           /\ \A i \in 1..(n+1) : PathRows(p)[i].entity = p[i]
           /\ \A i \in 1..n : PathRows(p)[i+1].relationship = <<p[i], p[i+1]>>
  <1> DEFINE c == PathRows(p)
  <1>1. DOMAIN p = 1..(n+1)
    OBVIOUS
  <1>2. ASSUME NEW i \in 1..(n+1)
        PROVE  c[i] = [entity |-> p[i], relationship |-> IF i = 1 THEN None ELSE <<p[i-1], p[i]>>]
    BY <1>1 DEF PathRows
  <1>3. DOMAIN c = 1..(n+1) /\ c = [i \in 1..(n+1) |-> c[i]]
    BY <1>1 DEF PathRows
  <1> HIDE DEF c
  <1>4. ASSUME NEW i \in 1..(n+1)
        PROVE  c[i] \in Node /\ c[i].entity = p[i]
    <2>1. p[i] \in Entity /\ (i # 1 => i - 1 \in 1..(n+1))
      OBVIOUS
    <2>2. i # 1 => <<p[i-1], p[i]>> \in Edge
      BY <2>1 DEF Edge
    <2>3. c[i] = [entity |-> p[i], relationship |-> IF i = 1 THEN None ELSE <<p[i-1], p[i]>>]
      BY <1>2, Zenon
    <2>4. QED
      BY <2>1, <2>2, <2>3 DEF Node
  <1>5. c \in [1..(n+1) -> Node] /\ n + 1 \in Nat
    BY <1>3, <1>4
  <1>6. c \in Seq(Node) /\ Len(c) = n + 1
    BY <1>5
  <1>7. c[1].relationship = None
    <2> DEFINE i == 1
    <2>1. i \in 1..(n+1) /\ i = 1
      OBVIOUS
    <2> HIDE DEF i
    <2>2. c[i] = [entity |-> p[i], relationship |-> IF i = 1 THEN None ELSE <<p[i-1], p[i]>>]
      BY <1>2, <2>1, Zenon
    <2>3. c[i].relationship = None
      BY <2>1, <2>2
    <2>4. QED
      BY <2>3 DEF i
  <1>8. ASSUME NEW i \in 1..n
        PROVE  c[i+1].relationship = <<p[i], p[i+1]>>
    <2> DEFINE k == i + 1
    <2>1. k \in 1..(n+1) /\ k # 1 /\ k - 1 = i
      OBVIOUS
    <2> HIDE DEF k
    <2>2. c[k] = [entity |-> p[k], relationship |-> IF k = 1 THEN None ELSE <<p[k-1], p[k]>>]
      BY <1>2, <2>1, Zenon
    <2>3. c[k].relationship = <<p[i], p[k]>>
      BY <2>1, <2>2
    <2>4. QED
      BY <2>3 DEF k
  <1>9. QED
    BY <1>4, <1>6, <1>7, <1>8 DEF c

\* The cypher query for a path, with an answer and without.
LEMMA QueryPathPreserves ==
    ASSUME TraversalInv, QueryPath
    PROVE  TraversalInv'
  <1> DEFINE w == walk
             from == w.from
             to == w.to
             found == ShortestPaths(w.from, w.to, w.limit)
  <1>1. /\ w.pc = "query"
        /\ \/ \E p \in found : Walk([w EXCEPT !.pc = "build", !.chain = PathRows(p)])
           \/ found = {} /\ Walk(NotFound(w))
    BY DEF QueryPath
  <1>2. /\ Typed(w) /\ Asked(w) /\ HistoryOK(w, edges, edits) /\ StoreOK(entities, edges, edits)
        /\ w.backend = "age" /\ from # to /\ w.path = <<>>
    BY <1>1 DEF TraversalInv, WalkOK, QueryOK
  <1>3. w.limit \in Nat /\ from \in Entity /\ to \in Entity /\ None \notin Entity
    BY <1>1, <1>2, TraversalAssumption DEF Typed, Asked, PathStages
  <1>4. /\ \A p \in found : \E n \in 1..w.limit : ShortestWalk(p, edges, from, to, n)
        /\ found = {} => \A n \in 1..w.limit : ~ \E q : IsWalk(q, edges, from, to, n)
    BY <1>3, ShortestPathsAnswered
  <1> HIDE DEF found
  <1>5. ASSUME NEW p \in found, Walk([w EXCEPT !.pc = "build", !.chain = PathRows(p)])
        PROVE  TraversalInv'
    <2> DEFINE c == PathRows(p)
               r == [w EXCEPT !.pc = "build", !.chain = c]
    <2>1. PICK n \in 1..w.limit : ShortestWalk(p, edges, from, to, n)
      BY <1>4
    <2>2. n \in Nat /\ 1 <= n /\ n <= w.limit
      BY <1>3
    <2>3. /\ p \in [1..(n+1) -> Entity] /\ p[1] = from /\ p[n+1] = to
          /\ \A i \in 1..n : <<p[i], p[i+1]>> \in edges
          /\ \A m \in Nat : 0 < m /\ m < n => ~ \E q : IsWalk(q, edges, from, to, m)
      BY <2>1 DEF ShortestWalk, IsWalk
    <2>4. /\ c \in Seq(Node) /\ Len(c) = n + 1 /\ c[1].relationship = None
          /\ \A i \in 1..(n+1) : c[i].entity = p[i]
          /\ \A i \in 1..n : c[i+1].relationship = <<p[i], p[i+1]>>
      BY <2>2, <2>3, PathRowsTyped
    <2>5. Walk(r)
      BY <1>5
    <2> HIDE DEF c
    <2>6. /\ Typed(r) /\ r.pc = "build" /\ r.chain = c /\ r.from = from /\ r.to = to
          /\ r.limit = w.limit /\ r.backend = "age" /\ r.began = w.began /\ r.lost = w.lost
          /\ r.path = <<>>
      BY <1>2, <2>4 DEF Typed, IdleWalk, Stages
    <2> HIDE DEF r
    <2>7. ~Backwards(r) /\ \A i : At(r, i) = c[i]
      BY <1>2, <2>6 DEF Backwards, At
    <2>8. ASSUME edits = 0, NEW m \in 0..(n - 1)
          PROVE  to \notin ReachIn(r.began, from, m)
      <3>1. r.began = edges
        BY <1>1, <1>2, <2>6, <2>8 DEF HistoryOK
      <3>2. ASSUME to \in ReachIn(edges, from, m)
            PROVE  FALSE
        <4>1. m \in Nat /\ edges \subseteq edges
          BY <2>2
        <4>2. PICK k \in 1..m : \E q : IsWalk(q, edges, from, to, k)
          BY <1>2, <1>3, <3>2, <4>1, ReachedByWalk
        <4>3. k \in Nat /\ 0 < k /\ k < n
          BY <2>2
        <4>4. QED
          BY <2>3, <4>2, <4>3
      <3>3. QED
        BY <3>1, <3>2
    <2>9. BuildOK(r, edges, edits)
      <3>1. /\ r.chain # <<>> /\ Len(r.chain) - 1 = n /\ Len(r.chain) = n + 1
            /\ Len(r.chain) - 2 = n - 1 /\ Len(r.path) = 0
        BY <2>2, <2>4, <2>6
      <3>2. At(r, 1).entity = from /\ At(r, Len(r.chain)).entity = to
        <4>1. 1 \in 1..(n+1) /\ n + 1 \in 1..(n+1)
          BY <2>2
        <4>2. QED
          BY <2>3, <2>4, <2>7, <3>1, <4>1
      <3>3. ASSUME NEW i \in 1..n
            PROVE  /\ c[i].entity = p[i] /\ c[i+1].entity = p[i+1]
                   /\ c[i+1].relationship = <<p[i], p[i+1]>> /\ <<p[i], p[i+1]>> \in edges
        <4>1. i \in 1..(n+1) /\ i + 1 \in 1..(n+1)
          BY <2>2
        <4>2. QED
          BY <2>3, <2>4, <4>1
      <3>4. \A i \in 1..(Len(r.chain) - 1) :
               /\ <<At(r, i).entity, At(r, i+1).entity>> \in edges
               /\ r.chain[i+1].relationship = <<r.chain[i].entity, r.chain[i+1].entity>>
        <4>1. ASSUME NEW i \in 1..n
              PROVE  /\ <<At(r, i).entity, At(r, i+1).entity>> \in edges
                     /\ r.chain[i+1].relationship = <<r.chain[i].entity, r.chain[i+1].entity>>
          <5>1. At(r, i) = c[i] /\ At(r, i+1) = c[i+1] /\ r.chain = c
            BY <2>6, <2>7
          <5>2. QED
            BY <3>3, <5>1
        <4>2. QED
          BY <3>1, <4>1
      <3>5. r.chain[1].relationship = None
        BY <2>4, <2>6
      <3>6. \A i \in DOMAIN r.path : FALSE
        BY <2>6
      <3>7. /\ r.pc = "build" /\ Len(r.path) <= Len(r.chain) /\ Len(r.path) # Len(r.chain)
            /\ Len(r.chain) - 1 <= r.limit
        BY <2>2, <2>6, <3>1
      <3>8. edits = 0 => \A m \in 0..(Len(r.chain) - 2) : r.to \notin ReachIn(r.began, r.from, m)
        BY <2>6, <2>8, <3>1
      <3>9. r.from = from /\ r.to = to /\ r.from # r.to
        BY <1>2, <2>6
      <3> HIDE DEF from, to
      <3>10. QED
        BY <2>7, <3>1, <3>2, <3>4, <3>5, <3>6, <3>7, <3>8, <3>9 DEF BuildOK
    <2>10. Asked(r) /\ HistoryOK(r, edges, edits)
      BY <1>1, <1>2, <2>6, WalkGoesOn DEF PathStages, ContextStages
    <2>11. WalkOK(r, entities, edges, edits)
      BY <1>2, <2>6, <2>9, <2>10 DEF WalkOK, SearchOK, QueryOK, FailOK, TodoStands, ContextOK
    <2>12. QED
      BY <2>5, <2>11 DEF Walk, TraversalInv
  <1>6. ASSUME found = {}, Walk(NotFound(w))
        PROVE  TraversalInv'
    <2> DEFINE r == NotFound(w)
    <2>1. /\ Typed(r) /\ r.pc = "not_found" /\ r.from = from /\ r.to = to
          /\ r.limit = w.limit /\ r.backend = w.backend /\ r.began = w.began /\ r.lost = w.lost
      BY <1>2 DEF Typed, IdleWalk, Stages, NotFound
    <2>2. Walk(r)
      BY <1>6
    <2> HIDE DEF r
    <2>3. ASSUME ~w.lost
          PROVE  to \notin ReachIn(w.began, from, w.limit)
      <3>1. w.began \subseteq edges
        BY <1>1, <1>2, <2>3 DEF HistoryOK
      <3>2. ASSUME to \in ReachIn(w.began, from, w.limit)
            PROVE  FALSE
        <4>1. \E k \in 1..w.limit : \E q : IsWalk(q, edges, from, to, k)
          BY <1>2, <1>3, <3>1, <3>2, ReachedByWalk
        <4>2. QED
          BY <1>4, <1>6, <4>1
      <3>3. QED
        BY <3>2
    <2>4. FailOK(r, entities)
      BY <1>3, <2>1, <2>3 DEF FailOK
    <2>5. Asked(r) /\ HistoryOK(r, edges, edits)
      BY <1>1, <1>2, <2>1, WalkGoesOn DEF PathStages, ContextStages
    <2>6. WalkOK(r, entities, edges, edits)
      BY <1>2, <2>1, <2>4, <2>5 DEF WalkOK, SearchOK, QueryOK, BuildOK, TodoStands, ContextOK
    <2>7. QED
      BY <2>2, <2>6 DEF Walk, TraversalInv
  <1>7. QED
    BY <1>1, <1>5, <1>6

-----------------------------------------------------------------------------
(* The context *)

\* A step of GetEntityContext that leaves the question and the history alone.
LEMMA ContextGoesOn ==
    ASSUME TraversalInv, walk.pc \in ContextStages, NEW r, Walk(r), Typed(r), r.pc \in ContextStages,
           r.from = walk.from, r.to = walk.to, r.limit = walk.limit, r.backend = walk.backend,
           r.began = walk.began, r.lost = walk.lost,
           TodoStands(r, edges), edits = 0 => ContextOK(r, edges)
    PROVE  TraversalInv'
  <1>1. Asked(r) /\ HistoryOK(r, edges, edits)
    BY WalkGoesOn DEF TraversalInv, WalkOK, PathStages, ContextStages
  <1>2. WalkOK(r, entities, edges, edits)
    BY <1>1 DEF TraversalInv, WalkOK, SearchOK, QueryOK, BuildOK, FailOK, ContextStages
  <1>3. QED
    BY <1>2 DEF Walk, TraversalInv

\* What a context still has to look up goes missing only by a delete.
LEMMA ContextFails ==
    ASSUME TraversalInv, walk.pc \in ContextStages, walk.lost, Walk(NotFound(walk))
    PROVE  TraversalInv'
  <1> DEFINE w == walk
             r == NotFound(w)
  <1>1. Typed(w) /\ Asked(w) /\ HistoryOK(w, edges, edits) /\ StoreOK(entities, edges, edits)
    BY DEF TraversalInv, WalkOK
  <1>2. /\ Typed(r) /\ r.pc = "not_found" /\ r.from = w.from /\ r.to = w.to
        /\ r.limit = w.limit /\ r.backend = w.backend /\ r.began = w.began /\ r.lost = w.lost
    BY <1>1 DEF Typed, IdleWalk, Stages, NotFound
  <1>3. Walk(r)
    OBVIOUS
  <1> HIDE DEF r
  <1>4. Asked(r) /\ HistoryOK(r, edges, edits)
    BY <1>1, <1>2, WalkGoesOn DEF PathStages, ContextStages
  <1>5. WalkOK(r, entities, edges, edits)
    BY <1>1, <1>2, <1>4 DEF WalkOK, SearchOK, QueryOK, BuildOK, FailOK, TodoStands, ContextOK
  <1>6. QED
    BY <1>3, <1>5 DEF Walk, TraversalInv

\* Answering a relationship that has not been answered, with one of its ends.
LEMMA AnswersOneMore ==
    ASSUME NEW w, AnsweredOnce(w), NEW edge, edge \notin Relationships(w), NEW x \in {edge[1], edge[2]},
           NEW r, r.resolved = w.resolved \cup {[relationship |-> edge, related_entity |-> x]}
    PROVE  /\ AnsweredOnce(r)
           /\ Relationships(r) = Relationships(w) \cup {edge}
           /\ Relateds(r) = Relateds(w) \cup {x}
  <1> DEFINE row == [relationship |-> edge, related_entity |-> x]
  <1>1. row.relationship = edge /\ row.related_entity = x
    OBVIOUS
  <1>2. r.resolved = w.resolved \cup {row}
    OBVIOUS
  <1> HIDE DEF row
  <1>3. Relationships(r) = Relationships(w) \cup {edge}
    BY <1>1, <1>2 DEF Relationships
  <1>4. Relateds(r) = Relateds(w) \cup {x}
    BY <1>1, <1>2 DEF Relateds
  <1>5. \A r1 \in w.resolved : r1.relationship # edge
    BY DEF Relationships
  <1>6. AnsweredOnce(r)
    <2>1. ASSUME NEW r1 \in r.resolved, NEW r2 \in r.resolved, r1.relationship = r2.relationship
          PROVE  r1 = r2
      BY <1>1, <1>2, <1>5, <2>1 DEF AnsweredOnce
    <2>2. ASSUME NEW r1 \in r.resolved
          PROVE  r1.related_entity \in {r1.relationship[1], r1.relationship[2]}
      BY <1>1, <1>2 DEF AnsweredOnce
    <2>3. QED
      BY <2>1, <2>2 DEF AnsweredOnce
  <1>7. QED
    BY <1>3, <1>4, <1>6

\* Before the first answer.
LEMMA NothingAnswered ==
    ASSUME NEW w, w.resolved = {}
    PROVE  AnsweredOnce(w) /\ Relationships(w) = {} /\ Relateds(w) = {}
  BY DEF AnsweredOnce, Relationships, Relateds

\* Seen from one end of a relationship, Remote is the other.
LEMMA RemoteIsEnd ==
    ASSUME NEW edge \in Edge, NEW x \in {edge[1], edge[2]}
    PROVE  /\ Remote(edge, x) \in {edge[1], edge[2]}
           /\ {edge[1], edge[2]} = {x, Remote(edge, x)}
           /\ edge \in {<<x, Remote(edge, x)>>, <<Remote(edge, x), x>>}
           /\ Remote(edge, x) \in Entity
  BY DEF Remote, Edge

\* GetEntityContext begins: the root is looked up, then the first frontier or
\* the cypher query.
LEMMA StartContextPreserves ==
    ASSUME TraversalInv, StartContext
    PROVE  TraversalInv'
  <1>1. PICK backend \in Backends, root \in Entity, depth \in ContextDepth :
          Walk(IF root \notin entities THEN NotFound(NewWalk(backend, root, depth))
               ELSE IF backend = "sql"
               THEN [NewWalk(backend, root, depth) EXCEPT !.pc = "hop", !.frontier = <<root>>,
                                                          !.visited = {root}]
               ELSE [NewWalk(backend, root, depth) EXCEPT !.pc = IF depth = 0 THEN "context"
                                                                 ELSE "match"])
    BY Zenon DEF StartContext
  <1> DEFINE w == NewWalk(backend, root, depth)
  <1>2. depth \in Nat /\ None \notin Entity /\ w = NewWalk(backend, root, depth)
    BY TraversalAssumption
  <1> HIDE DEF w
  <1>3. Fresh(w, backend, root, depth, edges)
    BY <1>2, NewWalkIsFresh
  <1>4. UNCHANGED <<entities, edges, edits>> /\ StoreOK(entities, edges, edits)
    BY <1>1 DEF Walk, TraversalInv, WalkOK
  <1>5. CASE root \notin entities
    <2> DEFINE r == NotFound(w)
    <2>1. walk' = r
      BY <1>1, <1>2, <1>5 DEF Walk
    <2>2. /\ Typed(r) /\ r.pc = "not_found" /\ r.from = root /\ r.began = edges /\ r.lost = FALSE
      BY <1>3 DEF Fresh, Typed, IdleWalk, Stages, NotFound
    <2> HIDE DEF r
    <2>3. WalkOK(r, entities, edges, edits)
      BY <1>4, <1>5, <2>2 DEF WalkOK, Asked, PathStages, ContextStages, HistoryOK, SearchOK,
         QueryOK, BuildOK, FailOK, TodoStands, ContextOK
    <2>4. QED
      BY <1>4, <2>1, <2>3 DEF TraversalInv
  <1>6. BallIn(edges, root, 0) = {root}
    BY BallSteps
  <1>7. CASE root \in entities /\ backend = "sql"
    <2> DEFINE r == [w EXCEPT !.pc = "hop", !.frontier = <<root>>, !.visited = {root}]
    <2>1. walk' = r
      BY <1>1, <1>2, <1>7 DEF Walk
    <2>2. <<root>> \in Seq(Entity) /\ Queued(<<root>>) = {root}
      BY DEF Queued
    <2>3. /\ Typed(r) /\ r.pc = "hop" /\ r.from = root /\ r.to = None /\ r.began = edges
          /\ r.lost = FALSE /\ r.backend = "sql" /\ r.frontier = <<root>> /\ r.visited = {root}
          /\ r.resolved = {} /\ r.todo = {} /\ r.expanded = {} /\ r.hop = 0 /\ r.next = <<>>
          /\ r.limit = depth
      BY <1>3, <1>7, <2>2 DEF Fresh, Typed, IdleWalk, Stages
    <2> HIDE DEF r
    <2>4. Expanding(r, edges) = {root}
      BY <1>6, <2>3 DEF Expanding
    <2>5. AnsweredOnce(r) /\ Relationships(r) = {} /\ Relateds(r) = {}
      BY <2>3, NothingAnswered
    <2>6. HopOK(r, edges)
      BY <1>2, <1>6, <2>2, <2>3, <2>4, <2>5 DEF HopOK
    <2>7. WalkOK(r, entities, edges, edits)
      BY <1>4, <2>3, <2>6 DEF WalkOK, Asked, PathStages, ContextStages, HistoryOK, SearchOK,
         QueryOK, BuildOK, FailOK, TodoStands, ContextOK
    <2>8. QED
      BY <1>4, <2>1, <2>7 DEF TraversalInv
  <1>8. CASE root \in entities /\ backend # "sql"
    <2> DEFINE r == [w EXCEPT !.pc = IF depth = 0 THEN "context" ELSE "match"]
    <2>1. walk' = r
      BY <1>1, <1>2, <1>8 DEF Walk
    <2>2. /\ Typed(r) /\ r.pc = (IF depth = 0 THEN "context" ELSE "match") /\ r.from = root
          /\ r.to = None /\ r.began = edges /\ r.lost = FALSE /\ r.backend = "age"
          /\ r.resolved = {} /\ r.todo = {} /\ r.limit = depth
      BY <1>3, <1>8 DEF Fresh, Typed, IdleWalk, Stages
    <2> HIDE DEF r
    <2>3. AnsweredOnce(r) /\ Relationships(r) = {} /\ Relateds(r) = {}
      BY <2>2, NothingAnswered
    <2>4. depth = 0 => AnswerOK(r, edges)
      BY <1>6, <2>2, <2>3 DEF AnswerOK
    <2>5. ContextOK(r, edges)
      BY <2>2, <2>4 DEF ContextOK
    <2>6. WalkOK(r, entities, edges, edits)
      BY <1>4, <2>2, <2>5 DEF WalkOK, Asked, PathStages, ContextStages, HistoryOK, SearchOK,
         QueryOK, BuildOK, FailOK, TodoStands
    <2>7. QED
      BY <1>4, <2>1, <2>6 DEF TraversalInv
  <1>9. QED
    BY <1>5, <1>7, <1>8

\* The loop over hops goes on, or has reached the depth asked for.
LEMMA NextHopPreserves ==
    ASSUME TraversalInv, NextHop
    PROVE  TraversalInv'
  <1> DEFINE w == walk
             pc == IF w.hop < w.limit THEN "frontier" ELSE "context"
             r == [w EXCEPT !.pc = pc, !.hop = w.hop + 1]
  <1>1. w.pc = "hop" /\ Walk(r)
    BY DEF NextHop
  <1>2. Typed(w) /\ (edits = 0 => HopOK(w, edges))
    BY <1>1 DEF TraversalInv, WalkOK, ContextOK
  <1>3. w.hop \in Nat /\ w.limit \in Nat
    BY <1>2 DEF Typed
  <1>4. /\ Typed(r) /\ r.pc = pc /\ r.hop = w.hop + 1 /\ r.from = w.from /\ r.to = w.to
        /\ r.limit = w.limit /\ r.backend = w.backend /\ r.began = w.began /\ r.lost = w.lost
        /\ r.todo = w.todo /\ r.expanded = w.expanded /\ r.resolved = w.resolved
        /\ r.visited = w.visited /\ r.frontier = w.frontier /\ r.next = w.next
    BY <1>2, <1>3 DEF Typed, IdleWalk, Stages
  <1> HIDE DEF r
  <1>5. pc \in {"frontier", "context"}
    OBVIOUS
  <1>6. ASSUME edits = 0
        PROVE  ContextOK(r, edges)
    <2> DEFINE ball == BallIn(edges, w.from, w.hop)
    <2>1. /\ w.backend = "sql"
          /\ w.hop <= w.limit
          /\ w.todo = {}
          /\ w.next = <<>>
          /\ Relationships(w) = w.expanded \ w.todo
          /\ AnsweredOnce(w)
          /\ w.visited = {w.from} \cup Relateds(w)
          /\ w.visited = ball
          /\ w.expanded = IF w.hop = 0 THEN {} ELSE Around(edges, BallIn(edges, w.from, w.hop - 1))
          /\ Queued(w.frontier) \subseteq ball
          /\ w.expanded \subseteq Around(edges, ball)
          /\ \A x \in w.resolved : \A e \in {x.relationship[1], x.relationship[2]} :
                e = x.related_entity \/ e \in ball
          /\ \A x \in ball : x \in Queued(w.frontier) \/ IncidentIn(edges, x) \subseteq w.expanded
      BY <1>1, <1>2, <1>6 DEF HopOK, Expanding
    <2>2. AnsweredOnce(r) /\ Relationships(r) = Relationships(w) /\ Relateds(r) = Relateds(w)
      BY <1>4, <2>1 DEF AnsweredOnce, Relationships, Relateds
    <2>3. CASE w.hop < w.limit
      <3>1. r.pc = "frontier" /\ r.hop - 1 = w.hop /\ r.hop # 0 /\ r.hop <= r.limit
        BY <1>3, <1>4, <2>3
      <3>2. Expanding(r, edges) = ball
        BY <1>4, <3>1 DEF Expanding
      <3>3. ball \subseteq BallIn(edges, r.from, r.hop)
        <4>1. w.from \in Entity
          BY <1>1 DEF TraversalInv, WalkOK, Asked
        <4>2. BallIn(edges, w.from, w.hop + 1) = Widen(edges, ball)
          BY <1>3, <4>1, BallSteps
        <4>3. QED
          BY <1>4, <4>2 DEF Widen
      <3>4. Queued(w.next) = {}
        BY <2>1 DEF Queued
      <3> HIDE DEF ball
      <3>5. HopOK(r, edges)
        BY <1>4, <2>1, <2>2, <3>1, <3>2, <3>3, <3>4 DEF HopOK
      <3>6. QED
        BY <3>1, <3>5 DEF ContextOK
    <2>4. CASE ~(w.hop < w.limit)
      <3>1. r.pc = "context" /\ w.hop = w.limit
        BY <1>3, <1>4, <2>1, <2>4
      <3>2. AnswerOK(r, edges)
        BY <1>4, <2>1, <2>2, <3>1 DEF AnswerOK
      <3>3. QED
        BY <3>1, <3>2 DEF ContextOK
    <2>5. QED
      BY <2>3, <2>4
  <1>7. TodoStands(r, edges)
    BY <1>4, <1>5 DEF TodoStands
  <1>8. QED
    BY <1>1, <1>4, <1>5, <1>6, <1>7, ContextGoesOn DEF ContextStages

\* The head of the frontier is expanded.
LEMMA ExpandContextHead ==
    ASSUME TraversalInv, walk.pc = "frontier", walk.frontier # <<>>,
           Walk([walk EXCEPT !.pc = "resolve", !.current = Head(walk.frontier),
                 !.frontier = Tail(@), !.todo = Incident(Head(walk.frontier)) \ walk.expanded,
                 !.expanded = @ \cup Incident(Head(walk.frontier))])
    PROVE  TraversalInv'
  <1> DEFINE w == walk
             head == Head(w.frontier)
             tail == Tail(w.frontier)
             I == Incident(head)
             r == [w EXCEPT !.pc = "resolve", !.current = head, !.frontier = tail,
                            !.todo = I \ w.expanded, !.expanded = w.expanded \cup I]
  <1>1. w.pc = "frontier" /\ Walk(r)
    OBVIOUS
  <1>2. Typed(w) /\ (edits = 0 => HopOK(w, edges)) /\ StoreOK(entities, edges, edits)
    BY <1>1 DEF TraversalInv, WalkOK, ContextOK
  <1>3. w.frontier \in Seq(Entity) /\ w.frontier # <<>>
    BY <1>2 DEF Typed
  <1>4. head \in Entity /\ tail \in Seq(Entity) /\ Queued(w.frontier) = {head} \cup Queued(tail)
    <2> DEFINE q == w.frontier
    <2>1. q \in Seq(Entity) /\ q # <<>>
      BY <1>3
    <2> HIDE DEF q
    <2>2. Len(q) \in Nat /\ 1 <= Len(q) /\ Head(q) = q[1] /\ DOMAIN q = 1..Len(q)
      BY <2>1
    <2>3. Tail(q) \in Seq(Entity) /\ DOMAIN Tail(q) = 1..(Len(q) - 1)
      BY <2>1
    <2>4. \A i \in DOMAIN Tail(q) : Tail(q)[i] = q[i+1] /\ i + 1 \in DOMAIN q
      BY <2>1, <2>2, <2>3
    <2>5. \A i \in DOMAIN q : i # 1 => i - 1 \in DOMAIN Tail(q) /\ Tail(q)[i-1] = q[i]
      BY <2>1, <2>2, <2>3
    <2>6. Queued(q) = {Head(q)} \cup Queued(Tail(q))
      <3>1. 1 \in DOMAIN q
        BY <2>2
      <3>2. ASSUME NEW x \in Queued(q)
            PROVE  x \in {Head(q)} \cup Queued(Tail(q))
        BY <2>2, <2>5 DEF Queued
      <3>3. ASSUME NEW x \in {Head(q)} \cup Queued(Tail(q))
            PROVE  x \in Queued(q)
        BY <2>2, <2>4, <3>1 DEF Queued
      <3>4. QED
        BY <3>2, <3>3
    <2>7. QED
      BY <2>1, <2>2, <2>3, <2>6 DEF q
  <1>5. I = IncidentIn(edges, head) /\ I \subseteq edges /\ edges \subseteq Edge
        /\ \A edge \in I : head \in {edge[1], edge[2]}
    BY <1>2 DEF Incident, IncidentIn, StoreOK, Edge
  <1> HIDE DEF head, tail, I
  <1>6. /\ Typed(r) /\ r.pc = "resolve" /\ r.hop = w.hop /\ r.from = w.from /\ r.to = w.to
        /\ r.limit = w.limit /\ r.backend = w.backend /\ r.began = w.began /\ r.lost = w.lost
        /\ r.todo = I \ w.expanded /\ r.expanded = w.expanded \cup I /\ r.resolved = w.resolved
        /\ r.visited = w.visited /\ r.frontier = tail /\ r.next = w.next /\ r.current = head
    BY <1>2, <1>4, <1>5 DEF Typed, IdleWalk, Stages
  <1> HIDE DEF r
  <1>7. ASSUME edits = 0
        PROVE  HopOK(r, edges)
    <2> DEFINE B == Expanding(w, edges)
    <2>1. Expanding(r, edges) = B
      BY <1>1, <1>6 DEF Expanding
    <2>2. AnsweredOnce(w) <=> AnsweredOnce(r)
      BY <1>6 DEF AnsweredOnce
    <2>3. Relationships(r) = Relationships(w) /\ Relateds(r) = Relateds(w)
      BY <1>6 DEF Relationships, Relateds
    <2>4. /\ w.todo = {}
          /\ Relationships(w) = w.expanded \ w.todo
          /\ Queued(w.frontier) \subseteq B
          /\ w.expanded \subseteq Around(edges, B)
          /\ \A x \in B : x \in Queued(w.frontier) \/ IncidentIn(edges, x) \subseteq w.expanded
      BY <1>1, <1>2, <1>7 DEF HopOK
    <2> HIDE DEF B
    <2>5. head \in B /\ I \subseteq Around(edges, B)
      BY <1>4, <1>5, <2>4 DEF Around
    <2>6. Relationships(r) = r.expanded \ r.todo
      BY <1>6, <2>3, <2>4
    <2>7. \A x \in B : x \in Queued(r.frontier) \/ IncidentIn(edges, x) \subseteq r.expanded
      BY <1>4, <1>5, <1>6, <2>4
    <2>8. Queued(r.frontier) \subseteq B /\ r.expanded \subseteq Around(edges, B)
      BY <1>4, <1>6, <2>4, <2>5
    <2>9. r.current \in B /\ \A edge \in r.todo : r.current \in {edge[1], edge[2]}
      BY <1>5, <1>6, <2>5
    <2>10. r.todo \subseteq r.expanded
      BY <1>6
    <2>11. /\ w.backend = "sql" /\ w.hop <= w.limit /\ AnsweredOnce(w)
           /\ w.visited = {w.from} \cup Relateds(w)
           /\ \A x \in w.resolved : \A e \in {x.relationship[1], x.relationship[2]} :
                 e = x.related_entity \/ e \in B
           /\ w.hop # 0
           /\ Queued(w.next) = w.visited \ B
           /\ w.visited \subseteq BallIn(edges, w.from, w.hop)
           /\ B \subseteq w.visited
      BY <1>1, <1>2, <1>7 DEF HopOK, B
    <2>12. QED
      BY <1>6, <2>1, <2>2, <2>3, <2>6, <2>7, <2>8, <2>9, <2>10, <2>11 DEF HopOK
  <1>8. edits = 0 => ContextOK(r, edges)
    BY <1>6, <1>7 DEF ContextOK
  <1>9. TodoStands(r, edges)
    BY <1>5, <1>6 DEF TodoStands
  <1>10. QED
    BY <1>1, <1>6, <1>8, <1>9, ContextGoesOn DEF ContextStages

\* The frontier is expanded: all that is one relationship farther is visited.
LEMMA FrontierIsDone ==
    ASSUME TraversalInv, walk.pc = "frontier", walk.frontier = <<>>,
           Walk([walk EXCEPT !.pc = "hop", !.frontier = walk.next, !.next = <<>>])
    PROVE  TraversalInv'
  <1> DEFINE w == walk
             r == [w EXCEPT !.pc = "hop", !.frontier = w.next, !.next = <<>>]
  <1>1. w.pc = "frontier" /\ Walk(r) /\ w.frontier = <<>>
    OBVIOUS
  <1>2. /\ Typed(w) /\ (edits = 0 => HopOK(w, edges)) /\ StoreOK(entities, edges, edits) /\ Asked(w)
    BY <1>1 DEF TraversalInv, WalkOK, ContextOK
  <1>3. /\ Typed(r) /\ r.pc = "hop" /\ r.hop = w.hop /\ r.from = w.from /\ r.to = w.to
        /\ r.limit = w.limit /\ r.backend = w.backend /\ r.began = w.began /\ r.lost = w.lost
        /\ r.todo = w.todo /\ r.expanded = w.expanded /\ r.resolved = w.resolved
        /\ r.visited = w.visited /\ r.frontier = w.next /\ r.next = <<>>
    BY <1>2 DEF Typed, IdleWalk, Stages
  <1> HIDE DEF r
  <1>4. ASSUME edits = 0
        PROVE  HopOK(r, edges)
    <2> DEFINE n == w.hop - 1
               A == BallIn(edges, w.from, n)
               B == BallIn(edges, w.from, w.hop)
    <2>1. /\ w.backend = "sql" /\ w.hop <= w.limit /\ w.hop # 0
          /\ w.todo = {}
          /\ Relationships(w) = w.expanded \ w.todo
          /\ AnsweredOnce(w)
          /\ w.visited = {w.from} \cup Relateds(w)
          /\ w.expanded \subseteq Around(edges, A)
          /\ \A x \in w.resolved : \A e \in {x.relationship[1], x.relationship[2]} :
                e = x.related_entity \/ e \in A
          /\ \A x \in A : x \in Queued(w.frontier) \/ IncidentIn(edges, x) \subseteq w.expanded
          /\ Queued(w.next) = w.visited \ A
          /\ w.visited \subseteq B
          /\ A \subseteq w.visited
      BY <1>1, <1>2, <1>4 DEF HopOK, Expanding
    <2>2. n \in Nat /\ n + 1 = w.hop /\ w.from \in Entity
      <3>1. w.from \in Entity
        BY <1>1, <1>2 DEF Asked
      <3>2. w.hop \in Nat
        BY <1>2 DEF Typed
      <3>3. QED
        BY <2>1, <3>1, <3>2
    <2>3. B = Widen(edges, A) /\ A \subseteq Entity
      <3> HIDE DEF n
      <3>1. BallIn(edges, w.from, n + 1) = Widen(edges, A) /\ A \subseteq Entity
        BY <2>2, BallSteps
      <3>2. QED
        BY <2>2, <3>1
    <2>4. Queued(w.frontier) = {}
      BY <1>1 DEF Queued
    <2>5. AnsweredOnce(r) /\ Relationships(r) = Relationships(w) /\ Relateds(r) = Relateds(w)
      BY <1>3, <2>1 DEF AnsweredOnce, Relationships, Relateds
    <2>6. Expanding(r, edges) = B
      BY <1>3 DEF Expanding
    <2> HIDE DEF A, B
    <2>7. w.expanded = Around(edges, A)
      BY <2>1, <2>4 DEF Around
    <2>8. ASSUME NEW x \in B
          PROVE  x \in w.visited
      <3>1. CASE x \in A
        BY <2>1, <3>1
      <3>2. CASE x \notin A
        <4>1. PICK y \in A : {<<x, y>>, <<y, x>>} \cap edges # {}
          BY <2>3, <2>8, <3>2 DEF Widen
        <4>2. PICK edge \in {<<x, y>>, <<y, x>>} : edge \in edges
          BY <4>1
        <4>3. x \in {edge[1], edge[2]} /\ edge \in IncidentIn(edges, y)
          BY <4>2 DEF IncidentIn
        <4>4. edge \in Relationships(w)
          BY <2>1, <2>4, <4>1, <4>3
        <4>5. PICK row \in w.resolved : row.relationship = edge
          BY <4>4 DEF Relationships
        <4>6. x = row.related_entity
          BY <2>1, <3>2, <4>3, <4>5
        <4>7. QED
          BY <2>1, <4>6 DEF Relateds
      <3>3. QED
        BY <3>1, <3>2
    <2>9. w.visited = B
      BY <2>1, <2>8
    <2>10. Around(edges, A) \subseteq Around(edges, B) /\ A \subseteq B
      BY <2>3 DEF Widen, Around
    <2>11. \A x \in B : x \in Queued(r.frontier) \/ IncidentIn(edges, x) \subseteq r.expanded
      BY <1>3, <2>1, <2>4, <2>9
    <2>12. r.next = <<>> /\ r.todo = {} /\ r.visited = BallIn(edges, r.from, r.hop)
           /\ r.expanded = IF r.hop = 0 THEN {} ELSE Around(edges, BallIn(edges, r.from, r.hop - 1))
      BY <1>3, <2>1, <2>7, <2>9 DEF A, B
    <2>13. /\ Queued(r.frontier) \subseteq B /\ r.expanded \subseteq Around(edges, B)
           /\ \A x \in r.resolved : \A e \in {x.relationship[1], x.relationship[2]} :
                 e = x.related_entity \/ e \in B
      BY <1>3, <2>1, <2>7, <2>9, <2>10
    <2>14. QED
      BY <1>3, <2>1, <2>5, <2>6, <2>11, <2>12, <2>13 DEF HopOK
  <1>5. edits = 0 => ContextOK(r, edges)
    BY <1>3, <1>4 DEF ContextOK
  <1>6. TodoStands(r, edges)
    BY <1>3 DEF TodoStands
  <1>7. QED
    BY <1>1, <1>3, <1>5, <1>6, ContextGoesOn DEF ContextStages

\* One query for the relationships of an entity of the frontier, or the end
\* of the frontier.
LEMMA ExpandContextPreserves ==
    ASSUME TraversalInv, ExpandContext
    PROVE  TraversalInv'
  <1>1. CASE walk.frontier # <<>>
    BY <1>1, ExpandContextHead DEF ExpandContext
  <1>2. CASE walk.frontier = <<>>
    BY <1>2, FrontierIsDone DEF ExpandContext
  <1>3. QED
    BY <1>1, <1>2

\* What is queued after one more.
LEMMA AppendQueues ==
    ASSUME NEW q \in Seq(Entity), NEW x \in Entity
    PROVE  Append(q, x) \in Seq(Entity) /\ Queued(Append(q, x)) = Queued(q) \cup {x}
  <1> DEFINE s == Append(q, x)
  <1>1. /\ s \in Seq(Entity) /\ Len(q) \in Nat /\ DOMAIN q = 1..Len(q) /\ DOMAIN s = 1..(Len(q) + 1)
        /\ s[Len(q) + 1] = x
    OBVIOUS
  <1>2. \A i \in DOMAIN q : i \in DOMAIN s /\ s[i] = q[i]
    OBVIOUS
  <1>3. \A i \in DOMAIN s : i \in DOMAIN q \/ i = Len(q) + 1
    BY <1>1
  <1>4. Len(q) + 1 \in DOMAIN s
    BY <1>1
  <1> HIDE DEF s
  <1>5. QED
    BY <1>1, <1>2, <1>3, <1>4 DEF Queued, s

\* The far end of a relationship is in the store, and answered.
LEMMA RelatedIsAnswered ==
    ASSUME TraversalInv, walk.pc = "resolve", NEW edge \in walk.todo, NEW related,
           related = Remote(edge, walk.current), related \in entities,
           Walk([walk EXCEPT !.todo = @ \ {edge},
                       !.resolved = @ \cup {[relationship |-> edge, related_entity |-> related]},
                       !.visited = @ \cup {related},
                       !.next = IF related \in walk.visited THEN @ ELSE Append(@, related)])
    PROVE  TraversalInv'
  <1> DEFINE w == walk
             row == [relationship |-> edge, related_entity |-> related]
             next == IF related \in w.visited THEN w.next ELSE Append(w.next, related)
             r == [w EXCEPT !.todo = w.todo \ {edge}, !.resolved = w.resolved \cup {row},
                            !.visited = w.visited \cup {related}, !.next = next]
  <1>1. w.pc = "resolve" /\ Walk(r)
    OBVIOUS
  <1>2. /\ Typed(w) /\ (edits = 0 => HopOK(w, edges)) /\ StoreOK(entities, edges, edits)
        /\ TodoStands(w, edges) /\ Asked(w)
    BY <1>1 DEF TraversalInv, WalkOK, ContextOK
  <1>3. edge \in Edge /\ w.next \in Seq(Entity) /\ related \in Entity
    BY <1>2 DEF Typed, StoreOK
  <1>4. row \in Related
    BY <1>3 DEF Related
  <1>5. /\ next \in Seq(Entity)
        /\ Queued(next) = IF related \in w.visited THEN Queued(w.next) ELSE Queued(w.next) \cup {related}
    BY <1>3, AppendQueues
  <1> HIDE DEF row, next
  <1>6. /\ Typed(r) /\ r.pc = "resolve" /\ r.hop = w.hop /\ r.from = w.from /\ r.to = w.to
        /\ r.limit = w.limit /\ r.backend = w.backend /\ r.began = w.began /\ r.lost = w.lost
        /\ r.todo = w.todo \ {edge} /\ r.expanded = w.expanded /\ r.resolved = w.resolved \cup {row}
        /\ r.visited = w.visited \cup {related} /\ r.frontier = w.frontier /\ r.next = next
        /\ r.current = w.current
    BY <1>1, <1>2, <1>3, <1>4, <1>5 DEF Typed, IdleWalk, Stages
  <1> HIDE DEF r
  <1>7. ASSUME edits = 0
        PROVE  HopOK(r, edges)
    <2> DEFINE n == w.hop - 1
               A == BallIn(edges, w.from, n)
               B == BallIn(edges, w.from, w.hop)
    <2>1. /\ w.backend = "sql" /\ w.hop <= w.limit /\ w.hop # 0
          /\ w.todo \subseteq w.expanded
          /\ Relationships(w) = w.expanded \ w.todo
          /\ AnsweredOnce(w)
          /\ w.visited = {w.from} \cup Relateds(w)
          /\ w.expanded \subseteq Around(edges, A)
          /\ \A x \in w.resolved : \A e \in {x.relationship[1], x.relationship[2]} :
                e = x.related_entity \/ e \in A
          /\ \A x \in A : x \in Queued(w.frontier) \/ IncidentIn(edges, x) \subseteq w.expanded
          /\ Queued(w.frontier) \subseteq A
          /\ Queued(w.next) = w.visited \ A
          /\ w.visited \subseteq B
          /\ A \subseteq w.visited
          /\ w.current \in A
          /\ \A e \in w.todo : w.current \in {e[1], e[2]}
      BY <1>1, <1>2, <1>7 DEF HopOK, Expanding
    <2>2. n \in Nat /\ n + 1 = w.hop /\ w.from \in Entity
      <3>1. w.from \in Entity
        BY <1>1, <1>2 DEF Asked
      <3>2. w.hop \in Nat
        BY <1>2 DEF Typed
      <3>3. QED
        BY <2>1, <3>1, <3>2
    <2>3. B = Widen(edges, A) /\ A \subseteq Entity
      <3> HIDE DEF n
      <3>1. BallIn(edges, w.from, n + 1) = Widen(edges, A) /\ A \subseteq Entity
        BY <2>2, BallSteps
      <3>2. QED
        BY <2>2, <3>1
    <2>4. Expanding(r, edges) = A
      BY <1>6 DEF Expanding
    <2> HIDE DEF A, B
    <2>5. /\ related \in {edge[1], edge[2]} /\ {edge[1], edge[2]} = {w.current, related}
          /\ edge \in {<<w.current, related>>, <<related, w.current>>}
      BY <1>3, <2>1, RemoteIsEnd
    <2>6. edge \in edges
      BY <2>1 DEF Around, IncidentIn
    <2>7. related \in B
      BY <1>3, <2>1, <2>3, <2>5, <2>6 DEF Widen
    <2>8. edge \notin Relationships(w) /\ edge \in w.expanded
      BY <2>1
    <2>9. /\ AnsweredOnce(r) /\ Relationships(r) = Relationships(w) \cup {edge}
          /\ Relateds(r) = Relateds(w) \cup {related}
      BY <1>6, <2>1, <2>5, <2>8, AnswersOneMore DEF row
    <2>10. Relationships(r) = r.expanded \ r.todo /\ r.todo \subseteq r.expanded
      BY <1>6, <2>1, <2>8, <2>9
    <2>11. r.visited = {r.from} \cup Relateds(r)
      BY <1>6, <2>1, <2>9
    <2>12. \A x \in r.resolved : \A e \in {x.relationship[1], x.relationship[2]} :
              e = x.related_entity \/ e \in A
      <3>1. row.relationship = edge /\ row.related_entity = related
        BY DEF row
      <3>2. \A e \in {row.relationship[1], row.relationship[2]} : e = row.related_entity \/ e \in A
        BY <2>1, <2>5, <3>1
      <3>3. QED
        BY <1>6, <2>1, <3>2
    <2>13. Queued(r.next) = r.visited \ A
      BY <1>5, <1>6, <2>1
    <2>14. r.visited \subseteq BallIn(edges, r.from, r.hop) /\ A \subseteq r.visited
      BY <1>6, <2>1, <2>7 DEF B
    <2>15. QED
      BY <1>6, <2>1, <2>4, <2>9, <2>10, <2>11, <2>12, <2>13, <2>14 DEF HopOK
  <1>8. edits = 0 => ContextOK(r, edges)
    BY <1>6, <1>7 DEF ContextOK
  <1>9. TodoStands(r, edges)
    BY <1>1, <1>2, <1>6 DEF TodoStands
  <1>10. QED
    BY <1>1, <1>6, <1>8, <1>9, ContextGoesOn DEF ContextStages

\* One iteration over the relationships of an expanded entity: GetEntity of
\* the far end finds it, or a delete has taken it.
LEMMA ResolveRelatedPreserves ==
    ASSUME TraversalInv, ResolveRelated
    PROVE  TraversalInv'
  <1> DEFINE w == walk
  <1>1. /\ w.pc = "resolve"
        /\ \/ w.todo = {} /\ Walk([w EXCEPT !.pc = "frontier"])
           \/ \E edge \in w.todo :
                \/ /\ Remote(edge, w.current) \in entities
                   /\ Walk([w EXCEPT !.todo = @ \ {edge},
                         !.resolved = @ \cup {[relationship |-> edge,
                                               related_entity |-> Remote(edge, w.current)]},
                         !.visited = @ \cup {Remote(edge, w.current)},
                         !.next = IF Remote(edge, w.current) \in w.visited THEN @
                                  ELSE Append(@, Remote(edge, w.current))])
                \/ Remote(edge, w.current) \notin entities /\ Walk(NotFound(w))
    BY Zenon DEF ResolveRelated
  <1>2. /\ Typed(w) /\ (edits = 0 => HopOK(w, edges)) /\ StoreOK(entities, edges, edits)
        /\ TodoStands(w, edges)
    BY <1>1 DEF TraversalInv, WalkOK, ContextOK
  <1>3. ASSUME w.todo = {}, Walk([w EXCEPT !.pc = "frontier"])
        PROVE  TraversalInv'
    <2> DEFINE r == [w EXCEPT !.pc = "frontier"]
    <2>1. Walk(r)
      BY <1>3
    <2>2. /\ Typed(r) /\ r.pc = "frontier" /\ r.hop = w.hop /\ r.from = w.from /\ r.to = w.to
          /\ r.limit = w.limit /\ r.backend = w.backend /\ r.began = w.began /\ r.lost = w.lost
          /\ r.todo = w.todo /\ r.expanded = w.expanded /\ r.resolved = w.resolved
          /\ r.visited = w.visited /\ r.frontier = w.frontier /\ r.next = w.next
      BY <1>2 DEF Typed, IdleWalk, Stages
    <2> HIDE DEF r
    <2>3. ASSUME HopOK(w, edges)
          PROVE  HopOK(r, edges)
      <3>1. Expanding(r, edges) = Expanding(w, edges)
        BY <1>1, <2>2 DEF Expanding
      <3>2. /\ AnsweredOnce(r) <=> AnsweredOnce(w)
            /\ Relationships(r) = Relationships(w) /\ Relateds(r) = Relateds(w)
        BY <2>2 DEF AnsweredOnce, Relationships, Relateds
      <3>3. QED
        BY <1>1, <1>3, <2>2, <2>3, <3>1, <3>2 DEF HopOK
    <2>4. edits = 0 => ContextOK(r, edges)
      BY <1>2, <2>2, <2>3 DEF ContextOK
    <2>5. TodoStands(r, edges)
      BY <2>2 DEF TodoStands
    <2>6. QED
      BY <1>1, <2>1, <2>2, <2>4, <2>5, ContextGoesOn DEF ContextStages
  <1>4. ASSUME NEW edge \in w.todo, Remote(edge, w.current) \in entities,
               Walk([w EXCEPT !.todo = @ \ {edge},
                         !.resolved = @ \cup {[relationship |-> edge,
                                               related_entity |-> Remote(edge, w.current)]},
                         !.visited = @ \cup {Remote(edge, w.current)},
                         !.next = IF Remote(edge, w.current) \in w.visited THEN @
                                  ELSE Append(@, Remote(edge, w.current))])
        PROVE  TraversalInv'
    BY <1>1, <1>4, RelatedIsAnswered
  <1>5. ASSUME NEW edge \in w.todo, Remote(edge, w.current) \notin entities, Walk(NotFound(w))
        PROVE  TraversalInv'
    <2>1. w.lost
      <3>1. ASSUME ~w.lost PROVE FALSE
        <4>1. edge \in edges /\ w.lost \in BOOLEAN
          BY <1>1, <1>2, <3>1 DEF TodoStands, Typed
        <4>2. edge[1] \in entities /\ edge[2] \in entities
          BY <1>2, <4>1 DEF StoreOK
        <4>3. QED
          BY <1>5, <4>2 DEF Remote
      <3>2. QED
        BY <3>1
    <2>2. QED
      BY <1>1, <1>5, <2>1, ContextFails DEF ContextStages
  <1>6. QED
    BY <1>1, <1>3, <1>4, <1>5

-----------------------------------------------------------------------------
(* The cypher query for a context *)

Pattern(A) == A \cup UNION {{e[1], e[2]} : e \in UNION {Incident(x) : x \in A}}

\* The pattern of up to n relationships widens like the ball.
LEMMA PatternWidens ==
    ASSUME edges \subseteq Edge, NEW A \in SUBSET Entity
    PROVE  Pattern(A) = Widen(edges, A)
  <1>1. ASSUME NEW x \in Pattern(A), x \notin A
        PROVE  x \in Widen(edges, A)
    <2>1. PICK edge \in UNION {Incident(y) : y \in A} : x \in {edge[1], edge[2]}
      BY <1>1 DEF Pattern
    <2>2. PICK y \in A : edge \in Incident(y)
      BY <2>1
    <2>3. edge \in edges /\ y \in {edge[1], edge[2]} /\ edge = <<edge[1], edge[2]>> /\ x \in Entity
      BY <2>1, <2>2 DEF Incident, Edge
    <2>4. x # y
      BY <1>1
    <2>5. edge \in {<<x, y>>, <<y, x>>}
      BY <2>1, <2>3, <2>4
    <2>6. QED
      BY <2>3, <2>5 DEF Widen
  <1>2. ASSUME NEW x \in Widen(edges, A)
        PROVE  x \in Pattern(A)
    <2>1. CASE x \in A
      BY <2>1 DEF Pattern
    <2>2. CASE x \notin A
      <3>1. PICK y \in A : {<<x, y>>, <<y, x>>} \cap edges # {}
        BY <1>2, <2>2 DEF Widen
      <3>2. PICK edge \in {<<x, y>>, <<y, x>>} : edge \in edges
        BY <3>1
      <3>3. x \in {edge[1], edge[2]} /\ edge \in Incident(y)
        BY <3>2 DEF Incident
      <3>4. QED
        BY <3>1, <3>3 DEF Pattern
    <2>3. QED
      BY <2>1, <2>2
  <1>3. A \subseteq Pattern(A) /\ A \subseteq Widen(edges, A)
    BY DEF Widen, Pattern
  <1>4. QED
    BY <1>1, <1>2, <1>3

\* What the pattern of up to n relationships reaches is the ball.
LEMMA PatternIsBall ==
    ASSUME edges \subseteq Edge, NEW e \in Entity, NEW ball,
           ball = [n \in Nat |-> IF n = 0 THEN {e} ELSE Pattern(ball[n-1])]
    PROVE  \A n \in Nat : ball[n] = BallIn(edges, e, n)
  <1> DEFINE S == {n \in Nat : ball[n] = BallIn(edges, e, n)}
  <1>2. 0 \in S
    <2>1. ball[0] = {e}
      OBVIOUS
    <2>2. QED
      BY <2>1, BallSteps
  <1>3. ASSUME NEW n \in Nat, n \in S
        PROVE  n + 1 \in S
    <2> DEFINE m == n + 1
    <2>1. m \in Nat /\ m # 0 /\ m - 1 = n
      OBVIOUS
    <2> HIDE DEF m
    <2>2. ball[m] = IF m = 0 THEN {e} ELSE Pattern(ball[m-1])
      BY <2>1, Zenon
    <2>3. ball[m] = Pattern(ball[n])
      BY <2>1, <2>2
    <2>4. ball[n] = BallIn(edges, e, n) /\ BallIn(edges, e, n) \in SUBSET Entity
      BY <1>3, BallSteps
    <2>5. ball[m] = Widen(edges, BallIn(edges, e, n))
      BY <2>3, <2>4, PatternWidens
    <2>6. BallIn(edges, e, n + 1) = Widen(edges, BallIn(edges, e, n))
      BY BallSteps
    <2>7. QED
      BY <2>1, <2>5, <2>6 DEF m
  <1> HIDE DEF S
  <1>4. Nat \subseteq S
    BY <1>2, <1>3, SetInduction
  <1>5. QED
    BY <1>4 DEF S

\* The cypher query for a context answers the relationships of the ball.
LEMMA MatchContextPreserves ==
    ASSUME TraversalInv, MatchContext
    PROVE  TraversalInv'
  <1> DEFINE w == walk
             Def(b) == [n \in Nat |-> IF n = 0 THEN {w.from} ELSE Pattern(b[n-1])]
             ball == CHOOSE b : b = Def(b)
             todo == UNION {Incident(x) : x \in ball[w.limit - 1]}
             r == [w EXCEPT !.pc = "lookup", !.todo = todo]
  <1>1. w.pc = "match" /\ Walk(r)
    BY DEF MatchContext, Pattern
  <1>2. /\ Typed(w) /\ Asked(w) /\ StoreOK(entities, edges, edits)
        /\ (edits = 0 => w.backend = "age" /\ w.limit # 0 /\ w.resolved = {})
    BY <1>1 DEF TraversalInv, WalkOK, ContextOK
  <1>3. w.from \in Entity /\ edges \subseteq Edge /\ w.limit \in Nat
    BY <1>1, <1>2 DEF Asked, StoreOK, Edge, Typed
  <1>4. ball = Def(ball)
    <2> DEFINE T == SUBSET Entity
               c == {w.from}
               g == [A \in T |-> Pattern(A)]
    <2>1. g \in [T -> T] /\ c \in T
      <3>1. \A A \in SUBSET Entity : Pattern(A) \in SUBSET Entity
        BY <1>3, PatternWidens DEF Widen
      <3>2. QED
        BY <1>3, <3>1
    <2> HIDE DEF T, c, g
    <2>2. PICK f : AllIterates(f, T, c, g)
      BY <2>1, Iterate
    <2>3. /\ f = [n \in Nat |-> f[n]] /\ f[0] = {w.from}
          /\ \A k \in Nat : f[k] \in SUBSET Entity /\ f[k+1] = Pattern(f[k])
      BY <2>2 DEF AllIterates, T, c, g
    <2>4. ASSUME NEW n \in Nat
          PROVE  f[n] = IF n = 0 THEN {w.from} ELSE Pattern(f[n-1])
      <3>1. CASE n = 0
        BY <2>3, <3>1
      <3>2. CASE n # 0
        <4>1. n - 1 \in Nat /\ (n - 1) + 1 = n
          BY <3>2
        <4>2. QED
          BY <2>3, <3>2, <4>1
      <3>3. QED
        BY <3>1, <3>2
    <2>5. f = Def(f)
      <3> DEFINE df == Def(f)
      <3>1. df = [n \in Nat |-> df[n]] /\ \A n \in Nat : df[n] = f[n]
        BY <2>4
      <3> HIDE DEF df
      <3>2. df = f
        BY <2>3, <3>1
      <3>3. QED
        BY <3>2 DEF df
    <2>6. QED
      BY <2>5, Zenon
  <1>5. \A n \in Nat : ball[n] = BallIn(edges, w.from, n)
    <2> HIDE DEF ball
    <2>1. ball = [n \in Nat |-> IF n = 0 THEN {w.from} ELSE Pattern(ball[n-1])]
      BY <1>4
    <2> DEFINE from == w.from
    <2>2. from \in Entity
      BY <1>3
    <2> HIDE DEF from
    <2>3. ball = [n \in Nat |-> IF n = 0 THEN {from} ELSE Pattern(ball[n-1])]
      BY <2>1 DEF from
    <2>4. QED
      BY <1>3, <2>2, <2>3, PatternIsBall DEF from
  <1> HIDE DEF ball
  <1>6. todo \subseteq edges
    BY DEF Incident
  <1>7. w.limit # 0 => todo = Around(edges, BallIn(edges, w.from, w.limit - 1))
    <2>1. ASSUME w.limit # 0
          PROVE  ball[w.limit - 1] = BallIn(edges, w.from, w.limit - 1)
      <3>1. w.limit - 1 \in Nat
        BY <1>3, <2>1
      <3>2. QED
        BY <1>5, <3>1
    <2>2. QED
      BY <2>1 DEF Around, Incident, IncidentIn
  <1> HIDE DEF todo
  <1>8. /\ Typed(r) /\ r.pc = "lookup" /\ r.from = w.from /\ r.to = w.to /\ r.limit = w.limit
        /\ r.backend = w.backend /\ r.began = w.began /\ r.lost = w.lost /\ r.todo = todo
        /\ r.resolved = w.resolved
    BY <1>2, <1>3, <1>6 DEF Typed, IdleWalk, Stages
  <1> HIDE DEF r
  <1>9. ASSUME edits = 0
        PROVE  ContextOK(r, edges)
    <2>1. AnsweredOnce(r) /\ Relationships(r) = {}
      BY <1>2, <1>8, <1>9, NothingAnswered
    <2>2. \A x \in r.resolved : FALSE
      BY <1>2, <1>8, <1>9
    <2>3. LookUpOK(r, edges)
      BY <1>2, <1>7, <1>8, <1>9, <2>1, <2>2 DEF LookUpOK
    <2>4. QED
      BY <1>8, <2>3 DEF ContextOK
  <1>10. TodoStands(r, edges)
    BY <1>6, <1>8 DEF TodoStands
  <1>11. QED
    BY <1>1, <1>8, <1>9, <1>10, ContextGoesOn DEF ContextStages

\* One row of that answer is looked up in the tables; at depth 1 the far ends
\* are all the neighbours.
LEMMA LookUpRelatedPreserves ==
    ASSUME TraversalInv, LookUpRelated
    PROVE  TraversalInv'
  <1> DEFINE w == walk
  <1>1. /\ w.pc = "lookup"
        /\ \/ w.todo = {} /\ Walk([w EXCEPT !.pc = "context"])
           \/ \E edge \in w.todo :
                \/ /\ edge \in edges
                   /\ Walk([w EXCEPT !.todo = @ \ {edge},
                         !.resolved = @ \cup {[relationship |-> edge,
                                               related_entity |-> Remote(edge, w.from)]}])
                \/ edge \notin edges /\ Walk(NotFound(w))
    BY Zenon DEF LookUpRelated
  <1>2. /\ Typed(w) /\ Asked(w) /\ StoreOK(entities, edges, edits) /\ TodoStands(w, edges)
        /\ (edits = 0 => LookUpOK(w, edges))
    BY <1>1 DEF TraversalInv, WalkOK, ContextOK
  <1>3. w.from \in Entity /\ w.limit \in Nat /\ edges \subseteq Edge
    BY <1>1, <1>2 DEF Asked, Typed, StoreOK, Edge
  <1>4. ASSUME w.todo = {}, Walk([w EXCEPT !.pc = "context"])
        PROVE  TraversalInv'
    <2> DEFINE r == [w EXCEPT !.pc = "context"]
               from == w.from
    <2>1. Walk(r)
      BY <1>4
    <2>2. /\ Typed(r) /\ r.pc = "context" /\ r.from = w.from /\ r.to = w.to
          /\ r.limit = w.limit /\ r.backend = w.backend /\ r.began = w.began /\ r.lost = w.lost
          /\ r.todo = w.todo /\ r.resolved = w.resolved
      BY <1>2 DEF Typed, IdleWalk, Stages
    <2> HIDE DEF r
    <2>3. ASSUME edits = 0
          PROVE  AnswerOK(r, edges)
      <3>1. /\ w.backend = "age" /\ w.limit # 0 /\ AnsweredOnce(w)
            /\ Relationships(w) = Around(edges, BallIn(edges, from, w.limit - 1))
            /\ \A x \in w.resolved : x.related_entity = Remote(x.relationship, from)
        BY <1>2, <1>4, <2>3 DEF LookUpOK
      <3>2. /\ AnsweredOnce(r) /\ Relationships(r) = Relationships(w) /\ Relateds(r) = Relateds(w)
        BY <2>2, <3>1 DEF AnsweredOnce, Relationships, Relateds
      <3>3. ASSUME w.limit <= 1
            PROVE  {from} \cup Relateds(w) = BallIn(edges, from, w.limit)
        <4>1. w.limit = 1 /\ w.limit - 1 = 0
          BY <1>3, <3>1, <3>3
        <4>2. BallIn(edges, from, 0) = {from} /\ BallIn(edges, from, 1) = Widen(edges, {from})
          <5>1. 0 \in Nat /\ 0 + 1 = 1
            OBVIOUS
          <5>2. BallIn(edges, from, 0) = {from} /\ BallIn(edges, from, 0 + 1) = Widen(edges, BallIn(edges, from, 0))
            BY <1>3, <5>1, BallSteps
          <5>3. QED
            BY <5>1, <5>2
        <4>3. Relationships(w) = IncidentIn(edges, from)
          BY <3>1, <4>1, <4>2 DEF Around
        <4> HIDE DEF from
        <4>4. ASSUME NEW x \in Relateds(w)
              PROVE  x \in Widen(edges, {from})
          <5>1. PICK row \in w.resolved : x = row.related_entity
            BY <4>4 DEF Relateds
          <5> DEFINE edge == row.relationship
          <5>2. edge \in IncidentIn(edges, from) /\ x = Remote(edge, from)
            BY <3>1, <4>3, <5>1 DEF Relationships
          <5>3. edge \in edges /\ edge \in Edge /\ from \in {edge[1], edge[2]}
            BY <1>3, <5>2 DEF IncidentIn
          <5> HIDE DEF edge
          <5>4. edge \in {<<from, x>>, <<x, from>>} /\ x \in Entity
            BY <5>2, <5>3, RemoteIsEnd
          <5>5. QED
            BY <5>3, <5>4 DEF Widen
        <4>5. ASSUME NEW x \in Widen(edges, {from}), x # from
              PROVE  x \in Relateds(w)
          <5>1. {<<x, from>>, <<from, x>>} \cap edges # {}
            BY <4>5 DEF Widen
          <5>2. PICK edge \in {<<x, from>>, <<from, x>>} : edge \in edges
            BY <5>1
          <5>3. edge \in IncidentIn(edges, from) /\ Remote(edge, from) = x
            BY <4>5, <5>2 DEF IncidentIn, Remote
          <5>4. PICK row \in w.resolved : row.relationship = edge
            BY <4>3, <5>3 DEF Relationships
          <5>5. row.related_entity = x
            BY <3>1, <5>3, <5>4
          <5>6. QED
            BY <5>5 DEF Relateds
        <4>6. from \in Widen(edges, {from})
          BY DEF Widen
        <4>7. QED
          BY <4>1, <4>2, <4>4, <4>5, <4>6
      <3>4. QED
        BY <2>2, <3>1, <3>2, <3>3 DEF AnswerOK
    <2>4. edits = 0 => ContextOK(r, edges)
      BY <2>2, <2>3 DEF ContextOK
    <2>5. TodoStands(r, edges)
      BY <2>2 DEF TodoStands
    <2>6. QED
      BY <1>1, <2>1, <2>2, <2>4, <2>5, ContextGoesOn DEF ContextStages
  <1>5. ASSUME NEW edge \in w.todo, edge \in edges,
               Walk([w EXCEPT !.todo = @ \ {edge},
                         !.resolved = @ \cup {[relationship |-> edge,
                                               related_entity |-> Remote(edge, w.from)]}])
        PROVE  TraversalInv'
    <2> DEFINE related == Remote(edge, w.from)
               row == [relationship |-> edge, related_entity |-> related]
               r == [w EXCEPT !.todo = w.todo \ {edge}, !.resolved = w.resolved \cup {row}]
    <2>1. Walk(r)
      BY <1>5
    <2>2. edge \in Edge /\ related \in {edge[1], edge[2]} /\ related \in Entity
      BY <1>3, <1>5 DEF Remote, Edge
    <2>3. row \in Related
      BY <2>2 DEF Related
    <2> HIDE DEF row
    <2>4. /\ Typed(r) /\ r.pc = "lookup" /\ r.from = w.from /\ r.to = w.to
          /\ r.limit = w.limit /\ r.backend = w.backend /\ r.began = w.began /\ r.lost = w.lost
          /\ r.todo = w.todo \ {edge} /\ r.resolved = w.resolved \cup {row}
      BY <1>1, <1>2, <2>3 DEF Typed, IdleWalk, Stages
    <2> HIDE DEF r
    <2>5. ASSUME edits = 0
          PROVE  LookUpOK(r, edges)
      <3>1. /\ w.backend = "age" /\ w.limit # 0 /\ AnsweredOnce(w)
            /\ w.todo \cap Relationships(w) = {}
            /\ w.todo \cup Relationships(w) = Around(edges, BallIn(edges, w.from, w.limit - 1))
            /\ \A x \in w.resolved : x.related_entity = Remote(x.relationship, w.from)
        BY <1>2, <2>5 DEF LookUpOK
      <3>2. edge \notin Relationships(w)
        BY <1>5, <3>1
      <3>3. AnsweredOnce(r) /\ Relationships(r) = Relationships(w) \cup {edge}
        BY <2>2, <2>4, <3>1, <3>2, AnswersOneMore DEF row
      <3>4. row.relationship = edge /\ row.related_entity = related
        BY DEF row
      <3>5. \A x \in r.resolved : x.related_entity = Remote(x.relationship, r.from)
        BY <2>4, <3>1, <3>4
      <3>6. /\ r.todo \cap Relationships(r) = {}
            /\ r.todo \cup Relationships(r) = Around(edges, BallIn(edges, r.from, r.limit - 1))
        BY <1>5, <2>4, <3>1, <3>3
      <3>7. QED
        BY <2>4, <3>1, <3>3, <3>5, <3>6 DEF LookUpOK
    <2>6. edits = 0 => ContextOK(r, edges)
      BY <2>4, <2>5 DEF ContextOK
    <2>7. TodoStands(r, edges)
      BY <1>1, <1>2, <2>4 DEF TodoStands
    <2>8. QED
      BY <1>1, <2>1, <2>4, <2>6, <2>7, ContextGoesOn DEF ContextStages
  <1>6. ASSUME NEW edge \in w.todo, edge \notin edges, Walk(NotFound(w))
        PROVE  TraversalInv'
    <2>1. w.lost
      BY <1>1, <1>2, <1>6 DEF TodoStands, Typed
    <2>2. QED
      BY <1>1, <1>6, <2>1, ContextFails DEF ContextStages
  <1>7. QED
    BY <1>1, <1>4, <1>5, <1>6

-----------------------------------------------------------------------------
(* Other requests *)

\* After a delete only what a walk does not read from the store counts.
LEMMA LostWalkStands ==
    ASSUME NEW w, NEW ents, NEW graph, NEW n, WalkOK(w, ents, graph, n),
           w.pc \notin {"idle", "path", "context", "not_found"},
           NEW ents2, NEW graph2, NEW n2, n2 # 0, StoreOK(ents2, graph2, n2)
    PROVE  WalkOK([w EXCEPT !.lost = TRUE], ents2, graph2, n2)
  <1> DEFINE r == [w EXCEPT !.lost = TRUE]
  <1>1. Typed(w) /\ Asked(w) /\ SearchOK(w, graph) /\ QueryOK(w) /\ BuildOK(w, graph, n)
    BY DEF WalkOK
  <1>2. /\ Typed(r) /\ r.pc = w.pc /\ r.from = w.from /\ r.to = w.to /\ r.limit = w.limit
        /\ r.backend = w.backend /\ r.queue = w.queue /\ r.visited = w.visited
        /\ r.depths = w.depths /\ r.prev = w.prev /\ r.chain = w.chain /\ r.path = w.path
        /\ r.lost = TRUE
    BY <1>1 DEF Typed, IdleWalk
  <1> HIDE DEF r
  <1>3. Asked(r) /\ QueryOK(r)
    BY <1>1, <1>2 DEF Asked, QueryOK
  <1>4. HistoryOK(r, graph2, n2)
    BY <1>2 DEF HistoryOK
  <1>5. SearchOK(r, graph2)
    <2>1. TreeOK(r) <=> TreeOK(w)
      BY <1>2 DEF TreeOK
    <2>2. InQueue(r) = InQueue(w)
      BY <1>2 DEF InQueue
    <2>3. QueueOK(r) <=> QueueOK(w)
      BY <1>2, <2>2 DEF QueueOK
    <2>4. QED
      BY <1>1, <1>2, <2>1, <2>3 DEF SearchOK
  <1>6. BuildOK(r, graph2, n2)
    <2>1. (Backwards(r) <=> Backwards(w)) /\ \A i : At(r, i) = At(w, i)
      BY <1>2 DEF Backwards, At
    <2>2. ASSUME w.pc \in {"build", "path"}
          PROVE  /\ w.chain # <<>>
                 /\ w.from = w.to => Len(w.chain) = 1
                 /\ Len(w.chain) - 1 <= w.limit
                 /\ At(w, 1).entity = w.from
                 /\ At(w, Len(w.chain)).entity = w.to
                 /\ ~Backwards(w) =>
                       /\ w.chain[1].relationship = None
                       /\ \A i \in 1..(Len(w.chain) - 1) :
                             w.chain[i+1].relationship = <<w.chain[i].entity, w.chain[i+1].entity>>
                 /\ Len(w.path) <= Len(w.chain)
                 /\ w.pc = "path" <=> Len(w.path) = Len(w.chain)
                 /\ \A i \in DOMAIN w.path : /\ w.path[i].entity = At(w, i).entity
                                             /\ ~Backwards(w) => w.path[i] = w.chain[i]
      BY <1>1, <2>2 DEF BuildOK
    <2>3. ASSUME w.pc \in {"build", "path"}
          PROVE  \A i \in DOMAIN r.path : /\ r.path[i].entity = At(r, i).entity
                                          /\ ~Backwards(r) => r.path[i] = r.chain[i]
      BY <1>2, <2>1, <2>2, <2>3
    <2>4. ASSUME w.pc \in {"build", "path"}
          PROVE  At(r, 1).entity = r.from /\ At(r, Len(r.chain)).entity = r.to
      BY <1>2, <2>1, <2>2, <2>4
    <2>5. ASSUME w.pc \in {"build", "path"}, ~Backwards(r)
          PROVE  /\ r.chain[1].relationship = None
                 /\ \A i \in 1..(Len(r.chain) - 1) :
                       r.chain[i+1].relationship = <<r.chain[i].entity, r.chain[i+1].entity>>
      <3>1. /\ w.chain[1].relationship = None
            /\ \A i \in 1..(Len(w.chain) - 1) :
                  w.chain[i+1].relationship = <<w.chain[i].entity, w.chain[i+1].entity>>
        BY <2>1, <2>2, <2>5
      <3>2. r.chain = w.chain
        BY <1>2
      <3>3. QED
        BY <3>1, <3>2
    <2>6. ASSUME w.pc \in {"build", "path"}
          PROVE  /\ r.chain # <<>>
                 /\ r.from = r.to => Len(r.chain) = 1
                 /\ Len(r.chain) - 1 <= r.limit
                 /\ Len(r.path) <= Len(r.chain)
                 /\ r.pc = "path" <=> Len(r.path) = Len(r.chain)
      BY <1>2, <2>2, <2>6
    <2>7. QED
      BY <1>2, <2>3, <2>4, <2>5, <2>6 DEF BuildOK
  <1>7. FailOK(r, ents2) /\ TodoStands(r, graph2)
    BY <1>2 DEF FailOK, TodoStands
  <1>8. QED
    BY <1>2, <1>3, <1>4, <1>5, <1>6, <1>7 DEF WalkOK, r

\* A relationship created meanwhile takes nothing away.
LEMMA WiderGraphStands ==
    ASSUME NEW w, NEW ents, NEW graph, NEW n, WalkOK(w, ents, graph, n),
           NEW graph2, graph \subseteq graph2, NEW n2, n2 # 0, StoreOK(ents, graph2, n2)
    PROVE  WalkOK(w, ents, graph2, n2)
  <1>1. HistoryOK(w, graph2, n2)
    BY DEF WalkOK, HistoryOK
  <1>2. SearchOK(w, graph2)
    BY DEF WalkOK, SearchOK, SearchStands
  <1>3. BuildOK(w, graph2, n2)
    BY DEF WalkOK, BuildOK
  <1>4. TodoStands(w, graph2)
    BY DEF WalkOK, TodoStands
  <1>5. QED
    BY <1>1, <1>2, <1>3, <1>4 DEF WalkOK

\* Edits before a walk begins do not concern it.
LEMMA IdleWalkStands ==
    ASSUME NEW ents, NEW graph, NEW n, StoreOK(ents, graph, n)
    PROVE  WalkOK(IdleWalk, ents, graph, n)
  <1>1. IdleWalk.pc = "idle" /\ IdleWalk.lost = FALSE
    BY DEF IdleWalk
  <1>2. QED
    BY <1>1, IdleTyped DEF WalkOK, Asked, PathStages, ContextStages, HistoryOK, SearchOK,
       QueryOK, BuildOK, FailOK, TodoStands, ContextOK

\* A delete while a walk runs is what the walk may blame.
LEMMA DeletePreserves ==
    ASSUME TraversalInv, MayEdit, Note, StoreOK(entities', edges', edits')
    PROVE  TraversalInv'
  <1>1. /\ Typed(walk) /\ HistoryOK(walk, edges, edits) /\ edits' # 0
        /\ walk.pc \notin {"path", "context", "not_found"}
    BY DEF TraversalInv, WalkOK, StoreOK, MayEdit
  <1>2. CASE walk.pc = "idle"
    <2>1. walk = IdleWalk
      BY <1>1, <1>2 DEF HistoryOK
    <2>2. walk' = IdleWalk
      BY <1>2, <2>1 DEF Note, IdleWalk
    <2>3. QED
      BY <2>2, IdleWalkStands DEF TraversalInv
  <1>3. CASE walk.pc # "idle"
    <2>1. walk' = [walk EXCEPT !.lost = TRUE]
      BY <1>3 DEF Note
    <2>2. QED
      BY <1>1, <1>3, <2>1, LostWalkStands DEF TraversalInv
  <1>4. QED
    BY <1>2, <1>3

\* The requests of others: DeleteEntity takes its relationships with it,
\* CreateRelationship needs both ends.
LEMMA EditsPreserve ==
    ASSUME TraversalInv
    PROVE  /\ \A e \in Entity : DeleteEntity(e) => TraversalInv'
           /\ \A edge \in Edge : CreateRelationship(edge) \/ DeleteRelationship(edge) => TraversalInv'
  <1>1. StoreOK(entities, edges, edits) /\ edits \in Nat
    BY DEF TraversalInv, WalkOK, StoreOK
  <1>2. MayEdit => edits' = edits + 1 /\ edits' \in 0..MaxEdits /\ edits' # 0
    BY <1>1, TraversalAssumption DEF MayEdit
  <1>3. ASSUME NEW e \in Entity, DeleteEntity(e)
        PROVE  TraversalInv'
    <2>1. MayEdit /\ Note /\ entities' = entities \ {e}
          /\ edges' = {edge \in edges : e \notin {edge[1], edge[2]}}
      BY <1>3 DEF DeleteEntity
    <2>2. StoreOK(entities', edges', edits')
      BY <1>1, <1>2, <2>1 DEF StoreOK
    <2>3. QED
      BY <2>1, <2>2, DeletePreserves
  <1>4. ASSUME NEW edge \in Edge, CreateRelationship(edge)
        PROVE  TraversalInv'
    <2>1. /\ MayEdit /\ {edge[1], edge[2]} \subseteq entities /\ edges' = edges \cup {edge}
          /\ entities' = entities /\ walk' = walk
      BY <1>4 DEF CreateRelationship
    <2>2. edge = <<edge[1], edge[2]>>
      BY DEF Edge
    <2>3. StoreOK(entities, edges', edits')
      BY <1>1, <1>2, <2>1, <2>2 DEF StoreOK
    <2>4. WalkOK(walk, entities, edges', edits')
      BY <1>2, <2>1, <2>3, WiderGraphStands DEF TraversalInv
    <2>5. QED
      BY <2>1, <2>4 DEF TraversalInv
  <1>5. ASSUME NEW edge \in Edge, DeleteRelationship(edge)
        PROVE  TraversalInv'
    <2>1. MayEdit /\ Note /\ edges' = edges \ {edge} /\ entities' = entities
      BY <1>5 DEF DeleteRelationship
    <2>2. StoreOK(entities', edges', edits')
      BY <1>1, <1>2, <2>1 DEF StoreOK
    <2>3. QED
      BY <2>1, <2>2, DeletePreserves
  <1>6. QED
    BY <1>3, <1>4, <1>5

-----------------------------------------------------------------------------
(* The theorems *)

\* Every step keeps the invariant.
LEMMA TraversalNextPreserves ==
    ASSUME TraversalInv, [TraversalNext]_traversalVars
    PROVE  TraversalInv'
  <1>1. CASE UNCHANGED traversalVars
    BY <1>1 DEF traversalVars, TraversalInv
  <1>2. CASE StartPath \/ SkipDeep \/ ExpandPath \/ NoPath \/ BuildNode \/ QueryPath \/ LookUpNode
    BY <1>2, StartPathPreserves, SkipDeepPreserves, ExpandPathPreserves, NoPathPreserves,
       BuildNodePreserves, QueryPathPreserves, LookUpNodePreserves
  <1>3. CASE MatchContext \/ LookUpRelated \/ StartContext \/ NextHop \/ ExpandContext \/ ResolveRelated
    BY <1>3, MatchContextPreserves, LookUpRelatedPreserves, StartContextPreserves, NextHopPreserves,
       ExpandContextPreserves, ResolveRelatedPreserves
  <1>4. CASE \/ \E e \in Entity : DeleteEntity(e)
             \/ \E edge \in Edge : CreateRelationship(edge) \/ DeleteRelationship(edge)
    BY <1>4, EditsPreserve
  <1>5. QED
    BY <1>1, <1>2, <1>3, <1>4 DEF TraversalNext

\* The state of a traversal, at every query of it: what FindPath's search has
\* visited and what it still has to, what its path and GetEntityContext's answer
\* show, and what other requests may have changed meanwhile.
THEOREM TraversalInvariantHolds == TraversalSpec => []TraversalInv
  <1>1. TraversalInv /\ [TraversalNext]_traversalVars => TraversalInv'
    BY TraversalNextPreserves
  <1>2. TraversalInit => TraversalInv
    BY TraversalInitOK
  <1>3. QED
    BY <1>1, <1>2, PTL DEF TraversalSpec

\* Every part of a walk stays in its set, and no relationship is without its
\* ends.
THEOREM TraversalTypeCorrect == TraversalSpec => []TraversalTypeOK
  <1>1. TraversalInv => TraversalTypeOK
    BY DEF TraversalInv, WalkOK, StoreOK, Typed, Stages, TraversalTypeOK
  <1>2. QED
    BY <1>1, TraversalInvariantHolds, PTL

\* FindPath says there is no path, and GetEntityContext that there is no entity,
\* only when that was so as the walk began or something was deleted while it ran.
THEOREM FailuresHaveCause == TraversalSpec => []FailureHasCause
  <1>1. TraversalInv => FailureHasCause
    BY DEF TraversalInv, WalkOK, FailOK, FailureHasCause
  <1>2. QED
    BY <1>1, TraversalInvariantHolds, PTL

\* The nodes of an answered path.
LEMMA AnsweredPath ==
    ASSUME TraversalInv, walk.pc = "path"
    PROVE  /\ Len(walk.path) = Len(walk.chain) /\ Len(walk.path) \in Nat /\ walk.path # <<>>
           /\ Len(walk.path) - 1 <= walk.limit
           /\ walk.from \in Entity /\ walk.to \in Entity
           /\ \A i \in 1..Len(walk.path) : walk.path[i].entity = At(walk, i).entity
           /\ walk.path[1].entity = walk.from
           /\ walk.path[Len(walk.path)].entity = walk.to
           /\ ~walk.lost => \A i \in 1..(Len(walk.path) - 1) :
                               <<walk.path[i].entity, walk.path[i+1].entity>> \in edges
           /\ walk.backend = "age" => \A i \in 1..(Len(walk.path) - 1) :
                 walk.path[i+1].relationship = <<walk.path[i].entity, walk.path[i+1].entity>>
  <1> DEFINE w == walk
             n == Len(w.chain)
  <1>1. Typed(w) /\ BuildOK(w, edges, edits) /\ Asked(w)
    BY DEF TraversalInv, WalkOK
  <1>2. /\ w.chain # <<>>
        /\ w.from = w.to => n = 1
        /\ n - 1 <= w.limit
        /\ At(w, 1).entity = w.from
        /\ At(w, n).entity = w.to
        /\ ~w.lost => \A i \in 1..(n - 1) : <<At(w, i).entity, At(w, i+1).entity>> \in edges
        /\ ~Backwards(w) =>
              \A i \in 1..(n - 1) :
                 w.chain[i+1].relationship = <<w.chain[i].entity, w.chain[i+1].entity>>
        /\ Len(w.path) = n
        /\ \A i \in DOMAIN w.path : /\ w.path[i].entity = At(w, i).entity
                                    /\ ~Backwards(w) => w.path[i] = w.chain[i]
    BY <1>1 DEF BuildOK
  <1>3. w.path \in Seq(Node) /\ w.chain \in Seq(Node)
    BY <1>1 DEF Typed
  <1>4. n \in Nat /\ 1 <= n /\ DOMAIN w.path = 1..n /\ w.path # <<>>
    BY <1>2, <1>3
  <1>5. w.from \in Entity /\ w.to \in Entity
    BY <1>1 DEF Asked, PathStages
  <1> HIDE DEF n
  <1>6. w.path[1].entity = w.from /\ w.path[n].entity = w.to
    <2>1. 1 \in DOMAIN w.path /\ n \in DOMAIN w.path
      BY <1>4
    <2>2. QED
      BY <1>2, <2>1
  <1>7. ASSUME NEW i \in 1..(n - 1)
        PROVE  i \in DOMAIN w.path /\ i + 1 \in DOMAIN w.path
    BY <1>4
  <1>8. ASSUME ~w.lost, NEW i \in 1..(n - 1)
        PROVE  <<w.path[i].entity, w.path[i+1].entity>> \in edges
    BY <1>2, <1>7, <1>8
  <1>9. ASSUME w.backend = "age", NEW i \in 1..(n - 1)
        PROVE  w.path[i+1].relationship = <<w.path[i].entity, w.path[i+1].entity>>
    <2>1. n # 1
      BY <1>4
    <2>2. ~Backwards(w)
      BY <1>2, <1>9, <2>1 DEF Backwards
    <2>3. QED
      BY <1>2, <1>7, <2>2
  <1>10. \A i \in 1..n : w.path[i].entity = At(w, i).entity
    BY <1>2, <1>4
  <1>11. n - 1 <= w.limit /\ Len(w.path) = n
    BY <1>2
  <1>12. QED
    BY <1>4, <1>5, <1>6, <1>8, <1>9, <1>10, <1>11 DEF n

\* If nothing is deleted while FindPath runs, every hop of its answer is a
\* relationship of the store, however many are created between its queries.
THEOREM AnsweredPathsStand == TraversalSpec => []AnsweredPathStands
  <1>1. ASSUME TraversalInv
        PROVE  AnsweredPathStands
    BY <1>1, AnsweredPath DEF AnsweredPathStands
  <1>2. QED
    BY <1>1, TraversalInvariantHolds, PTL

\* On a store nobody edits FindPath answers a shortest path, and finds one
\* whenever the target is within max_depth relationships.
THEOREM PathsAreShortest == TraversalSpec => []PathIsShortest
  <1>1. ASSUME TraversalInv
        PROVE  PathIsShortest
    <2>1. SUFFICES ASSUME edits = 0 PROVE PathIsShortest
      BY DEF PathIsShortest
    <2>2. /\ walk.pc # "idle" => ~walk.lost /\ walk.began = edges
          /\ entities = Entity /\ (walk.pc # "idle" => walk.from \in Entity)
          /\ FailOK(walk, entities) /\ BuildOK(walk, edges, edits)
      BY <1>1, <2>1 DEF TraversalInv, WalkOK, HistoryOK, StoreOK, Asked
    <2>3. ASSUME walk.pc = "path"
          PROVE  LET length == Len(walk.path) - 1 IN
                   /\ walk.path[1].entity = walk.from
                   /\ walk.path[length + 1].entity = walk.to
                   /\ \A i \in 1..length : <<walk.path[i].entity, walk.path[i+1].entity>> \in edges
                   /\ length <= walk.limit
                   /\ \A n \in 0..(length - 1) : walk.to \notin Reach(walk.from, n)
      <3>1. /\ Len(walk.path) = Len(walk.chain) /\ Len(walk.path) \in Nat
            /\ Len(walk.path) - 1 <= walk.limit
            /\ walk.path[1].entity = walk.from /\ walk.path[Len(walk.path)].entity = walk.to
            /\ \A i \in 1..(Len(walk.path) - 1) :
                  <<walk.path[i].entity, walk.path[i+1].entity>> \in edges
        BY <1>1, <2>2, <2>3, AnsweredPath
      <3>2. \A n \in 0..(Len(walk.chain) - 2) : walk.to \notin ReachIn(edges, walk.from, n)
        BY <2>1, <2>2, <2>3 DEF BuildOK
      <3>3. (Len(walk.path) - 1) + 1 = Len(walk.path) /\ (Len(walk.path) - 1) - 1 = Len(walk.chain) - 2
        BY <3>1
      <3>4. QED
        BY <3>1, <3>2, <3>3 DEF Reach
    <2>4. ASSUME walk.pc = "not_found", walk.to # None
          PROVE  walk.to \notin Reach(walk.from, walk.limit)
      BY <2>2, <2>4 DEF FailOK, Reach
    <2>5. QED
      BY <2>3, <2>4 DEF PathIsShortest
  <1>2. QED
    BY <1>1, TraversalInvariantHolds, PTL

\* Each relationship is answered in one row.
LEMMA AsManyRowsAsRelationships ==
    ASSUME NEW w, w.resolved \subseteq Related, AnsweredOnce(w)
    PROVE  Cardinality(w.resolved) = Cardinality(Relationships(w))
  <1> DEFINE rows == w.resolved
             S == Relationships(w)
             f == [e \in S |-> CHOOSE r \in rows : r.relationship = e]
  <1>1. IsFiniteSet(S)
    <2>1. IsFiniteSet(Edge)
      BY TraversalAssumption, FS_Product DEF Edge
    <2>2. S \subseteq Edge
      BY DEF Relationships, Related
    <2>3. QED
      BY <2>1, <2>2, FS_Subset
  <1>2. S = {r.relationship : r \in rows} /\ \A r1, r2 \in rows : r1.relationship = r2.relationship => r1 = r2
    BY DEF Relationships, AnsweredOnce
  <1> HIDE DEF S, rows
  <1>3. \A e \in S : f[e] \in rows /\ f[e].relationship = e
    BY <1>2
  <1>4. f \in [S -> rows]
    <2>1. f = [e \in S |-> f[e]]
      OBVIOUS
    <2> HIDE DEF f
    <2>2. QED
      BY <1>3, <2>1
  <1>5. \A r \in rows : \E e \in S : f[e] = r
    <2>1. ASSUME NEW r \in rows
          PROVE  r.relationship \in S /\ f[r.relationship] = r
      BY <1>2, <1>3
    <2>2. QED
      BY <2>1
  <1>6. f \in Bijection(S, rows)
    <2> HIDE DEF f
    <2>1. f \in Injection(S, rows)
      BY <1>3, <1>4 DEF Injection, IsInjective
    <2>2. f \in Surjection(S, rows)
      BY <1>4, <1>5 DEF Surjection
    <2>3. QED
      BY <2>1, <2>2 DEF Bijection
  <1>7. ExistsBijection(S, rows)
    BY <1>6 DEF ExistsBijection
  <1>8. QED
    BY <1>1, <1>7, FS_Bijection DEF S, rows

\* On a store nobody edits GetEntityContext answers the relationships within
\* its depth, each once, and on the SQL backends all the entities within it.
THEOREM ContextsAreBalls == TraversalSpec => []ContextIsBall
  <1>1. ASSUME TraversalInv
        PROVE  ContextIsBall
    <2>1. SUFFICES ASSUME edits = 0, walk.pc = "context" PROVE ContextIsBall
      BY DEF ContextIsBall
    <2>2. AnswerOK(walk, edges) /\ walk.resolved \subseteq Related
      BY <1>1, <2>1 DEF TraversalInv, WalkOK, ContextOK, Typed
    <2>3. /\ \A e, n : Ball(e, n) = BallIn(edges, e, n)
          /\ \A A : UNION {Incident(e) : e \in A} = Around(edges, A)
      BY DEF Ball, BallIn, Incident, IncidentIn, Around
    <2> DEFINE inner == IF walk.limit = 0 THEN {} ELSE Ball(walk.from, walk.limit - 1)
    <2>4. {r.relationship : r \in walk.resolved} = UNION {Incident(e) : e \in inner}
      <3>1. Relationships(walk) = Around(edges, inner)
        BY <2>2, <2>3 DEF AnswerOK, Around
      <3>2. QED
        BY <2>3, <3>1 DEF Relationships
    <2>5. Cardinality(walk.resolved) = Cardinality({r.relationship : r \in walk.resolved})
      BY <2>2, AsManyRowsAsRelationships DEF AnswerOK, Relationships
    <2>6. \A r \in walk.resolved : r.related_entity \in {r.relationship[1], r.relationship[2]}
      BY <2>2 DEF AnswerOK, AnsweredOnce
    <2>7. walk.backend = "sql" \/ walk.limit <= 1 =>
             {walk.from} \cup {r.related_entity : r \in walk.resolved} = Ball(walk.from, walk.limit)
      BY <2>2, <2>3 DEF AnswerOK, Relateds
    <2>8. QED
      BY <2>4, <2>5, <2>6, <2>7 DEF ContextIsBall
  <1>2. QED
    BY <1>1, TraversalInvariantHolds, PTL
=============================================================================

------------------------- MODULE ContextCacheProofs -------------------------
(***************************************************************************)
(* OnlyRacesGoStale, for every set of entities, depths, readers and        *)
(* writers: no cached context of an entity whose writes are all answered   *)
(* shows an older row, older memories or older relationships of it, unless *)
(* a fill straddled the last of them, its invalidation was lost, or it was *)
(* a cascade that owes none.                                               *)
(* The invariant adds what the property leaves out: a value about to be    *)
(* stored in the cache agrees with the store about its entity.             *)
(***************************************************************************)
EXTENDS ContextCache, TLAPS

\* The parts of the state the argument reads have their shape.
Shape ==
    /\ rows = [e \in Entity |-> rows[e]]
    /\ cached = [k \in Key |-> cached[k]]
    /\ reader = [r \in Reader |-> reader[r]]
    /\ pending \in [Writer -> SUBSET Entity]
    /\ raced \subseteq Entity
    /\ \A r \in Reader :
          /\ reader[r] = [pc |-> reader[r].pc, key |-> reader[r].key, value |-> reader[r].value]
          /\ reader[r].pc # "idle" => reader[r].key \in Key

\* A value on its way to the cache shows its entity as it is, unless a write has
\* come in between.
FillsAreFresh ==
    \A r \in Reader :
        reader[r].pc = "fill" /\ reader[r].key[1] \notin raced
           => Agrees(reader[r].key, reader[r].value)

CacheInv == Shape /\ FillsAreFresh /\ OnlyRacesGoStale

-----------------------------------------------------------------------------

\* Initially nothing is cached and nobody reads.
LEMMA InitGood == CacheInit => CacheInv
BY DEF CacheInit, CacheInv, Shape, FillsAreFresh, OnlyRacesGoStale,
       Settled, Idle

\* The context the store answers agrees with it about its entity.
LEMMA ContextAgrees ==
    ASSUME NEW k \in Key
    PROVE  Agrees(k, Context(k[1], k[2]))
<1> DEFINE e == k[1]
           d == k[2]
           shown == {edge \in edges : edge \cap Expanded(e, d) # {}}
           shows == {<<edge, {<<n, rows[n].row>> : n \in edge}>> : edge \in shown}
<1>1. Context(e, d) = [own |-> rows[e], relationships |-> shows]
  BY DEF Context
<1>2. d \in 0..3
  BY CacheAssumption DEF Key
<1>3. ASSUME d > 0
      PROVE  OwnEdges(k, Context(e, d)) = EdgesOf(e)
  <2>1. e \in Expanded(e, d)
    BY <1>2, <1>3 DEF Expanded, Around
  <2>2. EdgesOf(e) = {edge \in shown : e \in edge}
    BY <2>1 DEF EdgesOf
  <2> HIDE DEF shown
  <2> DEFINE ends(edge) == {<<n, rows[n].row>> : n \in edge}
             own == {y \in shows : e \in y[1]}
  <2>3. {x[1] : x \in own} = {edge \in shown : e \in edge}
    <3>1. ASSUME NEW x \in own
          PROVE  x[1] \in shown /\ e \in x[1]
      <4>1. PICK edge \in shown : x = <<edge, ends(edge)>>
        OBVIOUS
      <4> QED BY <4>1
    <3>2. ASSUME NEW edge \in shown, e \in edge
          PROVE  \E x \in own : edge = x[1]
      <4>1. <<edge, ends(edge)>> \in own /\ edge = <<edge, ends(edge)>>[1]
        BY <3>2
      <4> QED BY <4>1
    <3> HIDE DEF own
    <3> QED BY <3>1, <3>2
  <2> HIDE DEF shows
  <2>4. QED
    BY <1>1, <2>2, <2>3 DEF OwnEdges
<1> QED
  BY <1>1, <1>3 DEF Agrees, Shows

\* A write owes the invalidation of every entity whose part it changes, or
\* forgets it, so what it makes stale is not settled or counts as raced.  This
\* covers every operation of WriteStore.
LEMMA WritesOweWhatTheyChange ==
    ASSUME CacheInv, CacheTypeOK, NEW w \in Writer, WriteStore(w)
    PROVE  /\ UNCHANGED <<cached, reader>>
           /\ rows' = [e \in Entity |-> rows'[e]]
           /\ pending' \in [Writer -> SUBSET Entity]
           /\ raced \cup {e \in Entity : Changes(e) /\ Filling(e)} \subseteq raced'
           /\ raced' \subseteq Entity
           /\ \A e \in Entity : Settled(e)' => Settled(e) /\ (~Changes(e) \/ e \in raced')
<1> USE DEF CacheInv, Shape
<1> DEFINE Owing(owed, forgotten) ==
        /\ pending[w] = {}
        /\ pending' = [pending EXCEPT ![w] = owed]
        /\ raced' = raced \cup forgotten \cup {e \in Entity : Changes(e) /\ Filling(e)}
        /\ UNCHANGED <<cached, reader>>
<1>1. ASSUME NEW owed \in SUBSET Entity, NEW forgotten \in SUBSET Entity, Owing(owed, forgotten),
             rows' = [e \in Entity |-> rows'[e]],
             \A e \in Entity \ (owed \cup forgotten) : ~Changes(e)
      PROVE  /\ UNCHANGED <<cached, reader>>
             /\ rows' = [e \in Entity |-> rows'[e]]
             /\ pending' \in [Writer -> SUBSET Entity]
             /\ raced \cup {e \in Entity : Changes(e) /\ Filling(e)} \subseteq raced'
             /\ raced' \subseteq Entity
             /\ \A e \in Entity : Settled(e)' => Settled(e) /\ (~Changes(e) \/ e \in raced')
  BY <1>1 DEF Settled
<1>2. ASSUME NEW e \in Entity, WriteMemory(w, e) \/ UpdateEntity(w, e)
      PROVE  /\ Owing({e}, {}) /\ {e} \in SUBSET Entity /\ {} \in SUBSET Entity
             /\ rows' = [x \in Entity |-> rows'[x]]
             /\ \A x \in Entity \ ({e} \cup {}) : ~Changes(x)
  BY <1>2 DEF WriteMemory, UpdateEntity, Owe, Changes, EdgesOf
<1>3. ASSUME NEW e \in Entity, DeleteEntity(w, e)
      PROVE  /\ Owing({e}, Neighbours(e)) /\ {e} \in SUBSET Entity
             /\ Neighbours(e) \in SUBSET Entity
             /\ rows' = [x \in Entity |-> rows'[x]]
             /\ \A x \in Entity \ ({e} \cup Neighbours(e)) : ~Changes(x)
  <2>1. Owing({e}, Neighbours(e)) /\ rows' = [rows EXCEPT ![e] = Absent]
        /\ edges' = {edge \in edges : e \notin edge}
    BY <1>3 DEF DeleteEntity, Owe
  <2>2. Neighbours(e) \in SUBSET Entity
    BY DEF Neighbours
  <2>3. ASSUME NEW x \in Entity, x # e, x \notin Neighbours(e)
        PROVE  ~Changes(x)
    <3>1. \A edge \in edges : x \in edge => e \notin edge
      <4> SUFFICES ASSUME NEW edge \in edges, x \in edge, e \in edge
                   PROVE  FALSE
        OBVIOUS
      <4>1. edge \in Pair
        BY DEF CacheTypeOK
      <4>2. PICK a \in Entity, b \in Entity : edge = {a, b}
        BY <4>1 DEF Pair
      <4>3. edge = {e, x}
        BY <2>3, <4>2
      <4> QED BY <2>3, <4>3 DEF Neighbours
    <3>2. EdgesOf(x)' = EdgesOf(x)
      BY <2>1, <3>1 DEF EdgesOf
    <3>3. rows'[x] = rows[x]
      BY <2>1, <2>3
    <3> QED BY <3>2, <3>3 DEF Changes
  <2> HIDE DEF Owing
  <2> QED BY <2>1, <2>2, <2>3
<1>4. ASSUME NEW pair \in Pair, CreateRelationship(w, pair) \/ DeleteRelationship(w, pair)
      PROVE  /\ Owing(pair, {}) /\ pair \in SUBSET Entity /\ {} \in SUBSET Entity
             /\ rows' = [x \in Entity |-> rows'[x]]
             /\ \A x \in Entity \ (pair \cup {}) : ~Changes(x)
  <2>1. /\ Owing(pair, {}) /\ rows' = rows
        /\ edges' = edges \cup {pair} \/ edges' = edges \ {pair}
    BY <1>4 DEF CreateRelationship, DeleteRelationship, Owe
  <2>2. pair \in SUBSET Entity
    BY DEF Pair
  <2>3. \A x \in Entity \ pair : EdgesOf(x)' = EdgesOf(x)
    BY <2>1 DEF EdgesOf
  <2>4. \A x \in Entity \ pair : ~Changes(x)
    BY <2>1, <2>3 DEF Changes
  <2> QED BY <2>1, <2>2, <2>4
<1>5. ASSUME NEW s \in Entity, NEW r \in Entity, CommitIngest(w, s, r)
      PROVE  /\ Owing({s, r}, {}) /\ {s, r} \in SUBSET Entity /\ {} \in SUBSET Entity
             /\ rows' = [x \in Entity |-> rows'[x]]
             /\ \A x \in Entity \ ({s, r} \cup {}) : ~Changes(x)
  BY <1>5 DEF CommitIngest, Owe, Changes, EdgesOf
<1> HIDE DEF Owing
<1>6. CASE \E e \in Entity : WriteMemory(w, e) \/ UpdateEntity(w, e)
  <2> PICK e \in Entity : WriteMemory(w, e) \/ UpdateEntity(w, e)
    BY <1>6
  <2> QED BY <1>2, <1>1
<1>7. CASE \E e \in Entity : DeleteEntity(w, e)
  <2> PICK e \in Entity : DeleteEntity(w, e)
    BY <1>7
  <2> QED BY <1>3, <1>1
<1>8. CASE \E pair \in Pair : CreateRelationship(w, pair) \/ DeleteRelationship(w, pair)
  <2> PICK pair \in Pair : CreateRelationship(w, pair) \/ DeleteRelationship(w, pair)
    BY <1>8
  <2> QED BY <1>4, <1>1
<1>9. CASE \E s, r \in Entity : CommitIngest(w, s, r)
  <2> PICK s \in Entity, r \in Entity : CommitIngest(w, s, r)
    BY <1>9
  <2> DEFINE owed == {s, r}
  <2>1. /\ Owing(owed, {}) /\ owed \in SUBSET Entity /\ {} \in SUBSET Entity
        /\ rows' = [x \in Entity |-> rows'[x]]
        /\ \A x \in Entity \ (owed \cup {}) : ~Changes(x)
    BY <1>5
  <2> HIDE DEF owed
  <2> QED BY <2>1, <1>1
<1> QED BY <1>6, <1>7, <1>8, <1>9 DEF WriteStore

\* Every step, faults included, keeps the invariant.
LEMMA StepGood ==
    ASSUME CacheInv, CacheTypeOK, [CacheNext]_cacheVars
    PROVE  CacheInv'
<1> USE DEF CacheInv
<1>1. CASE UNCHANGED cacheVars
  BY <1>1 DEF cacheVars, Shape, FillsAreFresh, OnlyRacesGoStale, Settled, Agrees, EdgesOf
<1>2. ASSUME NEW r \in Reader, NEW k \in Key, Hit(r, k) PROVE CacheInv'
  BY <1>2 DEF Hit, cacheVars, Shape, FillsAreFresh, OnlyRacesGoStale, Settled, Agrees, EdgesOf
<1>3. ASSUME NEW r \in Reader, NEW k \in Key, Miss(r, k) PROVE CacheInv'
  BY <1>3 DEF Miss, Shape, FillsAreFresh, OnlyRacesGoStale, Settled, Agrees, EdgesOf
<1>4. ASSUME NEW r \in Reader, Load(r) PROVE CacheInv'
  <2> DEFINE k == reader[r].key
             value == Context(k[1], k[2])
  <2>1. reader[r].pc = "load" => Agrees(k, value)
    BY ContextAgrees DEF Shape
  <2> HIDE DEF value
  <2>2. /\ \/ reader' = [reader EXCEPT ![r] = [pc |-> "fill", key |-> k, value |-> value]]
           \/ reader' = [reader EXCEPT ![r] = Idle]
        /\ reader[r].pc = "load"
        /\ UNCHANGED <<rows, edges, cached, pending, raced>>
    BY <1>4 DEF Load, value
  <2>3. CASE reader' = [reader EXCEPT ![r] = [pc |-> "fill", key |-> k, value |-> value]]
    <3>1. \A x \in Reader \ {r} : reader'[x] = reader[x]
      BY <2>3 DEF Shape
    <3>2. reader'[r] = [pc |-> "fill", key |-> k, value |-> value]
      BY <2>3 DEF Shape
    <3>3. reader' = [x \in Reader |-> reader'[x]]
      BY <2>3 DEF Shape
    <3> HIDE DEF k
    <3>4. k \in Key
      BY <2>2 DEF Shape, k
    <3>5. Shape'
      BY <2>2, <3>1, <3>2, <3>3, <3>4 DEF Shape
    <3>6. FillsAreFresh'
      <4> SUFFICES ASSUME NEW x \in Reader,
                          reader'[x].pc = "fill", reader'[x].key[1] \notin raced'
                   PROVE  Agrees(reader'[x].key, reader'[x].value)
        BY <2>2 DEF FillsAreFresh, Agrees, EdgesOf
      <4>1. CASE x = r
        BY <2>1, <2>2, <3>2, <4>1
      <4>2. CASE x # r
        BY <2>2, <3>1, <4>2 DEF FillsAreFresh
      <4> QED BY <4>1, <4>2
    <3>7. OnlyRacesGoStale'
      BY <2>2 DEF OnlyRacesGoStale, Settled, Agrees, EdgesOf
    <3> QED BY <3>5, <3>6, <3>7
  <2>4. CASE reader' = [reader EXCEPT ![r] = Idle]
    BY <2>2, <2>4 DEF Idle, Shape, FillsAreFresh, OnlyRacesGoStale, Settled, Agrees, EdgesOf
  <2> QED BY <2>2, <2>3, <2>4
<1>5. ASSUME NEW r \in Reader, Fill(r) PROVE CacheInv'
  BY <1>5 DEF Fill, Idle, Shape, FillsAreFresh, OnlyRacesGoStale, Settled, Agrees, EdgesOf
<1>6. ASSUME NEW r \in Reader, FillFails(r) PROVE CacheInv'
  BY <1>6 DEF FillFails, Idle, Shape, FillsAreFresh, OnlyRacesGoStale, Settled, Agrees, EdgesOf
<1>7. ASSUME NEW w \in Writer, WriteStore(w) PROVE CacheInv'
  <2>1. /\ UNCHANGED <<cached, reader>>
        /\ rows' = [e \in Entity |-> rows'[e]]
        /\ pending' \in [Writer -> SUBSET Entity]
        /\ raced \cup {e \in Entity : Changes(e) /\ Filling(e)} \subseteq raced'
        /\ raced' \subseteq Entity
        /\ \A e \in Entity : Settled(e)' => Settled(e) /\ (~Changes(e) \/ e \in raced')
    BY <1>7, WritesOweWhatTheyChange
  <2>2. Shape'
    BY <2>1 DEF Shape
  <2>3. FillsAreFresh'
    <3> SUFFICES ASSUME NEW r \in Reader,
                        reader[r].pc = "fill", reader[r].key[1] \notin raced'
                 PROVE  Agrees(reader[r].key, reader[r].value)'
      BY <2>1 DEF FillsAreFresh
    <3>1. reader[r].key[1] \in Entity /\ Filling(reader[r].key[1])
      BY DEF Shape, Key, Filling
    <3>2. ~Changes(reader[r].key[1]) /\ reader[r].key[1] \notin raced
      BY <2>1, <3>1
    <3> DEFINE k == reader[r].key
               value == reader[r].value
    <3>3. Agrees(k, value)
      BY <3>2 DEF FillsAreFresh
    <3>4. k' = k /\ value' = value
      BY <2>1
    <3> QED BY <2>1, <3>2, <3>3, <3>4 DEF Agrees, Changes
  <2>4. OnlyRacesGoStale'
    <3> SUFFICES ASSUME NEW k \in Key, Settled(k[1])', k[1] \notin raced', cached[k] # Absent
                 PROVE  Agrees(k, cached[k])'
      BY <2>1 DEF OnlyRacesGoStale
    <3>1. ~Changes(k[1]) /\ Settled(k[1]) /\ k[1] \notin raced
      BY <2>1 DEF Key
    <3>2. Agrees(k, cached[k]) /\ cached' = cached
      BY <2>1, <3>1 DEF OnlyRacesGoStale
    <3> QED BY <3>1, <3>2 DEF Agrees, Changes
  <2> QED BY <2>2, <2>3, <2>4
<1>8. ASSUME NEW w \in Writer, NEW e \in Entity, Invalidate(w, e) PROVE CacheInv'
  <2>1. Shape'
    BY <1>8 DEF Invalidate, Shape
  <2>2. FillsAreFresh'
    BY <1>8 DEF Invalidate, Filling, FillsAreFresh, Agrees, EdgesOf
  <2>3. \A x \in Entity \ {e} : (Settled(x)' => Settled(x)) /\ (x \notin raced' => x \notin raced)
    BY <1>8 DEF Invalidate, Settled, Shape
  <2>4. OnlyRacesGoStale'
    BY <1>8, <2>3 DEF Invalidate, OnlyRacesGoStale, Key, Agrees, EdgesOf
  <2> QED BY <2>1, <2>2, <2>4
<1>9. ASSUME NEW k \in Key, Expire(k) PROVE CacheInv'
  BY <1>9 DEF Expire, Shape, FillsAreFresh, OnlyRacesGoStale, Settled, Agrees, EdgesOf
<1>10. ASSUME NEW w \in Writer, NEW e \in Entity, InvalidationLost(w, e) PROVE CacheInv'
  <2>1. Shape' /\ FillsAreFresh'
    BY <1>10 DEF InvalidationLost, Shape, FillsAreFresh, Agrees, EdgesOf
  <2>2. \A x \in Entity \ {e} : Settled(x)' => Settled(x)
    BY <1>10 DEF InvalidationLost, Settled, Shape
  <2>3. OnlyRacesGoStale'
    BY <1>10, <2>2 DEF InvalidationLost, OnlyRacesGoStale, Key, Agrees, EdgesOf
  <2> QED BY <2>1, <2>3
<1>11. CASE ServerStops
  <2>1. Shape' /\ FillsAreFresh'
    BY <1>11 DEF ServerStops, Idle, Shape, FillsAreFresh, Agrees, EdgesOf
  <2>2. \A x \in Entity : x \notin raced' => Settled(x) /\ x \notin raced
    BY <1>11 DEF ServerStops, Settled
  <2>3. OnlyRacesGoStale'
    BY <1>11, <2>2 DEF ServerStops, OnlyRacesGoStale, Key, Agrees, EdgesOf
  <2> QED BY <2>1, <2>3
<1> QED
  BY <1>1, <1>2, <1>3, <1>4, <1>5, <1>6, <1>7, <1>8, <1>9, <1>10, <1>11
  DEF CacheNext, FaultlessNext, ReaderStep

-----------------------------------------------------------------------------

(* Types *)

\* No row is older or newer than the writes there have been.
VersionsCounted ==
    /\ writes \in 0..MaxWrites
    /\ \A e \in Entity : rows[e] \in [row : 0..writes, memories : 0..writes] \cup {Absent}

CacheTyped == CacheTypeOK /\ VersionsCounted

\* A write takes one version more.
LEMMA WriteTyped ==
    ASSUME CacheInv, CacheTyped, NEW w \in Writer, NEW owed, NEW forgotten, Owe(w, owed, forgotten), edges' \subseteq Pair,
           pending' \in [Writer -> SUBSET Entity], raced' \subseteq Entity,
           \A e \in Entity : \/ rows'[e] = rows[e]
                             \/ rows'[e] = Absent
                             \/ rows[e] # Absent /\ rows'[e] = [rows[e] EXCEPT !.row = @ + 1]
                             \/ rows[e] # Absent /\ rows'[e] = [rows[e] EXCEPT !.memories = @ + 1]
    PROVE  CacheTyped'
  <1>1. /\ writes \in Nat /\ MaxWrites \in Nat /\ writes < MaxWrites /\ writes' = writes + 1
        /\ UNCHANGED <<cached, reader>>
    BY CacheAssumption DEF CacheTyped, VersionsCounted, Owe, CacheInv, Shape
  <1>2. ASSUME NEW e \in Entity
        PROVE  rows'[e] \in [row : 0..writes', memories : 0..writes'] \cup {Absent}
    <2>1. CASE rows'[e] = Absent
      BY <2>1
    <2>2. CASE rows'[e] # Absent /\ rows[e] \in [row : 0..writes, memories : 0..writes]
      <3>1. rows[e].row \in 0..writes /\ rows[e].memories \in 0..writes
            /\ rows[e] = [row |-> rows[e].row, memories |-> rows[e].memories]
        BY <2>2
      <3>2. rows'[e] \in {rows[e], [row |-> rows[e].row + 1, memories |-> rows[e].memories],
                          [row |-> rows[e].row, memories |-> rows[e].memories + 1]}
        BY <2>2, <3>1
      <3>3. QED
        BY <1>1, <3>1, <3>2
    <2>3. QED
      BY <2>1, <2>2 DEF CacheTyped, VersionsCounted
  <1>3. VersionsCounted'
    BY <1>1, <1>2 DEF VersionsCounted
  <1>4. CacheTypeOK'
    <2>1. \A e \in Entity : rows'[e] \in [row : 0..MaxWrites, memories : 0..MaxWrites] \cup {Absent}
      BY <1>1, <1>2
    <2>2. QED
      BY <1>1, <2>1 DEF CacheTyped, CacheTypeOK
  <1>5. QED
    BY <1>3, <1>4 DEF CacheTyped

\* Every step keeps every variable in its set and counts the versions.
LEMMA StepTyped ==
    ASSUME CacheInv, CacheTyped, [CacheNext]_cacheVars
    PROVE  CacheTyped'
  <1>1. rows = [e \in Entity |-> rows[e]] /\ pending \in [Writer -> SUBSET Entity]
        /\ edges \subseteq Pair
    BY DEF CacheInv, Shape, CacheTyped, CacheTypeOK
  <1>2. ASSUME NEW w \in Writer, WriteStore(w)
        PROVE  CacheTyped'
    <2>0. pending' \in [Writer -> SUBSET Entity] /\ raced' \subseteq Entity
      BY <1>2, WritesOweWhatTheyChange DEF CacheTyped
    <2>1. ASSUME NEW e \in Entity, WriteMemory(w, e)
          PROVE  CacheTyped'
      BY <1>1, <2>0, <2>1, WriteTyped DEF WriteMemory
    <2>2. ASSUME NEW e \in Entity, UpdateEntity(w, e)
          PROVE  CacheTyped'
      BY <1>1, <2>0, <2>2, WriteTyped DEF UpdateEntity
    <2>3. ASSUME NEW e \in Entity, DeleteEntity(w, e)
          PROVE  CacheTyped'
      BY <1>1, <2>0, <2>3, WriteTyped DEF DeleteEntity
    <2>4. ASSUME NEW pair \in Pair, CreateRelationship(w, pair)
          PROVE  CacheTyped'
      BY <1>1, <2>0, <2>4, WriteTyped DEF CreateRelationship
    <2>5. ASSUME NEW pair \in Pair, DeleteRelationship(w, pair)
          PROVE  CacheTyped'
      BY <1>1, <2>0, <2>5, WriteTyped DEF DeleteRelationship
    <2>6. ASSUME NEW s \in Entity, NEW r \in Entity, CommitIngest(w, s, r)
          PROVE  CacheTyped'
      <3>1. {s, r} \in Pair
        BY DEF Pair
      <3> DEFINE pair == {s, r}
      <3>a. edges' = edges \cup {pair} /\ pair \in Pair
        BY <2>6, <3>1 DEF CommitIngest
      <3>b. rows[s] # Absent /\ rows' = [rows EXCEPT ![s].memories = @ + 1]
        BY <2>6 DEF CommitIngest
      <3> HIDE DEF pair
      <3>2. edges' \subseteq Pair
        BY <1>1, <3>a
      <3>3. \A e \in Entity :
               \/ rows'[e] = rows[e]
               \/ rows[e] # Absent /\ rows'[e] = [rows[e] EXCEPT !.memories = @ + 1]
        <4>1. rows'[s] = [rows[s] EXCEPT !.memories = @ + 1]
          BY <1>1, <3>b, ZenonT(30)
        <4>2. \A e \in Entity : e = s \/ rows'[e] = rows[e]
          BY <1>1, <3>b, ZenonT(30)
        <4>3. QED
          BY <3>b, <4>1, <4>2, Zenon
      <3>4. Owe(w, {s, r}, {})
        BY <2>6 DEF CommitIngest
      <3>5. QED
        BY <2>0, <3>2, <3>3, <3>4, WriteTyped
    <2>7. QED
      BY <1>2, <2>1, <2>2, <2>3, <2>4, <2>5, <2>6 DEF WriteStore
  <1>3. ASSUME UNCHANGED <<rows, edges, writes>>, DOMAIN cached' = Key,
               \A r \in Reader : reader'[r].pc \in {"idle", "load", "fill"},
               \A w \in Writer : pending'[w] \subseteq Entity, raced' \subseteq Entity
        PROVE  CacheTyped'
    BY <1>3 DEF CacheTyped, CacheTypeOK, VersionsCounted
  <1>4. /\ cached = [k \in Key |-> cached[k]] /\ DOMAIN cached = Key
        /\ reader = [r \in Reader |-> reader[r]] /\ raced \subseteq Entity
        /\ \A r \in Reader : reader[r].pc \in {"idle", "load", "fill"}
        /\ \A w \in Writer : pending[w] \subseteq Entity
    BY DEF CacheInv, Shape, CacheTyped, CacheTypeOK
  <1>5. ASSUME NEW r \in Reader,
               ReaderStep(r) \/ (\E k \in Key : Hit(r, k) \/ Miss(r, k))
        PROVE  CacheTyped'
    <2>1. UNCHANGED <<rows, edges, writes, pending, raced>>
      BY <1>5 DEF ReaderStep, Load, Fill, FillFails, Hit, Miss, cacheVars
    <2>2. DOMAIN cached' = Key
      BY <1>4, <1>5 DEF ReaderStep, Load, Fill, FillFails, Hit, Miss, cacheVars
    <2>3. \A x \in Reader : reader'[x].pc \in {"idle", "load", "fill"}
      BY <1>4, <1>5 DEF ReaderStep, Load, Fill, FillFails, Hit, Miss, cacheVars, Idle
    <2>4. QED
      BY <1>3, <1>4, <2>1, <2>2, <2>3
  <1>6. ASSUME NEW w \in Writer, NEW e \in Entity, Invalidate(w, e) \/ InvalidationLost(w, e)
        PROVE  CacheTyped'
    BY <1>1, <1>3, <1>4, <1>6 DEF Invalidate, InvalidationLost
  <1>7. ASSUME NEW k \in Key, Expire(k)
        PROVE  CacheTyped'
    BY <1>3, <1>4, <1>7 DEF Expire
  <1>8. CASE ServerStops
    BY <1>1, <1>3, <1>4, <1>8 DEF ServerStops, Idle
  <1>9. CASE UNCHANGED cacheVars
    BY <1>3, <1>4, <1>9 DEF cacheVars
  <1>10. QED
    BY <1>2, <1>5, <1>6, <1>7, <1>8, <1>9 DEF CacheNext, FaultlessNext

-----------------------------------------------------------------------------

\* Both parts of the invariant hold in every behaviour, whatever fails.
LEMMA CacheInvariant == CacheSafetySpec => [](CacheInv /\ CacheTyped)
  <1>1. CacheInit => CacheTyped
    BY CacheAssumption DEF CacheInit, CacheTyped, CacheTypeOK, VersionsCounted, Idle
  <1>2. CacheInv /\ CacheTyped /\ [CacheNext]_cacheVars => (CacheInv /\ CacheTyped)'
    BY StepGood, StepTyped DEF CacheTyped
  <1>3. QED
    BY InitGood, <1>1, <1>2, PTL DEF CacheSafetySpec

\* Once a write is answered, what a cached context shows of its entity, its
\* relationships included, is older, at any depth, only if a fill straddled the
\* write, its invalidation was lost, or a cascade owed none: the calls of
\* invalidateEntityContext after each commit miss nothing else.
THEOREM OnlyRacesAreStale == CacheSafetySpec => []OnlyRacesGoStale
  <1>1. CacheInv => OnlyRacesGoStale
    BY DEF CacheInv
  <1>2. QED
    BY CacheInvariant, <1>1, PTL

\* Readers, writers and faults keep every variable in its set: a version never
\* exceeds the number of writes, and Redis has no key for a depth nobody asks.
THEOREM CacheTypeCorrect == CacheSafetySpec => []CacheTypeOK
  <1>1. CacheTyped => CacheTypeOK
    BY DEF CacheTyped
  <1>2. QED
    BY CacheInvariant, <1>1, PTL
=============================================================================

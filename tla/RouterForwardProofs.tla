------------------------- MODULE RouterForwardProofs -------------------------
(***************************************************************************)
(* The rings and pools of the router's data path, for any apps, queue      *)
(* sizes, buffers and batches: no ring overflows and each pool element is  *)
(* always in one place.                                                    *)
(***************************************************************************)
EXTENDS RouterForward, FiniteSetTheorems, TLAPS

-----------------------------------------------------------------------------
(***************************************************************************)
(* Ring arithmetic                                                         *)
(***************************************************************************)
\* An index plus something less than the size wraps around at most once.
LEMMA WrapAround ==
  ASSUME NEW n \in Nat \ {0}, NEW x \in 0..n + n - 1
  PROVE  x % n = IF x < n THEN x ELSE x - n
OBVIOUS

\* round_up_pow_of_two is large enough for every queue an app may ask for.
LEMMA RoundUp ==
  ASSUME NEW q \in 1..MaxAppQueueSize
  PROVE  /\ q \in Nat \ {0}
         /\ RoundUpPowOfTwo(q + 1) \in Nat \ {0}
         /\ q + 1 <= RoundUpPowOfTwo(q + 1)
<1>1. MaxAppQueueSize \in Nat /\ MaxAppQueueSize + 1 <= 16384
  BY DEF MaxAppQueueSize
<1>2. q \in Nat \ {0} /\ q + 1 <= 16384
  BY <1>1
<1> DEFINE n == q + 1
<1>3. n \in Nat /\ n <= 16384
  BY <1>2
<1> HIDE DEF n
<1>4. \E p \in PowersOfTwo : n <= p /\ \A r \in PowersOfTwo : n <= r => p <= r
  BY <1>3 DEF PowersOfTwo
<1>5. RoundUpPowOfTwo(n) \in PowersOfTwo /\ n <= RoundUpPowOfTwo(n)
  BY <1>4 DEF RoundUpPowOfTwo
<1>6. RoundUpPowOfTwo(n) \in Nat \ {0}
  BY <1>5 DEF PowersOfTwo
<1> QED
  BY <1>2, <1>5, <1>6 DEF n

\* The ring has a slot for every element of the pool and one that stays empty.
LEMMA RingHasRoom ==
  ASSUME NEW a \in Apps
  PROVE  /\ QueueSize[a] \in Nat \ {0}
         /\ RingSize(a) \in Nat \ {0}
         /\ QueueSize[a] + 1 <= RingSize(a)
<1>1. QueueSize[a] \in 1..MaxAppQueueSize
  BY ForwardAssumption
<1> QED
  BY <1>1, RoundUp DEF RingSize

\* The slots from index h up to index t of a ring of n
Between(n, h, t) ==
  {i \in 0..n - 1 : IF h <= t THEN h <= i /\ i < t ELSE h <= i \/ i < t}

\* The distance from index h to index t
Distance(n, h, t) == IF h <= t THEN t - h ELSE t + n - h

\* The index after i
After(n, i) == IF i + 1 = n THEN 0 ELSE i + 1

\* The k-th index from h
Nth(n, h, k) == IF h + k - 1 < n THEN h + k - 1 ELSE h + k - 1 - n

\* The modular arithmetic of ck_ring in terms of comparisons
RingFacts(n, h, t) ==
  /\ (t + n - h) % n = Distance(n, h, t)
  /\ Distance(n, h, t) \in 0..n - 1
  /\ {i \in 0..n - 1 : (i + n - h) % n < (t + n - h) % n} = Between(n, h, t)
  /\ (t + 1) % n = After(n, t)
  /\ (h + 1) % n = After(n, h)
  /\ (t + 1) % n = h <=> Distance(n, h, t) = n - 1
  /\ \A k \in 1..Distance(n, h, t) : (h + k - 1) % n = Nth(n, h, k)

\* Remainders of the ring size are what these comparisons say.
LEMMA RingArithmetic ==
  ASSUME NEW n \in Nat \ {0}, NEW h \in 0..n - 1, NEW t \in 0..n - 1
  PROVE  RingFacts(n, h, t)
<1>1. \A i \in 0..n - 1 : (i + n - h) % n = Distance(n, h, i)
  <2> SUFFICES ASSUME NEW i \in 0..n - 1
               PROVE  (i + n - h) % n = Distance(n, h, i)
    OBVIOUS
  <2> DEFINE x == i + n - h
  <2>1. x \in 0..n + n - 1
    OBVIOUS
  <2> HIDE DEF x
  <2>2. x % n = IF x < n THEN x ELSE x - n
    BY <2>1, WrapAround, Zenon
  <2> QED
    BY <2>2 DEF Distance, x
<1>2. Distance(n, h, t) \in 0..n - 1
  BY DEF Distance
<1>3. {i \in 0..n - 1 : (i + n - h) % n < (t + n - h) % n} = Between(n, h, t)
  <2>1. {i \in 0..n - 1 : (i + n - h) % n < (t + n - h) % n}
          = {i \in 0..n - 1 : Distance(n, h, i) < Distance(n, h, t)}
    BY <1>1, Zenon
  <2> QED
    BY <2>1 DEF Between, Distance
<1>4. \A i \in 0..n - 1 : (i + 1) % n = After(n, i)
  <2> SUFFICES ASSUME NEW i \in 0..n - 1
               PROVE  (i + 1) % n = After(n, i)
    OBVIOUS
  <2>1. CASE i + 1 = n
    BY <2>1 DEF After
  <2>2. CASE i + 1 # n
    BY <2>2 DEF After
  <2> QED
    BY <2>1, <2>2
<1>5. (t + 1) % n = h <=> Distance(n, h, t) = n - 1
  BY <1>4 DEF After, Distance
<1>6. \A k \in 1..Distance(n, h, t) : (h + k - 1) % n = Nth(n, h, k)
  <2> SUFFICES ASSUME NEW k \in 1..Distance(n, h, t)
               PROVE  (h + k - 1) % n = Nth(n, h, k)
    OBVIOUS
  <2> DEFINE x == h + k - 1
  <2>1. x \in 0..n + n - 1
    BY <1>2
  <2> HIDE DEF x
  <2>2. x % n = IF x < n THEN x ELSE x - n
    BY <2>1, WrapAround, Zenon
  <2> QED
    BY <2>2 DEF Nth, x
<1> QED
  BY <1>1, <1>2, <1>3, <1>4, <1>5, <1>6 DEF RingFacts

\* What the producer and the consumer do to the occupied slots
MoveFacts(n, h, t) ==
  /\ After(n, h) \in 0..n - 1
  /\ After(n, t) \in 0..n - 1
  /\ t \notin Between(n, h, t)
  /\ After(n, t) # h =>
       /\ Between(n, h, After(n, t)) = Between(n, h, t) \cup {t}
       /\ Distance(n, h, After(n, t)) = Distance(n, h, t) + 1
       /\ Nth(n, h, Distance(n, h, t) + 1) = t
  /\ h # t =>
       /\ h \in Between(n, h, t)
       /\ Between(n, After(n, h), t) = Between(n, h, t) \ {h}
       /\ Distance(n, After(n, h), t) = Distance(n, h, t) - 1
       /\ Distance(n, h, t) >= 1
       /\ Nth(n, h, 1) = h
       /\ \A k \in 1..Distance(n, h, t) - 1 :
            Nth(n, After(n, h), k) = Nth(n, h, k + 1)
  /\ h = t <=> Distance(n, h, t) = 0
  /\ \A k \in 1..Distance(n, h, t) : Nth(n, h, k) \in Between(n, h, t)
  /\ \A k, l \in 1..Distance(n, h, t) :
       Nth(n, h, k) = Nth(n, h, l) => k = l
  /\ \A i \in Between(n, h, t) :
       \E k \in 1..Distance(n, h, t) : Nth(n, h, k) = i

\* The producer adds the slot at its index, the consumer takes the one at its.
LEMMA RingMoves ==
  ASSUME NEW n \in Nat \ {0}, NEW h \in 0..n - 1, NEW t \in 0..n - 1
  PROVE  MoveFacts(n, h, t)
<1> USE DEF After, Distance, Nth
<1>1. After(n, h) \in 0..n - 1 /\ After(n, t) \in 0..n - 1
  OBVIOUS
<1>2. t \notin Between(n, h, t)
  BY DEF Between
<1>3. ASSUME After(n, t) # h
      PROVE  /\ Between(n, h, After(n, t)) = Between(n, h, t) \cup {t}
             /\ Distance(n, h, After(n, t)) = Distance(n, h, t) + 1
             /\ Nth(n, h, Distance(n, h, t) + 1) = t
  <2>1. Between(n, h, After(n, t)) = Between(n, h, t) \cup {t}
    BY <1>3 DEF Between
  <2> QED
    BY <1>3, <2>1
<1>4. ASSUME h # t
      PROVE  /\ h \in Between(n, h, t)
             /\ Between(n, After(n, h), t) = Between(n, h, t) \ {h}
             /\ Distance(n, After(n, h), t) = Distance(n, h, t) - 1
             /\ Distance(n, h, t) >= 1
             /\ Nth(n, h, 1) = h
             /\ \A k \in 1..Distance(n, h, t) - 1 :
                  Nth(n, After(n, h), k) = Nth(n, h, k + 1)
  <2>1. Between(n, After(n, h), t) = Between(n, h, t) \ {h}
    BY <1>4 DEF Between
  <2>2. h \in Between(n, h, t)
    BY <1>4 DEF Between
  <2>3. \A k \in 1..Distance(n, h, t) - 1 :
          Nth(n, After(n, h), k) = Nth(n, h, k + 1)
    BY <1>4
  <2> QED
    BY <1>4, <2>1, <2>2, <2>3
<1>5. h = t <=> Distance(n, h, t) = 0
  OBVIOUS
<1>6. \A k \in 1..Distance(n, h, t) : Nth(n, h, k) \in Between(n, h, t)
  BY DEF Between
<1>7. \A k, l \in 1..Distance(n, h, t) : Nth(n, h, k) = Nth(n, h, l) => k = l
  OBVIOUS
<1>8. ASSUME NEW i \in Between(n, h, t)
      PROVE  \E k \in 1..Distance(n, h, t) : Nth(n, h, k) = i
  <2>1. Distance(n, h, i) + 1 \in 1..Distance(n, h, t)
    BY DEF Between
  <2>2. Nth(n, h, Distance(n, h, i) + 1) = i
    BY DEF Between
  <2> QED
    BY <2>1, <2>2, Zenon
<1> HIDE DEF After, Distance, Nth
<1> QED
  BY <1>1, <1>2, <1>3, <1>4, <1>5, <1>6, <1>7, <1>8 DEF MoveFacts

\* The ring of an app in these terms, now and after a step
LEMMA RingIndices ==
  ASSUME NEW a \in Apps
  PROVE  /\ head[a] \in Slots(a) /\ tail[a] \in Slots(a) =>
              /\ Length(a) = Distance(RingSize(a), head[a], tail[a])
              /\ Length(a) \in 0..RingSize(a) - 1
              /\ Occupied(a) = Between(RingSize(a), head[a], tail[a])
              /\ (tail[a] + 1) % RingSize(a) = After(RingSize(a), tail[a])
              /\ (head[a] + 1) % RingSize(a) = After(RingSize(a), head[a])
              /\ RingFull(a) <=> Length(a) = RingSize(a) - 1
              /\ \A k \in 1..Length(a) :
                   (head[a] + k - 1) % RingSize(a) = Nth(RingSize(a), head[a], k)
         /\ head'[a] \in Slots(a) /\ tail'[a] \in Slots(a) =>
              /\ Length(a)' = Distance(RingSize(a), head'[a], tail'[a])
              /\ Occupied(a)' = Between(RingSize(a), head'[a], tail'[a])
              /\ \A k \in 1..Length(a)' :
                   (head'[a] + k - 1) % RingSize(a) = Nth(RingSize(a), head'[a], k)
<1>1. RingSize(a) \in Nat \ {0}
  BY RingHasRoom
<1>2. ASSUME head[a] \in Slots(a), tail[a] \in Slots(a)
      PROVE  /\ Length(a) = Distance(RingSize(a), head[a], tail[a])
             /\ Length(a) \in 0..RingSize(a) - 1
             /\ Occupied(a) = Between(RingSize(a), head[a], tail[a])
             /\ (tail[a] + 1) % RingSize(a) = After(RingSize(a), tail[a])
             /\ (head[a] + 1) % RingSize(a) = After(RingSize(a), head[a])
             /\ RingFull(a) <=> Length(a) = RingSize(a) - 1
             /\ \A k \in 1..Length(a) :
                  (head[a] + k - 1) % RingSize(a) = Nth(RingSize(a), head[a], k)
  <2> DEFINE n == RingSize(a)
             h == head[a]
             t == tail[a]
  <2>1. n \in Nat \ {0} /\ h \in 0..n - 1 /\ t \in 0..n - 1
    BY <1>1, <1>2 DEF Slots
  <2> HIDE DEF n, h, t
  <2>2. RingFacts(n, h, t)
    BY <2>1, RingArithmetic
  <2> QED
    BY <2>2 DEF RingFacts, Length, Occupied, RingFull, Slots, n, h, t
<1>3. ASSUME head'[a] \in Slots(a), tail'[a] \in Slots(a)
      PROVE  /\ Length(a)' = Distance(RingSize(a), head'[a], tail'[a])
             /\ Occupied(a)' = Between(RingSize(a), head'[a], tail'[a])
             /\ \A k \in 1..Length(a)' :
                  (head'[a] + k - 1) % RingSize(a) = Nth(RingSize(a), head'[a], k)
  <2> DEFINE n == RingSize(a)
             h == head'[a]
             t == tail'[a]
  <2>1. n \in Nat \ {0} /\ h \in 0..n - 1 /\ t \in 0..n - 1
    BY <1>1, <1>3 DEF Slots
  <2> HIDE DEF n, h, t
  <2>2. RingFacts(n, h, t)
    BY <2>1, RingArithmetic
  <2> QED
    BY <2>2 DEF RingFacts, Length, Occupied, Slots, n, h, t
<1> QED
  BY <1>2, <1>3

-----------------------------------------------------------------------------
(***************************************************************************)
(* The inductive invariant                                                 *)
(***************************************************************************)
OfAppTypes(a) ==
  /\ pool[a] \subseteq Mbufs(a)
  /\ data[a] \in [Mbufs(a) -> Bufs \cup {NoBuf}]
  /\ slot[a] \in [Slots(a) -> Mbufs(a) \cup {NoMbuf}]
  /\ head[a] \in Slots(a)
  /\ tail[a] \in Slots(a)
  /\ de[a] \in Mbufs(a) \cup {NoMbuf}

Domains ==
  /\ DOMAIN pool = Apps
  /\ DOMAIN data = Apps
  /\ DOMAIN slot = Apps
  /\ DOMAIN head = Apps
  /\ DOMAIN tail = Apps
  /\ DOMAIN de = Apps
  /\ DOMAIN held = Apps

RouterTypes ==
  /\ rpc \in {"idle", "apps", "share", "enqueue"}
  /\ batch \in Seq(Bufs)
  /\ rpc = "idle" <=> batch = <<>>
  /\ iter \subseteq Apps
  /\ IF rpc \in {"share", "enqueue"}
     THEN rapp \in Apps /\ rmbuf \in Mbufs(rapp) /\ rapp \notin iter
     ELSE rapp = NoApp /\ rmbuf = NoMbuf

FwTypes == Domains /\ RouterTypes /\ \A a \in Apps : OfAppTypes(a)

\* The elements of an app outside its pool and its ring
InApp(a) == {de[a]} \ {NoMbuf}
InRouter(a) == IF rapp = a THEN {rmbuf} ELSE {}

\* The pool, the ring, the router and the app share out the elements.
PlaceInv(a) ==
  /\ Queued(a) \subseteq Mbufs(a)
  /\ \A i, j \in Occupied(a) : slot[a][i] = slot[a][j] => i = j
  /\ Queued(a) \cap pool[a] = {}
  /\ Queued(a) \cap InApp(a) = {}
  /\ Queued(a) \cap InRouter(a) = {}
  /\ pool[a] \cap InApp(a) = {}
  /\ pool[a] \cap InRouter(a) = {}
  /\ InApp(a) \cap InRouter(a) = {}
  /\ Mbufs(a) = pool[a] \cup Queued(a) \cup InApp(a) \cup InRouter(a)

ElementInv == FwTypes /\ \A a \in Apps : PlaceInv(a)

-----------------------------------------------------------------------------
(***************************************************************************)
(* The ring and its elements                                               *)
(***************************************************************************)
\* The ring of an app depends on its own slots and indices only.
LEMMA RingFrame ==
  ASSUME NEW a \in Apps,
         head'[a] = head[a], tail'[a] = tail[a], slot'[a] = slot[a]
  PROVE  /\ Length(a)' = Length(a)
         /\ Occupied(a)' = Occupied(a)
         /\ Queued(a)' = Queued(a)
BY DEF Length, Occupied, Queued

\* The elements in a ring and those elsewhere are at most the app's queue size.
LEMMA RingRoom ==
  ASSUME NEW a \in Apps, OfAppTypes(a), PlaceInv(a),
         NEW S \in SUBSET Mbufs(a), S \cap Queued(a) = {}
  PROVE  /\ Length(a) \in Nat
         /\ IsFiniteSet(S)
         /\ Length(a) + Cardinality(S) <= QueueSize[a]
<1> DEFINE n == RingSize(a)
           h == head[a]
           t == tail[a]
           f == [k \in 1..Length(a) |-> slot[a][Nth(n, h, k)]]
<1>1. n \in Nat \ {0} /\ h \in 0..n - 1 /\ t \in 0..n - 1
  BY RingHasRoom DEF OfAppTypes, Slots
<1>2. /\ Length(a) \in Nat
      /\ Length(a) = Distance(n, h, t)
      /\ Occupied(a) = Between(n, h, t)
  BY RingIndices, RingHasRoom DEF OfAppTypes
<1> HIDE DEF n, h, t
<1>3. /\ \A k \in 1..Length(a) : Nth(n, h, k) \in Occupied(a)
      /\ \A k, l \in 1..Length(a) : Nth(n, h, k) = Nth(n, h, l) => k = l
  BY <1>1, <1>2, RingMoves DEF MoveFacts
<1>4. f \in Injection(1..Length(a), Mbufs(a) \ S)
  <2>1. \A k \in 1..Length(a) : slot[a][Nth(n, h, k)] \in Mbufs(a) \ S
    BY <1>3 DEF PlaceInv, Queued
  <2>2. \A k, l \in 1..Length(a) :
          slot[a][Nth(n, h, k)] = slot[a][Nth(n, h, l)] => k = l
    BY <1>3 DEF PlaceInv
  <2> QED
    BY <2>1, <2>2 DEF Injection, IsInjective
<1>5. QueueSize[a] \in Nat \ {0}
  BY RingHasRoom
<1>6. IsFiniteSet(Mbufs(a)) /\ Cardinality(Mbufs(a)) = QueueSize[a]
  BY <1>5, FS_Interval DEF Mbufs
<1>7. /\ IsFiniteSet(S)
      /\ IsFiniteSet(Mbufs(a) \ S)
      /\ Cardinality(Mbufs(a) \ S) = QueueSize[a] - Cardinality(S)
  <2>1. Mbufs(a) \cap S = S
    OBVIOUS
  <2>2. IsFiniteSet(S)
    BY <1>6, FS_Subset
  <2>3. /\ IsFiniteSet(Mbufs(a) \ S)
        /\ Cardinality(Mbufs(a) \ S)
             = Cardinality(Mbufs(a)) - Cardinality(Mbufs(a) \cap S)
    BY <1>6, FS_Difference, Zenon
  <2> QED
    BY <1>6, <2>1, <2>2, <2>3
<1>8. Cardinality(1..Length(a)) = Length(a)
  BY <1>2, FS_Interval
<1>9. Length(a) <= QueueSize[a] - Cardinality(S)
  BY <1>4, <1>7, <1>8, FS_Injection
<1>10. Cardinality(S) \in Nat
  BY <1>7, FS_CardinalityType
<1> QED
  BY <1>2, <1>5, <1>7, <1>9, <1>10

\* An element in the router's hands finds room in the ring.
LEMMA RingNotFull ==
  ASSUME ElementInv, rpc = "enqueue"
  PROVE  /\ rapp \in Apps
         /\ ~RingFull(rapp)
<1>1. rapp \in Apps /\ rmbuf \in Mbufs(rapp)
  BY DEF ElementInv, FwTypes, RouterTypes
<1>2. OfAppTypes(rapp) /\ PlaceInv(rapp)
  BY <1>1 DEF ElementInv, FwTypes
<1>3. {rmbuf} \cap Queued(rapp) = {}
  BY <1>2 DEF PlaceInv, InRouter
<1>4. Length(rapp) \in Nat /\ Length(rapp) + Cardinality({rmbuf}) <= QueueSize[rapp]
  BY <1>1, <1>2, <1>3, RingRoom
<1>5. Cardinality({rmbuf}) = 1
  BY FS_Singleton
<1>6. RingFull(rapp) <=> Length(rapp) = RingSize(rapp) - 1
  BY <1>1, <1>2, RingIndices DEF OfAppTypes
<1> QED
  BY <1>1, <1>4, <1>5, <1>6, RingHasRoom

\* ck_ring_enqueue_spsc adds the element and moves nothing else.
LEMMA EnqueueRing ==
  ASSUME ElementInv, NEW a \in Apps, a = rapp, Enqueue
  PROVE  /\ tail'[a] \in Slots(a)
         /\ tail[a] \in Slots(a) \ Occupied(a)
         /\ Occupied(a)' = Occupied(a) \cup {tail[a]}
         /\ slot' = [slot EXCEPT ![a] = [slot[a] EXCEPT ![tail[a]] = rmbuf]]
         /\ tail' = [tail EXCEPT ![a] = After(RingSize(a), tail[a])]
         /\ After(RingSize(a), tail[a]) # head[a]
         /\ Queued(a)' = Queued(a) \cup {rmbuf}
<1> DEFINE n == RingSize(a)
<1>1. ~RingFull(a)
  BY RingNotFull DEF Enqueue
<1>2. OfAppTypes(a)
  BY <1>1 DEF ElementInv, FwTypes
<1>3. n \in Nat \ {0} /\ head[a] \in 0..n - 1 /\ tail[a] \in 0..n - 1
  BY <1>1, <1>2, RingHasRoom DEF OfAppTypes, Slots
<1>4. /\ slot' = [slot EXCEPT ![a] = [slot[a] EXCEPT ![tail[a]] = rmbuf]]
      /\ tail' = [tail EXCEPT ![a] = After(n, tail[a])]
      /\ head' = head
      /\ After(n, tail[a]) # head[a]
      /\ Occupied(a) = Between(n, head[a], tail[a])
  BY <1>1, <1>2, RingIndices DEF Enqueue, OfAppTypes, appVars, RingFull
<1>5. tail'[a] = After(n, tail[a]) /\ head'[a] = head[a]
  BY <1>1, <1>4 DEF ElementInv, FwTypes, Domains
<1>6. /\ tail'[a] \in 0..n - 1
      /\ tail[a] \notin Occupied(a)
      /\ Between(n, head[a], After(n, tail[a])) = Occupied(a) \cup {tail[a]}
  BY <1>3, <1>4, <1>5, RingMoves DEF MoveFacts
<1>7. Occupied(a)' = Between(n, head'[a], tail'[a])
  <2>1. head'[a] \in Slots(a) /\ tail'[a] \in Slots(a)
    BY <1>3, <1>5, <1>6 DEF Slots
  <2> QED
    BY <2>1, RingIndices
<1>8. Occupied(a)' = Occupied(a) \cup {tail[a]}
  BY <1>5, <1>6, <1>7
<1>9. slot'[a] = [slot[a] EXCEPT ![tail[a]] = rmbuf]
  BY <1>1, <1>4 DEF ElementInv, FwTypes, Domains
<1>10. Queued(a)' = Queued(a) \cup {rmbuf}
  <2>1. /\ slot'[a][tail[a]] = rmbuf
        /\ \A i \in Occupied(a) : slot'[a][i] = slot[a][i]
    BY <1>2, <1>3, <1>6, <1>9, Zenon DEF OfAppTypes, Slots, Occupied
  <2> QED
    BY <1>8, <2>1 DEF Queued
<1> QED
  BY <1>1, <1>3, <1>4, <1>5, <1>6, <1>8, <1>10 DEF Slots

\* ck_ring_dequeue_spsc removes the oldest element and moves nothing else.
LEMMA DequeueRing ==
  ASSUME ElementInv, NEW a \in Apps, Dequeue(a)
  PROVE  /\ head'[a] \in Slots(a)
         /\ head[a] \in Occupied(a)
         /\ head[a] # tail[a]
         /\ head' = [head EXCEPT ![a] = After(RingSize(a), head[a])]
         /\ slot' = [slot EXCEPT ![a] = [slot[a] EXCEPT ![head[a]] = NoMbuf]]
         /\ Occupied(a)' = Occupied(a) \ {head[a]}
         /\ slot[a][head[a]] \in Queued(a)
         /\ Queued(a)' = Queued(a) \ {slot[a][head[a]]}
<1> DEFINE n == RingSize(a)
<1>2. OfAppTypes(a) /\ PlaceInv(a)
  BY DEF ElementInv, FwTypes
<1>3. n \in Nat \ {0} /\ head[a] \in 0..n - 1 /\ tail[a] \in 0..n - 1
  BY <1>2, RingHasRoom DEF OfAppTypes, Slots
<1>4. /\ slot' = [slot EXCEPT ![a] = [slot[a] EXCEPT ![head[a]] = NoMbuf]]
      /\ head' = [head EXCEPT ![a] = After(n, head[a])]
      /\ tail' = tail
      /\ tail[a] # head[a]
      /\ Occupied(a) = Between(n, head[a], tail[a])
  BY <1>2, RingIndices, Zenon DEF Dequeue, OfAppTypes
<1>5. head'[a] = After(n, head[a]) /\ tail'[a] = tail[a]
  BY <1>4 DEF ElementInv, FwTypes, Domains
<1>6. /\ head'[a] \in 0..n - 1
      /\ head[a] \in Occupied(a)
      /\ Between(n, After(n, head[a]), tail[a]) = Occupied(a) \ {head[a]}
  BY <1>3, <1>4, <1>5, RingMoves DEF MoveFacts
<1>7. Occupied(a)' = Between(n, head'[a], tail'[a])
  <2>1. head'[a] \in Slots(a) /\ tail'[a] \in Slots(a)
    BY <1>3, <1>5, <1>6 DEF Slots
  <2> QED
    BY <2>1, RingIndices
<1>8. Occupied(a)' = Occupied(a) \ {head[a]}
  BY <1>5, <1>6, <1>7
<1>9. slot'[a] = [slot[a] EXCEPT ![head[a]] = NoMbuf]
  BY <1>4 DEF ElementInv, FwTypes, Domains
<1>10. Queued(a)' = Queued(a) \ {slot[a][head[a]]}
  <2>1. \A i \in Occupied(a) \ {head[a]} : slot'[a][i] = slot[a][i]
    BY <1>2, <1>9 DEF OfAppTypes, Occupied
  <2>2. \A i \in Occupied(a) \ {head[a]} : slot[a][i] # slot[a][head[a]]
    BY <1>2, <1>6 DEF PlaceInv
  <2> QED
    BY <1>6, <1>8, <2>1, <2>2 DEF Queued
<1> QED
  BY <1>3, <1>4, <1>5, <1>6, <1>8, <1>10 DEF Slots, Queued

-----------------------------------------------------------------------------
(***************************************************************************)
(* Each element stays in one place                                         *)
(***************************************************************************)
\* At the start all elements are in the pool.
LEMMA ElementsInitially == Init => ElementInv
<1> SUFFICES ASSUME Init PROVE ElementInv
  OBVIOUS
<1>1. \A a \in Apps : RingSize(a) \in Nat \ {0}
  BY RingHasRoom
<1>2. ASSUME NEW a \in Apps
      PROVE  OfAppTypes(a) /\ PlaceInv(a)
  <2>1. OfAppTypes(a)
    BY <1>1, ForwardAssumption DEF Init, OfAppTypes, Slots, Mbufs, NoMbuf
  <2>2. Occupied(a) = {}
    <3>1. Occupied(a) = Between(RingSize(a), head[a], tail[a])
      BY <2>1, RingIndices DEF OfAppTypes
    <3>2. head[a] = 0 /\ tail[a] = 0
      BY DEF Init
    <3> QED
      BY <3>1, <3>2, <1>1 DEF Between
  <2>3. PlaceInv(a)
    BY <2>2, ForwardAssumption DEF PlaceInv, Queued, InApp, InRouter, Init
  <2> QED
    BY <2>1, <2>3
<1>3. Domains
  BY DEF Init, Domains
<1>4. RouterTypes
  BY DEF Init, RouterTypes
<1> QED
  BY <1>2, <1>3, <1>4 DEF ElementInv, FwTypes

\* An app whose ring, pool and own element stay keeps its part of the invariant.
LEMMA PlaceFrame ==
  ASSUME ElementInv, NEW a \in Apps,
         pool'[a] = pool[a], slot'[a] = slot[a], head'[a] = head[a],
         tail'[a] = tail[a], de'[a] = de[a],
         InRouter(a)' = InRouter(a)
  PROVE  PlaceInv(a)'
<1>1. PlaceInv(a)
  BY DEF ElementInv
<1>2. Occupied(a)' = Occupied(a) /\ Queued(a)' = Queued(a)
  BY RingFrame
<1> QED
  BY <1>1, <1>2 DEF PlaceInv, InApp, Mbufs

\* The steps of the router that move no element
LEMMA QuietElements ==
  ASSUME ElementInv,
         UNCHANGED <<appVars, pool, slot, tail>>, DOMAIN data' = Apps,
         \A a \in Apps : data'[a] \in [Mbufs(a) -> Bufs \cup {NoBuf}],
         rapp' = rapp, rmbuf' = rmbuf, RouterTypes'
  PROVE  ElementInv'
<1>1. \A a \in Apps : OfAppTypes(a)'
  BY DEF ElementInv, FwTypes, OfAppTypes, appVars, Mbufs, Slots, RingSize
<1>2. \A a \in Apps : PlaceInv(a)'
  BY PlaceFrame DEF appVars, InRouter
<1>3. Domains'
  BY DEF ElementInv, FwTypes, Domains, appVars
<1> QED
  BY <1>1, <1>2, <1>3 DEF ElementInv, FwTypes

\* A step that moves elements of one app only
LEMMA LocalElements ==
  ASSUME ElementInv, NEW a \in Apps,
         Domains', RouterTypes', OfAppTypes(a)', PlaceInv(a)',
         \A c \in Apps \ {a} :
           /\ pool'[c] = pool[c] /\ data'[c] = data[c] /\ slot'[c] = slot[c]
           /\ head'[c] = head[c] /\ tail'[c] = tail[c] /\ de'[c] = de[c]
           /\ InRouter(c)' = InRouter(c)
  PROVE  ElementInv'
<1>1. ASSUME NEW c \in Apps \ {a}
      PROVE  OfAppTypes(c)' /\ PlaceInv(c)'
  <2>1. OfAppTypes(c)'
    BY DEF ElementInv, FwTypes, OfAppTypes, Mbufs, Slots, RingSize
  <2>2. PlaceInv(c)'
    BY PlaceFrame
  <2> QED
    BY <2>1, <2>2
<1> QED
  BY <1>1 DEF ElementInv, FwTypes

\* Every step keeps each element in one place.
LEMMA ElementsPreserved ==
  ASSUME ElementInv, [Next]_vars
  PROVE  ElementInv'
<1> USE DEF ElementInv, FwTypes
<1>1. ASSUME NEW bufs \in Batches, NEW apps \in SUBSET Apps, Arrive(bufs, apps)
      PROVE  ElementInv'
  <2>1. bufs \in Seq(Bufs) /\ bufs # <<>>
    BY ForwardAssumption DEF Batches
  <2>2. RouterTypes'
    BY <1>1, <2>1 DEF RouterTypes, Arrive
  <2> QED
    BY <1>1, <2>2, QuietElements DEF Arrive, ringVars, OfAppTypes, Domains
<1>2. ASSUME NEW a \in Apps, AllocEntry(a)
      PROVE  ElementInv'
  <2>1. PICK m \in pool[a] : pool' = [pool EXCEPT ![a] = @ \ {m}] /\ rmbuf' = m
    BY <1>2, Zenon DEF AllocEntry
  <2>2. /\ rpc = "apps" /\ rapp = NoApp /\ rapp' = a /\ rpc' = "share"
        /\ rapp # a /\ m \in Mbufs(a) /\ pool'[a] = pool[a] \ {m}
        /\ UNCHANGED <<head, de, data, slot, tail, batch>>
        /\ iter' = iter \ {a}
    BY <1>2, <2>1, ForwardAssumption
       DEF AllocEntry, appVars, RouterTypes, OfAppTypes, Domains
  <2>3. RouterTypes'
    BY <2>1, <2>2 DEF RouterTypes
  <2>4. Domains'
    BY <1>2, <2>1 DEF Domains, AllocEntry, appVars
  <2>5. OfAppTypes(a)'
    BY <2>2 DEF OfAppTypes, Mbufs, Slots, RingSize
  <2>6. Occupied(a)' = Occupied(a) /\ Queued(a)' = Queued(a)
    BY <2>2, RingFrame
  <2>7. PlaceInv(a)'
    BY <2>1, <2>2, <2>6 DEF PlaceInv, InApp, InRouter, Mbufs
  <2>8. \A c \in Apps \ {a} : pool'[c] = pool[c] /\ InRouter(c)' = InRouter(c)
    BY <2>1, <2>2, ForwardAssumption DEF InRouter, Domains
  <2> QED
    BY <2>2, <2>3, <2>4, <2>5, <2>7, <2>8, LocalElements
<1>3. ASSUME NEW a \in Apps, PoolEmpty(a)
      PROVE  ElementInv'
  <2>1. RouterTypes'
    BY <1>3 DEF RouterTypes, PoolEmpty
  <2> QED
    BY <1>3, <2>1, QuietElements DEF PoolEmpty, ringVars, OfAppTypes, Domains
<1>4. CASE Share
  <2>1. rapp \in Apps /\ rmbuf \in Mbufs(rapp) /\ Head(batch) \in Bufs
    BY <1>4 DEF Share, RouterTypes
  <2>2. RouterTypes'
    BY <1>4 DEF RouterTypes, Share
  <2>3. DOMAIN data' = Apps
        /\ \A a \in Apps : data'[a] \in [Mbufs(a) -> Bufs \cup {NoBuf}]
    BY <1>4, <2>1 DEF Share, Domains, OfAppTypes
  <2> QED
    BY <1>4, <2>2, <2>3, QuietElements DEF Share
<1>5. CASE Enqueue
  <2>1. PICK a \in Apps : a = rapp
    BY <1>5 DEF Enqueue, RouterTypes
  <2>2. /\ tail'[a] \in Slots(a)
        /\ tail[a] \in Slots(a) \ Occupied(a)
        /\ Occupied(a)' = Occupied(a) \cup {tail[a]}
        /\ slot' = [slot EXCEPT ![a] = [slot[a] EXCEPT ![tail[a]] = rmbuf]]
        /\ tail' = [tail EXCEPT ![a] = After(RingSize(a), tail[a])]
        /\ Queued(a)' = Queued(a) \cup {rmbuf}
    BY <1>5, <2>1, EnqueueRing
  <2>3. /\ rapp' = NoApp /\ rmbuf' = NoMbuf /\ rpc' = "apps"
        /\ UNCHANGED <<head, de, pool, data, batch, iter>>
        /\ rmbuf \in Mbufs(a) /\ batch # <<>>
    BY <1>5, <2>1 DEF Enqueue, appVars, RouterTypes
  <2>4. RouterTypes'
    BY <2>3 DEF RouterTypes
  <2>5. Domains'
    BY <1>5, <2>2, <2>3 DEF Domains, Enqueue, appVars
  <2>6. slot'[a] = [slot[a] EXCEPT ![tail[a]] = rmbuf]
    BY <2>2 DEF Domains
  <2>7. OfAppTypes(a)'
    BY <2>2, <2>3, <2>6 DEF OfAppTypes, Mbufs, Slots, RingSize
  <2>8. PlaceInv(a)'
    <3>1. InRouter(a) = {rmbuf} /\ InRouter(a)' = {} /\ InApp(a)' = InApp(a)
      BY <2>1, <2>3, ForwardAssumption DEF InRouter, InApp
    <3>2. \A i, j \in Occupied(a)' : slot'[a][i] = slot'[a][j] => i = j
      <4>1. /\ slot'[a][tail[a]] = rmbuf
            /\ \A i \in Occupied(a) : slot'[a][i] = slot[a][i] /\ slot[a][i] # rmbuf
        BY <2>2, <2>6, <3>1 DEF OfAppTypes, Occupied, PlaceInv, Queued
      <4> QED
        BY <2>2, <4>1 DEF PlaceInv
    <3> QED
      BY <2>2, <2>3, <3>1, <3>2 DEF PlaceInv, Mbufs
  <2>9. \A c \in Apps \ {a} : /\ slot'[c] = slot[c] /\ tail'[c] = tail[c]
                              /\ InRouter(c)' = InRouter(c)
    BY <2>1, <2>2, <2>3, ForwardAssumption DEF InRouter, Domains
  <2> QED
    BY <2>3, <2>4, <2>5, <2>7, <2>8, <2>9, LocalElements
<1>6. CASE ReleaseBuf
  <2>0. /\ Tail(batch) \in Seq(Bufs)
        /\ Tail(batch) = <<>> <=> Len(batch) = 1
    <3>1. batch \in Seq(Bufs) /\ batch # <<>>
      BY <1>6 DEF RouterTypes, ReleaseBuf
    <3>2. Tail(batch) \in Seq(Bufs) /\ Len(Tail(batch)) = Len(batch) - 1
      BY <3>1
    <3> QED
      BY <3>1, <3>2
  <2>1. RouterTypes'
    BY <1>6, <2>0 DEF RouterTypes, ReleaseBuf
  <2> QED
    BY <1>6, <2>1, QuietElements, Zenon DEF ReleaseBuf, ringVars, OfAppTypes, Domains
<1>7. ASSUME NEW a \in Apps, Dequeue(a)
      PROVE  ElementInv'
  <2> DEFINE m == slot[a][head[a]]
  <2>1. /\ head'[a] \in Slots(a)
        /\ head[a] \in Occupied(a)
        /\ head' = [head EXCEPT ![a] = After(RingSize(a), head[a])]
        /\ slot' = [slot EXCEPT ![a] = [slot[a] EXCEPT ![head[a]] = NoMbuf]]
        /\ Occupied(a)' = Occupied(a) \ {head[a]}
        /\ m \in Queued(a)
        /\ Queued(a)' = Queued(a) \ {m}
    BY <1>7, DequeueRing
  <2>2. /\ de[a] = NoMbuf /\ de'[a] = m
        /\ UNCHANGED <<pool, data, tail, rpc, batch, iter, rapp, rmbuf>>
        /\ m \in Mbufs(a)
    BY <1>7, <2>1 DEF Dequeue, routerVars, Domains, PlaceInv
  <2>3. slot'[a] = [slot[a] EXCEPT ![head[a]] = NoMbuf]
    BY <2>1 DEF Domains
  <2>4. RouterTypes'
    BY <2>2 DEF RouterTypes
  <2>5. Domains'
    BY <1>7, <2>1, <2>2 DEF Domains, Dequeue
  <2>6. OfAppTypes(a)'
    BY <2>1, <2>2, <2>3 DEF OfAppTypes, Mbufs, Slots, RingSize
  <2>7. PlaceInv(a)'
    <3>1. /\ InApp(a) = {} /\ InApp(a)' = {m} /\ InRouter(a)' = InRouter(a)
      BY <2>2, ForwardAssumption DEF InRouter, InApp, Mbufs, NoMbuf
    <3>2. \A i \in Occupied(a)' : slot'[a][i] = slot[a][i]
      BY <2>1, <2>3 DEF OfAppTypes, Occupied
    <3> QED
      BY <2>1, <2>2, <3>1, <3>2 DEF PlaceInv, Mbufs
  <2>8. \A c \in Apps \ {a} : /\ slot'[c] = slot[c] /\ head'[c] = head[c]
                              /\ de'[c] = de[c] /\ InRouter(c)' = InRouter(c)
    BY <1>7, <2>1, <2>2 DEF InRouter, Domains, Dequeue
  <2> QED
    BY <2>2, <2>4, <2>5, <2>6, <2>7, <2>8, LocalElements
<1>8. ASSUME NEW a \in Apps, CopyAndFree(a)
      PROVE  ElementInv'
  <2>1. /\ de[a] \in Mbufs(a) /\ de[a] # NoMbuf /\ de'[a] = NoMbuf
        /\ pool'[a] = pool[a] \cup {de[a]}
        /\ data'[a] = [data[a] EXCEPT ![de[a]] = NoBuf]
        /\ UNCHANGED <<head, slot, tail, rpc, batch, iter, rapp, rmbuf>>
    BY <1>8 DEF CopyAndFree, routerVars, Domains, OfAppTypes
  <2>2. RouterTypes'
    BY <2>1 DEF RouterTypes
  <2>3. Domains'
    BY <1>8 DEF Domains, CopyAndFree
  <2>4. OfAppTypes(a)'
    BY <2>1 DEF OfAppTypes, Mbufs, Slots, RingSize
  <2>5. Occupied(a)' = Occupied(a) /\ Queued(a)' = Queued(a)
    BY <2>1, RingFrame
  <2>6. PlaceInv(a)'
    BY <2>1, <2>5 DEF PlaceInv, InApp, InRouter, Mbufs
  <2>7. \A c \in Apps \ {a} : /\ pool'[c] = pool[c] /\ data'[c] = data[c]
                              /\ de'[c] = de[c] /\ InRouter(c)' = InRouter(c)
    BY <1>8, <2>1 DEF InRouter, Domains, CopyAndFree
  <2> QED
    BY <2>1, <2>2, <2>3, <2>4, <2>6, <2>7, LocalElements
<1>9. ASSUME NEW a \in Apps, NEW b \in Bufs, AppRelease(a, b)
      PROVE  ElementInv'
  <2>1. RouterTypes' /\ Domains'
    BY <1>9 DEF RouterTypes, AppRelease, routerVars, Domains, ringVars
  <2>2. \A c \in Apps : PlaceInv(c)'
    BY <1>9, PlaceFrame DEF AppRelease, ringVars, routerVars, InRouter
  <2>3. \A c \in Apps : OfAppTypes(c)'
    BY <1>9 DEF AppRelease, ringVars, OfAppTypes, Mbufs, Slots, RingSize
  <2> QED
    BY <2>1, <2>2, <2>3
<1>10. CASE UNCHANGED vars
  <2>1. RouterTypes'
    BY <1>10 DEF vars, routerVars, RouterTypes
  <2> QED
    BY <1>10, <2>1, QuietElements
       DEF vars, appVars, ringVars, routerVars, OfAppTypes, Domains
<1> HIDE DEF ElementInv
<1> QED
  BY <1>1, <1>2, <1>3, <1>4, <1>5, <1>6, <1>7, <1>8, <1>9, <1>10
     DEF Next, RouterStep, AppStep

\* The elements are conserved in every reachable state.
LEMMA ElementsInvariant == Spec => []ElementInv
<1>1. Init => ElementInv
  BY ElementsInitially
<1>2. ElementInv /\ [Next]_vars => ElementInv'
  BY ElementsPreserved
<1> QED
  BY <1>1, <1>2, PTL DEF Spec

\* The router ignores the result of ck_ring_enqueue_spsc: for every app and queue
\* size an element that could be allocated finds room in the ring.
THEOREM RingsDoNotOverflow == Spec => []EnqueueNeverFails
<1>1. ElementInv => EnqueueNeverFails
  BY RingNotFull DEF EnqueueNeverFails
<1> QED
  BY <1>1, ElementsInvariant, PTL

\* Every element of an app's pool is free, in the router's hands, in one slot of
\* the ring or in the app's hands, and never in two of these places.
THEOREM ElementsAreConserved == Spec => []ElementsConserved
<1>1. ASSUME ElementInv, NEW a \in Apps, NEW m \in Mbufs(a)
      PROVE  Cardinality({w \in {"pool", "router", "ring", "app"} :
                \/ w = "pool" /\ m \in pool[a]
                \/ w = "router" /\ rapp = a /\ rmbuf = m
                \/ w = "ring" /\ m \in Queued(a)
                \/ w = "app" /\ de[a] = m}) = 1
  <2> DEFINE W == {w \in {"pool", "router", "ring", "app"} :
                \/ w = "pool" /\ m \in pool[a]
                \/ w = "router" /\ rapp = a /\ rmbuf = m
                \/ w = "ring" /\ m \in Queued(a)
                \/ w = "app" /\ de[a] = m}
  <2>1. PlaceInv(a) /\ m # NoMbuf
    BY <1>1, RingHasRoom DEF ElementInv, Mbufs, NoMbuf
  <2>2. /\ rapp = a /\ rmbuf = m <=> m \in InRouter(a)
        /\ de[a] = m <=> m \in InApp(a)
    BY <2>1 DEF InRouter, InApp
  <2>3. \E w : W = {w}
    <3>1. CASE m \in pool[a]
      BY <2>1, <2>2, <3>1 DEF PlaceInv
    <3>2. CASE m \in InRouter(a)
      BY <2>1, <2>2, <3>2 DEF PlaceInv
    <3>3. CASE m \in Queued(a)
      BY <2>1, <2>2, <3>3 DEF PlaceInv
    <3>4. CASE m \in InApp(a)
      BY <2>1, <2>2, <3>4 DEF PlaceInv
    <3> QED
      BY <2>1, <3>1, <3>2, <3>3, <3>4, Zenon DEF PlaceInv
  <2> QED
    BY <2>3, FS_Singleton, Zenon
<1>2. ElementInv => ElementsConserved
  BY <1>1 DEF ElementsConserved, ElementInv, PlaceInv
<1> QED
  BY <1>2, ElementsInvariant, PTL
=============================================================================

------------------------- MODULE RouterBufferProofs -------------------------
(***************************************************************************)
(* The buffers of the router's data path, for any apps, queue sizes and    *)
(* batches: reference counts are exact, and ring, pool and counts together *)
(* are a bounded first-in first-out queue for each app.                    *)
(***************************************************************************)
EXTENDS RouterForwardProofs

-----------------------------------------------------------------------------
(***************************************************************************)
(* The inductive invariant                                                 *)
(***************************************************************************)
\* The elements that carry a message, the messages they carry and the messages
\* the app has in any form
Live(a) ==
  Queued(a) \cup InApp(a)
  \cup (IF rpc = "enqueue" /\ rapp = a THEN {rmbuf} ELSE {})
Carried(a) == {data[a][m] : m \in Live(a)}
Has(a, b) == b \in held[a] \/ b \in Carried(a)

\* No app gets a message twice before it has released it.
CarryInv(a) ==
  /\ held[a] \subseteq Bufs
  /\ Carried(a) \subseteq Bufs
  /\ \A m, n \in Live(a) : data[a][m] = data[a][n] => m = n
  /\ Carried(a) \cap held[a] = {}

\* The buffers of a batch are different, and none has been given to an app yet
\* except the first one, to apps that have been visited.
BatchInv ==
  /\ \A i, j \in DOMAIN batch : batch[i] = batch[j] => i = j
  /\ \A a \in Apps : \A i \in DOMAIN batch :
       i > 1 \/ a \in iter \/ (rpc = "share" /\ rapp = a) => ~Has(a, batch[i])

FwInv ==
  /\ ElementInv
  /\ \A a \in Apps : CarryInv(a)
  /\ BatchInv
  /\ ref \in [Bufs -> Nat]
  /\ ReferencesCounted

-----------------------------------------------------------------------------
(***************************************************************************)
(* Who holds a message                                                     *)
(***************************************************************************)
CarriersAreLive ==
  \A b : /\ \A c \in Carriers(b) : \E a \in Apps : \E m \in Mbufs(a) : c = <<a, m>>
         /\ \A a \in Apps : \A m \in Mbufs(a) :
              <<a, m>> \in Carriers(b) <=> m \in Live(a) /\ data[a][m] = b

\* The carriers of a buffer are the live elements that point to it.
LEMMA CarriersOf == ElementInv => CarriersAreLive
<1> SUFFICES ASSUME ElementInv, NEW b
             PROVE  /\ \A c \in Carriers(b) :
                         \E a \in Apps : \E m \in Mbufs(a) : c = <<a, m>>
                    /\ \A a \in Apps : \A m \in Mbufs(a) :
                         <<a, m>> \in Carriers(b) <=> m \in Live(a) /\ data[a][m] = b
  BY DEF CarriersAreLive
<1> DEFINE Pairs == UNION {{a} \X Mbufs(a) : a \in Apps}
<1>1. \A c \in Pairs : \E a \in Apps : \E m \in Mbufs(a) : c = <<a, m>>
  OBVIOUS
<1>2. ASSUME NEW a \in Apps, NEW m \in Mbufs(a)
      PROVE  <<a, m>> \in Carriers(b) <=> m \in Live(a) /\ data[a][m] = b
  <2>1. <<a, m>> \in Pairs /\ <<a, m>>[1] = a /\ <<a, m>>[2] = m
    OBVIOUS
  <2>2. m # NoMbuf
    BY RingHasRoom DEF Mbufs, NoMbuf
  <2>3. <<a, m>> \in Carriers(b) <=>
          /\ data[a][m] = b
          /\ m \in Queued(a) \/ m = de[a] \/ (rpc = "enqueue" /\ rapp = a /\ rmbuf = m)
    BY <2>1 DEF Carriers
  <2> QED
    BY <2>2, <2>3 DEF Live, InApp
<1> QED
  BY <1>1, <1>2 DEF Carriers

FiniteHolders ==
  \A b : /\ IsFiniteSet(InBatch(b))
         /\ IsFiniteSet(Carriers(b))
         /\ IsFiniteSet(Receivers(b))

\* The holders of a buffer can be counted.
LEMMA HoldersFinite == ElementInv => FiniteHolders
<1> SUFFICES ASSUME ElementInv, NEW b
             PROVE  /\ IsFiniteSet(InBatch(b))
                    /\ IsFiniteSet(Carriers(b))
                    /\ IsFiniteSet(Receivers(b))
  BY DEF FiniteHolders
<1>1. IsFiniteSet(InBatch(b))
  <2>1. batch \in Seq(Bufs)
    BY DEF ElementInv, FwTypes, RouterTypes
  <2>2. Len(batch) \in Nat /\ DOMAIN batch = 1..Len(batch)
    BY <2>1
  <2>3. IsFiniteSet(1..Len(batch))
    BY <2>2, FS_Interval
  <2>4. InBatch(b) \in SUBSET (1..Len(batch))
    BY <2>2 DEF InBatch
  <2> QED
    BY <2>3, <2>4, FS_Subset
<1>2. IsFiniteSet(Carriers(b))
  <2>1. MaxAppQueueSize \in Nat
    BY DEF MaxAppQueueSize
  <2>2. IsFiniteSet(Apps) /\ IsFiniteSet(1..MaxAppQueueSize)
    BY <2>1, ForwardAssumption, FS_Interval
  <2>3. IsFiniteSet(Apps \X (1..MaxAppQueueSize))
    BY <2>2, FS_Product, Zenon
  <2>4. \A a \in Apps : Mbufs(a) \subseteq 1..MaxAppQueueSize
    <3> SUFFICES ASSUME NEW a \in Apps
                 PROVE  1..QueueSize[a] \subseteq 1..MaxAppQueueSize
      BY DEF Mbufs
    <3>1. QueueSize[a] \in 1..MaxAppQueueSize
      BY ForwardAssumption
    <3> QED
      BY <2>1, <3>1
  <2>5. Carriers(b) \in SUBSET (Apps \X (1..MaxAppQueueSize))
    BY <2>4, CarriersOf DEF CarriersAreLive
  <2> QED
    BY <2>3, <2>5, FS_Subset
<1>3. IsFiniteSet(Receivers(b))
  <2>1. Receivers(b) \in SUBSET Apps
    BY DEF Receivers
  <2> QED
    BY <2>1, ForwardAssumption, FS_Subset
<1> QED
  BY <1>1, <1>2, <1>3

\* Live elements point into the app's own memory.
LEMMA LiveElements ==
  ElementInv => \A a \in Apps : Live(a) \subseteq Mbufs(a)
BY DEF ElementInv, FwTypes, OfAppTypes, RouterTypes, PlaceInv, Live, InApp

\* What a step that keeps the messages where they are keeps
SameHolders ==
  /\ \A a \in Apps : CarryInv(a)'
  /\ \A a \in Apps : \A b : Has(a, b)' <=> Has(a, b)
  /\ \A b : Carriers(b)' = Carriers(b)
  /\ \A b : Receivers(b)' = Receivers(b)

LEMMA HoldersFrame ==
  ASSUME ElementInv, ElementInv', \A a \in Apps : CarryInv(a),
         \A a \in Apps : Live(a)' = Live(a), data' = data, held' = held
  PROVE  SameHolders
<1>1. \A a \in Apps : Carried(a)' = Carried(a)
  BY DEF Carried
<1>2. \A a \in Apps : CarryInv(a)'
  BY <1>1 DEF CarryInv
<1>3. \A a \in Apps : \A b : Has(a, b)' <=> Has(a, b)
  BY <1>1 DEF Has
<1>4. ASSUME NEW b PROVE Carriers(b)' = Carriers(b)
  <2>1. CarriersAreLive
    BY CarriersOf
  <2>2. CarriersAreLive'
    BY CarriersOf, PTL
  <2>3. \A a \in Apps : Mbufs(a)' = Mbufs(a)
    BY DEF Mbufs
  <2> QED
    BY <2>1, <2>2, <2>3 DEF CarriersAreLive
<1>5. \A b : Receivers(b)' = Receivers(b)
  BY DEF Receivers
<1> QED
  BY <1>2, <1>3, <1>4, <1>5 DEF SameHolders

\* Enqueueing and dequeueing move an element, which stays live.
LEMMA MovesKeepLive ==
  ASSUME ElementInv, Enqueue \/ \E a \in Apps : Dequeue(a)
  PROVE  \A a \in Apps : Live(a)' = Live(a)
<1>1. CASE Enqueue
  <2>1. PICK a \in Apps : a = rapp
    BY <1>1 DEF Enqueue, ElementInv, FwTypes, RouterTypes
  <2>2. Queued(a)' = Queued(a) \cup {rmbuf}
    BY <1>1, <2>1, EnqueueRing
  <2>3. /\ rpc = "enqueue" /\ rpc' = "apps" /\ de' = de /\ head' = head
        /\ \A c \in Apps \ {a} : slot'[c] = slot[c] /\ tail'[c] = tail[c]
    BY <1>1, <2>1 DEF Enqueue, appVars, ElementInv, FwTypes, Domains
  <2>4. \A c \in Apps \ {a} : Queued(c)' = Queued(c)
    BY <2>3, RingFrame
  <2> QED
    BY <2>1, <2>2, <2>3, <2>4 DEF Live, InApp
<1>2. ASSUME NEW a \in Apps, Dequeue(a)
      PROVE  \A c \in Apps : Live(c)' = Live(c)
  <2> DEFINE m == slot[a][head[a]]
  <2>1. m \in Queued(a) /\ Queued(a)' = Queued(a) \ {m}
    BY <1>2, DequeueRing
  <2>2. m # NoMbuf
    BY <2>1, RingHasRoom DEF ElementInv, PlaceInv, Mbufs, NoMbuf
  <2>3. /\ de[a] = NoMbuf /\ de'[a] = m /\ UNCHANGED <<rpc, rapp, rmbuf, tail>>
        /\ \A c \in Apps \ {a} : /\ slot'[c] = slot[c] /\ head'[c] = head[c]
                                 /\ de'[c] = de[c]
    BY <1>2 DEF Dequeue, routerVars, ElementInv, FwTypes, Domains
  <2>4. \A c \in Apps \ {a} : Queued(c)' = Queued(c)
    BY <2>3, RingFrame
  <2>5. Live(a)' = Live(a)
    BY <2>1, <2>2, <2>3 DEF Live, InApp
  <2>6. \A c \in Apps \ {a} : Live(c)' = Live(c)
    BY <2>3, <2>4 DEF Live, InApp
  <2> QED
    BY <2>5, <2>6
<1> QED
  BY <1>1, <1>2

\* The other steps of the router, but for sharing the buffer, touch no ring.
LEMMA RouterKeepsLive ==
  ASSUME ElementInv,
         \/ \E bufs \in Batches, apps \in SUBSET Apps : Arrive(bufs, apps)
         \/ \E a \in Apps : AllocEntry(a) \/ PoolEmpty(a)
         \/ ReleaseBuf
         \/ \E a \in Apps, b \in Bufs : AppRelease(a, b)
         \/ UNCHANGED vars
  PROVE  \A a \in Apps : Live(a)' = Live(a)
<1>1. UNCHANGED <<head, tail, slot, de>>
  BY DEF Arrive, AllocEntry, PoolEmpty, ReleaseBuf, AppRelease, vars, appVars,
         ringVars
<1>2. \/ rpc # "enqueue" /\ rpc' # "enqueue"
      \/ UNCHANGED <<rpc, rapp, rmbuf>>
  BY DEF Arrive, AllocEntry, PoolEmpty, ReleaseBuf, AppRelease, vars, routerVars
<1>3. \A a \in Apps : Queued(a)' = Queued(a)
  BY <1>1, RingFrame
<1> QED
  BY <1>1, <1>2, <1>3 DEF Live, InApp

-----------------------------------------------------------------------------
(***************************************************************************)
(* Reference counts                                                        *)
(***************************************************************************)
BatchCounted ==
  \A b : Cardinality(InBatch(b)) = IF \E i \in DOMAIN batch : batch[i] = b
                                   THEN 1 ELSE 0

\* A buffer is at most once in a batch.
LEMMA CountInBatch == BatchInv => BatchCounted
<1> SUFFICES ASSUME BatchInv, NEW b
             PROVE  Cardinality(InBatch(b)) = IF \E i \in DOMAIN batch : batch[i] = b
                                              THEN 1 ELSE 0
  BY DEF BatchCounted
<1>1. CASE \E i \in DOMAIN batch : batch[i] = b
  <2>1. PICK i \in DOMAIN batch : batch[i] = b
    BY <1>1
  <2>2. InBatch(b) = {i}
    BY <2>1 DEF InBatch, BatchInv
  <2> QED
    BY <1>1, <2>2, FS_Singleton
<1>2. CASE ~ \E i \in DOMAIN batch : batch[i] = b
  <2>1. InBatch(b) = {}
    BY <1>2 DEF InBatch
  <2> QED
    BY <1>2, <2>1, FS_EmptySet
<1> QED
  BY <1>1, <1>2

\* The three counts are numbers.
LEMMA CountTypes ==
  ASSUME ElementInv, NEW b
  PROVE  /\ Cardinality(InBatch(b)) \in Nat
         /\ Cardinality(Carriers(b)) \in Nat
         /\ Cardinality(Receivers(b)) \in Nat
BY HoldersFinite, FS_CardinalityType DEF FiniteHolders

\* A buffer without references is in no batch and with no app.
LEMMA Unreferenced ==
  ASSUME FwInv, NEW b \in Bufs, ref[b] = 0
  PROVE  /\ Cardinality(InBatch(b)) = 0
         /\ Cardinality(Carriers(b)) = 0
         /\ Cardinality(Receivers(b)) = 0
         /\ \A a \in Apps : ~Has(a, b)
<1>1. /\ Cardinality(InBatch(b)) = 0
      /\ Cardinality(Carriers(b)) = 0
      /\ Cardinality(Receivers(b)) = 0
  BY CountTypes DEF FwInv, ReferencesCounted
<1>2. Carriers(b) = {} /\ Receivers(b) = {}
  BY <1>1, HoldersFinite, FS_EmptySet DEF FwInv, FiniteHolders
<1>3. ASSUME NEW a \in Apps, b \in Carried(a)
      PROVE  FALSE
  <2>1. PICK m \in Live(a) : data[a][m] = b
    BY <1>3 DEF Carried
  <2>2. m \in Mbufs(a)
    BY LiveElements DEF FwInv
  <2>3. <<a, m>> \in Carriers(b)
    BY <2>1, <2>2, CarriersOf DEF FwInv, CarriersAreLive
  <2> QED
    BY <1>2, <2>3
<1> QED
  BY <1>1, <1>2, <1>3 DEF Has, Receivers

\* A batch arrives: the router has the only reference to each of its buffers.
LEMMA ArriveStep ==
  ASSUME FwInv, ElementInv',
         NEW bufs \in Batches, NEW apps \in SUBSET Apps, Arrive(bufs, apps)
  PROVE  FwInv'
<1>1. SameHolders
  BY RouterKeepsLive, HoldersFrame DEF FwInv, Arrive, appVars, ringVars
<1>2. /\ \A i \in DOMAIN bufs : bufs[i] \in Bufs /\ ref[bufs[i]] = 0
      /\ \A i, j \in DOMAIN bufs : bufs[i] = bufs[j] => i = j
      /\ batch' = bufs /\ batch = <<>>
      /\ ref' = [b \in Bufs |-> IF \E i \in DOMAIN bufs : bufs[i] = b THEN 1 ELSE ref[b]]
  BY DEF Arrive, Batches, FwInv, ElementInv, FwTypes, RouterTypes
<1>3. BatchInv'
  BY <1>1, <1>2, Unreferenced DEF BatchInv, SameHolders
<1>4. ref' \in [Bufs -> Nat]
  BY <1>2 DEF FwInv
<1>5. ASSUME NEW b \in Bufs
      PROVE  ref'[b] = Cardinality(InBatch(b)') + Cardinality(Carriers(b)')
                       + Cardinality(Receivers(b)')
  <2>1. Cardinality(InBatch(b)') = IF \E i \in DOMAIN bufs : bufs[i] = b THEN 1 ELSE 0
    <3>1. BatchCounted'
      BY <1>3, CountInBatch, PTL
    <3> QED
      BY <1>2, <3>1 DEF BatchCounted
  <2>2. Carriers(b)' = Carriers(b) /\ Receivers(b)' = Receivers(b)
    BY <1>1 DEF SameHolders
  <2>3. CASE \E i \in DOMAIN bufs : bufs[i] = b
    BY <1>2, <2>1, <2>2, <2>3, Unreferenced
  <2>4. CASE ~ \E i \in DOMAIN bufs : bufs[i] = b
    <3>1. Cardinality(InBatch(b)) = 0
      BY <1>2, CountInBatch DEF FwInv, BatchCounted
    <3> QED
      BY <1>2, <2>1, <2>2, <2>4, <3>1 DEF FwInv, ReferencesCounted
  <2> QED
    BY <2>3, <2>4
<1>6. ReferencesCounted'
  BY <1>5 DEF ReferencesCounted
<1> QED
  BY <1>1, <1>3, <1>4, <1>6 DEF FwInv, SameHolders

\* The steps that touch neither the batch nor a reference
LEMMA KeepStep ==
  ASSUME FwInv, ElementInv',
         \/ \E a \in Apps : AllocEntry(a) \/ PoolEmpty(a) \/ Dequeue(a)
         \/ Enqueue
         \/ UNCHANGED vars
  PROVE  FwInv'
<1>1. data' = data /\ held' = held /\ ref' = ref /\ batch' = batch
  BY DEF AllocEntry, PoolEmpty, Dequeue, Enqueue, vars, appVars, ringVars, routerVars
<1>2. SameHolders
  BY <1>1, RouterKeepsLive, MovesKeepLive, HoldersFrame DEF FwInv
<1>3. ASSUME NEW a \in Apps,
             a \in iter' \/ (rpc' = "share" /\ rapp' = a)
      PROVE  a \in iter \/ (rpc = "share" /\ rapp = a)
  BY <1>3 DEF AllocEntry, PoolEmpty, Dequeue, Enqueue, vars, routerVars
<1>4. BatchInv'
  BY <1>1, <1>2, <1>3 DEF FwInv, BatchInv, SameHolders
<1>5. \A b : InBatch(b)' = InBatch(b)
  BY <1>1 DEF InBatch
<1>6. ReferencesCounted'
  BY <1>1, <1>2, <1>5 DEF FwInv, ReferencesCounted, SameHolders
<1> QED
  BY <1>1, <1>2, <1>4, <1>6 DEF FwInv, SameHolders

\* Two sets of elements that have the same members are equal.
LEMMA SamePairs ==
  ASSUME NEW S, NEW T,
         \A p \in S : \E a \in Apps : \E m \in Mbufs(a) : p = <<a, m>>,
         \A p \in T : \E a \in Apps : \E m \in Mbufs(a) : p = <<a, m>>,
         \A a \in Apps : \A m \in Mbufs(a) : <<a, m>> \in S <=> <<a, m>> \in T
  PROVE  S = T
<1>1. ASSUME NEW p \in S PROVE p \in T
  OBVIOUS
<1>2. ASSUME NEW p \in T PROVE p \in S
  OBVIOUS
<1> QED
  BY <1>1, <1>2

\* jbpf_io_channel_share_data_ptr: a reference more and a carrier more
LEMMA ShareStep ==
  ASSUME FwInv, ElementInv', Share
  PROVE  FwInv'
<1>0. PICK b : b = Head(batch)
  OBVIOUS
<1>1. PICK a \in Apps : a = rapp
  BY DEF Share, FwInv, ElementInv, FwTypes, RouterTypes
<1>2. /\ rmbuf \in Mbufs(a) /\ 1 \in DOMAIN batch /\ b = batch[1] /\ b \in Bufs
      /\ a \notin iter
  BY <1>0, <1>1 DEF Share, FwInv, ElementInv, FwTypes, RouterTypes
<1>3. /\ data'[a] = [data[a] EXCEPT ![rmbuf] = b]
      /\ \A c \in Apps \ {a} : data'[c] = data[c]
      /\ ref' = [ref EXCEPT ![b] = @ + 1]
      /\ rpc = "share" /\ rpc' = "enqueue"
      /\ UNCHANGED <<head, de, held, pool, slot, tail, batch, iter, rapp, rmbuf>>
  BY <1>0, <1>1 DEF Share, appVars, FwInv, ElementInv, FwTypes, Domains
<1>4. \A c \in Apps : Queued(c)' = Queued(c)
  BY <1>3, RingFrame
<1>5. /\ Live(a)' = Live(a) \cup {rmbuf}
      /\ rmbuf \notin Live(a)
      /\ \A c \in Apps \ {a} : Live(c)' = Live(c)
  BY <1>1, <1>3, <1>4 DEF Live, InApp, FwInv, ElementInv, PlaceInv, InRouter
<1>6. \A m \in Live(a) : data'[a][m] = data[a][m]
  BY <1>3, <1>5, LiveElements DEF FwInv, ElementInv, FwTypes, OfAppTypes
<1>7. data'[a][rmbuf] = b
  BY <1>2, <1>3 DEF FwInv, ElementInv, FwTypes, OfAppTypes
<1>8. /\ Carried(a)' = Carried(a) \cup {b}
      /\ \A c \in Apps \ {a} : Carried(c)' = Carried(c)
  BY <1>3, <1>5, <1>6, <1>7 DEF Carried
<1>9. ~Has(a, b)
  BY <1>1, <1>2, <1>3 DEF FwInv, BatchInv
<1>10. CarryInv(a)'
  <2>1. held'[a] \subseteq Bufs /\ Carried(a)' \subseteq Bufs /\ Carried(a)' \cap held'[a] = {}
    BY <1>2, <1>3, <1>8, <1>9 DEF FwInv, CarryInv, Has
  <2>2. \A m \in Live(a) : data[a][m] # b
    BY <1>9 DEF Has, Carried
  <2>3. \A m, n \in Live(a)' : data'[a][m] = data'[a][n] => m = n
    BY <1>5, <1>6, <1>7, <2>2 DEF FwInv, CarryInv
  <2> QED
    BY <2>1, <2>3 DEF CarryInv
<1>11. \A c \in Apps \ {a} : CarryInv(c)'
  BY <1>3, <1>5, <1>8 DEF FwInv, CarryInv
<1>12. BatchInv'
  <2>1. \A c \in Apps : \A d : d # b \/ c # a => (Has(c, d)' <=> Has(c, d))
    BY <1>3, <1>8 DEF Has
  <2>2. \A i \in DOMAIN batch : i > 1 => batch[i] # b
    BY <1>2 DEF FwInv, BatchInv
  <2> QED
    BY <1>2, <1>3, <2>1, <2>2 DEF FwInv, BatchInv
<1>13. ref' \in [Bufs -> Nat]
  BY <1>2, <1>3 DEF FwInv
<1>14. /\ Carriers(b)' = Carriers(b) \cup {<<a, rmbuf>>}
       /\ <<a, rmbuf>> \notin Carriers(b)
       /\ \A d : d # b => Carriers(d)' = Carriers(d)
  <2>1. CarriersAreLive
    BY CarriersOf DEF FwInv
  <2>2. CarriersAreLive'
    BY CarriersOf, PTL
  <2>3. \A c \in Apps : Mbufs(c)' = Mbufs(c)
    BY DEF Mbufs
  <2>4. \A c \in Apps : \A m \in Mbufs(c) : \A d :
          (m \in Live(c) /\ data[c][m] = d) \/ (c = a /\ m = rmbuf /\ d = b)
          <=> m \in Live(c)' /\ data'[c][m] = d
    <3> SUFFICES ASSUME NEW c \in Apps, NEW m \in Mbufs(c), NEW d
                 PROVE  (m \in Live(c) /\ data[c][m] = d)
                          \/ (c = a /\ m = rmbuf /\ d = b)
                        <=> m \in Live(c)' /\ data'[c][m] = d
      OBVIOUS
    <3>1. CASE c = a /\ m = rmbuf
      BY <1>5, <1>7, <3>1, Zenon
    <3>2. CASE c = a /\ m # rmbuf
      BY <1>5, <1>6, <3>2, Zenon
    <3>3. CASE c # a
      BY <1>3, <1>5, <3>3, Zenon
    <3> QED
      BY <3>1, <3>2, <3>3, Zenon
  <2>5. \A d : \A c \in Apps : \A m \in Mbufs(c) :
          <<c, m>> \in Carriers(d)' <=>
            <<c, m>> \in Carriers(d) \/ (c = a /\ m = rmbuf /\ d = b)
    <3> SUFFICES ASSUME NEW d, NEW c \in Apps, NEW m \in Mbufs(c)
                 PROVE  <<c, m>> \in Carriers(d)' <=>
                          <<c, m>> \in Carriers(d) \/ (c = a /\ m = rmbuf /\ d = b)
      BY Zenon
    <3>1. <<c, m>> \in Carriers(d) <=> m \in Live(c) /\ data[c][m] = d
      BY <2>1 DEF CarriersAreLive
    <3>2. <<c, m>> \in Carriers(d)' <=> m \in Live(c)' /\ data'[c][m] = d
      BY <2>2, <2>3 DEF CarriersAreLive
    <3> QED
      BY <3>1, <3>2, <2>4
  <2>6. \A d : \A p : p \in Carriers(d) \/ p \in Carriers(d)' =>
          \E c \in Apps : \E m \in Mbufs(c) : p = <<c, m>>
    BY <2>1, <2>2, <2>3 DEF CarriersAreLive
  <2>7. <<a, rmbuf>> \notin Carriers(b)
    BY <1>2, <1>5, <2>1 DEF CarriersAreLive
  <2>8. Carriers(b)' = Carriers(b) \cup {<<a, rmbuf>>}
    <3>1. \A c \in Apps : \A m \in Mbufs(c) : <<c, m>> = <<a, rmbuf>> <=> c = a /\ m = rmbuf
      OBVIOUS
    <3>2. \A c \in Apps : \A m \in Mbufs(c) :
            <<c, m>> \in Carriers(b)' <=> <<c, m>> \in Carriers(b) \cup {<<a, rmbuf>>}
      <4> SUFFICES ASSUME NEW c \in Apps, NEW m \in Mbufs(c)
                   PROVE  <<c, m>> \in Carriers(b)' <=>
                            <<c, m>> \in Carriers(b) \cup {<<a, rmbuf>>}
        BY Zenon
      <4>1. <<c, m>> \in Carriers(b)' <=>
              <<c, m>> \in Carriers(b) \/ (c = a /\ m = rmbuf)
        BY <2>5
      <4> QED
        BY <3>1, <4>1
    <3>3. \A p \in Carriers(b) \cup {<<a, rmbuf>>} :
            \E c \in Apps : \E m \in Mbufs(c) : p = <<c, m>>
      BY <1>2, <2>6
    <3> QED
      BY <2>6, <3>2, <3>3, SamePairs
  <2>9. \A d : d # b => Carriers(d)' = Carriers(d)
    <3> SUFFICES ASSUME NEW d, d # b PROVE Carriers(d)' = Carriers(d)
      OBVIOUS
    <3>1. \A c \in Apps : \A m \in Mbufs(c) :
            <<c, m>> \in Carriers(d)' <=> <<c, m>> \in Carriers(d)
      BY <2>5, Zenon
    <3> QED
      BY <2>6, <3>1, SamePairs
  <2> QED
    BY <2>7, <2>8, <2>9
<1>15. \A d : InBatch(d)' = InBatch(d) /\ Receivers(d)' = Receivers(d)
  BY <1>3 DEF InBatch, Receivers
<1>16. ReferencesCounted'
  <2>1. Cardinality(Carriers(b)') = Cardinality(Carriers(b)) + 1
    BY <1>14, HoldersFinite, FS_AddElement, Zenon DEF FwInv, FiniteHolders
  <2>2. ASSUME NEW d \in Bufs
        PROVE  ref'[d] = Cardinality(InBatch(d)') + Cardinality(Carriers(d)')
                         + Cardinality(Receivers(d)')
    <3>1. CASE d = b
      BY <1>2, <1>3, <1>15, <2>1, <3>1, CountTypes DEF FwInv, ReferencesCounted
    <3>2. CASE d # b
      BY <1>2, <1>3, <1>14, <1>15, <3>2 DEF FwInv, ReferencesCounted
    <3> QED
      BY <3>1, <3>2
  <2> QED
    BY <2>2 DEF ReferencesCounted
<1> QED
  BY <1>10, <1>11, <1>12, <1>13, <1>16 DEF FwInv

\* The router drops its own reference and goes on with the next buffer.
LEMMA ReleaseBufStep ==
  ASSUME FwInv, ElementInv', ReleaseBuf
  PROVE  FwInv'
<1> DEFINE b == Head(batch)
<1>1. SameHolders
  BY RouterKeepsLive, HoldersFrame DEF FwInv, ReleaseBuf, appVars, ringVars
<1>2. batch \in Seq(Bufs) /\ batch # <<>>
  BY DEF FwInv, ElementInv, FwTypes, RouterTypes, ReleaseBuf
<1>3. /\ 1 \in DOMAIN batch /\ b = batch[1] /\ b \in Bufs
      /\ DOMAIN batch = 1..Len(batch) /\ Len(batch) \in Nat
      /\ DOMAIN batch' = 1..Len(batch) - 1
      /\ \A i \in DOMAIN batch' : i + 1 \in DOMAIN batch /\ batch'[i] = batch[i + 1]
  BY <1>2 DEF ReleaseBuf
<1>4. /\ \A i, j \in DOMAIN batch' : batch'[i] = batch'[j] => i = j
      /\ \A i \in DOMAIN batch' : i + 1 > 1 /\ i + 1 # 1
  BY <1>3 DEF FwInv, BatchInv
<1>5. BatchInv'
  BY <1>1, <1>3, <1>4 DEF FwInv, BatchInv, SameHolders
<1>6. ref' = [ref EXCEPT ![b] = @ - 1]
  BY DEF ReleaseBuf
<1>7. \A d : Cardinality(InBatch(d)') = IF d = b THEN 0 ELSE Cardinality(InBatch(d))
  <2>1. BatchCounted
    BY CountInBatch DEF FwInv
  <2>2. BatchCounted'
    BY <1>5, CountInBatch, PTL
  <2>3. \A i \in DOMAIN batch' : batch'[i] # b
    BY <1>3, <1>4 DEF FwInv, BatchInv
  <2>4. \A d : d # b => ((\E i \in DOMAIN batch : batch[i] = d)
                         <=> (\E i \in DOMAIN batch' : batch'[i] = d))
    <3>1. ASSUME NEW i \in DOMAIN batch, batch[i] # b
          PROVE  \E j \in DOMAIN batch' : batch'[j] = batch[i]
      <4>1. i \in 1..Len(batch) /\ i # 1
        BY <1>3, <3>1
      <4>2. i - 1 \in DOMAIN batch' /\ (i - 1) + 1 = i
        BY <1>3, <4>1
      <4> QED
        BY <1>3, <4>2
    <3> QED
      BY <1>3, <3>1
  <2> QED
    BY <2>1, <2>2, <2>3, <2>4 DEF BatchCounted
<1>8. Cardinality(InBatch(b)) = 1
  BY <1>3, CountInBatch DEF FwInv, BatchCounted
<1>9. ASSUME NEW d \in Bufs
      PROVE  /\ ref'[d] \in Nat
             /\ ref'[d] = Cardinality(InBatch(d)') + Cardinality(Carriers(d)')
                          + Cardinality(Receivers(d)')
  <2>1. Carriers(d)' = Carriers(d) /\ Receivers(d)' = Receivers(d)
    BY <1>1 DEF SameHolders
  <2>2. CASE d = b
    BY <1>3, <1>6, <1>7, <1>8, <2>1, <2>2, CountTypes DEF FwInv, ReferencesCounted
  <2>3. CASE d # b
    BY <1>3, <1>6, <1>7, <2>1, <2>3 DEF FwInv, ReferencesCounted
  <2> QED
    BY <2>2, <2>3
<1>10. ref' \in [Bufs -> Nat]
  BY <1>6, <1>9, Zenon DEF FwInv
<1>11. ReferencesCounted'
  BY <1>9 DEF ReferencesCounted
<1> QED
  BY <1>1, <1>5, <1>10, <1>11 DEF FwInv, SameHolders

\* jrtc_router_receive copies the entry: the element's reference becomes the
\* app's.
LEMMA CopyStep ==
  ASSUME FwInv, ElementInv', NEW a \in Apps, CopyAndFree(a)
  PROVE  FwInv'
<1>0. PICK e, b : e = de[a] /\ b = data[a][e]
  OBVIOUS
<1>1. /\ e \in Mbufs(a) /\ e # NoMbuf /\ de'[a] = NoMbuf
      /\ data'[a] = [data[a] EXCEPT ![e] = NoBuf]
      /\ held'[a] = held[a] \cup {b}
      /\ \A c \in Apps \ {a} : data'[c] = data[c] /\ de'[c] = de[c] /\ held'[c] = held[c]
      /\ UNCHANGED <<head, slot, tail, ref, rpc, batch, iter, rapp, rmbuf>>
  BY <1>0 DEF CopyAndFree, routerVars, FwInv, ElementInv, FwTypes, Domains,
              OfAppTypes
<1>2. \A c \in Apps : Queued(c)' = Queued(c)
  BY <1>1, RingFrame, Zenon
<1>3. /\ e \in Live(a)
      /\ Live(a)' = Live(a) \ {e}
      /\ \A c \in Apps \ {a} : Live(c)' = Live(c)
  <2>1. e \in InApp(a) /\ InApp(a)' = {} /\ InApp(a) = {e}
    BY <1>0, <1>1, Zenon DEF InApp
  <2>2. e \notin Queued(a) /\ (rapp = a => rmbuf # e)
    BY <2>1 DEF FwInv, ElementInv, PlaceInv, InRouter
  <2>3. e \in Live(a) /\ Live(a)' = Live(a) \ {e}
    BY <1>1, <1>2, <2>1, <2>2, Zenon DEF Live
  <2>4. \A c \in Apps \ {a} : InApp(c)' = InApp(c)
    BY <1>1, Zenon DEF InApp
  <2>5. \A c \in Apps \ {a} : Live(c)' = Live(c)
    BY <1>1, <1>2, <2>4, Zenon DEF Live
  <2> QED
    BY <2>3, <2>5
<1>4. \A m \in Live(a)' : data'[a][m] = data[a][m]
  BY <1>1, <1>3, LiveElements, Zenon DEF FwInv, ElementInv, FwTypes, OfAppTypes
<1>5. b \in Bufs /\ b \in Carried(a) /\ b \notin held[a]
  BY <1>0, <1>3 DEF FwInv, CarryInv, Carried
<1>6. /\ Carried(a)' = Carried(a) \ {b}
      /\ \A c \in Apps \ {a} : Carried(c)' = Carried(c)
  <2>1. Carried(a)' = Carried(a) \ {b}
    BY <1>0, <1>3, <1>4 DEF Carried, FwInv, CarryInv
  <2>2. \A c \in Apps \ {a} : data'[c] = data[c] /\ Live(c)' = Live(c)
    BY <1>1, <1>3, Zenon
  <2>3. \A c \in Apps \ {a} : Carried(c)' = Carried(c)
    BY <2>2 DEF Carried
  <2> QED
    BY <2>1, <2>3, Zenon
<1>7. \A c \in Apps : CarryInv(c)'
  <2>1. CarryInv(a)'
    BY <1>1, <1>3, <1>4, <1>5, <1>6 DEF FwInv, CarryInv
  <2>2. \A c \in Apps \ {a} : CarryInv(c)'
    BY <1>1, <1>3, <1>6 DEF FwInv, CarryInv
  <2> QED
    BY <2>1, <2>2
<1>8. \A c \in Apps : \A d : Has(c, d)' <=> Has(c, d)
  BY <1>1, <1>5, <1>6 DEF Has
<1>9. BatchInv'
  BY <1>1, <1>8 DEF FwInv, BatchInv
<1>10. /\ Carriers(b)' = Carriers(b) \ {<<a, e>>}
       /\ <<a, e>> \in Carriers(b)
       /\ \A d : d # b => Carriers(d)' = Carriers(d)
  <2>1. CarriersAreLive
    BY CarriersOf DEF FwInv
  <2>2. CarriersAreLive'
    BY CarriersOf, PTL
  <2>3. \A c \in Apps : Mbufs(c)' = Mbufs(c)
    BY DEF Mbufs
  <2>4. ASSUME NEW c \in Apps, NEW m \in Mbufs(c), NEW d
        PROVE  m \in Live(c)' /\ data'[c][m] = d <=>
                 m \in Live(c) /\ data[c][m] = d /\ ~(c = a /\ m = e)
    BY <1>1, <1>3, <1>4, Zenon
  <2>5. ASSUME NEW d, NEW c \in Apps, NEW m \in Mbufs(c)
        PROVE  <<c, m>> \in Carriers(d)' <=>
                 <<c, m>> \in Carriers(d) /\ ~(c = a /\ m = e)
    <3>1. <<c, m>> \in Carriers(d) <=> m \in Live(c) /\ data[c][m] = d
      BY <2>1 DEF CarriersAreLive
    <3>2. <<c, m>> \in Carriers(d)' <=> m \in Live(c)' /\ data'[c][m] = d
      BY <2>2, <2>3 DEF CarriersAreLive
    <3> QED
      BY <3>1, <3>2, <2>4
  <2>6. \A d : \A p : p \in Carriers(d) \/ p \in Carriers(d)' =>
          \E c \in Apps : \E m \in Mbufs(c) : p = <<c, m>>
    BY <2>1, <2>2, <2>3 DEF CarriersAreLive
  <2>7. \A d : <<a, e>> \in Carriers(d) <=> d = b
    <3>1. e \in Mbufs(a) /\ data[a][e] = b
      BY <1>0, <1>3, LiveElements DEF FwInv
    <3>2. \A d : <<a, e>> \in Carriers(d) <=> e \in Live(a) /\ data[a][e] = d
      BY <2>1, <3>1 DEF CarriersAreLive
    <3> QED
      BY <1>3, <3>1, <3>2
  <2>8. \A c \in Apps : \A m \in Mbufs(c) : <<c, m>> = <<a, e>> <=> c = a /\ m = e
    OBVIOUS
  <2>9. Carriers(b)' = Carriers(b) \ {<<a, e>>}
    <3>1. ASSUME NEW c \in Apps, NEW m \in Mbufs(c)
          PROVE  <<c, m>> \in Carriers(b)' <=> <<c, m>> \in Carriers(b) \ {<<a, e>>}
      <4>1. <<c, m>> \in Carriers(b)' <=>
              <<c, m>> \in Carriers(b) /\ ~(c = a /\ m = e)
        BY <2>5
      <4> QED
        BY <2>8, <4>1
    <3>2. \A p \in Carriers(b) \ {<<a, e>>} :
            \E c \in Apps : \E m \in Mbufs(c) : p = <<c, m>>
      BY <2>6
    <3> QED
      BY <2>6, <3>1, <3>2, SamePairs
  <2>10. ASSUME NEW d, d # b PROVE Carriers(d)' = Carriers(d)
    <3>1. ASSUME NEW c \in Apps, NEW m \in Mbufs(c)
          PROVE  <<c, m>> \in Carriers(d)' <=> <<c, m>> \in Carriers(d)
      <4>1. ~(c = a /\ m = e /\ <<c, m>> \in Carriers(d))
        BY <2>7, <2>10
      <4> QED
        BY <2>5, <4>1
    <3> QED
      BY <2>6, <3>1, SamePairs
  <2> QED
    BY <2>7, <2>9, <2>10
<1>11. /\ \A d : InBatch(d)' = InBatch(d)
       /\ Receivers(b)' = Receivers(b) \cup {a}
       /\ a \notin Receivers(b)
       /\ \A d : d # b => Receivers(d)' = Receivers(d)
  BY <1>1, <1>5 DEF InBatch, Receivers
<1>12. ReferencesCounted'
  <2>1. /\ Cardinality(Carriers(b)') = Cardinality(Carriers(b)) - 1
        /\ Cardinality(Receivers(b)') = Cardinality(Receivers(b)) + 1
    <3>1. IsFiniteSet(Carriers(b)) /\ IsFiniteSet(Receivers(b))
      BY HoldersFinite DEF FwInv, FiniteHolders
    <3>2. Cardinality(Carriers(b)') = Cardinality(Carriers(b)) - 1
      BY <1>10, <3>1, FS_RemoveElement, Zenon
    <3>3. Cardinality(Receivers(b)') = Cardinality(Receivers(b)) + 1
      BY <1>11, <3>1, FS_AddElement, Zenon
    <3> QED
      BY <3>2, <3>3
  <2>2. ASSUME NEW d \in Bufs
        PROVE  ref'[d] = Cardinality(InBatch(d)') + Cardinality(Carriers(d)')
                         + Cardinality(Receivers(d)')
    <3>1. CASE d = b
      <4>1. /\ Cardinality(InBatch(b)) \in Nat
            /\ Cardinality(Carriers(b)) \in Nat
            /\ Cardinality(Receivers(b)) \in Nat
        BY CountTypes DEF FwInv
      <4>2. ref'[b] = Cardinality(InBatch(b)) + Cardinality(Carriers(b))
                      + Cardinality(Receivers(b))
        BY <1>1, <1>5 DEF FwInv, ReferencesCounted
      <4>3. InBatch(b)' = InBatch(b)
        BY <1>11
      <4> QED
        BY <2>1, <3>1, <4>1, <4>2, <4>3
    <3>2. CASE d # b
      BY <1>1, <1>10, <1>11, <3>2 DEF FwInv, ReferencesCounted
    <3> QED
      BY <3>1, <3>2
  <2> QED
    BY <2>2 DEF ReferencesCounted
<1> QED
  BY <1>1, <1>7, <1>9, <1>12 DEF FwInv

\* jrtc_router_channel_release_buf: a reference less and a receiver less
LEMMA AppReleaseStep ==
  ASSUME FwInv, ElementInv', NEW a \in Apps, NEW b \in Bufs, AppRelease(a, b)
  PROVE  FwInv'
<1>1. /\ b \in held[a] /\ held'[a] = held[a] \ {b}
      /\ \A c \in Apps \ {a} : held'[c] = held[c]
      /\ ref' = [ref EXCEPT ![b] = @ - 1]
      /\ UNCHANGED <<data, rpc, batch, iter, rapp>>
  BY DEF AppRelease, ringVars, routerVars, FwInv, ElementInv, FwTypes, Domains
<1>2. \A c \in Apps : Live(c)' = Live(c)
  BY RouterKeepsLive DEF FwInv
<1>3. \A c \in Apps : Carried(c)' = Carried(c)
  BY <1>1, <1>2 DEF Carried
<1>4. \A c \in Apps : CarryInv(c)'
  BY <1>1, <1>2, <1>3 DEF FwInv, CarryInv
<1>5. \A c \in Apps : \A d : Has(c, d)' => Has(c, d)
  BY <1>1, <1>3 DEF Has
<1>6. BatchInv'
  BY <1>1, <1>5 DEF FwInv, BatchInv
<1>7. ASSUME NEW d PROVE Carriers(d)' = Carriers(d)
  <2>1. CarriersAreLive
    BY CarriersOf DEF FwInv
  <2>2. CarriersAreLive'
    BY CarriersOf, PTL
  <2>3. \A c \in Apps : Mbufs(c)' = Mbufs(c)
    BY DEF Mbufs
  <2>4. \A c \in Apps : \A m \in Mbufs(c) :
          <<c, m>> \in Carriers(d)' <=> <<c, m>> \in Carriers(d)
    <3> SUFFICES ASSUME NEW c \in Apps, NEW m \in Mbufs(c)
                 PROVE  <<c, m>> \in Carriers(d)' <=> <<c, m>> \in Carriers(d)
      BY Zenon
    <3>1. <<c, m>> \in Carriers(d) <=> m \in Live(c) /\ data[c][m] = d
      BY <2>1 DEF CarriersAreLive
    <3>2. <<c, m>> \in Carriers(d)' <=> m \in Live(c)' /\ data'[c][m] = d
      BY <2>2, <2>3 DEF CarriersAreLive
    <3> QED
      BY <1>1, <1>2, <3>1, <3>2
  <2>5. \A p : p \in Carriers(d) \/ p \in Carriers(d)' =>
          \E c \in Apps : \E m \in Mbufs(c) : p = <<c, m>>
    BY <2>1, <2>2, <2>3 DEF CarriersAreLive
  <2> QED
    BY <2>4, <2>5, SamePairs
<1>8. /\ \A d : InBatch(d)' = InBatch(d)
      /\ Receivers(b)' = Receivers(b) \ {a}
      /\ a \in Receivers(b)
      /\ \A d : d # b => Receivers(d)' = Receivers(d)
  BY <1>1 DEF InBatch, Receivers
<1>9. /\ Cardinality(Receivers(b)') = Cardinality(Receivers(b)) - 1
      /\ Cardinality(Receivers(b)') \in Nat
  BY <1>8, HoldersFinite, FS_RemoveElement, FS_CardinalityType
     DEF FwInv, FiniteHolders
<1>10. ASSUME NEW d \in Bufs
       PROVE  /\ ref'[d] \in Nat
              /\ ref'[d] = Cardinality(InBatch(d)') + Cardinality(Carriers(d)')
                           + Cardinality(Receivers(d)')
  <2>1. CASE d = b
    <3>1. /\ Cardinality(InBatch(b)) \in Nat
          /\ Cardinality(Carriers(b)) \in Nat
          /\ Cardinality(Receivers(b)) \in Nat
      BY CountTypes DEF FwInv
    <3>2. ref[b] = Cardinality(InBatch(b)) + Cardinality(Carriers(b))
                   + Cardinality(Receivers(b))
      BY DEF FwInv, ReferencesCounted
    <3>4. ref'[b] = ref[b] - 1
      BY <1>1 DEF FwInv
    <3>3. InBatch(b)' = InBatch(b) /\ Carriers(b)' = Carriers(b)
      BY <1>7, <1>8
    <3> QED
      BY <1>9, <2>1, <3>1, <3>2, <3>3, <3>4
  <2>2. CASE d # b
    BY <1>1, <1>7, <1>8, <2>2 DEF FwInv, ReferencesCounted
  <2> QED
    BY <2>1, <2>2
<1>11. ref' \in [Bufs -> Nat]
  BY <1>1, <1>10 DEF FwInv
<1>12. ReferencesCounted'
  BY <1>10 DEF ReferencesCounted
<1> QED
  BY <1>4, <1>6, <1>11, <1>12 DEF FwInv

\* At the start nothing is referenced.
LEMMA FwInitially == Init => FwInv
<1> SUFFICES ASSUME Init PROVE FwInv
  OBVIOUS
<1>1. ElementInv
  BY ElementsInitially
<1>2. \A a \in Apps : Queued(a) = {} /\ InApp(a) = {} /\ held[a] = {}
  <2>1. ASSUME NEW a \in Apps PROVE Queued(a) = {}
    <3>1. PlaceInv(a) /\ pool[a] = Mbufs(a)
      BY <1>1 DEF ElementInv, Init
    <3> QED
      BY <3>1 DEF PlaceInv
  <2> QED
    BY <2>1 DEF Init, InApp
<1>3. \A a \in Apps : Live(a) = {}
  BY <1>2 DEF Live, Init
<1>4. \A a \in Apps : CarryInv(a)
  BY <1>2, <1>3 DEF CarryInv, Carried
<1>5. BatchInv
  BY DEF BatchInv, Init
<1>6. ReferencesCounted
  <2>1. ASSUME NEW b \in Bufs
        PROVE  InBatch(b) = {} /\ Carriers(b) = {} /\ Receivers(b) = {}
    BY <1>1, <1>2, <1>3, CarriersOf DEF CarriersAreLive, InBatch, Receivers, Init
  <2> QED
    <3>1. ASSUME NEW b \in Bufs
          PROVE  ref[b] = Cardinality(InBatch(b)) + Cardinality(Carriers(b))
                          + Cardinality(Receivers(b))
      <4>1. Cardinality({}) = 0
        BY FS_EmptySet
      <4>2. ref[b] = 0
        BY DEF Init
      <4> QED
        BY <2>1, <4>1, <4>2
    <3> QED
      BY <3>1 DEF ReferencesCounted
<1>7. ref \in [Bufs -> Nat]
  BY DEF Init
<1> QED
  BY <1>1, <1>4, <1>5, <1>6, <1>7 DEF FwInv

\* Every step keeps the invariant.
LEMMA FwPreserved ==
  ASSUME FwInv, [Next]_vars
  PROVE  FwInv'
<1>1. ElementInv'
  BY ElementsPreserved DEF FwInv
<1> QED
  BY <1>1, ArriveStep, KeepStep, ShareStep, ReleaseBufStep, CopyStep,
     AppReleaseStep
     DEF Next, RouterStep, AppStep

\* The invariant holds of every reachable state.
LEMMA FwInvariant == Spec => []FwInv
<1>1. Init => FwInv
  BY FwInitially
<1>2. FwInv /\ [Next]_vars => FwInv'
  BY FwPreserved
<1> QED
  BY <1>1, <1>2, PTL DEF Spec

\* The reference count of a buffer is the number of its holders, for any number
\* of apps, queue sizes and batches: it goes back to its channel exactly when the
\* router, the queues and the apps have all released it.
THEOREM ReferencesAreCounted == Spec => []ReferencesCounted
<1>1. FwInv => ReferencesCounted
  BY DEF FwInv
<1> QED
  BY <1>1, FwInvariant, PTL

-----------------------------------------------------------------------------
(***************************************************************************)
(* Ring, pool and references implement a bounded queue                     *)
(***************************************************************************)
\* Sequences of the same length with the same elements are equal.
LEMMA SameElements ==
  ASSUME NEW S, NEW s \in Seq(S), NEW t \in Seq(S), Len(s) = Len(t),
         \A i \in 1..Len(s) : s[i] = t[i]
  PROVE  s = t
OBVIOUS

\* The message at place k of an app's queue
Message(a, k) == data[a][slot[a][Nth(RingSize(a), head[a], k)]]

ContentsAre ==
  \A a \in Apps :
    /\ Length(a) \in Nat
    /\ Contents(a) \in Seq(Bufs \cup {NoBuf})
    /\ Len(Contents(a)) = Length(a)
    /\ \A k \in 1..Length(a) :
         /\ Nth(RingSize(a), head[a], k) \in Occupied(a)
         /\ Contents(a)[k] = Message(a, k)

\* The contents of a ring are the messages in its occupied slots.
LEMMA ContentsOf == ElementInv => ContentsAre
<1> SUFFICES ASSUME ElementInv, NEW a \in Apps
             PROVE  /\ Length(a) \in Nat
                    /\ Contents(a) \in Seq(Bufs \cup {NoBuf})
                    /\ Len(Contents(a)) = Length(a)
                    /\ \A k \in 1..Length(a) :
                         /\ Nth(RingSize(a), head[a], k) \in Occupied(a)
                         /\ Contents(a)[k] = Message(a, k)
  BY DEF ContentsAre
<1>1. OfAppTypes(a) /\ PlaceInv(a)
  BY DEF ElementInv, FwTypes
<1>2. /\ Length(a) = Distance(RingSize(a), head[a], tail[a])
      /\ Length(a) \in Nat
      /\ Occupied(a) = Between(RingSize(a), head[a], tail[a])
      /\ \A k \in 1..Length(a) :
           (head[a] + k - 1) % RingSize(a) = Nth(RingSize(a), head[a], k)
  <2>1. /\ head[a] \in Slots(a) /\ tail[a] \in Slots(a)
        /\ RingSize(a) \in Nat
    BY <1>1, RingHasRoom DEF OfAppTypes
  <2>2. /\ Length(a) = Distance(RingSize(a), head[a], tail[a])
        /\ Length(a) \in 0..RingSize(a) - 1
        /\ Occupied(a) = Between(RingSize(a), head[a], tail[a])
        /\ \A k \in 1..Length(a) :
             (head[a] + k - 1) % RingSize(a) = Nth(RingSize(a), head[a], k)
    BY <2>1, RingIndices, Zenon
  <2>3. Length(a) \in Nat
    BY <2>1, <2>2
  <2> QED
    BY <2>2, <2>3, Zenon
<1>3. \A k \in 1..Length(a) : Nth(RingSize(a), head[a], k) \in Occupied(a)
  <2>1. RingSize(a) \in Nat \ {0} /\ head[a] \in 0..RingSize(a) - 1
        /\ tail[a] \in 0..RingSize(a) - 1
    BY <1>1, RingHasRoom DEF OfAppTypes, Slots
  <2>2. MoveFacts(RingSize(a), head[a], tail[a])
    BY <2>1, RingMoves, Zenon
  <2>3. \A k \in 1..Distance(RingSize(a), head[a], tail[a]) :
          Nth(RingSize(a), head[a], k) \in Between(RingSize(a), head[a], tail[a])
    BY <2>2, Zenon DEF MoveFacts
  <2> QED
    BY <1>2, <2>3, Zenon
<1>4. Contents(a) = [k \in 1..Length(a) |-> Message(a, k)]
  BY <1>2 DEF Contents, Message
<1>5. \A k \in 1..Length(a) : Message(a, k) \in Bufs \cup {NoBuf}
  <2>1. \A i \in Occupied(a) : slot[a][i] \in Mbufs(a)
    BY <1>1 DEF PlaceInv, Queued
  <2> QED
    BY <1>1, <1>3, <2>1 DEF Message, OfAppTypes
<1>6. Contents(a) \in [1..Length(a) -> Bufs \cup {NoBuf}]
  BY <1>4, <1>5
<1>7. Contents(a) \in Seq(Bufs \cup {NoBuf})
  BY <1>2, <1>6
<1>8. Len(Contents(a)) = Length(a)
  BY <1>2, <1>6, <1>7
<1> QED
  BY <1>2, <1>3, <1>4, <1>7, <1>8

\* A ring whose slots, indices and messages stay keeps its contents.
LEMMA ContentsFrame ==
  ASSUME ElementInv, ElementInv', NEW a \in Apps,
         head'[a] = head[a], tail'[a] = tail[a], slot'[a] = slot[a],
         \A m \in Queued(a) : data'[a][m] = data[a][m]
  PROVE  Contents(a)' = Contents(a)
<1>1. ContentsAre
  BY ContentsOf
<1>2. ContentsAre'
  BY ContentsOf, PTL
<1>3. Length(a)' = Length(a)
  BY RingFrame
<1>4. \A k \in 1..Length(a) : Message(a, k)' = Message(a, k)
  BY <1>1, Zenon DEF ContentsAre, Message, Queued, RingSize
<1>5. /\ Contents(a) \in Seq(Bufs \cup {NoBuf})
      /\ Len(Contents(a)) = Length(a)
      /\ \A k \in 1..Length(a) : Contents(a)[k] = Message(a, k)
  BY <1>1, Zenon DEF ContentsAre
<1>6. /\ Contents(a)' \in Seq(Bufs \cup {NoBuf})
      /\ Len(Contents(a)') = Length(a)
      /\ \A k \in 1..Length(a) : Contents(a)'[k] = Message(a, k)
  BY <1>2, <1>3, <1>4 DEF ContentsAre
<1> QED
  BY <1>5, <1>6, SameElements

\* Enqueueing appends the router's element.
LEMMA EnqueueContents ==
  ASSUME ElementInv, ElementInv', NEW a \in Apps, a = rapp, Enqueue
  PROVE  Contents(a)' = Append(Contents(a), data[a][rmbuf])
<1> DEFINE n == RingSize(a)
<1>1. ContentsAre
  BY ContentsOf
<1>2. ContentsAre'
  BY ContentsOf, PTL
<1>3. /\ tail[a] \in Slots(a) \ Occupied(a)
      /\ slot'[a] = [slot[a] EXCEPT ![tail[a]] = rmbuf]
      /\ tail'[a] = After(n, tail[a])
      /\ After(n, tail[a]) # head[a]
      /\ head' = head /\ data' = data
      /\ tail'[a] \in Slots(a)
  BY EnqueueRing DEF Enqueue, appVars, ElementInv, FwTypes, Domains
<1>4. /\ n \in Nat \ {0} /\ head[a] \in 0..n - 1 /\ tail[a] \in 0..n - 1
      /\ head[a] \in Slots(a) /\ OfAppTypes(a)
  BY RingHasRoom, Zenon DEF ElementInv, FwTypes, OfAppTypes, Slots
<1>5. PICK l \in Nat : l = Length(a)
  BY <1>1 DEF ContentsAre
<1>6. /\ l = Distance(n, head[a], tail[a])
      /\ Length(a)' = Distance(n, head[a], After(n, tail[a]))
  BY <1>3, <1>4, <1>5, RingIndices
<1>7. /\ Length(a)' = l + 1
      /\ Nth(n, head[a], l + 1) = tail[a]
  <2>1. MoveFacts(n, head[a], tail[a])
    BY <1>4, RingMoves
  <2> QED
    BY <1>3, <1>6, <2>1, Zenon DEF MoveFacts
<1>8. \A k \in 1..l : Message(a, k)' = Message(a, k)
  <2> SUFFICES ASSUME NEW k \in 1..l
               PROVE  Message(a, k)' = Message(a, k)
    OBVIOUS
  <2>1. Nth(n, head[a], k) \in Occupied(a)
    BY <1>1, <1>5 DEF ContentsAre
  <2>2. slot'[a][Nth(n, head[a], k)] = slot[a][Nth(n, head[a], k)]
    BY <1>3, <1>4, <2>1 DEF OfAppTypes, Occupied
  <2> QED
    BY <1>3, <2>2, Zenon DEF Message, RingSize
<1>9. Message(a, l + 1)' = data[a][rmbuf]
  <2>1. slot'[a][tail[a]] = rmbuf
    BY <1>3, <1>4 DEF OfAppTypes
  <2> QED
    BY <1>3, <1>7, <2>1 DEF Message, RingSize
<1>10. data[a][rmbuf] \in Bufs \cup {NoBuf}
  BY <1>4 DEF OfAppTypes, ElementInv, FwTypes, RouterTypes, Enqueue
<1> DEFINE s == Contents(a)
           t == Append(s, data[a][rmbuf])
<1>11. /\ s \in Seq(Bufs \cup {NoBuf}) /\ Len(s) = l
       /\ \A k \in 1..l : s[k] = Message(a, k)
  BY <1>1, <1>5 DEF ContentsAre
<1> HIDE DEF s
<1>12. /\ t \in Seq(Bufs \cup {NoBuf}) /\ Len(t) = l + 1
       /\ \A k \in 1..l : t[k] = Message(a, k)
       /\ t[l + 1] = data[a][rmbuf]
  BY <1>10, <1>11
<1>13. /\ Contents(a)' \in Seq(Bufs \cup {NoBuf}) /\ Len(Contents(a)') = l + 1
       /\ \A k \in 1..l + 1 : Contents(a)'[k] = Message(a, k)'
  BY <1>2, <1>7 DEF ContentsAre
<1>14. \A k \in 1..l + 1 : Contents(a)'[k] = t[k]
  <2> SUFFICES ASSUME NEW k \in 1..l + 1
               PROVE  Contents(a)'[k] = t[k]
    BY Zenon
  <2>1. CASE k = l + 1
    BY <1>9, <1>12, <1>13, <2>1
  <2>2. CASE k \in 1..l
    BY <1>8, <1>12, <1>13, <2>2
  <2>3. k = l + 1 \/ k \in 1..l
    OBVIOUS
  <2> QED
    BY <2>1, <2>2, <2>3, Zenon
<1> HIDE DEF t
<1>15. Contents(a)' = t
  BY <1>12, <1>13, <1>14, SameElements
<1> QED
  BY <1>15 DEF s, t

\* Dequeueing removes the oldest message, which is the one in the slot at head.
LEMMA DequeueContents ==
  ASSUME ElementInv, ElementInv', NEW a \in Apps, Dequeue(a)
  PROVE  /\ Contents(a) # <<>>
         /\ Head(Contents(a)) = data[a][slot[a][head[a]]]
         /\ Contents(a)' = Tail(Contents(a))
<1> DEFINE n == RingSize(a)
<1>1. ContentsAre
  BY ContentsOf
<1>2. ContentsAre'
  BY ContentsOf, PTL
<1>3. /\ head[a] # tail[a]
      /\ slot'[a] = [slot[a] EXCEPT ![head[a]] = NoMbuf]
      /\ head'[a] = After(n, head[a])
      /\ tail' = tail /\ data' = data
      /\ head'[a] \in Slots(a)
  <2>1. DOMAIN head = Apps /\ DOMAIN slot = Apps
    BY DEF ElementInv, FwTypes, Domains
  <2>2. tail' = tail /\ data' = data
    BY DEF Dequeue
  <2> QED
    BY <2>1, <2>2, DequeueRing
<1>4. /\ n \in Nat \ {0} /\ head[a] \in 0..n - 1 /\ tail[a] \in 0..n - 1
      /\ tail[a] \in Slots(a) /\ head[a] \in Slots(a) /\ OfAppTypes(a)
  BY RingHasRoom DEF ElementInv, FwTypes, OfAppTypes, Slots
<1>5. PICK l \in Nat : l = Length(a)
  BY <1>1 DEF ContentsAre
<1>6. /\ l = Distance(n, head[a], tail[a])
      /\ Length(a)' = Distance(n, After(n, head[a]), tail[a])
  BY <1>3, <1>4, <1>5, RingIndices, Zenon
<1>7. MoveFacts(n, head[a], tail[a])
  BY <1>4, RingMoves
<1>8. /\ l >= 1
      /\ Length(a)' = l - 1
      /\ Nth(n, head[a], 1) = head[a]
      /\ \A k \in 1..l - 1 : Nth(n, After(n, head[a]), k) = Nth(n, head[a], k + 1)
  BY <1>3, <1>6, <1>7, Zenon DEF MoveFacts
<1>9. \A k \in 1..l - 1 : Message(a, k)' = Message(a, k + 1)
  <2> SUFFICES ASSUME NEW k \in 1..l - 1
               PROVE  Message(a, k)' = Message(a, k + 1)
    OBVIOUS
  <2>1. k + 1 \in 1..l /\ 1 \in 1..l /\ k + 1 # 1
    BY <1>8
  <2>2. Nth(n, head[a], k + 1) # Nth(n, head[a], 1)
    BY <1>6, <1>7, <2>1, Zenon DEF MoveFacts
  <2>3. Nth(n, head[a], k + 1) \in Slots(a)
    BY <1>1, <1>5, <2>1 DEF ContentsAre, Occupied
  <2> QED
    BY <1>3, <1>4, <1>8, <2>2, <2>3, Zenon DEF Message, RingSize, OfAppTypes
<1> DEFINE s == Contents(a)
           t == Tail(s)
<1>10. /\ s \in Seq(Bufs \cup {NoBuf}) /\ Len(s) = l
       /\ \A k \in 1..l : s[k] = Message(a, k)
  BY <1>1, <1>5 DEF ContentsAre
<1>11. Message(a, 1) = data[a][slot[a][head[a]]]
  BY <1>8 DEF Message
<1> HIDE DEF s
<1>12. s # <<>> /\ Head(s) = data[a][slot[a][head[a]]]
  BY <1>8, <1>10, <1>11
<1>13. /\ t \in Seq(Bufs \cup {NoBuf}) /\ Len(t) = l - 1
       /\ \A k \in 1..l - 1 : t[k] = s[k + 1]
  BY <1>8, <1>10, <1>12
<1>14. /\ Contents(a)' \in Seq(Bufs \cup {NoBuf}) /\ Len(Contents(a)') = l - 1
       /\ \A k \in 1..l - 1 : Contents(a)'[k] = Message(a, k)'
  BY <1>2, <1>8 DEF ContentsAre
<1>15. \A k \in 1..l - 1 : Contents(a)'[k] = t[k]
  <2> SUFFICES ASSUME NEW k \in 1..l - 1
               PROVE  Contents(a)'[k] = t[k]
    BY Zenon
  <2>1. k + 1 \in 1..l
    OBVIOUS
  <2> QED
    BY <1>9, <1>10, <1>13, <1>14, <2>1
<1> HIDE DEF t
<1>16. Contents(a)' = t
  BY <1>13, <1>14, <1>15, SameElements
<1> QED
  BY <1>12, <1>16 DEF s, t

\* The message the receive call of app a is copying
Taking(a) == IF de[a] = NoMbuf THEN NoBuf ELSE data[a][de[a]]

\* A step that keeps the ring, the element in the app's hands and what the app
\* has received is no step of its queue.
LEMMA QueueFrame ==
  ASSUME ElementInv, ElementInv', NEW a \in Apps,
         head'[a] = head[a], tail'[a] = tail[a], slot'[a] = slot[a],
         de'[a] = de[a],
         \A m \in Queued(a) \cup InApp(a) : data'[a][m] = data[a][m]
  PROVE  Contents(a)' = Contents(a) /\ Taking(a)' = Taking(a)
<1>1. Contents(a)' = Contents(a)
  BY ContentsFrame
<1>2. Taking(a)' = Taking(a)
  BY DEF Taking, InApp
<1> QED
  BY <1>1, <1>2

\* If no queue changes, the abstract queues stutter.
LEMMA QueuesStutter ==
  ASSUME \A a \in Apps : Contents(a)' = Contents(a) /\ Taking(a)' = Taking(a),
         held' = held
  PROVE  UNCHANGED AQ!vars
BY DEF AQ!vars, Taking

\* The router's steps before and after the enqueueing are not seen in a queue.
LEMMA RouterStutters ==
  ASSUME FwInv, FwInv',
         \/ \E bufs \in Batches, apps \in SUBSET Apps : Arrive(bufs, apps)
         \/ \E a \in Apps : AllocEntry(a) \/ PoolEmpty(a)
         \/ Share \/ ReleaseBuf \/ UNCHANGED vars
  PROVE  UNCHANGED AQ!vars
<1>1. ElementInv /\ ElementInv'
  BY DEF FwInv
<1>2. head' = head /\ tail' = tail /\ slot' = slot /\ de' = de /\ held' = held
  BY DEF Arrive, AllocEntry, PoolEmpty, Share, ReleaseBuf, vars, appVars, ringVars
<1>3. ASSUME NEW c \in Apps
      PROVE  \A m \in Queued(c) \cup InApp(c) : data'[c][m] = data[c][m]
  <2>1. CASE Share
    <3>1. /\ rapp \in Apps /\ PlaceInv(c) /\ OfAppTypes(c)
          /\ DOMAIN data = Apps
          /\ data' = [data EXCEPT ![rapp] = [data[rapp] EXCEPT ![rmbuf] = Head(batch)]]
      BY <1>1, <2>1 DEF Share, ElementInv, FwTypes, RouterTypes, Domains
    <3>2. CASE c = rapp
      <4>1. data'[c] = [data[c] EXCEPT ![rmbuf] = Head(batch)]
        BY <3>1, <3>2
      <4>2. rmbuf \notin Queued(c) \cup InApp(c)
        BY <3>1, <3>2 DEF PlaceInv, InRouter
      <4>3. Queued(c) \cup InApp(c) \subseteq Mbufs(c)
        BY <3>1 DEF PlaceInv
      <4> QED
        BY <3>1, <4>1, <4>2, <4>3 DEF OfAppTypes
    <3>3. CASE c # rapp
      BY <3>1, <3>3
    <3> QED
      BY <3>2, <3>3
  <2>2. CASE ~Share
    <3>1. data' = data
      BY <2>2 DEF Arrive, AllocEntry, PoolEmpty, ReleaseBuf, vars, ringVars
    <3> QED
      BY <3>1
  <2> QED
    BY <2>1, <2>2
<1>4. \A c \in Apps : Contents(c)' = Contents(c) /\ Taking(c)' = Taking(c)
  BY <1>1, <1>2, <1>3, QueueFrame, Zenon
<1> QED
  BY <1>2, <1>4, QueuesStutter

\* ck_ring_enqueue_spsc puts the shared buffer in the queue of the app, in which
\* there is room for it even when the app is copying another.
LEMMA EnqueueIsPut ==
  ASSUME FwInv, FwInv', Enqueue
  PROVE  AQ!Next
<1>1. ElementInv /\ ElementInv'
  BY DEF FwInv
<1>2. PICK a \in Apps : a = rapp
  BY <1>1, RingNotFull DEF Enqueue
<1>3. PICK b \in Bufs : b = data[a][rmbuf]
  <2>1. CarryInv(a) /\ rmbuf \in Live(a)
    BY <1>2 DEF FwInv, Live, Enqueue
  <2> QED
    BY <2>1 DEF CarryInv, Carried
<1>4. Contents(a)' = Append(Contents(a), b)
  BY <1>1, <1>2, <1>3, EnqueueContents
<1>5. /\ head' = head /\ de' = de /\ held' = held /\ data' = data
      /\ \A c \in Apps \ {a} : tail'[c] = tail[c] /\ slot'[c] = slot[c]
  <2>1. /\ slot' = [slot EXCEPT ![a] = [slot[a] EXCEPT ![tail[a]] = rmbuf]]
        /\ tail' = [tail EXCEPT ![a] = After(RingSize(a), tail[a])]
    BY <1>1, <1>2, EnqueueRing
  <2> QED
    BY <1>1, <2>1 DEF Enqueue, appVars, ElementInv, FwTypes, Domains
<1>6. \A c \in Apps \ {a} : Contents(c)' = Contents(c)
  BY <1>1, <1>5, ContentsFrame
<1>7. \A c \in Apps : Taking(c)' = Taking(c)
  BY <1>5 DEF Taking
<1>8. Len(Contents(a)) + (IF Taking(a) = NoBuf THEN 0 ELSE 1) < QueueSize[a]
  <2>1. /\ OfAppTypes(a) /\ PlaceInv(a) /\ rmbuf \in Mbufs(a)
        /\ Len(Contents(a)) = Length(a) /\ Length(a) \in Nat
        /\ QueueSize[a] \in Nat
    BY <1>1, <1>2, ContentsOf, RingHasRoom
       DEF ElementInv, FwTypes, RouterTypes, ContentsAre, Enqueue
  <2> DEFINE S == {rmbuf} \cup InApp(a)
  <2>2. S \in SUBSET Mbufs(a) /\ S \cap Queued(a) = {}
    BY <1>2, <2>1 DEF PlaceInv, InRouter
  <2>3. Length(a) + Cardinality(S) <= QueueSize[a]
    BY <2>1, <2>2, RingRoom
  <2>4. CASE de[a] = NoMbuf
    <3>1. S = {rmbuf}
      BY <2>4 DEF InApp
    <3>2. Cardinality(S) = 1
      BY <3>1, FS_Singleton
    <3>3. Taking(a) = NoBuf
      BY <2>4 DEF Taking
    <3> QED
      BY <2>1, <2>3, <3>2, <3>3
  <2>5. CASE de[a] # NoMbuf
    <3>1. S = {rmbuf, de[a]} /\ rmbuf # de[a]
      BY <1>2, <2>1, <2>5 DEF InApp, InRouter, PlaceInv
    <3>2. Cardinality(S) = 2
      <4>1. IsFiniteSet({rmbuf}) /\ Cardinality({rmbuf}) = 1
        BY FS_Singleton, Zenon
      <4>2. de[a] \notin {rmbuf} /\ S = {rmbuf} \cup {de[a]}
        BY <3>1
      <4>3. Cardinality({rmbuf} \cup {de[a]}) = 1 + 1
        BY <4>1, <4>2, FS_AddElement, Zenon
      <4> QED
        BY <4>2, <4>3
    <3> QED
      BY <2>1, <2>3, <3>2
  <2> QED
    BY <2>4, <2>5
<1>9. AQ!Put(a, b)
  <2>1. [c \in Apps |-> Contents(c)]'
          = [[c \in Apps |-> Contents(c)] EXCEPT ![a] = Append(@, b)]
    BY <1>4, <1>6, Zenon
  <2>2. [c \in Apps |-> Taking(c)]' = [c \in Apps |-> Taking(c)]
    BY <1>7
  <2> QED
    BY <1>5, <1>8, <2>1, <2>2 DEF AQ!Put, Taking
<1> QED
  BY <1>9 DEF AQ!Next

\* ck_ring_dequeue_spsc takes the oldest message of the app's queue.
LEMMA DequeueIsTake ==
  ASSUME FwInv, FwInv', NEW a \in Apps, Dequeue(a)
  PROVE  AQ!Next
<1>1. ElementInv /\ ElementInv'
  BY DEF FwInv
<1>2. /\ Contents(a) # <<>>
      /\ Head(Contents(a)) = data[a][slot[a][head[a]]]
      /\ Contents(a)' = Tail(Contents(a))
  BY <1>1, DequeueContents
<1>3. /\ tail' = tail /\ held' = held /\ data' = data
      /\ de[a] = NoMbuf /\ de' = [de EXCEPT ![a] = slot[a][head[a]]]
      /\ DOMAIN de = Apps
  BY <1>1 DEF Dequeue, ElementInv, FwTypes, Domains
<1>4. \A c \in Apps \ {a} : head'[c] = head[c] /\ slot'[c] = slot[c]
  <2>1. /\ head' = [head EXCEPT ![a] = After(RingSize(a), head[a])]
        /\ slot' = [slot EXCEPT ![a] = [slot[a] EXCEPT ![head[a]] = NoMbuf]]
    BY <1>1, DequeueRing
  <2> QED
    BY <1>1, <2>1 DEF ElementInv, FwTypes, Domains
<1>5. \A c \in Apps \ {a} : Contents(c)' = Contents(c)
  BY <1>1, <1>3, <1>4, ContentsFrame
<1>6. slot[a][head[a]] \in Mbufs(a) /\ slot[a][head[a]] # NoMbuf
  <2>1. slot[a][head[a]] \in Queued(a) /\ PlaceInv(a)
    BY <1>1, DequeueRing DEF ElementInv
  <2>2. \A m \in Mbufs(a) : m # NoMbuf
    BY DEF Mbufs, NoMbuf
  <2> QED
    BY <2>1, <2>2 DEF PlaceInv
<1>7. /\ Taking(a) = NoBuf
      /\ Taking(a)' = Head(Contents(a))
      /\ \A c \in Apps \ {a} : Taking(c)' = Taking(c)
  BY <1>2, <1>3, <1>6 DEF Taking
<1>8. AQ!Take(a)
  <2>1. [c \in Apps |-> Contents(c)]'
          = [[c \in Apps |-> Contents(c)] EXCEPT ![a] = Tail(@)]
    BY <1>2, <1>5, Zenon
  <2>2. [c \in Apps |-> Taking(c)]'
          = [[c \in Apps |-> Taking(c)] EXCEPT ![a] = Head(Contents(a))]
    BY <1>7, Zenon
  <2> QED
    BY <1>2, <1>3, <1>7, <2>1, <2>2, Zenon DEF AQ!Take, Taking
<1> QED
  BY <1>8 DEF AQ!Next

\* Copying the entry to the caller and freeing the element is the receipt.
LEMMA CopyIsReceive ==
  ASSUME FwInv, FwInv', NEW a \in Apps, CopyAndFree(a)
  PROVE  AQ!Next
<1>1. ElementInv /\ ElementInv'
  BY DEF FwInv
<1>2. /\ head' = head /\ tail' = tail /\ slot' = slot
      /\ de[a] # NoMbuf /\ de' = [de EXCEPT ![a] = NoMbuf]
      /\ data' = [data EXCEPT ![a] = [data[a] EXCEPT ![de[a]] = NoBuf]]
      /\ held' = [held EXCEPT ![a] = held[a] \cup {data[a][de[a]]}]
      /\ DOMAIN de = Apps /\ DOMAIN data = Apps
  BY <1>1 DEF CopyAndFree, ElementInv, FwTypes, Domains
<1>3. \A c \in Apps \ {a} : data'[c] = data[c] /\ de'[c] = de[c]
  BY <1>2
<1>4. \A m \in Queued(a) : data'[a][m] = data[a][m]
  <2>1. PlaceInv(a) /\ OfAppTypes(a)
    BY <1>1 DEF ElementInv, FwTypes
  <2>2. data'[a] = [data[a] EXCEPT ![de[a]] = NoBuf]
    BY <1>2
  <2>3. de[a] \notin Queued(a) /\ Queued(a) \subseteq Mbufs(a)
    BY <1>2, <2>1 DEF PlaceInv, InApp
  <2> QED
    BY <2>1, <2>2, <2>3 DEF OfAppTypes
<1>5. \A c \in Apps : Contents(c)' = Contents(c)
  BY <1>1, <1>2, <1>3, <1>4, ContentsFrame
<1>6. data[a][de[a]] # NoBuf
  <2>1. CarryInv(a) /\ de[a] \in Live(a)
    BY <1>2 DEF FwInv, Live, InApp
  <2> QED
    BY <2>1, ForwardAssumption DEF CarryInv, Carried
<1>7. /\ Taking(a) = data[a][de[a]]
      /\ Taking(a)' = NoBuf
      /\ \A c \in Apps \ {a} : Taking(c)' = Taking(c)
  BY <1>2, <1>3 DEF Taking
<1>8. AQ!Receive(a)
  <2>1. [c \in Apps |-> Contents(c)]' = [c \in Apps |-> Contents(c)]
    BY <1>5
  <2>2. [c \in Apps |-> Taking(c)]'
          = [[c \in Apps |-> Taking(c)] EXCEPT ![a] = NoBuf]
    BY <1>7, Zenon
  <2>3. held' = [held EXCEPT ![a] = held[a] \cup {Taking(a)}]
    BY <1>2, <1>7
  <2> QED
    BY <1>6, <1>7, <2>1, <2>2, <2>3, Zenon DEF AQ!Receive, Taking
<1> QED
  BY <1>8 DEF AQ!Next

\* jrtc_router_channel_release_buf releases a message the app has received.
LEMMA AppReleaseIsRelease ==
  ASSUME FwInv, FwInv', NEW a \in Apps, NEW b \in Bufs, AppRelease(a, b)
  PROVE  AQ!Next
<1>1. ElementInv /\ ElementInv'
  BY DEF FwInv
<1>2. head' = head /\ tail' = tail /\ slot' = slot /\ de' = de /\ data' = data
  BY DEF AppRelease, ringVars
<1>3. \A c \in Apps : Contents(c)' = Contents(c) /\ Taking(c)' = Taking(c)
  BY <1>1, <1>2, QueueFrame
<1>4. AQ!Release(a, b)
  BY <1>3 DEF AQ!Release, AppRelease, Taking
<1> QED
  BY <1>4 DEF AQ!Next

\* At the start all queues are empty.
LEMMA QueuesInitially == Init => AQ!Init
<1> SUFFICES ASSUME Init PROVE AQ!Init
  OBVIOUS
<1>1. ContentsAre
  BY ElementsInitially, ContentsOf
<1>2. \A a \in Apps : Length(a) = 0
  <2> SUFFICES ASSUME NEW a \in Apps PROVE Length(a) = 0
    OBVIOUS
  <2>1. head[a] = 0 /\ tail[a] = 0
    BY DEF Init
  <2>2. head[a] \in Slots(a) /\ tail[a] \in Slots(a)
    BY <2>1, RingHasRoom DEF Slots
  <2>3. Length(a) = Distance(RingSize(a), head[a], tail[a])
    BY <2>2, RingIndices, Zenon
  <2> QED
    BY <2>1, <2>3 DEF Distance
<1>3. \A a \in Apps : Contents(a) = <<>>
  BY <1>1, <1>2 DEF ContentsAre
<1>4. [a \in Apps |-> Contents(a)] = [a \in Apps |-> <<>>]
  BY <1>3
<1>5. \A a \in Apps : de[a] = NoMbuf
  BY DEF Init
<1> QED
  BY <1>4, <1>5 DEF Init, AQ!Init

\* Ring, pool and shared buffers together are a bounded first-in first-out queue
\* for every app, whatever the number of apps, their queue sizes and the batches:
\* what jrtc_router_receive returns is what the router put in, once, in order and
\* unaltered, and no message is dropped by a ring.
THEOREM RingsAreAppQueues == Spec => ImplementsAppQueues
<1>1. Init => AQ!Init
  BY QueuesInitially
<1>2. FwInv /\ FwInv' /\ [Next]_vars => [AQ!Next]_(AQ!vars)
  <2> SUFFICES ASSUME FwInv, FwInv', [Next]_vars
               PROVE  [AQ!Next]_(AQ!vars)
    OBVIOUS
  <2>1. CASE Enqueue
    BY <2>1, EnqueueIsPut
  <2>2. CASE \E a \in Apps : AppStep(a)
    BY <2>2, DequeueIsTake, CopyIsReceive, AppReleaseIsRelease DEF AppStep
  <2> QED
    BY <2>1, <2>2, RouterStutters DEF Next, RouterStep
<1> QED
  BY <1>1, <1>2, FwInvariant, PTL DEF Spec, ImplementsAppQueues, AQ!Spec
=============================================================================

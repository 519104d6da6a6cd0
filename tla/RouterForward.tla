---------------------------- MODULE RouterForward ----------------------------
(***************************************************************************)
(* The data path of the router: the second half of                         *)
(* _jrtc_router_forward_msgs, which places the buffers of a batch in the   *)
(* queues of the apps found by the lookups, and jrtc_router_receive and    *)
(* jrtc_router_channel_release_buf, with which the apps take them out.     *)
(*                                                                         *)
(* A queue is a single-producer single-consumer ring of pointers to data   *)
(* entries.  The entries come from a pool of app_queue_size elements, and  *)
(* the data of a message is shared by reference count.                     *)
(***************************************************************************)
EXTENDS Naturals, Sequences, FiniteSets

CONSTANTS Apps,       \* the registered apps
          QueueSize,  \* the app_queue_size each registers with
          Bufs,       \* data buffers of the io channels
          MaxBatch,   \* most buffers handed to the router at once
          NoBuf,      \* no data buffer
          NoApp       \* no app

MaxAppQueueSize == 10000

ASSUME ForwardAssumption ==
  /\ IsFiniteSet(Apps)
  /\ QueueSize \in [Apps -> 1..MaxAppQueueSize]
  /\ MaxBatch \in Nat
  /\ NoBuf \notin Bufs
  /\ NoApp \notin Apps

\* Powers of two up to the first above MaxAppQueueSize
PowersOfTwo == {1, 2, 4, 8, 16, 32, 64, 128, 256, 512, 1024, 2048, 4096, 8192,
                16384}

\* round_up_pow_of_two
RoundUpPowOfTwo(n) ==
  CHOOSE p \in PowersOfTwo : n <= p /\ \A r \in PowersOfTwo : n <= r => p <= r

\* Mutant: no room for the slot a ring always leaves empty.
MutRingSizeNoPlusOne(a) == RoundUpPowOfTwo(QueueSize[a])

RingSize(a) == RoundUpPowOfTwo(QueueSize[a] + 1)

\* slots of dapp->ringbuffer as allocated
RingBufferSlots(a) == QueueSize[a] + 1

Mbufs(a) == 1..QueueSize[a]
NoMbuf == 0
Slots(a) == 0..RingSize(a) - 1

VARIABLES
  pool,   \* free elements of data_entry_pool of each app
  data,   \* the buffer each element points to
  slot,   \* ring slots of each app
  head,   \* consumer index of the ring
  tail,   \* producer index of the ring
  de,     \* element an app has dequeued and not yet copied and freed
  held,   \* buffers an app has received and not yet released
  ref,    \* reference count of each buffer; 0: the channel may reuse it
  rpc,    \* where the router thread is
  batch,  \* bufs[]: the rest of the batch, bufs[i] first
  found,  \* lookup_result: the apps the batch is for
  iter,   \* the apps the bitmap iterator has still to visit
  rapp,   \* the app whose queue is being filled
  rmbuf,  \* the pool element for it
  offered \* history: apps visited for the current buffer

appVars == <<head, de, held>>
ringVars == <<pool, data, slot, tail>>
routerVars == <<rpc, batch, found, iter, rapp, rmbuf, offered>>
vars == <<appVars, ringVars, ref, routerVars>>

Init ==
  /\ pool = [a \in Apps |-> Mbufs(a)]
  /\ data = [a \in Apps |-> [m \in Mbufs(a) |-> NoBuf]]
  /\ slot = [a \in Apps |-> [i \in Slots(a) |-> NoMbuf]]
  /\ head = [a \in Apps |-> 0]
  /\ tail = [a \in Apps |-> 0]
  /\ de = [a \in Apps |-> NoMbuf]
  /\ held = [a \in Apps |-> {}]
  /\ ref = [b \in Bufs |-> 0]
  /\ rpc = "idle"
  /\ batch = <<>>
  /\ found = {}
  /\ iter = {}
  /\ rapp = NoApp
  /\ rmbuf = NoMbuf
  /\ offered = {}

-----------------------------------------------------------------------------
(***************************************************************************)
(* Router thread                                                           *)
(***************************************************************************)

\* jbpf_io_channel_handle_out_bufs calls the router with the buffers sent on a
\* channel; the lookups give the apps, over which an iterator is set up once.
Arrive(bufs, apps) ==
  /\ rpc = "idle"
  /\ \A i \in DOMAIN bufs : ref[bufs[i]] = 0
  /\ ref' = [b \in Bufs |-> IF \E i \in DOMAIN bufs : bufs[i] = b THEN 1 ELSE ref[b]]
  /\ batch' = bufs
  /\ found' = apps
  /\ iter' = apps
  /\ offered' = {}
  /\ rpc' = "apps"
  /\ UNCHANGED <<appVars, ringVars, rapp, rmbuf>>

\* The iterator gives an app, in whose pool an element is allocated.
AllocEntry(a) ==
  /\ rpc = "apps"
  /\ a \in iter
  /\ iter' = iter \ {a}
  /\ offered' = offered \cup {a}
  /\ \E m \in pool[a] :
       /\ pool' = [pool EXCEPT ![a] = @ \ {m}]
       /\ rmbuf' = m
  /\ rapp' = a
  /\ rpc' = "share"
  /\ UNCHANGED <<appVars, data, slot, tail, ref, batch, found>>

\* Mutant: the router waits for the app to free an element.
MutPoolEmptySpins(a) ==
  /\ rpc = "apps"
  /\ a \in iter
  /\ pool[a] = {}
  /\ UNCHANGED vars

\* The pool of the app is empty: it does not get the message.
PoolEmpty(a) ==
  /\ rpc = "apps"
  /\ a \in iter
  /\ pool[a] = {}
  /\ iter' = iter \ {a}
  /\ offered' = offered \cup {a}
  /\ UNCHANGED <<appVars, ringVars, ref, rpc, batch, found, rapp, rmbuf>>

\* jbpf_io_channel_share_data_ptr takes a reference for the data entry.
Share ==
  /\ rpc = "share"
  /\ ref' = [ref EXCEPT ![Head(batch)] = @ + 1]
  /\ data' = [data EXCEPT ![rapp][rmbuf] = Head(batch)]
  /\ rpc' = "enqueue"
  /\ UNCHANGED <<appVars, pool, slot, tail, batch, found, iter, rapp, rmbuf,
                 offered>>

RingFull(a) == (tail[a] + 1) % RingSize(a) = head[a]

\* ck_ring_enqueue_spsc, whose result is ignored
Enqueue ==
  /\ rpc = "enqueue"
  /\ IF RingFull(rapp)
     THEN UNCHANGED <<slot, tail>>
     ELSE /\ slot' = [slot EXCEPT ![rapp][tail[rapp]] = rmbuf]
          /\ tail' = [tail EXCEPT ![rapp] = (@ + 1) % RingSize(rapp)]
  /\ rapp' = NoApp
  /\ rmbuf' = NoMbuf
  /\ rpc' = "apps"
  /\ UNCHANGED <<appVars, pool, data, ref, batch, found, iter, offered>>

\* Mutant: a buffer that found no app is not released.
MutReleaseIfOffered ==
  /\ rpc = "apps"
  /\ iter = {}
  /\ ref' = IF offered = {} THEN ref ELSE [ref EXCEPT ![Head(batch)] = @ - 1]
  /\ batch' = Tail(batch)
  /\ offered' = {}
  /\ rpc' = IF Len(batch) = 1 THEN "idle" ELSE "apps"
  /\ UNCHANGED <<appVars, ringVars, found, iter, rapp, rmbuf>>

\* No app is left: drop the router's own reference and go on with the next
\* buffer, for which the iterator stays where it is, at its end.
ReleaseBuf ==
  /\ rpc = "apps"
  /\ iter = {}
  /\ ref' = [ref EXCEPT ![Head(batch)] = @ - 1]
  /\ batch' = Tail(batch)
  /\ offered' = {}
  /\ rpc' = IF Len(batch) = 1 THEN "idle" ELSE "apps"
  /\ UNCHANGED <<appVars, ringVars, found, iter, rapp, rmbuf>>

-----------------------------------------------------------------------------
(***************************************************************************)
(* App threads                                                             *)
(***************************************************************************)

\* Mutant: the element is given back before it has been copied.
MutDequeueFreesEarly(a) ==
  /\ de[a] = NoMbuf
  /\ head[a] # tail[a]
  /\ de' = [de EXCEPT ![a] = slot[a][head[a]]]
  /\ slot' = [slot EXCEPT ![a][head[a]] = NoMbuf]
  /\ pool' = [pool EXCEPT ![a] = @ \cup {slot[a][head[a]]}]
  /\ head' = [head EXCEPT ![a] = (@ + 1) % RingSize(a)]
  /\ UNCHANGED <<held, data, tail, ref, routerVars>>

\* jrtc_router_receive: ck_ring_dequeue_spsc gives the next element ...  What
\* is left in the slot, or in a freed element, is never read and is forgotten.
Dequeue(a) ==
  /\ de[a] = NoMbuf
  /\ head[a] # tail[a]
  /\ de' = [de EXCEPT ![a] = slot[a][head[a]]]
  /\ slot' = [slot EXCEPT ![a][head[a]] = NoMbuf]
  /\ head' = [head EXCEPT ![a] = (@ + 1) % RingSize(a)]
  /\ UNCHANGED <<held, pool, data, tail, ref, routerVars>>

\* Mutant: the element is not given back.
MutCopyNoFree(a) ==
  /\ de[a] # NoMbuf
  /\ held' = [held EXCEPT ![a] = @ \cup {data[a][de[a]]}]
  /\ data' = [data EXCEPT ![a][de[a]] = NoBuf]
  /\ de' = [de EXCEPT ![a] = NoMbuf]
  /\ UNCHANGED <<head, pool, slot, tail, ref, routerVars>>

\* ... which is copied to the caller and given back to the pool.
CopyAndFree(a) ==
  /\ de[a] # NoMbuf
  /\ held' = [held EXCEPT ![a] = @ \cup {data[a][de[a]]}]
  /\ data' = [data EXCEPT ![a][de[a]] = NoBuf]
  /\ pool' = [pool EXCEPT ![a] = @ \cup {de[a]}]
  /\ de' = [de EXCEPT ![a] = NoMbuf]
  /\ UNCHANGED <<head, slot, tail, ref, routerVars>>

\* jrtc_router_channel_release_buf, by the consumer of the data
AppRelease(a, b) ==
  /\ b \in held[a]
  /\ held' = [held EXCEPT ![a] = @ \ {b}]
  /\ ref' = [ref EXCEPT ![b] = @ - 1]
  /\ UNCHANGED <<head, de, ringVars, routerVars>>

-----------------------------------------------------------------------------
\* the batches a channel can hand over
Batches ==
  UNION {{s \in [1..n -> Bufs] : \A i, j \in 1..n : s[i] = s[j] => i = j} :
         n \in 1..MaxBatch}

RouterStep ==
  \/ \E a \in Apps : AllocEntry(a) \/ PoolEmpty(a)
  \/ Share \/ Enqueue \/ ReleaseBuf

AppStep(a) == Dequeue(a) \/ CopyAndFree(a) \/ \E b \in Bufs : AppRelease(a, b)

Next ==
  \/ \E bufs \in Batches, apps \in SUBSET Apps : Arrive(bufs, apps)
  \/ RouterStep
  \/ \E a \in Apps : AppStep(a)

Spec == Init /\ [][Next]_vars

\* The router thread never stops; nothing is assumed of the apps.
FairSpec == Spec /\ WF_vars(RouterStep)

\* An app that receives in a loop and releases every buffer it receives
AppFairness(a) ==
  /\ WF_vars(Dequeue(a) \/ CopyAndFree(a))
  /\ \A b \in Bufs : WF_vars(AppRelease(a, b))

-----------------------------------------------------------------------------
\* ring slots between head and tail, and the elements they hold
Length(a) == (tail[a] + RingSize(a) - head[a]) % RingSize(a)
Occupied(a) ==
  {i \in Slots(a) : (i + RingSize(a) - head[a]) % RingSize(a) < Length(a)}
Queued(a) == {slot[a][i] : i \in Occupied(a)}

\* The router ignores the result of ck_ring_enqueue_spsc; the pool is sized so
\* that the ring always has room for an element that could be allocated.
EnqueueNeverFails == rpc = "enqueue" => ~RingFull(rapp)

\* Each pool element is in exactly one place: free, in the router's hands, in
\* one ring slot, or in the app's hands.  None is lost and none used twice.
ElementsConserved ==
  \A a \in Apps :
    /\ \A m \in Mbufs(a) :
         Cardinality({w \in {"pool", "router", "ring", "app"} :
            \/ w = "pool" /\ m \in pool[a]
            \/ w = "router" /\ rapp = a /\ rmbuf = m
            \/ w = "ring" /\ m \in Queued(a)
            \/ w = "app" /\ de[a] = m}) = 1
    /\ \A i, j \in Occupied(a) : slot[a][i] = slot[a][j] => i = j

\* Who has a reference to buffer b: places of the router's batch, pool elements
\* that carry it, apps that have received it.
InBatch(b) == {i \in DOMAIN batch : batch[i] = b}
Carriers(b) ==
  {c \in UNION {{a} \X Mbufs(a) : a \in Apps} :
     /\ data[c[1]][c[2]] = b
     /\ \/ c[2] \in Queued(c[1])
        \/ c[2] = de[c[1]]
        \/ rpc = "enqueue" /\ rapp = c[1] /\ rmbuf = c[2]}
Receivers(b) == {a \in Apps : b \in held[a]}

\* The reference count of a buffer is the number of its holders: no buffer goes
\* back to its channel while the router, a queue or an app still uses it, and
\* none stays away once the last of them has released it.
ReferencesCounted ==
  \A b \in Bufs :
    ref[b] = Cardinality(InBatch(b)) + Cardinality(Carriers(b))
             + Cardinality(Receivers(b))

\* The router only touches ring slots that were allocated.
SlotAllocated == rpc = "enqueue" => tail[rapp] < RingBufferSlots(rapp)

\* "Place to the ringbuffers of all the apps and release": a buffer is released
\* only after it has been offered to every app the lookups have found.
OfferedToAll == (rpc = "apps" /\ iter = {}) => offered = found

\* The messages in the ring of an app, oldest first
Contents(a) ==
  [k \in 1..Length(a) |-> data[a][slot[a][(head[a] + k - 1) % RingSize(a)]]]

AQ == INSTANCE AppQueues WITH
        queue    <- [a \in Apps |-> Contents(a)],
        taking   <- [a \in Apps |-> IF de[a] = NoMbuf THEN NoBuf
                                    ELSE data[a][de[a]]],
        received <- held

\* Ring, pool and shared buffers together are a bounded FIFO queue per app: no
\* element is reused while its message is still to be received.
ImplementsAppQueues == AQ!Spec

\* The router gets through a batch whatever the apps do: an app that stops
\* receiving fills its own queue and delays nobody.
RouterNeverBlocks == rpc # "idle" ~> rpc = "idle"

\* Every buffer handed to the router goes back to its channel in the end, if
\* the apps keep receiving and releasing as the app wrappers do.
BuffersReturn ==
  (\A a \in Apps : AppFairness(a)) => \A b \in Bufs : ref[b] > 0 ~> ref[b] = 0
=============================================================================

# A TLA+ model of the jrt-controller

The jrt-controller runs real-time apps next to a radio network. Apps subscribe to
streams of messages, the *router* moves messages from io channels to the queues of
the apps, the *controller* loads and unloads apps on request of a REST client, and
`jrtc-ctl` deploys apps and decodes what they send out. This directory holds the
specifications of the concurrent core of that system, the TLC configurations that
check them on small instances, and TLAPS proofs of the safety properties that matter
most. Paths are relative to the repository (`src/` is its root); `PROJECT.json` maps
every definition to its source lines.

## The system and its parts

| Part | Source | Model | State of the model |
|---|---|---|---|
| Stream ids and requests | `src/src/stream_id` | `StreamId`, `StreamIdRequests`, `StreamIdPacking` | masks, matching, hashing and generation on abstract fields, and the 16 bytes at their real widths |
| Router: request table | `src/src/router/jrtc_router.c:141-212, 656-790` | `RouterReqTable`, `PubSub`, `RouterPubSub` | all but the growth of the hash table |
| Router: data path | `jrtc_router.c:212-260, 792-825, 882-890` | `RouterForward`, `AppQueues`, `JrtcApp` | all; the polling of input channels is in `JrtcApp` |
| Router: registration of apps | `jrtc_router.c:502-653` | `RouterApps`, `RouterChannels` | all |
| Router: channels | `jrtc_router.c:627-645, 805-1069` | `RouterChannels`, `JrtcApp` | creation, destruction, sending, polling |
| Controller | `src/src/controller/jrtc_int.c` | `Controller` | loading, running, unloading, start and stop |
| REST server | `src/src/rest_api_lib/src/lib.rs` | `Controller` | the two handlers that change state |
| C++ app wrapper | `src/src/wrapper_apis/c/jrtc_app.cpp` | `JrtcApp`, `StreamIdRequests` | all but the inactivity call |
| Python app wrapper | `src/src/wrapper_apis/python` | `JrtcApp`, `PythonLoader` | the life cycle and where it differs from C++; not the ctypes declarations |
| Python app loader | `src/src/pythonapp_loader` | `PythonLoader`, `AppThreads` | all, over CPython's locks and thread states |
| North IO app | `src/src/controller/jrtc_north_io_app.c` | `NorthIo`, `AppThreads` | all but the address it sends to |
| Agent library | `src/src/agent/jrtc_agent.c` | `RouterChannels` | its input channels |
| Sample apps | `src/sample_apps/advanced_example_c`, `advanced_example_py` | `SampleApps` | streams and handlers of the two apps that talk to each other |
| jrtc-ctl | `src/tools/jrtc-ctl` | - | not modelled |
| Configuration, logger, scheduler calls | `jrtc_config.c`, `logger`, `jrtc_sched.c` | - | sequential I/O or system calls without a protocol |

How they meet: the REST thread and the main thread call `load_app`/`unload_app`
(`Controller`); each app runs in a thread that registers with the router
(`RouterApps`), registers requests (`RouterReqTable`), and receives (`RouterForward`).
Most apps do the last two through a wrapper (`JrtcApp`), which also creates channels to
other apps (`RouterChannels`); a Python app is started by the loader (`PythonLoader`),
which shares its process with the north IO app (`NorthIo`, composed in `AppThreads`).
The one router thread looks the stream id of a batch up in the request table
(`RouterReqTable`), and then fills the queues of the apps it found (`RouterForward`),
going through `ctx[]` (`RouterApps`).

## Modules

**`StreamId`** - a stream id is a record of four fields (`fwd_dst`, `device_id`,
`stream_path`, `stream_name`), each the set of its bits that are one, so that masks and
the wildcard (all ones) mean what they mean in the code for any width. `Lookups(s)` are
the 16 keys `_jrtc_router_forward_msgs` tries, `MatchesReq` the bitwise test of the
wrapper, `GetHash` the Bloom filter of a name: the set of bits its hash functions hit.
The version, a constant of the code, is in `StreamIdPacking` only.

**`StreamIdRequests`** - every pair of a stream id and a request that the setters,
`JrtcApp::Init` or `jrtc_router_channel_register_req` can produce.

**`StreamIdPacking`** - the same actions on the 16 bytes: every setter, getter and mask
with its bytes, shifts and masks, at the widths of the code (6, 7, 7, 54 and 54 bits),
and the Bloom filter through its words of 32 bits. A number or byte is the set of its
bits. An abstract field of two bits stands for the number whose bit `k` is bit
`Block(k)`; `Block` is chosen so that neighbouring bytes and nibbles differ. The getters
convert bytes of type `char`, taken to be signed, as it is on x86. Only the values of
MurmurHash64A are arbitrary.

**`RouterReqTable`** - the hash table of requests (`reqs`), its entries with a bitmap of
apps on an explicit heap, the spinlock, and the epochs. App threads take the steps of
(de)registration one at a time: lock, set or reset the bit, unlink, wait for the epoch
barrier, free, unlock. The router thread takes the lookups one at a time and without
the lock, each one a `get` and, if an entry was found, a read of its bitmap. ck_ht,
ck_spinlock and ck_epoch are external: a get is atomic, the barrier waits for the
section the router is in when it starts. `must` and `may` are history variables: the
matching subscriptions that stood during all, or some, of the lookups.

**`PubSub`** - the abstract router: atomic subscriptions, and a message that reaches
all who wanted it throughout and nobody who never did. **`RouterPubSub`** states that
`RouterReqTable` implements it; `must` and `may` map to themselves, `out` is `result`
once the last lookup is done.

**`RouterForward`** - a batch of buffers for the apps found: per app an element pool of
`app_queue_size`, a ring whose size is rounded up to a power of two, and the
reference counts of the shared data. App threads dequeue, copy and free, and release,
each a step of its own. An element's content is forgotten when it goes back to the pool.

**`AppQueues`** - the abstract queue of an app: a bounded FIFO; `RouterForward`
implements it under the mapping `AQ`.

**`RouterApps`** - ids, contexts and `ctx[]`, with contexts on a heap whose addresses
are reused. The search for a free id is a scan, one test-and-set at a time. The
router thread copies ids out of the table, reads `ctx[id]`, and uses what it read.

**`Controller`** - `app_envs[]` without a lock, environments on a heap, the main thread
(`start_jrtc`), the REST thread (one request after another, because the server runs on
tokio's `current_thread` runtime and the handlers call C synchronously), and one thread
per app. `abort()`, the double free of a failed load (`jrtc_int.c:392-393`), and an app
that registers with a router that was never initialised end the process (`Crash`).
REST requests and Ctrl+C may come at any time. What `Py_Finalize` does in the signal
handler is undefined: it returns, ends the process, or does neither, and the main thread
makes no other step meanwhile. `overlap` is a history variable: `"slot"` once the two
threads have worked on one slot at once, `"stop"` once a request was in progress after
the REST server had been told to stop. `params[0]` of a Python app is any of its parameters,
as the server fills `params[]` from a `HashMap`.

**`RouterChannels`** - the contexts of channels, the table of an app's channels, the
channels of the agent in the same jbpf_io, and the number of messages in each. The
table is keyed by a pointer to a parameter of `jrtc_router_channel_create`
(`jrtc_router.c:951`), which is dangling after the call: a lookup in
`jrtc_router_channel_destroy` may find the entry or not.

**`JrtcApp`** - the thread of each app through `Init` (create the channel, register the
request, push the item; then wait for the channels of others), the receive loop and
`CleanUp`, with a failure at each step, the initialization timeout, unloading at any
time, and loading again. An app in `Python` differs in two ways: a failed registration
goes unnoticed, and a handler whose assertion fails ends the thread without `CleanUp`,
where in C it ends the process. **`SampleApps`** are the streams and handlers of
`advanced_example_c` (and of `advanced_example_py`, which has the same): the second app
sends to the input channel of the first, and its output channel is received there.

**`PythonLoader`** - `jrtc_start_app` of the loader for any number of threads:
`python_lock`, the GIL, and the thread states of each sub-interpreter, with every jump
to the cleanup labels. CPython 3.12 is external: it may pass the GIL on while Python
code runs.

**`NorthIo`** - `aa_net_init` with its error paths, the loop over batches, and
`aa_net_stop`, over the descriptors of the process, which other threads open and close,
and a pool of mbufs. A pool that was destroyed or never created may give an mbuf, give
none, or end the process. **`AppThreads`** composes the two: `exit(0)` of the north IO app
ends the Python apps as well.

The `MC*` modules give the constants their values.

## Runs

| Run | Checks | Shows |
|---|---|---|
| `stream_ids` | `RoutedIsDispatched`, `NamedIsNotAny`, `PackedInPlace`, `BytesRoute` | Router and wrapper agree; a name never hashes to the wildcard; the bytes hold the fields; the hand-written mask table is complete and exact, and routing by bytes is routing by fields |
| `req_table` | `TypeOK`, `NoUseAfterFree`, `NoDeadRequests`, `RoutingComplete`, `RoutingSound`, `OnlyOwnDeregister`, `ImplementsPubSub`, `LockIsReleased` | The lock-free reader is memory safe and routes exactly, while two apps register and deregister; waiting in the barrier with the lock held cannot deadlock |
| `forward` | `EnqueueNeverFails`, `ElementsConserved`, `ReferencesCounted`, `ImplementsAppQueues`, `RouterNeverBlocks`, `BuffersReturn` | The ignored result of the enqueue is harmless; no element or reference is lost or used twice; queues are FIFOs; a stuck app blocks nobody; buffers return to their channel |
| `apps` | `TypeOK`, `IdsConserved`, `RegisteredIsReachable` | Error paths and races leak or duplicate no id |
| `controller` | `SlotsApartAreSafe`, `StoreMatches`, `WaitsForToldOnly`, `AllUnloaded` | As long as main and REST thread never work on one slot at once: no environment is used after free, REST store and slots agree, and an app that is joined has been told to exit; without a request in progress at the stop, shutdown is complete |
| `jrtc_app` | `DestroyedOnce`, `RequestsDropped`, `NoMutualWait`, `UnloadReturns`, `InputServed` | However `Init` ends, no channel outlives its app or is destroyed twice, and no request does unless a Python handler raised; apps do not wait for each other; unloading ends; a message in an input channel waits only while the queue of the app holds a whole batch |
| `app_threads` | `ThreadStateMatches`, `OnlyFirstLosesGil`, `MbufsReturn`, `OwnSockets`, `AppsStart`, `ThreadsEnd` | The loader's two locks block no app; thread states are released as acquired; the mbufs and sockets of the north IO app come back whatever fails |
| `stream_destinations` | `DestinationsAreOred` (violated) | A request for a logical or of destinations, which `jrtc_router_app_api.h:53-54` allows and the wrapper's bitwise test accepts, is not found by the lookups for a stream to one of them |
| `forward_batch` | `OfferedToAll` (violated) | `jrtc_router.c:214` initialises the iterator once per batch: only the first buffer is offered to the apps |
| `forward_slots` | `SlotAllocated` (violated) | For queue sizes where `size + 1` is no power of two, the ring (`:591`) is larger than its array (`:565`) |
| `apps_live` | `RouterUsesLiveApp` (violated) | `jrtc_router_deregister_app` frees a context the router may be about to use |
| `controller_stop` | `EnvsAlive` (violated) | `jrtc_stop_rest_server` does not wait for the shutdown to complete, so main and REST thread unload the same app |

### Bounds, and why they are enough

- `stream_ids`: abstract fields of two bits and one hash function; two bits suffice for a
  field to equal, differ from, and be the wildcard, and the proofs on fields cover any width. The
  bytes have their real widths. The stream id arrives after the request is complete, so
  that every pair is reached without their interleavings. `stream_destinations` has
  three bits, so that two destinations together are not the wildcard.
- `req_table`: two apps, an exact and a wildcard request, and two entries, so that a
  freed address is used again while the router still knows it. The theorems, the
  refinement among them, cover any number of each; the liveness is checked on this
  instance only.
- `forward`: two apps with queues of one and three elements (`size + 1` is a power of
  two, so the rings wrap within their arrays), two buffers, batches of up to two:
  full pools, wrapped indices, shared buffers and re-used buffers all occur. There is no
  symmetry, as liveness is checked.
- `apps`: three threads, two ids and three contexts, so an id and an address can be
  taken over while their former owner is leaving, and a registration can find no id.
- `controller`: two slots (`MAX_NUM_JRTC_APPS` is 64), three environments, so that the
  round robin wraps, the table fills up and an environment is lost, and addresses are
  reused; a C app, which is loaded once, and a Python app without parameters, which is
  never found to be loaded and so fills all slots, besides the north IO app. The two threads
  meet at the start and at the stop, in different slots and in the same one.
- `jrtc_app`: the two sample apps, one in C without and one in Python with an
  initialization timeout, channels of one message, batches of two for the first app and
  of one for the second (`QSize`), and queues that hold a whole batch (`RingSize`), so that
  a busy queue can keep the input channels waiting; full queues and channels, partial sends,
  a channel that goes away after `Init` saw it, and every failure of `Init` occur, as does a
  second life of each app.
- `app_threads`: two Python threads, so that each error path meets a thread at every
  other place; descriptors 0 to 2, so that they run out and are reused; batches of up to
  two messages with one mbuf, so that allocation fails.

### Deadlock and fairness

Deadlock is checked in every run but `stream_ids`, where a stream id that has arrived
has nothing left to do, and `app_threads`, where the process may exit.
Fairness: `req_table` assumes the router and the app threads
go on within a call - each is an OS thread in straight-line code - and nothing about who
wins the spinlock. `forward` assumes only that the router thread runs; apps are
assumed to receive and release (the loop of `JrtcApp::run`) in `BuffersReturn` alone, as
its hypothesis. `controller` checks safety only: nothing makes an app look at `app_exit`,
`pthread_join` then waits for ever, and `Py_Finalize` need not return, so that the program
ends after Ctrl+C is not claimed. `jrtc_app` assumes that
the threads of the apps run, that time passes, and that the controller joins a thread
it has asked to exit; nothing about loads, messages or the agent. `app_threads` assumes
that a thread that is not blocked goes on, and that a thread that waits for the GIL
again and again gets it: CPython makes the thread that gave the GIL up wait until
another has had it (forced switching). Nothing is assumed of an app returning.

## Proofs

Every invariant, action property and refinement that a passing run checks is also a
theorem, for every value of the constants. Each proof follows the same argument: the
property is not inductive, so an invariant is found that is (checked with TLC first),
shown to hold initially and to survive each action, and the property follows from it.

The constants are restricted only by the assumptions the modules name, which TLC
evaluates on every run:

| Assumption | Says | Why the code justifies it |
|---|---|---|
| `HashAssumption` (`StreamId`) | fewer hash functions than bits; both finite | 38 hash functions, 54 bits |
| `BlockAssumption` (`StreamIdPacking`) | each bit of a number is a bit of its field, and each bit of the field is among the lowest seven of the number | how the model spreads abstract fields over numbers; only `BytesRouteFields` needs it, and `BytesDecide` states the same for all ids without it |
| `ReqTableAssumption`, `AppsAssumption`, `ControllerAssumption`, `NoLoadAssumption`, `ThreadsAssumption`, `ForwardAssumption` | null values are no addresses, apps or loads; there is at least one slot and one id; apps are finitely many and their queue sizes within `JRTC_ROUTER_MAX_APP_QUEUE_SIZE` | the checks of the code and its array sizes |
| `StreamsAssumption` (`RouterChannels`) | an app has at least one stream | an app without streams creates no channel and no request |
| `NorthAssumption` (`NorthIo`) | the limits are natural numbers | they are sizes |

- **`StreamIdProofs`**: `LookupsAreExactOrAny`, `RoutedAreDispatched`, `NamedAreNotAny` on the
  fields. The heart is `MasksCover`: every set of wildcard fields is a row of the table.
  A hash is not the wildcard because a set of
  bits hit by fewer functions than there are bits is not all bits. `IdsInv` says that
  stream ids and requests are well formed and that a named path or name is not the
  wildcard.
  On the bytes: `FieldsArePacked`, `BytesRouteFields`. Everything
  is reduced to single bits: `At(b, n)` is bit `n` of an id, and `Sets` says what a setter
  does to each of the 128 bits, proved for each setter from its shifts and masks
  (`SetsVer` ... `SetsStreamName`). `Holds(b, v, num)` says that an id holds a version and
  four numbers; a setter replaces one number and keeps the others (`PutHolds`), as the
  fields do not overlap (`Layout`). The inductive invariant `PackInv` is that the bytes
  of the id and of the request hold the numbers of their fields. Three theorems need no
  invariant and no abstraction of the fields: `GettersReturnFields` (what each getter
  returns for any value of the 128 bits, and for which values that is the field),
  `PackNumbersHolds` (the generation of an id
  lays out any four numbers) and `BytesDecide` (for any two values of the 128 bits the
  lookups and the comparison of the bytes decide as the fields do).
- **`RouterReqTableProofs`**: `TypeCorrect`, `MemorySafety`, `TableHasNoDeadRequests`,
  `RoutingIsComplete`, `RoutingIsSound`, `OthersKeepSubscriptions`, `TableIsPubSub`.
  `TypeInv` adds that a thread inside a call has a request. `TableInv` adds who holds
  the lock, that linked entries are allocated and distinct, that the entry a thread is
  about to free is linked nowhere, and - the epoch argument - that an entry the router has
  found is linked, or is being removed by a thread whose barrier still has to wait for
  the router. `HistInv` relates `result`, `must` and `may` to the lookups done so far.
  The refinement of `PubSub` rests on all of these (`PubSubInv`): setting or resetting a
  bit of a bitmap is the atomic subscription, the 16 lookups stutter, and the end of the
  last one is the routing.
- **`RouterAppsProofs`**: `TypeCorrect`, `IdsAreConserved`, `RegisteredAreReachable`.
  `AppsInv` adds that the slot of an id leads to the context of its app until
  the slot is cleared, and that the contexts of registered apps are allocated and
  distinct.
- **`RouterForwardProofs`**: `RingsDoNotOverflow`, `ElementsAreConserved`.
  `ElementInv` says that the pool, the occupied slots of the ring, the
  router and the app share out the elements of an app and that no two slots have the same
  one. A pool of `size` elements and a ring of more than `size` slots then leave one slot
  free whenever the router has an element. The modular arithmetic of the ring is reduced to
  comparisons first (`RingFacts`, `MoveFacts`).
- **`RouterBufferProofs`**: `ReferencesAreCounted`, `RingsAreAppQueues`. `FwInv` adds to
  `ElementInv` that no app has a message twice (`CarryInv`), that the buffers of a batch
  are different and not yet with the apps still to be visited (`BatchInv`), and
  `ReferencesCounted` itself. For the refinement of `AppQueues` the contents of a queue are
  the messages of the occupied slots from `head` on (`ContentsAre`): enqueueing appends,
  dequeueing takes the first.
- **`ControllerProofs`**: `EnvironmentsStayAlive`, `TheStoreMatches`, `JoinedAppsAreTold`,
  `EverythingIsUnloaded`, for any number of slots, environments and requests. Their only
  condition is in the properties, the history variable; that it is needed is shown by
  `controller_stop`. `CtlInv` has three parts. Whatever overlaps, the variables are well
  typed and the two threads are at places that fit the phase of the program (`LocalInv`:
  `CtlTypes`, `PhaseInv`). As long as no slot was shared (`ApartInv`): slots have different,
  allocated environments (`SlotInv`), what a thread in `load_app` or `unload_app` knows of its
  slot is still true (`WorkInv`), two environments just allocated differ (`NewEnvs`), and the
  store has the apps loaded through it (`StoreInv`). Without a late request, the slots the
  final sweep has passed are empty (`SweepInv`).
- **`JrtcAppProofs`**: `ChannelsAreDestroyedOnce`, `RequestsAreDropped`,
  `AppsDoNotWaitForEachOther`. `AppInv` says which streams of an app have their channel,
  their item and their request at each place of `Init` and `CleanUp`; a step of one app
  leaves all that concerns the others as it is (`OnlyOf`).
- **`AppThreadsProofs`**: `ThreadStatesMatch`, `OnlyTheFirstLosesGil`, `MbufsAreReturned`,
  `SocketsAreOwn`. `PyInv` says where a thread may be with which thread states, locks and the
  GIL, and that while one has the GIL without an interpreter the others have not come past
  the creation of theirs. `NorthInv` counts the mbufs that are out and says which descriptors
  belong to the app at each place.

Only model-checked: liveness, which is out of the prover's reach (`LockIsReleased`,
`RouterNeverBlocks`, `BuffersReturn`, `UnloadReturns`, `InputServed`, `AppsStart`,
`ThreadsEnd`), and that the five violated properties are violated.

## Observations not stated as runs

- `jrtc_router_channel_register_req` (`jrtc_router.c:662`) ignores a failed id
  generation and registers the zero id.
- An id is reused as soon as it is released, and the router uses ids after its epoch
  section: a new app can get a message that was for the former owner of its id.
- The REST server accepts requests before `jrtc_router_init` has created the tables apps
  register in.
- The REST server is started before the router and the default app, so that both threads
  may find the same slot empty at the start: `EnvsAlive` fails for this reason too, as do
  `StoreMatches` and `AllUnloaded` without their condition on `overlap`.
- An app that does not look at `app_exit` holds up `unload_app`, and with it the only thread
  of the REST server or the final sweep.
- `load_app` frees the environment twice when the library cannot be opened or the
  thread not created, and never when there is no slot (`jrtc_int.c:330-333, 391-394`).
- `_get_stream_path` and `_get_stream_name` return more bits than were set when a byte
  they take whole has its sign bit set, although `jrtc_router_stream_id.h:270-286` says they
  return the path and the name; the theorem `GettersReturnFields` states the exact condition. The
  getters are used for printing only. The per-field `*_matches_req` functions read the id
  through a bit-field struct instead of the bytes, and nothing calls them.
- `jrtc_router_receive` polls the input channels only for the room the queue has left: an app
  whose queue holds a whole batch at every call never sees them. This is the exception in
  `InputServed`; without it the property is violated.
- A channel that `jrtc_router_channel_destroy` does not find under its dangling key
  (`jrtc_router.c:951`) stays until `jrtc_router_deregister_app` destroys what is left;
  `DestroyedOnce` holds because it does.
- Without an initialization timeout `JrtcApp::Init` does not look at `app_exit` while it
  waits for a channel; `UnloadReturns` is stated for apps with a timeout for this reason.
- The handlers of the sample apps assert that their messages are sent. The channel of
  the peer may be full or gone by then: in C the controller aborts. In Python the
  exception leaves `JrtcApp.run`, `jrtc_app_destroy` is not called, and the requests stay
  in the table for the next owner of the app's id: the exception in `RequestsDropped`.
- The Python wrapper tests `if not jrtc_router_channel_register_stream_id_req(...)`
  (`jrtc_app.py:191`), and a failure is -1. After an inactivity timeout it sets
  `self.last_received_time` but compares `self.data.last_received_time`, so the handler
  is called again in every round until a message arrives.
- The first Python app keeps the GIL when its sub-interpreter cannot be created
  (`jrtc_pythonapp_loader.c:333`), and no other Python app can start: the exception in
  `OnlyFirstLosesGil` and `AppsStart`.
- The north IO app ignores the result of `aa_net_init`: after a failure it closes
  descriptor 0, or one it has closed before and that may be another thread's by then, and
  allocates from a pool that was destroyed. It never destroys its pool in the end and
  never drops its request; if it cannot register, it exits the controller.
- If the router thread cannot be created, `jrtc_router_init` fails but leaves its tables
  usable; apps can register and get no messages.
- `advanced_example/advanced_example1.c`, which uses the router directly, deregisters one
  of its requests only.
- A Python app with several parameters can be loaded twice: `_is_app_loaded` compares
  `params[0]`, which is any of them.

## Not modelled

Time, scheduling classes and priorities; the contents of messages and the text of logs
and answers; weak memory (threads interleave sequentially consistently; ck's
structures are taken at their specification); the outcomes of undefined behaviour
after it has happened, except that `Controller` takes a double free, a double join or
a double `dlclose` to end the process, and `Py_Finalize` in the signal handler to return, to
end it or to do neither; requests to unload an id outside `app_envs[]`.

- Growth of the request table under a reader (`ht_free` ignores `defer`): it happens
  inside ConcurrencyKit, of which only the interface is modelled.
- A queue freed with messages in it: needs `RouterForward` composed with `RouterApps`,
  a product beyond what can be checked in minutes.
- `jrtc-ctl`, a separate program in Go with its own goroutines, Redis and HTTP clients.
- Configuration, logger, `jrtc_sched.c`: sequential I/O and system calls.
- The raw-API sample apps and the test programs: variations of the clients modelled.

## Next

`Decoder`, `CacheStore`, `Uploader` and `Deploy` of jrtc-ctl; the composition of
`RouterForward` with `RouterApps`, for which the invariants of both proofs are a start.

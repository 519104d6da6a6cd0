-------------------------- MODULE AppThreadsProofs --------------------------
(***************************************************************************)
(* The loader of Python apps for any number of threads, and the north IO   *)
(* app for any number of descriptors, mbufs and messages in a batch.       *)
(***************************************************************************)
EXTENDS AppThreads, WellFoundedInduction, TLAPS

-----------------------------------------------------------------------------
(***************************************************************************)
(* Python.  The inductive invariant says where a thread may be when it     *)
(* has python_lock, the GIL and its thread states.  A thread with the GIL  *)
(* before its interpreter is there is the first one, and the others have   *)
(* not come past Py_NewInterpreter.                                        *)
(***************************************************************************)
Locked == {"init", "new", "release", "unlock", "reacquire", "end", "last"}
NoState == {"start", "init", "new", "last", "done"}
OneState == {"release", "unlock", "acquire", "load", "run", "cleanup", "relock",
             "reacquire", "end"}

PyTypes ==
  /\ pc \in [Threads -> NoState \cup OneState \cup {"app"}]
  /\ pyLock \in Threads \cup {NoThread}
  /\ gil \in Threads \cup {NoThread}
  /\ cur \in [Threads -> {"none", "main", "sub", "app"}]
  /\ states \in [Threads -> SUBSET {"sub", "app"}]
  /\ initialized \in BOOLEAN

StatesInv ==
  \A p \in Threads :
    /\ pc[p] \in NoState => states[p] = {}
    /\ pc[p] \in OneState => states[p] = {"sub"}
    /\ pc[p] = "app" => states[p] = {"sub", "app"}

GilInv ==
  \A p \in Threads :
    /\ pc[p] \in {"release", "run", "cleanup", "end"} => gil = p
    /\ pc[p] \in {"release", "load", "run", "cleanup", "end"} => cur[p] = "sub"
    /\ gil = p => pc[p] \in {"new", "release", "load", "run", "app", "cleanup",
                             "end", "done"}

FirstInv ==
  /\ \A p \in Threads : pc[p] \in Locked <=> pyLock = p
  /\ ~initialized => gil = NoThread /\ \A p \in Threads : pc[p] \in {"start", "init"}
  /\ \A p \in Threads : gil = p /\ pc[p] \in {"new", "done"} =>
       \A q \in Threads : pc[q] \in {"start", "init", "new", "done"}

PyInv == PyTypes /\ StatesInv /\ GilInv /\ FirstInv

\* At first no thread has come into jrtc_start_app.
LEMMA PyInitially == PyInit => PyInv
BY ThreadsAssumption, Zenon
DEF PyInit, PyInv, PyTypes, StatesInv, GilInv, FirstInv, Locked, NoState, OneState

PyNext ==
  \E p \in Threads :
    \/ GilStep(p) \/ LoadStep(p) \/ ThreadStep(p)
    \/ NewInterpreterFails(p) \/ SwapOut(p)

\* Each step of jrtc_start_app, in whichever thread, preserves it.
LEMMA PyPreserved == PyInv /\ [PyNext]_pyVars => PyInv'
<1> SUFFICES ASSUME PyInv, [PyNext]_pyVars PROVE PyInv'
  OBVIOUS
<1> USE ThreadsAssumption
    DEF PyInv, PyTypes, StatesInv, GilInv, FirstInv, Locked, NoState, OneState, Goto
<1>1. CASE UNCHANGED pyVars
  BY <1>1 DEF pyVars
<1>2. ASSUME NEW p \in Threads, Lock(p) PROVE PyInv'
  BY <1>2 DEF Lock
<1>3. ASSUME NEW p \in Threads, Initialize(p) PROVE PyInv'
  BY <1>3 DEF Initialize, TakeGil
<1>4. ASSUME NEW p \in Threads, NewInterpreter(p) PROVE PyInv'
  BY <1>4 DEF NewInterpreter, TakeGil
<1>5. ASSUME NEW p \in Threads, NewInterpreterFails(p) PROVE PyInv'
  BY <1>5 DEF NewInterpreterFails
<1>6. ASSUME NEW p \in Threads, Release(p) PROVE PyInv'
  BY <1>6 DEF Release, DropGil
<1>7. ASSUME NEW p \in Threads, Unlock(p) PROVE PyInv'
  BY <1>7 DEF Unlock
<1>8. ASSUME NEW p \in Threads, Acquire(p) PROVE PyInv'
  BY <1>8 DEF Acquire, TakeGil
<1>9. ASSUME NEW p \in Threads, LoadStep(p) PROVE PyInv'
  BY <1>9 DEF LoadStep, LoadModules, LoadModulesFails, Running
<1>10. ASSUME NEW p \in Threads, SwapIn(p) PROVE PyInv'
  BY <1>10 DEF SwapIn
<1>11. ASSUME NEW p \in Threads, SwapInFails(p) PROVE PyInv'
  BY <1>11 DEF SwapInFails
<1>12. ASSUME NEW p \in Threads, SwapOut(p) PROVE PyInv'
  BY <1>12 DEF SwapOut, Running
<1>13. ASSUME NEW p \in Threads, Yield(p) PROVE PyInv'
  BY <1>13 DEF Yield, Running
<1>14. ASSUME NEW p \in Threads, Resume(p) PROVE PyInv'
  BY <1>14 DEF Resume
<1>15. ASSUME NEW p \in Threads, CleanUp(p) PROVE PyInv'
  BY <1>15 DEF CleanUp, DropGil
<1>16. ASSUME NEW p \in Threads, Relock(p) PROVE PyInv'
  BY <1>16 DEF Relock
<1>17. ASSUME NEW p \in Threads, Reacquire(p) PROVE PyInv'
  BY <1>17 DEF Reacquire, TakeGil
<1>18. ASSUME NEW p \in Threads, EndInterpreter(p) PROVE PyInv'
  BY <1>18 DEF EndInterpreter, DropGil
<1>19. ASSUME NEW p \in Threads, LastUnlock(p) PROVE PyInv'
  BY <1>19 DEF LastUnlock
<1> QED
  BY <1>1, <1>2, <1>3, <1>4, <1>5, <1>6, <1>7, <1>8, <1>9, <1>10, <1>11, <1>12,
     <1>13, <1>14, <1>15, <1>16, <1>17, <1>18, <1>19, Zenon
  DEF PyNext, GilStep, ThreadStep

-----------------------------------------------------------------------------
(***************************************************************************)
(* North IO.  The sockets of the app are what its descriptors say at every *)
(* point of aa_net_init and aa_net_stop, error paths included, and the     *)
(* mbufs that are not in the pool are those of the batch.                  *)
(***************************************************************************)
\* A nonempty set of numbers has a least one, so Open finds a free descriptor.
LEMMA LeastNatural ==
  ASSUME NEW S \in SUBSET Nat, S # {}
  PROVE  Min(S) \in S
<1> DEFINE R == OpToRel(<, Nat)
<1>1. PICK x \in S : \A y \in S : ~(<<y, x>> \in R)
  BY NatLessThanWellFounded, WFMin
<1>2. \A y \in S : y < x => <<y, x>> \in R
  BY DEF OpToRel
<1> HIDE DEF R
<1>3. \A y \in S : x <= y
  <2> SUFFICES ASSUME NEW y \in S PROVE x <= y
    OBVIOUS
  <2>1. ~(y < x)
    BY <1>1, <1>2, Zenon
  <2> QED
    BY <2>1
<1> QED
  BY <1>3, Zenon DEF Min

NorthTypes ==
  /\ npc \in {"init", "input", "output", "connect", "undo", "register", "loop",
              "encode", "stop", "done", "exit"}
  /\ owner \in [Fds -> {"north", "other", "free"}]
  /\ inFd \in Fds \cup {NoFd}
  /\ outFd \in Fds \cup {NoFd}
  /\ pool \in {"null", "live", "destroyed"}
  /\ mbufs \in Nat
  /\ initOk \in BOOLEAN
  /\ entries \in Nat
  /\ nSent \in Nat
  /\ appExit \in BOOLEAN

MbufInv ==
  /\ npc # "encode" => nSent = 0
  /\ pool = "live" => mbufs + nSent = NumMbufs

Norths == {f \in Fds : owner[f] = "north"}

SocketInv ==
  /\ npc \in {"init", "input", "done", "exit"} => Norths = {}
  /\ npc = "output" => Norths = {inFd}
  /\ npc = "connect" => inFd # outFd /\ Norths = {inFd, outFd}
  /\ npc \in {"undo", "register", "loop", "encode"} => Norths \subseteq {inFd, outFd}
  /\ npc = "stop" => Norths \subseteq {outFd}
  /\ npc \in {"input", "output", "connect"} => pool = "live"
  /\ npc \in {"init", "input", "output", "connect", "undo", "done", "exit"} => ~initOk
  /\ initOk =>
       /\ pool = "live"
       /\ npc # "stop" => inFd # outFd /\ Norths = {inFd, outFd}
       /\ npc = "stop" => Norths = {outFd}

NorthInv == NorthTypes /\ MbufInv /\ SocketInv

\* Before aa_net_init the app has no socket and no mbuf.
LEMMA NorthInitially == NorthInit => NorthInv
<1> SUFFICES ASSUME NorthInit PROVE NorthInv
  OBVIOUS
<1>0. initOk \in BOOLEAN /\ appExit \in BOOLEAN
  BY Zenon DEF NorthInit
<1>1. NorthTypes
  BY <1>0, NorthAssumption DEF NorthInit, NorthTypes, Fds, NoFd
<1>2. Norths = {}
  BY DEF NorthInit, Norths
<1> QED
  BY <1>1, <1>2 DEF NorthInit, NorthInv, MbufInv, SocketInv

\* A new descriptor is one that was free, and the others stay as they are.
LEMMA OpenTakesFree ==
  ASSUME NorthTypes, NEW who \in {"north", "other"}, Open(who)
  PROVE  /\ Min(Free) \in Fds
         /\ owner[Min(Free)] = "free"
         /\ owner' = [owner EXCEPT ![Min(Free)] = who]
         /\ owner' \in [Fds -> {"north", "other", "free"}]
<1>1. Free \in SUBSET Nat /\ Free # {}
  BY NorthAssumption DEF Open, Free, Fds
<1>2. Min(Free) \in Free
  BY <1>1, LeastNatural
<1> QED
  BY <1>2 DEF Open, Free, NorthTypes

NorthNext == NorthStep \/ Exit \/ OtherOpens \/ OtherCloses

\* Each step of the app, and what other threads do to the descriptors of the
\* process, preserves it.
LEMMA NorthPreserved == NorthInv /\ [NorthNext]_northVars => NorthInv'
<1> SUFFICES ASSUME NorthInv, [NorthNext]_northVars PROVE NorthInv'
  OBVIOUS
<1> USE NorthAssumption
    DEF NorthInv, NorthTypes, MbufInv, SocketInv, Norths, Fds, NoFd, net, loop
<1>1. CASE UNCHANGED northVars
  BY <1>1 DEF northVars
<1>2. CASE InitMempool
  BY <1>2 DEF InitMempool
<1>3. CASE OpenInputSocket
  <2>1. CASE Open("north") /\ inFd' = Min(Free)
    BY <1>3, <2>1, OpenTakesFree DEF OpenInputSocket, MempoolDestroyed
  <2>2. CASE inFd' = NoFd /\ UNCHANGED owner
    BY <1>3, <2>2 DEF OpenInputSocket, MempoolDestroyed
  <2> QED
    BY <1>3, <2>1, <2>2 DEF OpenInputSocket
<1>4. CASE OpenOutputSocket
  <2>1. CASE Open("north") /\ outFd' = Min(Free) /\ npc' = "connect"
    BY <1>4, <2>1, OpenTakesFree DEF OpenOutputSocket
  <2>2. CASE outFd' = NoFd /\ npc' = "undo" /\ UNCHANGED owner
    BY <1>4, <2>2 DEF OpenOutputSocket
  <2> QED
    BY <1>4, <2>1, <2>2 DEF OpenOutputSocket
<1>5. CASE Connect
  <2>1. UNCHANGED <<owner, inFd, outFd, pool, mbufs, loop>>
    BY <1>5 DEF Connect
  <2>2. CASE npc' = "register" /\ initOk' = TRUE
    BY <1>5, <2>1, <2>2 DEF Connect
  <2>3. CASE npc' = "undo" /\ UNCHANGED initOk
    BY <1>5, <2>1, <2>3 DEF Connect
  <2> QED
    BY <1>5, <2>2, <2>3, Zenon DEF Connect
<1>6. CASE UndoInit
  BY <1>6 DEF UndoInit, MempoolDestroyed, Close
<1>7. CASE Register
  BY <1>7 DEF Register
<1>8. CASE RegisterFails \/ AllocCrashes
  <2>1. ProcessEnds
    BY <1>8 DEF RegisterFails, AllocCrashes
  <2>2. Norths' = {}
    BY <2>1 DEF ProcessEnds
  <2>3. initOk' = FALSE /\ initOk' \in BOOLEAN
    BY <2>1, Zenon DEF ProcessEnds, ForgetNet
  <2> QED
    BY <2>1, <2>2, <2>3 DEF ProcessEnds, ForgetNet
<1>9. CASE Receive
  BY <1>9 DEF Receive
<1>10. CASE EncodeEntry
  BY <1>10 DEF EncodeEntry, CanAlloc
<1>11. CASE EncodeFails \/ AllocFails
  BY <1>11 DEF EncodeFails, AllocFails
<1>12. CASE Send
  BY <1>12 DEF Send
<1>13. CASE Exit
  BY <1>13 DEF Exit
<1>14. CASE StopInput
  BY <1>14 DEF StopInput, Close
<1>15. CASE StopOutput
  <2>1. Norths' = {}
    BY <1>15 DEF StopOutput, Close
  <2>2. initOk' = FALSE /\ initOk' \in BOOLEAN
    BY <1>15, Zenon DEF StopOutput, ForgetNet
  <2> QED
    BY <1>15, <2>1, <2>2 DEF StopOutput, Close, ForgetNet
<1>16. CASE OtherOpens
  BY <1>16, OpenTakesFree DEF OtherOpens
<1>17. CASE OtherCloses
  BY <1>17 DEF OtherCloses, Close
<1> QED
  BY <1>1, <1>2, <1>3, <1>4, <1>5, <1>6, <1>7, <1>8, <1>9, <1>10, <1>11, <1>12,
     <1>13, <1>14, <1>15, <1>16, <1>17, Zenon
  DEF NorthNext, NorthStep

-----------------------------------------------------------------------------
(***************************************************************************)
(* Both kinds of threads together.                                         *)
(***************************************************************************)
\* A step of one side leaves the variables of the other alone.
LEMMA ThreadsInvariant == Spec => []PyInv /\ []NorthInv
<1>1. Init => PyInv /\ NorthInv
  BY PyInitially, NorthInitially DEF Init
<1>2. [Next]_vars => [PyNext]_pyVars /\ [NorthNext]_northVars
  BY DEF Next, vars, PythonStep, North, PyNext, NorthNext
<1>3. PyInv /\ NorthInv /\ [Next]_vars => PyInv' /\ NorthInv'
  BY <1>2, PyPreserved, NorthPreserved
<1> QED
  BY <1>1, <1>3, PTL DEF Spec

\* For any number of Python apps, PyEval_ReleaseThread and Py_EndInterpreter are
\* only called with the GIL held through my_sub_ts, and the interpreter that is
\* ended has no other thread state.
THEOREM ThreadStatesMatch == Spec => []ThreadStateMatches
<1>1. PyInv => ThreadStateMatches
  BY DEF PyInv, GilInv, StatesInv, OneState, ThreadStateMatches
<1> QED
  BY <1>1, ThreadsInvariant, PTL

\* For any number of Python apps, only the first one can end with the GIL, and
\* then no app ever has an interpreter.
THEOREM OnlyTheFirstLosesGil == Spec => []OnlyFirstLosesGil
<1>1. PyInv => OnlyFirstLosesGil
  BY DEF PyInv, StatesInv, FirstInv, NoState, OnlyFirstLosesGil, GilLost
<1> QED
  BY <1>1, ThreadsInvariant, PTL

\* For a pool and a batch of any size, aa_channel_encode_fwd_out_data returns
\* every mbuf it has taken.
THEOREM MbufsAreReturned == Spec => []MbufsReturn
<1>1. NorthInv => MbufsReturn
  BY NorthAssumption DEF NorthInv, NorthTypes, MbufInv, MbufsReturn
<1> QED
  BY <1>1, ThreadsInvariant, PTL

\* For any number of descriptors, which other threads open and close meanwhile,
\* the sockets the app uses after a successful aa_net_init are its own, and none
\* of its sockets is open after it has returned.
THEOREM SocketsAreOwn == Spec => []OwnSockets
<1>1. NorthInv => OwnSockets
  BY DEF NorthInv, NorthTypes, SocketInv, Norths, OwnSockets
<1> QED
  BY <1>1, ThreadsInvariant, PTL
=============================================================================

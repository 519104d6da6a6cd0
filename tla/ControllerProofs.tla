-------------------------- MODULE ControllerProofs --------------------------
(***************************************************************************)
(* Loading and unloading of apps by the main thread and the REST thread,   *)
(* with any interleaving of the two and of the apps, for any number of     *)
(* slots, environments and requests.  The facts hold until both threads    *)
(* work on one slot, which the history variable remembers.                 *)
(***************************************************************************)
EXTENDS Controller, TLAPS

-----------------------------------------------------------------------------
(***************************************************************************)
(* The inductive invariant                                                 *)
(***************************************************************************)
\* Where load_app and unload_app may be
BeforeSlot == {"reserve", "take"}
NewInSlot == {"open", "create"}
OldInSlot == {"flag", "join", "close", "release"}
InSlot == NewInSlot \cup OldInSlot
Busy == {"load", "unload"} \cup BeforeSlot \cup InSlot

Starting == {"init", "router", "north", "load"} \cup BeforeSlot \cup NewInSlot
Sweeping == {"sweep", "unload"} \cup OldInSlot
Labels == Starting \cup Sweeping \cup
          {"wait", "end", "down", "starting", "idle", "dead"}

CtlTypes ==
  /\ app_envs \in [Slots -> Envs \cup {NoEnv}]
  /\ next \in Nat
  /\ mem \in [Envs -> {"free", "live"}]
  /\ what \in [Envs -> AllLoads \cup {NoLoad}]
  /\ app_exit \in [Envs -> BOOLEAN]
  /\ thr \in [Envs -> {"none", "started", "running", "done"}]
  /\ handle \in [Envs -> BOOLEAN]
  /\ dapp \in [Envs -> BOOLEAN]
  /\ pc \in [Threads -> Labels]
  /\ cur \in [Threads -> AllLoads \cup {NoLoad}]
  /\ env \in [Threads -> Envs \cup {NoEnv}]
  /\ idx \in [Threads -> Nat]
  /\ store \subseteq Slots
  /\ closing \in BOOLEAN

\* What a thread knows whatever the other one does
PhaseInv ==
  /\ pc["main"] \in Starting \cup {"wait"} \cup Sweeping \cup {"end", "dead"}
  /\ pc["rest"] \in {"down", "starting", "idle", "dead"} \cup Busy
  /\ pc["main"] \in Starting \cup {"wait"} => ~closing
  /\ pc["main"] \in Sweeping \cup {"end"} => closing
  /\ pc["main"] \in Sweeping => idx["main"] \in 0..NumSlots
  /\ pc["main"] \in {"init", "end"} => pc["rest"] = "down"
  /\ pc["main"] \in {"load"} \cup BeforeSlot \cup NewInSlot => cur["main"] = NorthLoad
  /\ pc["rest"] \in {"load"} \cup BeforeSlot \cup NewInSlot => cur["rest"] \in Loads(Reqs)
  /\ \A t \in Threads :
       /\ pc[t] \in BeforeSlot \cup InSlot => env[t] \in Envs
       /\ pc[t] \in {"take", "unload"} \cup InSlot => idx[t] \in Slots

LocalInv == CtlTypes /\ PhaseInv

\* Slots have different environments, which are allocated, and the environment
\* of an app whose thread has not been joined is in a slot.
SlotInv ==
  /\ \A i, j \in Slots : app_envs[i] = app_envs[j] /\ app_envs[i] # NoEnv => i = j
  /\ \A i \in Slots : app_envs[i] # NoEnv => mem[app_envs[i]] = "live"
  /\ \A e \in Envs : thr[e] # "none" \/ dapp[e] => \E i \in Slots : app_envs[i] = e

\* What a thread in load_app or unload_app knows of its environment and slot
WorkInv(t) ==
  /\ pc[t] \in BeforeSlot \cup NewInSlot =>
       mem[env[t]] = "live" /\ thr[env[t]] = "none" /\ ~dapp[env[t]]
  /\ pc[t] \in BeforeSlot => \A i \in Slots : app_envs[i] # env[t]
  /\ pc[t] = "take" => app_envs[idx[t]] = NoEnv
  /\ pc[t] \in InSlot => app_envs[idx[t]] = env[t]
  /\ pc[t] = "create" => what[env[t]] = cur[t]
  /\ pc[t] = "join" => app_exit[env[t]] = TRUE
  /\ pc[t] \in {"close", "release"} => thr[env[t]] = "none"
  /\ pc[t] = "release" => ~dapp[env[t]]

\* calloc gives the two threads different environments.
NewEnvs ==
  pc["main"] \in BeforeSlot /\ pc["rest"] \in BeforeSlot => env["main"] # env["rest"]

\* The ids in the store are those of the apps that have been loaded through it.
StoreInv ==
  pc["main"] \in Starting \cup {"wait"} =>
    store = {i \in Slots :
               /\ app_envs[i] # NoEnv
               /\ what[app_envs[i]] # NorthLoad
               /\ \A t \in Threads : pc[t] \in NewInSlot => idx[t] # i}

\* What holds until the two threads work on one slot
ApartInv == SlotInv /\ (\A t \in Threads : WorkInv(t)) /\ NewEnvs /\ StoreInv

\* The slots that the sweep has passed are empty.
SweepInv ==
  /\ pc["main"] \in Sweeping => \A i \in Slots : i < idx["main"] => app_envs[i] = NoEnv
  /\ pc["main"] = "end" => \A i \in Slots : app_envs[i] = NoEnv

\* A step keeps what holds until then.
KeepsApart == ~SameSlot /\ ApartInv /\ ~SameSlot' => ApartInv'

\* What every step does, from any state of the invariant's first part
Keeps == LocalInv => LocalInv' /\ KeepsApart

CtlInv ==
  /\ LocalInv
  /\ "slot" \notin overlap => ~SameSlot /\ ApartInv
  /\ overlap = {} => ~LateRequest /\ SweepInv

-----------------------------------------------------------------------------
USE DEF Threads, BeforeSlot, NewInSlot, OldInSlot, InSlot, Busy, Starting, Sweeping, Labels

\* The default app is not one that a REST client loads.
LEMMA NorthIsNotRest == NorthLoad \notin Loads(Reqs)
<1> SUFFICES ASSUME NorthLoad \in Loads(Reqs) PROVE FALSE
  BY Zenon
<1>1. PICK r \in Reqs : \E p : NorthLoad = [req |-> r, par |-> p]
  BY Zenon DEF Loads
<1>2. NorthLoad.req = r /\ NorthLoad.req = North
  BY <1>1, Zenon DEF NorthLoad
<1> QED
  BY <1>2, ControllerAssumption, Zenon

\* The invariant holds when the program starts.
LEMMA Initially == Init => CtlInv
<1> SUFFICES ASSUME Init PROVE CtlInv
  BY Zenon
<1> USE ControllerAssumption DEF Init
<1>0. pc \in [Threads -> Labels]
  OBVIOUS
<1>1. CtlTypes
  BY <1>0, Zenon DEF CtlTypes, Slots, AllLoads
<1>2. PhaseInv
  BY DEF PhaseInv
<1>3. SlotInv
  BY Zenon DEF SlotInv
<1>4. \A t \in Threads : WorkInv(t)
  BY DEF WorkInv
<1>5. NewEnvs /\ StoreInv
  BY Zenon DEF NewEnvs, StoreInv
<1>6. SweepInv /\ ~SameSlot /\ ~LateRequest
  BY Zenon DEF SweepInv, SameSlot, AtSlot, LateRequest
<1> QED
  BY <1>1, <1>2, <1>3, <1>4, <1>5, <1>6, Zenon DEF CtlInv, LocalInv, ApartInv

-----------------------------------------------------------------------------
(***************************************************************************)
(* The steps, one by one                                                   *)
(***************************************************************************)
\* What the slots are, and what the store is, depends on a few variables.
LEMMA SameSlots ==
  ASSUME SlotInv, UNCHANGED <<app_envs, mem, thr, dapp>>
  PROVE  SlotInv'
BY Zenon DEF SlotInv

\* The store stays right if no thread takes or leaves a slot in load_app.
LEMMA SameStore ==
  ASSUME StoreInv, UNCHANGED <<app_envs, what, store>>,
         pc'["main"] \in Starting \cup {"wait"} => pc["main"] \in Starting \cup {"wait"},
         \A u \in Threads : /\ pc'[u] \in NewInSlot <=> pc[u] \in NewInSlot
                            /\ pc[u] \in NewInSlot => idx'[u] = idx[u]
  PROVE  StoreInv'
<1> HIDE DEF Threads, NewInSlot
<1> QED
  BY DEF StoreInv

\* An aborted process does nothing any more.
LEMMA CrashStep ==
  ASSUME Crash
  PROVE  Keeps
<1> SUFFICES ASSUME LocalInv PROVE LocalInv' /\ KeepsApart
  BY Zenon DEF Keeps
<1> USE ControllerAssumption
    DEF LocalInv, CtlTypes, PhaseInv,
        Crash,
        envVars, slotVars, threadVars, progVars
<1>1. CtlTypes'
  BY Zenon DEF Slots
<1>2. PhaseInv'
  BY Zenon DEF Slots
<1>3. ASSUME ~SameSlot, ApartInv, ~SameSlot'
      PROVE  ApartInv'
  <2> USE <1>3 DEF ApartInv, SameSlot, AtSlot
  <2>1. SlotInv'
    BY DEF SlotInv, WorkInv
  <2>2. \A u \in Threads : WorkInv(u)'
    BY Zenon DEF SlotInv, WorkInv, NewEnvs, Slots
  <2>3. NewEnvs'
    BY Zenon DEF NewEnvs
  <2>4. StoreInv'
    BY Zenon DEF StoreInv
  <2> QED
    BY <2>1, <2>2, <2>3, <2>4, Zenon
<1> QED
  BY <1>1, <1>2, <1>3, Zenon DEF KeepsApart

\* load_app returns before it has taken a slot.
LEMMA LoadReturns ==
  ASSUME NEW t \in Threads, LoadRejected(t) \/ ReserveFull(t)
  PROVE  Keeps
<1> SUFFICES ASSUME LocalInv PROVE LocalInv' /\ KeepsApart
  BY Zenon DEF Keeps
<1> USE ControllerAssumption
    DEF LocalInv, CtlTypes, PhaseInv,
        LoadRejected, ReserveFull, Return,
        envVars, slotVars, threadVars, progVars
<1>1. CtlTypes'
  BY DEF Slots
<1>2. PhaseInv'
  BY DEF Slots
<1>3. ASSUME ~SameSlot, ApartInv, ~SameSlot'
      PROVE  ApartInv'
  <2> USE <1>3 DEF ApartInv, SameSlot, AtSlot
  <2>1. SlotInv'
    <3>1. SlotInv /\ UNCHANGED <<app_envs, mem, thr, dapp>>
      BY Zenon
    <3> QED
      BY <3>1, SameSlots, Zenon
  <2>2. \A u \in Threads : WorkInv(u)'
    BY DEF SlotInv, WorkInv, NewEnvs, Slots
  <2>3. NewEnvs'
    BY DEF NewEnvs
  <2>4. StoreInv'
    <3>1. StoreInv /\ UNCHANGED <<app_envs, what, store>>
      BY Zenon
    <3>2. pc'["main"] \in Starting \cup {"wait"} => pc["main"] \in Starting \cup {"wait"}
      BY Zenon
    <3>3. \A u \in Threads : /\ pc'[u] \in NewInSlot <=> pc[u] \in NewInSlot
                             /\ pc[u] \in NewInSlot => idx'[u] = idx[u]
      OBVIOUS
    <3> QED
      BY <3>1, <3>2, <3>3, SameStore, Zenon
  <2> QED
    BY <2>1, <2>2, <2>3, <2>4, Zenon
<1> QED
  BY <1>1, <1>2, <1>3, Zenon DEF KeepsApart

\* The environment that calloc returns is in no slot, and not the other thread's.
LEMMA LoadAllocStep ==
  ASSUME NEW t \in Threads, LoadAlloc(t)
  PROVE  Keeps
<1> SUFFICES ASSUME LocalInv PROVE LocalInv' /\ KeepsApart
  BY Zenon DEF Keeps
<1> USE ControllerAssumption
    DEF LocalInv, CtlTypes, PhaseInv,
        LoadAlloc, Goto,
        envVars, slotVars, threadVars, progVars
<1>0. PICK e \in Envs :
        /\ mem[e] = "free"
        /\ mem' = [mem EXCEPT ![e] = "live"]
        /\ what' = [what EXCEPT ![e] = NoLoad]
        /\ app_exit' = [app_exit EXCEPT ![e] = FALSE]
        /\ thr' = [thr EXCEPT ![e] = "none"]
        /\ handle' = [handle EXCEPT ![e] = FALSE]
        /\ dapp' = [dapp EXCEPT ![e] = FALSE]
        /\ env' = [env EXCEPT ![t] = e]
  BY Zenon
<1>1. CtlTypes'
  BY <1>0, Zenon
<1>2. PhaseInv'
  BY <1>0
<1>3. ASSUME ~SameSlot, ApartInv, ~SameSlot'
      PROVE  ApartInv'
  <2> USE <1>3 DEF ApartInv, SameSlot, AtSlot
  <2>0. \A i \in Slots : app_envs[i] # e
    BY <1>0 DEF SlotInv
  <2>a. \A i \in Slots : app_envs[i] # NoEnv => what'[app_envs[i]] = what[app_envs[i]]
    BY <1>0, <2>0
  <2>1. SlotInv'
    BY <1>0, <2>0 DEF SlotInv
  <2>2. \A u \in Threads : WorkInv(u)'
    BY <1>0, <2>0 DEF WorkInv
  <2>3. NewEnvs'
    BY <1>0, Zenon DEF NewEnvs, WorkInv
  <2>4. StoreInv'
    BY <2>a DEF StoreInv
  <2> QED
    BY <2>1, <2>2, <2>3, <2>4, Zenon
<1> QED
  BY <1>1, <1>2, <1>3, Zenon DEF KeepsApart

\* The slot that _jrtc_reserve_app_id finds is empty.
LEMMA ReserveFindStep ==
  ASSUME NEW t \in Threads, ReserveFind(t)
  PROVE  Keeps
<1> SUFFICES ASSUME LocalInv PROVE LocalInv' /\ KeepsApart
  BY Zenon DEF Keeps
<1> USE ControllerAssumption
    DEF LocalInv, CtlTypes, PhaseInv,
        ReserveFind, Nth, Goto,
        envVars, slotVars, threadVars, progVars
<1>1. CtlTypes'
  <2>1. pc' \in [Threads -> Labels]
    OBVIOUS
  <2>2. PICK i \in Slots : idx' = [idx EXCEPT ![t] = Nth(i)]
    BY Zenon
  <2>3. Nth(i) \in Nat
    BY DEF Slots
  <2>4. idx' \in [Threads -> Nat]
    BY <2>2, <2>3, Zenon DEF Nth
  <2> QED
    BY <2>1, <2>4, Zenon
<1>2. PhaseInv'
  BY DEF Slots
<1>3. ASSUME ~SameSlot, ApartInv, ~SameSlot'
      PROVE  ApartInv'
  <2> USE <1>3 DEF ApartInv, SameSlot, AtSlot
  <2>1. SlotInv'
    <3>1. SlotInv /\ UNCHANGED <<app_envs, mem, thr, dapp>>
      BY Zenon
    <3> QED
      BY <3>1, SameSlots, Zenon
  <2>2. \A u \in Threads : WorkInv(u)'
    BY DEF SlotInv, WorkInv, NewEnvs, Slots
  <2>3. NewEnvs'
    BY Zenon DEF NewEnvs
  <2>4. StoreInv'
    <3>1. StoreInv /\ UNCHANGED <<app_envs, what, store>>
      BY Zenon
    <3>2. pc'["main"] \in Starting \cup {"wait"} => pc["main"] \in Starting \cup {"wait"}
      BY Zenon
    <3>3. \A u \in Threads : /\ pc'[u] \in NewInSlot <=> pc[u] \in NewInSlot
                             /\ pc[u] \in NewInSlot => idx'[u] = idx[u]
      BY Zenon
    <3> QED
      BY <3>1, <3>2, <3>3, SameStore, Zenon
  <2> QED
    BY <2>1, <2>2, <2>3, <2>4, Zenon
<1> QED
  BY <1>1, <1>2, <1>3, Zenon DEF KeepsApart

\* It is still empty when it is taken, as the other thread has found another.
LEMMA ReserveTakeStep ==
  ASSUME NEW t \in Threads, ReserveTake(t)
  PROVE  Keeps
<1> SUFFICES ASSUME LocalInv PROVE LocalInv' /\ KeepsApart
  BY Zenon DEF Keeps
<1> USE ControllerAssumption
    DEF LocalInv, CtlTypes, PhaseInv,
        ReserveTake, Goto,
        envVars, slotVars, threadVars, progVars
<1>1. CtlTypes'
  <2>1. pc' \in [Threads -> Labels] /\ next' \in Nat
    BY DEF Slots
  <2>2. app_envs' \in [Slots -> Envs \cup {NoEnv}]
    OBVIOUS
  <2> QED
    BY <2>1, <2>2, Zenon
<1>2. PhaseInv'
  BY DEF Slots
<1>3. ASSUME ~SameSlot, ApartInv, ~SameSlot'
      PROVE  ApartInv'
  <2> USE <1>3 DEF ApartInv, SameSlot, AtSlot
  <2>1. SlotInv'
    BY DEF SlotInv, WorkInv
  <2>2. \A u \in Threads : WorkInv(u)'
    BY DEF SlotInv, WorkInv, NewEnvs, Slots
  <2>3. NewEnvs'
    BY Zenon DEF NewEnvs
  <2>4. StoreInv'
    BY DEF StoreInv, WorkInv
  <2> QED
    BY <2>1, <2>2, <2>3, <2>4, Zenon
<1> QED
  BY <1>1, <1>2, <1>3, Zenon DEF KeepsApart

\* The environment that is filled in is not in use yet.
LEMMA LoadOpenStep ==
  ASSUME NEW t \in Threads, LoadOpen(t)
  PROVE  Keeps
<1> SUFFICES ASSUME LocalInv PROVE LocalInv' /\ KeepsApart
  BY Zenon DEF Keeps
<1> USE ControllerAssumption
    DEF LocalInv, CtlTypes, PhaseInv,
        LoadOpen, LoadAppFromMemory, Goto,
        envVars, slotVars, threadVars, progVars
<1>1. CtlTypes'
  BY Zenon DEF Slots
<1>2. PhaseInv'
  BY DEF Slots
<1>3. ASSUME ~SameSlot, ApartInv, ~SameSlot'
      PROVE  ApartInv'
  <2> USE <1>3 DEF ApartInv, SameSlot, AtSlot
  <2>0. /\ env[t] \in Envs /\ idx[t] \in Slots /\ app_envs[idx[t]] = env[t]
       /\ \A i \in Slots : app_envs[i] # NoEnv /\ i # idx[t] =>
            app_envs[i] # env[t] /\ what'[app_envs[i]] = what[app_envs[i]]
    BY DEF WorkInv, SlotInv
  <2>1. SlotInv'
    <3>1. SlotInv /\ UNCHANGED <<app_envs, mem, thr, dapp>>
      BY Zenon
    <3> QED
      BY <3>1, SameSlots, Zenon
  <2>2. \A u \in Threads : WorkInv(u)'
    BY DEF SlotInv, WorkInv, NewEnvs, Slots
  <2>3. NewEnvs'
    BY Zenon DEF NewEnvs
  <2>4. StoreInv'
    BY <2>0 DEF StoreInv
  <2> QED
    BY <2>1, <2>2, <2>3, <2>4, Zenon
<1> QED
  BY <1>1, <1>2, <1>3, Zenon DEF KeepsApart

\* The store gets the id of the app.
LEMMA LoadCreateStep ==
  ASSUME NEW t \in Threads, LoadCreate(t)
  PROVE  Keeps
<1> SUFFICES ASSUME LocalInv PROVE LocalInv' /\ KeepsApart
  BY Zenon DEF Keeps
<1> USE ControllerAssumption
    DEF LocalInv, CtlTypes, PhaseInv,
        LoadCreate, Return,
        envVars, slotVars, threadVars, progVars
<1>1. CtlTypes'
  BY Zenon DEF Slots
<1>2. PhaseInv'
  BY DEF Slots
<1>3. ASSUME ~SameSlot, ApartInv, ~SameSlot'
      PROVE  ApartInv'
  <2> USE <1>3 DEF ApartInv, SameSlot, AtSlot
  <2>1. SlotInv'
    BY DEF SlotInv, WorkInv
  <2>2. \A u \in Threads : WorkInv(u)'
    BY DEF SlotInv, WorkInv, NewEnvs, Slots
  <2>3. NewEnvs'
    BY Zenon DEF NewEnvs
  <2>4. StoreInv'
    BY NorthIsNotRest DEF StoreInv, WorkInv
  <2> QED
    BY <2>1, <2>2, <2>3, <2>4, Zenon
<1> QED
  BY <1>1, <1>2, <1>3, Zenon DEF KeepsApart

\* unload_app finds the environment of a slot.
LEMMA UnloadReadStep ==
  ASSUME NEW t \in Threads, UnloadRead(t)
  PROVE  Keeps
<1> SUFFICES ASSUME LocalInv PROVE LocalInv' /\ KeepsApart
  BY Zenon DEF Keeps
<1> USE ControllerAssumption
    DEF LocalInv, CtlTypes, PhaseInv,
        UnloadRead, Return, Goto,
        envVars, slotVars, threadVars, progVars
<1>1. CtlTypes'
  BY DEF Slots
<1>2. PhaseInv'
  BY DEF Slots
<1>3. ASSUME ~SameSlot, ApartInv, ~SameSlot'
      PROVE  ApartInv'
  <2> USE <1>3 DEF ApartInv, SameSlot, AtSlot
  <2>1. SlotInv'
    <3>1. SlotInv /\ UNCHANGED <<app_envs, mem, thr, dapp>>
      BY Zenon
    <3> QED
      BY <3>1, SameSlots, Zenon
  <2>2. \A u \in Threads : WorkInv(u)'
    BY DEF SlotInv, WorkInv, NewEnvs, Slots
  <2>3. NewEnvs'
    BY DEF NewEnvs
  <2>4. StoreInv'
    <3>1. StoreInv /\ UNCHANGED <<app_envs, what, store>>
      BY Zenon
    <3>2. pc'["main"] \in Starting \cup {"wait"} => pc["main"] \in Starting \cup {"wait"}
      OBVIOUS
    <3>3. \A u \in Threads : /\ pc'[u] \in NewInSlot <=> pc[u] \in NewInSlot
                             /\ pc[u] \in NewInSlot => idx'[u] = idx[u]
      OBVIOUS
    <3> QED
      BY <3>1, <3>2, <3>3, SameStore, Zenon
  <2> QED
    BY <2>1, <2>2, <2>3, <2>4, Zenon
<1> QED
  BY <1>1, <1>2, <1>3, Zenon DEF KeepsApart

\* The app is told to exit.
LEMMA UnloadFlagStep ==
  ASSUME NEW t \in Threads, UnloadFlag(t)
  PROVE  Keeps
<1> SUFFICES ASSUME LocalInv PROVE LocalInv' /\ KeepsApart
  BY Zenon DEF Keeps
<1> USE ControllerAssumption
    DEF LocalInv, CtlTypes, PhaseInv,
        UnloadFlag, Goto,
        envVars, slotVars, threadVars, progVars
<1>1. CtlTypes'
  BY Zenon DEF Slots
<1>2. PhaseInv'
  BY DEF Slots
<1>3. ASSUME ~SameSlot, ApartInv, ~SameSlot'
      PROVE  ApartInv'
  <2> USE <1>3 DEF ApartInv, SameSlot, AtSlot
  <2>1. SlotInv'
    <3>1. SlotInv /\ UNCHANGED <<app_envs, mem, thr, dapp>>
      BY Zenon
    <3> QED
      BY <3>1, SameSlots, Zenon
  <2>2. \A u \in Threads : WorkInv(u)'
    BY DEF SlotInv, WorkInv, NewEnvs, Slots
  <2>3. NewEnvs'
    BY Zenon DEF NewEnvs
  <2>4. StoreInv'
    <3>1. StoreInv /\ UNCHANGED <<app_envs, what, store>>
      BY Zenon
    <3>2. pc'["main"] \in Starting \cup {"wait"} => pc["main"] \in Starting \cup {"wait"}
      BY Zenon
    <3>3. \A u \in Threads : /\ pc'[u] \in NewInSlot <=> pc[u] \in NewInSlot
                             /\ pc[u] \in NewInSlot => idx'[u] = idx[u]
      BY Zenon
    <3> QED
      BY <3>1, <3>2, <3>3, SameStore, Zenon
  <2> QED
    BY <2>1, <2>2, <2>3, <2>4, Zenon
<1> QED
  BY <1>1, <1>2, <1>3, Zenon DEF KeepsApart

\* The thread has ended when unload_app goes on.
LEMMA UnloadJoinStep ==
  ASSUME NEW t \in Threads, UnloadJoin(t)
  PROVE  Keeps
<1> SUFFICES ASSUME LocalInv PROVE LocalInv' /\ KeepsApart
  BY Zenon DEF Keeps
<1> USE ControllerAssumption
    DEF LocalInv, CtlTypes, PhaseInv,
        UnloadJoin, Crash, Goto,
        envVars, slotVars, threadVars, progVars
<1>1. CtlTypes'
  <2>1. CASE thr[env[t]] = "done"
    BY <2>1
  <2>2. CASE thr[env[t]] # "done"
    BY <2>2
  <2> QED
    BY <2>1, <2>2, Zenon
<1>2. PhaseInv'
  BY DEF Slots
<1>3. ASSUME ~SameSlot, ApartInv, ~SameSlot'
      PROVE  ApartInv'
  <2> USE <1>3 DEF ApartInv, SameSlot, AtSlot
  <2>1. SlotInv'
    BY DEF SlotInv, WorkInv
  <2>2. \A u \in Threads : WorkInv(u)'
    BY DEF SlotInv, WorkInv, NewEnvs, Slots
  <2>3. NewEnvs'
    BY DEF NewEnvs
  <2>4. StoreInv'
    BY DEF StoreInv
  <2> QED
    BY <2>1, <2>2, <2>3, <2>4, Zenon
<1> QED
  BY <1>1, <1>2, <1>3, Zenon DEF KeepsApart

\* The app is deregistered before its environment is freed.
LEMMA UnloadCloseStep ==
  ASSUME NEW t \in Threads, UnloadClose(t)
  PROVE  Keeps
<1> SUFFICES ASSUME LocalInv PROVE LocalInv' /\ KeepsApart
  BY Zenon DEF Keeps
<1> USE ControllerAssumption
    DEF LocalInv, CtlTypes, PhaseInv,
        UnloadClose, Goto,
        envVars, slotVars, threadVars, progVars
<1>1. CtlTypes'
  BY Zenon DEF Slots
<1>2. PhaseInv'
  BY DEF Slots
<1>3. ASSUME ~SameSlot, ApartInv, ~SameSlot'
      PROVE  ApartInv'
  <2> USE <1>3 DEF ApartInv, SameSlot, AtSlot
  <2>1. SlotInv'
    BY DEF SlotInv, WorkInv
  <2>2. \A u \in Threads : WorkInv(u)'
    BY DEF SlotInv, WorkInv, NewEnvs, Slots
  <2>3. NewEnvs'
    BY Zenon DEF NewEnvs
  <2>4. StoreInv'
    BY DEF StoreInv
  <2> QED
    BY <2>1, <2>2, <2>3, <2>4, Zenon
<1> QED
  BY <1>1, <1>2, <1>3, Zenon DEF KeepsApart

\* The slot, the environment and the id go together.
LEMMA UnloadReleaseStep ==
  ASSUME NEW t \in Threads, UnloadRelease(t)
  PROVE  Keeps
<1> SUFFICES ASSUME LocalInv PROVE LocalInv' /\ KeepsApart
  BY Zenon DEF Keeps
<1> USE ControllerAssumption
    DEF LocalInv, CtlTypes, PhaseInv,
        UnloadRelease, Return,
        envVars, slotVars, threadVars, progVars
<1>1. CtlTypes'
  <2>1. CASE app_envs[idx[t]] = NoEnv
    BY <2>1
  <2>2. CASE app_envs[idx[t]] # NoEnv
    BY <2>2
  <2> QED
    BY <2>1, <2>2, Zenon
<1>2. PhaseInv'
  BY DEF Slots
<1>3. ASSUME ~SameSlot, ApartInv, ~SameSlot'
      PROVE  ApartInv'
  <2> USE <1>3 DEF ApartInv, SameSlot, AtSlot
  <2>0. /\ env[t] \in Envs /\ idx[t] \in Slots /\ app_envs[idx[t]] = env[t]
       /\ \A i \in Slots : app_envs[i] # NoEnv /\ i # idx[t] =>
            app_envs[i] # env[t] /\ what'[app_envs[i]] = what[app_envs[i]]
    BY DEF WorkInv, SlotInv
  <2>1. SlotInv'
    BY DEF SlotInv, WorkInv
  <2>2. \A u \in Threads : WorkInv(u)'
    BY DEF SlotInv, WorkInv, NewEnvs, Slots
  <2>3. NewEnvs'
    BY Zenon DEF NewEnvs
  <2>4. StoreInv'
    BY <2>0 DEF StoreInv
  <2> QED
    BY <2>1, <2>2, <2>3, <2>4, Zenon
<1> QED
  BY <1>1, <1>2, <1>3, Zenon DEF KeepsApart

\* The main thread before it waits for the signal.
LEMMA StartStep ==
  ASSUME StartRest \/ RouterInit \/ LoadNorth
  PROVE  Keeps
<1> SUFFICES ASSUME LocalInv PROVE LocalInv' /\ KeepsApart
  BY Zenon DEF Keeps
<1> USE ControllerAssumption
    DEF LocalInv, CtlTypes, PhaseInv,
        StartRest, RouterInit, LoadNorth, Goto,
        envVars, slotVars, threadVars, progVars
<1>1. CtlTypes'
  <2>1. UNCHANGED <<envVars, slotVars, env, idx, store, closing>>
    BY Zenon
  <2>2. pc' \in [Threads -> Labels]
    OBVIOUS
  <2>3. cur' \in [Threads -> AllLoads \cup {NoLoad}]
    BY DEF AllLoads
  <2> HIDE DEF StartRest, RouterInit, LoadNorth
  <2> QED
    BY <2>1, <2>2, <2>3, Zenon
<1>2. PhaseInv'
  BY DEF Slots
<1>3. ASSUME ~SameSlot, ApartInv, ~SameSlot'
      PROVE  ApartInv'
  <2> USE <1>3 DEF ApartInv, SameSlot, AtSlot
  <2>0. /\ UNCHANGED <<app_envs, what, idx, store>>
       /\ \A t \in Threads : pc'[t] \in NewInSlot <=> pc[t] \in NewInSlot
    OBVIOUS
  <2>1. SlotInv'
    <3>1. SlotInv /\ UNCHANGED <<app_envs, mem, thr, dapp>>
      BY Zenon
    <3> QED
      BY <3>1, SameSlots, Zenon
  <2>2. \A u \in Threads : WorkInv(u)'
    BY DEF SlotInv, WorkInv, NewEnvs, Slots
  <2>3. NewEnvs'
    BY DEF NewEnvs
  <2>4. StoreInv'
    BY <2>0 DEF StoreInv
  <2> QED
    BY <2>1, <2>2, <2>3, <2>4, Zenon
<1> QED
  BY <1>1, <1>2, <1>3, Zenon DEF KeepsApart

\* The sweep starts.
LEMMA StopRestStep ==
  ASSUME StopRest
  PROVE  Keeps
<1> SUFFICES ASSUME LocalInv PROVE LocalInv' /\ KeepsApart
  BY Zenon DEF Keeps
<1> USE ControllerAssumption
    DEF LocalInv, CtlTypes, PhaseInv,
        StopRest, Goto,
        envVars, slotVars, threadVars, progVars
<1>1. CtlTypes'
  BY Zenon DEF Slots
<1>2. PhaseInv'
  BY DEF Slots
<1>3. ASSUME ~SameSlot, ApartInv, ~SameSlot'
      PROVE  ApartInv'
  <2> USE <1>3 DEF ApartInv, SameSlot, AtSlot
  <2>1. SlotInv'
    <3>1. SlotInv /\ UNCHANGED <<app_envs, mem, thr, dapp>>
      BY Zenon
    <3> QED
      BY <3>1, SameSlots, Zenon
  <2>2. \A u \in Threads : WorkInv(u)'
    BY DEF SlotInv, WorkInv, NewEnvs, Slots
  <2>3. NewEnvs'
    BY Zenon DEF NewEnvs
  <2>4. StoreInv'
    BY Zenon DEF StoreInv
  <2> QED
    BY <2>1, <2>2, <2>3, <2>4, Zenon
<1> QED
  BY <1>1, <1>2, <1>3, Zenon DEF KeepsApart

\* The sweep goes on to the next slot that is taken.
LEMMA SweepStep ==
  ASSUME Sweep
  PROVE  Keeps
<1> SUFFICES ASSUME LocalInv PROVE LocalInv' /\ KeepsApart
  BY Zenon DEF Keeps
<1> USE ControllerAssumption
    DEF LocalInv, CtlTypes, PhaseInv,
        Sweep, Goto,
        envVars, slotVars, threadVars, progVars
<1>1. CtlTypes'
  BY DEF Slots
<1>2. PhaseInv'
  BY DEF Slots
<1>3. ASSUME ~SameSlot, ApartInv, ~SameSlot'
      PROVE  ApartInv'
  <2> USE <1>3 DEF ApartInv, SameSlot, AtSlot
  <2>1. SlotInv'
    <3>1. SlotInv /\ UNCHANGED <<app_envs, mem, thr, dapp>>
      BY Zenon
    <3> QED
      BY <3>1, SameSlots, Zenon
  <2>2. \A u \in Threads : WorkInv(u)'
    BY DEF SlotInv, WorkInv, NewEnvs, Slots
  <2>3. NewEnvs'
    BY DEF NewEnvs
  <2>4. StoreInv'
    <3>1. pc'["main"] \notin Starting \cup {"wait"}
      OBVIOUS
    <3> QED
      BY <3>1, Zenon DEF StoreInv
  <2> QED
    BY <2>1, <2>2, <2>3, <2>4, Zenon
<1> QED
  BY <1>1, <1>2, <1>3, Zenon DEF KeepsApart

\* A request to load is taken.
LEMMA RestLoadStep ==
  ASSUME NEW l \in Loads(Reqs), RestLoad(l)
  PROVE  Keeps
<1> SUFFICES ASSUME LocalInv PROVE LocalInv' /\ KeepsApart
  BY Zenon DEF Keeps
<1> USE ControllerAssumption
    DEF LocalInv, CtlTypes, PhaseInv,
        RestLoad, Accepts, Goto, AllLoads,
        envVars, slotVars, threadVars, progVars
<1>1. CtlTypes'
  BY Zenon DEF Slots
<1>2. PhaseInv'
  BY Zenon DEF Slots
<1>3. ASSUME ~SameSlot, ApartInv, ~SameSlot'
      PROVE  ApartInv'
  <2> USE <1>3 DEF ApartInv, SameSlot, AtSlot
  <2>1. SlotInv'
    <3>1. SlotInv /\ UNCHANGED <<app_envs, mem, thr, dapp>>
      BY Zenon
    <3> QED
      BY <3>1, SameSlots, Zenon
  <2>2. \A u \in Threads : WorkInv(u)'
    BY DEF SlotInv, WorkInv, NewEnvs, Slots
  <2>3. NewEnvs'
    BY Zenon DEF NewEnvs
  <2>4. StoreInv'
    <3>1. StoreInv /\ UNCHANGED <<app_envs, what, store>>
      BY Zenon
    <3>2. pc'["main"] \in Starting \cup {"wait"} => pc["main"] \in Starting \cup {"wait"}
      BY Zenon
    <3>3. \A u \in Threads : /\ pc'[u] \in NewInSlot <=> pc[u] \in NewInSlot
                             /\ pc[u] \in NewInSlot => idx'[u] = idx[u]
      BY Zenon
    <3> QED
      BY <3>1, <3>2, <3>3, SameStore, Zenon
  <2> QED
    BY <2>1, <2>2, <2>3, <2>4, Zenon
<1> QED
  BY <1>1, <1>2, <1>3, Zenon DEF KeepsApart

\* A request to unload is taken.
LEMMA RestUnloadStep ==
  ASSUME NEW i \in Slots, RestUnload(i)
  PROVE  Keeps
<1> SUFFICES ASSUME LocalInv PROVE LocalInv' /\ KeepsApart
  BY Zenon DEF Keeps
<1> USE ControllerAssumption
    DEF LocalInv, CtlTypes, PhaseInv,
        RestUnload, Accepts, Goto, Slots,
        envVars, slotVars, threadVars, progVars
<1>1. CtlTypes'
  BY DEF Slots
<1>2. PhaseInv'
  BY Zenon DEF Slots
<1>3. ASSUME ~SameSlot, ApartInv, ~SameSlot'
      PROVE  ApartInv'
  <2> USE <1>3 DEF ApartInv, SameSlot, AtSlot
  <2>1. SlotInv'
    <3>1. SlotInv /\ UNCHANGED <<app_envs, mem, thr, dapp>>
      BY Zenon
    <3> QED
      BY <3>1, SameSlots, Zenon
  <2>2. \A u \in Threads : WorkInv(u)'
    BY DEF SlotInv, WorkInv, NewEnvs, Slots
  <2>3. NewEnvs'
    BY Zenon DEF NewEnvs
  <2>4. StoreInv'
    <3>1. StoreInv /\ UNCHANGED <<app_envs, what, store>>
      BY Zenon
    <3>2. pc'["main"] \in Starting \cup {"wait"} => pc["main"] \in Starting \cup {"wait"}
      BY Zenon
    <3>3. \A u \in Threads : /\ pc'[u] \in NewInSlot <=> pc[u] \in NewInSlot
                             /\ pc[u] \in NewInSlot => idx'[u] = idx[u]
      BY Zenon
    <3> QED
      BY <3>1, <3>2, <3>3, SameStore, Zenon
  <2> QED
    BY <2>1, <2>2, <2>3, <2>4, Zenon
<1> QED
  BY <1>1, <1>2, <1>3, Zenon DEF KeepsApart

\* The REST server comes up and goes down.
LEMMA ServerStep ==
  ASSUME RestUp \/ RestDown
  PROVE  Keeps
<1> SUFFICES ASSUME LocalInv PROVE LocalInv' /\ KeepsApart
  BY Zenon DEF Keeps
<1> USE ControllerAssumption
    DEF LocalInv, CtlTypes, PhaseInv,
        RestUp, RestDown, Goto,
        envVars, slotVars, threadVars, progVars
<1>1. CtlTypes'
  <2>1. UNCHANGED <<envVars, slotVars, cur, env, idx, store, closing>>
    BY Zenon
  <2>2. pc' \in [Threads -> Labels]
    OBVIOUS
  <2> HIDE DEF RestUp, RestDown
  <2> QED
    BY <2>1, <2>2, Zenon
<1>2. PhaseInv'
  BY DEF Slots
<1>3. ASSUME ~SameSlot, ApartInv, ~SameSlot'
      PROVE  ApartInv'
  <2> USE <1>3 DEF ApartInv, SameSlot, AtSlot
  <2>1. SlotInv'
    <3>1. SlotInv /\ UNCHANGED <<app_envs, mem, thr, dapp>>
      BY Zenon
    <3> QED
      BY <3>1, SameSlots, Zenon
  <2>2. \A u \in Threads : WorkInv(u)'
    BY DEF SlotInv, WorkInv, NewEnvs, Slots
  <2>3. NewEnvs'
    BY Zenon DEF NewEnvs
  <2>4. StoreInv'
    <3>1. StoreInv /\ UNCHANGED <<app_envs, what, store>>
      BY Zenon
    <3>2. pc'["main"] \in Starting \cup {"wait"} => pc["main"] \in Starting \cup {"wait"}
      BY Zenon
    <3>3. \A u \in Threads : /\ pc'[u] \in NewInSlot <=> pc[u] \in NewInSlot
                             /\ pc[u] \in NewInSlot => idx'[u] = idx[u]
      BY Zenon
    <3> QED
      BY <3>1, <3>2, <3>3, SameStore, Zenon
  <2> QED
    BY <2>1, <2>2, <2>3, <2>4, Zenon
<1> QED
  BY <1>1, <1>2, <1>3, Zenon DEF KeepsApart

\* Ctrl+C changes nothing of this.
LEMMA SignalStep ==
  ASSUME Sigint \/ FinalizeReturns \/ UNCHANGED vars
  PROVE  Keeps
<1> SUFFICES ASSUME LocalInv PROVE LocalInv' /\ KeepsApart
  BY Zenon DEF Keeps
<1> USE ControllerAssumption
    DEF LocalInv, CtlTypes, PhaseInv
<1>0. UNCHANGED <<app_envs, next, mem, what, app_exit, thr, handle, dapp,
                  pc, cur, env, idx, store, closing>>
  BY Zenon DEF Sigint, FinalizeReturns, vars, envVars, slotVars, threadVars, progVars
<1>1. CtlTypes'
  BY <1>0, Zenon
<1>2. PhaseInv'
  BY <1>0
<1> USE <1>0
<1>3. ASSUME ~SameSlot, ApartInv, ~SameSlot'
      PROVE  ApartInv'
  <2> USE <1>3 DEF ApartInv, SameSlot, AtSlot
  <2>1. SlotInv'
    <3>1. SlotInv /\ UNCHANGED <<app_envs, mem, thr, dapp>>
      BY Zenon
    <3> QED
      BY <3>1, SameSlots, Zenon
  <2>2. \A u \in Threads : WorkInv(u)'
    BY DEF SlotInv, WorkInv, NewEnvs, Slots
  <2>3. NewEnvs'
    BY Zenon DEF NewEnvs
  <2>4. StoreInv'
    <3>1. StoreInv /\ UNCHANGED <<app_envs, what, store>>
      BY Zenon
    <3>2. pc'["main"] \in Starting \cup {"wait"} => pc["main"] \in Starting \cup {"wait"}
      BY Zenon
    <3>3. \A u \in Threads : /\ pc'[u] \in NewInSlot <=> pc[u] \in NewInSlot
                             /\ pc[u] \in NewInSlot => idx'[u] = idx[u]
      BY Zenon
    <3> QED
      BY <3>1, <3>2, <3>3, SameStore, Zenon
  <2> QED
    BY <2>1, <2>2, <2>3, <2>4, Zenon
<1> QED
  BY <1>1, <1>2, <1>3, Zenon DEF KeepsApart

\* The thread of an app runs only while its environment is in a slot.
LEMMA ThreadStep ==
  ASSUME NEW e \in Envs, AppStart(e) \/ AppReturn(e)
  PROVE  Keeps
<1> SUFFICES ASSUME LocalInv PROVE LocalInv' /\ KeepsApart
  BY Zenon DEF Keeps
<1> USE ControllerAssumption DEF LocalInv, CtlTypes, PhaseInv
<1>0. UNCHANGED <<app_envs, next, mem, what, app_exit, pc, cur, env, idx, store, closing>>
  BY Zenon DEF AppStart, AppReturn, slotVars, threadVars, progVars
<1>a. \A x \in Envs : thr[x] = "none" => thr'[x] = "none" /\ dapp'[x] = dapp[x]
  BY DEF AppStart, AppReturn
<1>b. \A x \in Envs : thr'[x] # "none" \/ dapp'[x] => thr[x] # "none" \/ dapp[x]
  BY DEF AppStart, AppReturn
<1>1. CtlTypes'
  <2>1. thr' \in [Envs -> {"none", "started", "running", "done"}]
    BY Zenon DEF AppStart, AppReturn
  <2>2. handle' \in [Envs -> BOOLEAN]
    BY Zenon DEF AppStart, AppReturn
  <2>3. dapp' \in [Envs -> BOOLEAN]
    BY Zenon DEF AppStart, AppReturn
  <2> QED
    BY <1>0, <2>1, <2>2, <2>3, Zenon
<1> USE <1>0
<1>2. PhaseInv'
  OBVIOUS
<1>3. ASSUME ~SameSlot, ApartInv, ~SameSlot'
      PROVE  ApartInv'
  <2> USE <1>3 DEF ApartInv, SameSlot, AtSlot
  <2>1. SlotInv'
    BY <1>b DEF SlotInv
  <2>2. ASSUME NEW u \in Threads
        PROVE  WorkInv(u)'
    <3>1. WorkInv(u)
      BY Zenon
    <3>2. pc[u] \in BeforeSlot \cup InSlot => env[u] \in Envs
      BY Zenon
    <3>3. env[u] \in Envs /\ thr[env[u]] = "none" =>
            thr'[env[u]] = "none" /\ dapp'[env[u]] = dapp[env[u]]
      BY <1>a, Zenon
    <3> HIDE <1>3 DEF LocalInv, CtlTypes, PhaseInv, ApartInv
    <3> QED
      BY <3>1, <3>2, <3>3 DEF WorkInv
  <2>3. NewEnvs'
    BY Zenon DEF NewEnvs
  <2>4. StoreInv'
    <3>1. StoreInv /\ UNCHANGED <<app_envs, what, store>>
      BY Zenon
    <3>2. pc'["main"] \in Starting \cup {"wait"} => pc["main"] \in Starting \cup {"wait"}
      BY Zenon
    <3>3. \A u \in Threads : /\ pc'[u] \in NewInSlot <=> pc[u] \in NewInSlot
                             /\ pc[u] \in NewInSlot => idx'[u] = idx[u]
      BY Zenon
    <3> QED
      BY <3>1, <3>2, <3>3, SameStore, Zenon
  <2> QED
    BY <2>1, <2>2, <2>3, <2>4, Zenon
<1> QED
  BY <1>1, <1>2, <1>3, Zenon DEF KeepsApart

-----------------------------------------------------------------------------
\* A step is one of the steps above.
LEMMA EveryStep ==
  ASSUME [Next]_vars
  PROVE  Keeps
<1>1. ASSUME NEW t \in Threads, LoadStep(t)
      PROVE  Keeps
  BY <1>1, LoadReturns, LoadAllocStep, ReserveFindStep, ReserveTakeStep,
     LoadOpenStep, LoadCreateStep, CrashStep, Zenon
     DEF LoadStep, LoadFails
<1>2. ASSUME NEW t \in Threads, UnloadStep(t)
      PROVE  Keeps
  BY <1>2, UnloadReadStep, UnloadFlagStep, UnloadJoinStep, UnloadCloseStep,
     UnloadReleaseStep, CrashStep, Zenon
     DEF UnloadStep, UnloadCloseFails
<1>3. CASE MainStep
  BY <1>1, <1>2, <1>3, StartStep, StopRestStep, SweepStep, Zenon DEF MainStep
<1>4. CASE RestStep
  BY <1>1, <1>2, <1>4, ServerStep, Zenon DEF RestStep
<1>5. CASE \E e \in Envs : AppStep(e)
  BY <1>5, ThreadStep, CrashStep, Zenon DEF AppStep, AppStartNoRouter
<1> QED
  BY <1>3, <1>4, <1>5, SignalStep, CrashStep, RestLoadStep, RestUnloadStep, Zenon
     DEF Next, Step, FinalizeCrashes

\* While no request is in progress only the main thread empties slots, and only
\* the one it has come to.
LEMMA SweepGoesOn ==
  ASSUME LocalInv, ~LateRequest, SweepInv, [Next]_vars, ~LateRequest'
  PROVE  SweepInv'
<1>0. /\ app_envs \in [Slots -> Envs \cup {NoEnv}]
      /\ pc \in [Threads -> Labels]
      /\ idx \in [Threads -> Nat]
      /\ pc["main"] \in Starting \cup {"wait"} => ~closing
      /\ pc["main"] \in Sweeping \cup {"end"} => closing
      /\ pc["main"] \in {"unload"} \cup OldInSlot => idx["main"] \in Slots
  BY Zenon DEF LocalInv, CtlTypes, PhaseInv
<1> USE <1>0, ControllerAssumption
    DEF SweepInv, envVars, slotVars, threadVars, progVars
<1>1. CASE UNCHANGED <<app_envs, idx>> /\ pc'["main"] = pc["main"]
  BY <1>1, Zenon
<1>2. CASE pc'["main"] \notin Sweeping \cup {"end"}
  BY <1>2, Zenon
<1>3. CASE UNCHANGED vars
  BY <1>1, <1>3, Zenon DEF vars
<1>4. CASE Crash
  BY <1>2, <1>4, Zenon DEF Crash
<1>5. CASE \E e \in Envs : AppStep(e)
  BY <1>1, <1>4, <1>5, Zenon DEF AppStep, AppStart, AppStartNoRouter, AppReturn
<1>6. CASE Sigint \/ FinalizeReturns \/ FinalizeCrashes
  BY <1>1, <1>4, <1>6, Zenon DEF Sigint, FinalizeReturns, FinalizeCrashes
<1>7. CASE RestUp \/ RestDown
  BY <1>1, <1>7, Zenon DEF RestUp, RestDown, Goto
<1>8. ASSUME pc["rest"] \in Busy \cup {"idle"}, ~closing, pc'["main"] = pc["main"]
      PROVE  SweepInv'
  BY <1>2, <1>8, Zenon
<1>9. pc["rest"] \in Busy => ~closing
  BY Zenon DEF LateRequest, InCall
<1>10. CASE LoadStep("rest")
  BY <1>4, <1>8, <1>9, <1>10
     DEF LoadStep, LoadRejected, LoadAlloc, ReserveFind, ReserveFull, ReserveTake,
         LoadOpen, LoadFails, LoadCreate, Goto, Return
<1>11. CASE UnloadStep("rest")
  BY <1>4, <1>8, <1>9, <1>11
     DEF UnloadStep, UnloadRead, UnloadFlag, UnloadJoin, UnloadClose,
         UnloadCloseFails, UnloadRelease, Goto, Return
<1>12. CASE \/ \E l \in Loads(Reqs) : RestLoad(l)
            \/ \E i \in Slots : RestUnload(i)
  BY <1>8, <1>12, Zenon DEF RestLoad, RestUnload, Accepts, Goto
<1>13. CASE LoadStep("main")
  BY <1>2, <1>4, <1>13
     DEF LoadStep, LoadRejected, LoadAlloc, ReserveFind, ReserveFull, ReserveTake,
         LoadOpen, LoadFails, LoadCreate, Goto, Return
<1>14. CASE UnloadStep("main")
  <2>1. closing /\ pc["main"] \in Sweeping /\ idx["main"] \in Slots
    BY <1>14, Zenon
       DEF UnloadStep, UnloadRead, UnloadFlag, UnloadJoin, UnloadClose,
           UnloadCloseFails, UnloadRelease
  <2>2. ASSUME UNCHANGED <<app_envs, idx>>, pc'["main"] # "end"
        PROVE  SweepInv'
    BY <2>1, <2>2, Zenon
  <2>3. ASSUME Return("main"), app_envs'[idx["main"]] = NoEnv,
               \A i \in Slots : i < idx["main"] => app_envs'[i] = app_envs[i]
        PROVE  SweepInv'
    <3>1. idx'["main"] = idx["main"] + 1 /\ pc'["main"] = "sweep"
      BY <2>1, <2>3, Zenon DEF Return
    <3> QED
      BY <2>1, <2>3, <3>1 DEF Slots
  <2>4. CASE UnloadRelease("main")
    <3>1. app_envs' = [app_envs EXCEPT ![idx["main"]] = NoEnv]
      BY <2>1, <2>4, Zenon DEF UnloadRelease
    <3>2. \A i \in Slots : i < idx["main"] => i # idx["main"]
      BY DEF Slots
    <3> QED
      BY <2>1, <2>3, <2>4, <3>1, <3>2, Zenon DEF UnloadRelease
  <2>5. CASE UnloadRead("main")
    BY <2>1, <2>2, <2>3, <2>5 DEF UnloadRead, Goto
  <2>6. CASE UnloadFlag("main") \/ UnloadJoin("main") \/ UnloadClose("main")
    BY <1>4, <2>2, <2>6 DEF UnloadFlag, UnloadJoin, UnloadClose, Goto
  <2> QED
    BY <1>4, <1>14, <2>4, <2>5, <2>6, Zenon DEF UnloadStep, UnloadCloseFails
<1>15. CASE StartRest \/ RouterInit \/ LoadNorth
  <2>1. CASE StartRest
    BY <1>2, <2>1 DEF StartRest
  <2>2. CASE RouterInit
    BY <1>2, <2>2 DEF RouterInit, Goto
  <2>3. CASE LoadNorth
    BY <1>2, <2>3 DEF LoadNorth, Goto
  <2> QED
    BY <1>15, <2>1, <2>2, <2>3, Zenon
<1>16. CASE StopRest
  <2>1. pc'["main"] = "sweep" /\ idx'["main"] = 0
    BY <1>16, Zenon DEF StopRest, Goto
  <2> QED
    BY <2>1 DEF Slots
<1>17. CASE Sweep
  BY <1>17 DEF Sweep, Goto, Slots
<1> QED
  BY <1>3, <1>5, <1>6, <1>7, <1>10, <1>11, <1>12, <1>13, <1>14, <1>15, <1>16, <1>17, Zenon
     DEF Next, Step, MainStep, RestStep

\* Every step keeps the invariant.
LEMMA Preserved ==
  ASSUME CtlInv, [Next]_vars
  PROVE  CtlInv'
<1>1. LocalInv' /\ KeepsApart
  BY EveryStep, Zenon DEF CtlInv, Keeps
<1>2. CASE UNCHANGED vars
  <2>1. UNCHANGED <<overlap, pc, idx, closing, app_envs>>
    BY <1>2, Zenon DEF vars, threadVars, progVars, slotVars
  <2>2. (SameSlot' <=> SameSlot) /\ (LateRequest' <=> LateRequest) /\ (SweepInv => SweepInv')
    BY <2>1, Zenon DEF SameSlot, AtSlot, LateRequest, InCall, SweepInv
  <2> QED
    BY <1>1, <2>1, <2>2, Zenon DEF CtlInv, KeepsApart
<1>3. CASE History
  <2>1. "slot" \notin overlap' => "slot" \notin overlap /\ ~SameSlot'
    BY <1>3, Zenon DEF History
  <2>2. overlap' = {} => overlap = {} /\ ~LateRequest'
    BY <1>3, Zenon DEF History
  <2>3. overlap' = {} => SweepInv'
    BY <2>2, SweepGoesOn, Zenon DEF CtlInv
  <2> QED
    BY <1>1, <2>1, <2>2, <2>3, Zenon DEF CtlInv, KeepsApart
<1> QED
  BY <1>2, <1>3, Zenon DEF Next

\* The invariant holds of every reachable state.
LEMMA Invariant == Spec => []CtlInv
<1>1. Init => CtlInv
  BY Initially, Zenon
<1>2. CtlInv /\ [Next]_vars => CtlInv'
  BY Preserved, Zenon
<1> QED
  BY <1>1, <1>2, PTL DEF Spec

-----------------------------------------------------------------------------
(***************************************************************************)
(* What it means for load_app, unload_app and start_jrtc                   *)
(***************************************************************************)
\* The main thread and the REST thread share app_envs[] without a lock.  For any
\* number of slots and requests, and however the two and the threads of the apps
\* interleave, nobody uses an environment that unload_app has freed unless the
\* two threads have worked on one slot at the same time.
THEOREM EnvironmentsStayAlive == Spec => []SlotsApartAreSafe
<1>1. CtlInv => SlotsApartAreSafe
  BY ControllerAssumption
     DEF CtlInv, LocalInv, CtlTypes, PhaseInv, ApartInv, SlotInv, WorkInv,
         SlotsApartAreSafe, EnvsAlive
<1> QED
  BY <1>1, Invariant, PTL

\* Under the same condition the REST server and the controller agree, between
\* two requests, on the ids of the loaded apps: a failed, a rejected and a
\* successful request all leave the store equal to the slots.
THEOREM TheStoreMatches == Spec => []StoreMatches
<1>1. CtlInv => StoreMatches
  BY Zenon DEF CtlInv, LocalInv, CtlTypes, ApartInv, StoreInv, StoreMatches
<1> QED
  BY <1>1, Invariant, PTL

\* Under the same condition pthread_join waits for a thread whose app_exit is
\* set: no load_app has cleared the flag since unload_app set it.
THEOREM JoinedAppsAreTold == Spec => []WaitsForToldOnly
<1>1. CtlInv => WaitsForToldOnly
  BY Zenon DEF CtlInv, ApartInv, WorkInv, WaitsForToldOnly
<1> QED
  BY <1>1, Invariant, PTL

\* If moreover no request is in progress when the REST server is told to stop,
\* start_jrtc returns only when every app has been joined, deregistered and
\* removed from its slot.
THEOREM EverythingIsUnloaded == Spec => []AllUnloaded
<1>1. CtlInv => AllUnloaded
  BY ControllerAssumption
     DEF CtlInv, LocalInv, CtlTypes, ApartInv, SlotInv, SweepInv, AllUnloaded
<1> QED
  BY <1>1, Invariant, PTL
=============================================================================

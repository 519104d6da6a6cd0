----------------------------- MODULE Controller -----------------------------
(***************************************************************************)
(* The life of the apps in the controller (jrtc_int.c) and the REST server *)
(* through which they are loaded and unloaded (rest_api_lib/src/lib.rs).   *)
(*                                                                         *)
(* Two threads call load_app and unload_app: the main thread, for the      *)
(* default north IO app and for the sweep that ends the program, and the   *)
(* one thread of the REST server, which serves one request after another.  *)
(* They share app_envs[] without a lock.  Every loaded app has a thread of *)
(* its own, which uses the environment the loading thread allocated.       *)
(***************************************************************************)
EXTENDS Naturals, FiniteSets

CONSTANTS
  NumSlots,  \* MAX_NUM_JRTC_APPS
  Envs,      \* addresses calloc has for a jrtc_app_env
  NoEnv,     \* the null pointer
  Reqs,      \* load requests a REST client may send
  North,     \* the load request for the default north IO app
  Python,    \* those whose app_type is "python"
  Path,      \* app_path of each request
  Params,    \* app_params of each request
  NoParam,   \* params[0] of a request without parameters
  NoLoad     \* no request

ASSUME ControllerAssumption ==
  /\ NumSlots \in Nat \ {0}
  /\ NoEnv \notin Envs
  /\ North \notin Reqs
  /\ Python \subseteq Reqs
  /\ Params[North] = {}
  /\ \A r \in Reqs : NoParam \notin Params[r]

Slots == 0..NumSlots - 1
Threads == {"main", "rest"}

\* What a load is asked for: the request and the parameter that is params[0].
\* The REST server fills params[] in the order in which a HashMap iterates.
Loads(R) == UNION {{[req |-> r, par |-> p] :
                      p \in IF Params[r] = {} THEN {NoParam} ELSE Params[r]} :
                   r \in R}
NorthLoad == [req |-> North, par |-> NoParam]
AllLoads == Loads(Reqs) \cup {NorthLoad}

ASSUME NoLoadAssumption == NoLoad \notin AllLoads

VARIABLES
  app_envs,  \* the environment in each slot
  next,      \* next_available_app_env
  mem,       \* "live" for the allocated environments
  what,      \* app_path and params[] of an environment, once filled in
  app_exit,  \* its app_exit flag
  thr,       \* its thread: "none", "started", "running" or "done"
  handle,    \* its library is open
  dapp,      \* it is registered with the router
  pc,        \* where the main thread and the REST thread are
  cur,       \* the request each of them is loading
  env,       \* the environment each of them works on
  idx,       \* the slot each of them works on
  store,     \* ids of the apps the REST server knows of
  closing,   \* the REST server has been told to shut down
  routerUp,  \* the router has its tables: jrtc_router_init has got that far
  sigint,    \* jrtc_stop has been posted
  py,        \* the Python interpreter is initialized
  handler,   \* the main thread is in Py_Finalize, in its signal handler
  overlap    \* history: "slot" if both threads have worked on a slot at once,
             \* "stop" if a request was in progress when the server was stopped

envVars == <<mem, what, app_exit, thr, handle, dapp>>
slotVars == <<app_envs, next>>
threadVars == <<pc, cur, env, idx>>
progVars == <<closing, routerUp, sigint, py, handler>>
vars == <<envVars, slotVars, threadVars, store, progVars, overlap>>

Init ==
  /\ app_envs = [i \in Slots |-> NoEnv]
  /\ next = 0
  /\ mem = [e \in Envs |-> "free"]
  /\ what = [e \in Envs |-> NoLoad]
  /\ app_exit = [e \in Envs |-> FALSE]
  /\ thr = [e \in Envs |-> "none"]
  /\ handle = [e \in Envs |-> FALSE]
  /\ dapp = [e \in Envs |-> FALSE]
  /\ pc = [main |-> "init", rest |-> "down"]
  /\ cur = [t \in Threads |-> NoLoad]
  /\ env = [t \in Threads |-> NoEnv]
  /\ idx = [t \in Threads |-> 0]
  /\ store = {}
  /\ closing = FALSE
  /\ routerUp = FALSE
  /\ sigint = FALSE
  /\ py = FALSE
  /\ handler = FALSE
  /\ overlap = {}

Goto(t, label) == pc' = [pc EXCEPT ![t] = label]

\* abort(), or a double free or join that the C library does not survive
Crash ==
  /\ pc' = [t \in Threads |-> "dead"]
  /\ thr' = [e \in Envs |-> "none"]
  /\ handler' = FALSE
  /\ UNCHANGED <<mem, what, app_exit, handle, dapp, slotVars, cur, env, idx,
                 store, closing, routerUp, sigint, py>>

\* where a call of load_app or unload_app returns to, for either thread
Return(t) ==
  /\ pc' = [pc EXCEPT ![t] = CASE t = "rest"           -> "idle"
                               [] t = "main" /\ closing -> "sweep"
                               [] OTHER                 -> "wait"]
  /\ env' = [env EXCEPT ![t] = NoEnv]
  /\ cur' = [cur EXCEPT ![t] = NoLoad]
  /\ idx' = [idx EXCEPT ![t] = IF t = "main" /\ closing THEN @ + 1 ELSE 0]

-----------------------------------------------------------------------------
(***************************************************************************)
(* load_app                                                                *)
(***************************************************************************)

\* an environment in a slot is that of the app to be loaded: by params[0] for a
\* Python app, which is never found without it, and by path for the others
SameApp(e, l) ==
  /\ what[e] # NoLoad
  /\ IF l.req \in Python THEN l.par # NoParam /\ what[e].par = l.par
     ELSE Path[what[e].req] = Path[l.req]

\* _is_app_loaded; the default app has no app_type and is never found.
IsAppLoaded(l) ==
  /\ l.req # North
  /\ \E i \in Slots : app_envs[i] # NoEnv /\ SameApp(app_envs[i], l)

\* The app is loaded already, or calloc fails.
LoadRejected(t) ==
  /\ pc[t] = "load"
  /\ Return(t)
  /\ UNCHANGED <<envVars, slotVars, store, progVars>>

\* calloc of the environment
LoadAlloc(t) ==
  /\ pc[t] = "load"
  /\ ~IsAppLoaded(cur[t])
  /\ \E e \in Envs :
       /\ mem[e] = "free"
       /\ mem' = [mem EXCEPT ![e] = "live"]
       /\ what' = [what EXCEPT ![e] = NoLoad]
       /\ app_exit' = [app_exit EXCEPT ![e] = FALSE]
       /\ thr' = [thr EXCEPT ![e] = "none"]
       /\ handle' = [handle EXCEPT ![e] = FALSE]
       /\ dapp' = [dapp EXCEPT ![e] = FALSE]
       /\ env' = [env EXCEPT ![t] = e]
  /\ Goto(t, "reserve")
  /\ UNCHANGED <<slotVars, cur, idx, store, progVars>>

\* the slots in the order in which _jrtc_reserve_app_id visits them
Nth(i) == (next + i) % NumSlots

\* _jrtc_reserve_app_id finds a slot that is NULL ...
ReserveFind(t) ==
  /\ pc[t] = "reserve"
  /\ \E i \in Slots :
       /\ app_envs[Nth(i)] = NoEnv
       /\ \A j \in 0..i - 1 : app_envs[Nth(j)] # NoEnv
       /\ idx' = [idx EXCEPT ![t] = Nth(i)]
  /\ Goto(t, "take")
  /\ UNCHANGED <<envVars, slotVars, cur, env, store, progVars>>

\* ... or none: load_app returns without freeing the environment.
ReserveFull(t) ==
  /\ pc[t] = "reserve"
  /\ \A i \in Slots : app_envs[i] # NoEnv
  /\ Return(t)
  /\ UNCHANGED <<envVars, slotVars, store, progVars>>

\* ... which it then takes.
ReserveTake(t) ==
  /\ pc[t] = "take"
  /\ app_envs' = [app_envs EXCEPT ![idx[t]] = env[t]]
  /\ next' = (idx[t] + 1) % NumSlots
  /\ Goto(t, "open")
  /\ UNCHANGED <<envVars, cur, env, idx, store, progVars>>

\* _jrtc_load_app_from_memory: the library is opened from an in-memory file,
\* whose descriptor is closed in any case.
LoadAppFromMemory(e) == handle' = [handle EXCEPT ![e] = TRUE]

\* The library is opened and the environment is filled in.
LoadOpen(t) ==
  /\ pc[t] = "open"
  /\ LoadAppFromMemory(env[t])
  /\ what' = [what EXCEPT ![env[t]] = cur[t]]
  /\ app_exit' = [app_exit EXCEPT ![env[t]] = FALSE]
  /\ Goto(t, "create")
  /\ UNCHANGED <<mem, thr, dapp, slotVars, cur, env, idx, store, progVars>>

\* The library or the thread cannot be created: _jrtc_release_app_id frees the
\* environment in the slot and load_app frees it again.
LoadFails(t) ==
  /\ pc[t] \in {"open", "create"}
  /\ Crash

\* pthread_create; the REST handler then puts the id in its store.
LoadCreate(t) ==
  /\ pc[t] = "create"
  /\ thr' = [thr EXCEPT ![env[t]] = "started"]
  /\ store' = IF t = "rest" THEN store \cup {idx[t]} ELSE store
  /\ Return(t)
  /\ UNCHANGED <<mem, what, app_exit, handle, dapp, slotVars, progVars>>

-----------------------------------------------------------------------------
(***************************************************************************)
(* run_app, the thread of an app                                           *)
(***************************************************************************)

\* jrtc_router_register_app (which may fail), then jrtc_start_app, which for a
\* Python app initializes Python; a library without that symbol is closed at
\* once.
AppStart(e) ==
  /\ thr[e] = "started"
  /\ routerUp
  /\ \E ok \in BOOLEAN : dapp' = [dapp EXCEPT ![e] = ok]
  /\ \E symbol \in BOOLEAN :
       /\ thr' = [thr EXCEPT ![e] = IF symbol THEN "running" ELSE "done"]
       /\ handle' = [handle EXCEPT ![e] = symbol]
       /\ py' = (py \/ (symbol /\ what[e] \in Loads(Python)))
  /\ UNCHANGED <<mem, what, app_exit, slotVars, threadVars, store, closing,
                 routerUp, sigint, handler>>

\* The router has no bitmap of apps to register in.
AppStartNoRouter(e) ==
  /\ thr[e] = "started"
  /\ ~routerUp
  /\ Crash

\* The app returns: because app_exit is set, or by itself.
AppReturn(e) ==
  /\ thr[e] = "running"
  /\ thr' = [thr EXCEPT ![e] = "done"]
  /\ UNCHANGED <<mem, what, app_exit, handle, dapp, slotVars, threadVars,
                 store, progVars>>

-----------------------------------------------------------------------------
(***************************************************************************)
(* unload_app                                                              *)
(***************************************************************************)
UnloadRead(t) ==
  /\ pc[t] = "unload"
  /\ IF app_envs[idx[t]] = NoEnv
     THEN Return(t)
     ELSE /\ env' = [env EXCEPT ![t] = app_envs[idx[t]]]
          /\ Goto(t, "flag")
          /\ UNCHANGED <<cur, idx>>
  /\ UNCHANGED <<envVars, slotVars, store, progVars>>

\* Mutant: the app is not told to exit.
MutUnloadFlagForgotten(t) ==
  /\ pc[t] = "flag"
  /\ Goto(t, "join")
  /\ UNCHANGED <<envVars, slotVars, cur, env, idx, store, progVars>>

\* atomic_store(&env->app_exit, true)
UnloadFlag(t) ==
  /\ pc[t] = "flag"
  /\ app_exit' = [app_exit EXCEPT ![env[t]] = TRUE]
  /\ Goto(t, "join")
  /\ UNCHANGED <<mem, what, thr, handle, dapp, slotVars, cur, env, idx,
                 store, progVars>>

\* Mutant: the thread is not waited for.
MutUnloadJoinNoWait(t) ==
  /\ pc[t] = "join"
  /\ Goto(t, "close")
  /\ UNCHANGED <<envVars, slotVars, cur, env, idx, store, progVars>>

\* pthread_join; it fails, and unload_app aborts, for a thread that is gone.
UnloadJoin(t) ==
  /\ pc[t] = "join"
  /\ thr[env[t]] \notin {"started", "running"}
  /\ IF thr[env[t]] = "done"
     THEN /\ thr' = [thr EXCEPT ![env[t]] = "none"]
          /\ Goto(t, "close")
          /\ UNCHANGED <<mem, what, app_exit, handle, dapp, slotVars, cur, env,
                         idx, store, progVars>>
     ELSE Crash

\* dlclose and jrtc_router_deregister_app
UnloadClose(t) ==
  /\ pc[t] = "close"
  /\ handle[env[t]]
  /\ handle' = [handle EXCEPT ![env[t]] = FALSE]
  /\ dapp' = [dapp EXCEPT ![env[t]] = FALSE]
  /\ Goto(t, "release")
  /\ UNCHANGED <<mem, what, app_exit, thr, slotVars, cur, env, idx, store,
                 progVars>>

\* dlclose fails for a library that run_app has closed already: abort.
UnloadCloseFails(t) ==
  /\ pc[t] = "close"
  /\ ~handle[env[t]]
  /\ Crash

\* Mutant: the REST handler forgets to remove the id.
MutUnloadReleaseKeepsId(t) ==
  /\ pc[t] = "release"
  /\ IF app_envs[idx[t]] = NoEnv
     THEN UNCHANGED <<mem, app_envs>>
     ELSE /\ mem' = [mem EXCEPT ![app_envs[idx[t]]] = "free"]
          /\ app_envs' = [app_envs EXCEPT ![idx[t]] = NoEnv]
  /\ what' = [what EXCEPT ![env[t]] = NoLoad]
  /\ app_exit' = [app_exit EXCEPT ![env[t]] = FALSE]
  /\ Return(t)
  /\ UNCHANGED <<thr, handle, dapp, next, store, progVars>>

\* free(env->app_name), free(env->app_path) and _jrtc_release_app_id; the REST
\* handler then removes the id from its store.  The contents of what is freed
\* are dead.
UnloadRelease(t) ==
  /\ pc[t] = "release"
  /\ IF app_envs[idx[t]] = NoEnv
     THEN UNCHANGED <<mem, app_envs>>
     ELSE /\ mem' = [mem EXCEPT ![app_envs[idx[t]]] = "free"]
          /\ app_envs' = [app_envs EXCEPT ![idx[t]] = NoEnv]
  /\ what' = [what EXCEPT ![env[t]] = NoLoad]
  /\ app_exit' = [app_exit EXCEPT ![env[t]] = FALSE]
  /\ store' = IF t = "rest" THEN store \ {idx[t]} ELSE store
  /\ Return(t)
  /\ UNCHANGED <<thr, handle, dapp, next, progVars>>

-----------------------------------------------------------------------------
(***************************************************************************)
(* start_jrtc, the main thread                                             *)
(***************************************************************************)
StartRest ==
  /\ pc["main"] = "init"
  /\ pc' = [main |-> "router", rest |-> "starting"]
  /\ UNCHANGED <<envVars, slotVars, cur, env, idx, store, progVars>>

\* A router that fails to initialise is logged and otherwise ignored.  The last
\* failure, that of its thread, leaves the tables in place.
RouterInit ==
  /\ pc["main"] = "router"
  /\ routerUp' \in BOOLEAN
  /\ Goto("main", "north")
  /\ UNCHANGED <<envVars, slotVars, cur, env, idx, store, closing, sigint, py,
                 handler>>

\* load_default_north_io_app, if its library can be read
LoadNorth ==
  /\ pc["main"] = "north"
  /\ \/ Goto("main", "load") /\ cur' = [cur EXCEPT !["main"] = NorthLoad]
     \/ Goto("main", "wait") /\ UNCHANGED cur
  /\ UNCHANGED <<envVars, slotVars, env, idx, store, progVars>>

\* ctrlc_handler, in the main thread, whatever that is doing: sem_post, and
\* Py_Finalize if there is an interpreter
Sigint ==
  /\ ~sigint
  /\ pc["main"] \notin {"init", "end", "dead"}
  /\ sigint' = TRUE
  /\ handler' = py
  /\ UNCHANGED <<envVars, slotVars, threadVars, store, closing, routerUp, py>>

\* What Py_Finalize does in a signal handler of a thread that does not hold the
\* GIL, while the threads of the apps run Python, is undefined.  It returns ...
FinalizeReturns ==
  /\ handler
  /\ handler' = FALSE
  /\ py' = FALSE
  /\ UNCHANGED <<envVars, slotVars, threadVars, store, closing, routerUp, sigint>>

\* ... or the program does not survive it, or neither.
FinalizeCrashes ==
  /\ handler
  /\ Crash

\* jrtc_stop_rest_server: returns once the signal has been sent to the server.
StopRest ==
  /\ pc["main"] = "wait"
  /\ sigint
  /\ closing' = TRUE
  /\ idx' = [idx EXCEPT !["main"] = 0]
  /\ Goto("main", "sweep")
  /\ UNCHANGED <<envVars, slotVars, cur, env, store, routerUp, sigint, py, handler>>

\* Mutant: the sweep misses the last slot.
MutSweepOffByOne ==
  /\ pc["main"] = "sweep"
  /\ IF idx["main"] >= NumSlots - 1
     THEN pc' = [main |-> "end", rest |-> "down"] /\ UNCHANGED idx
     ELSE IF app_envs[idx["main"]] = NoEnv
     THEN idx' = [idx EXCEPT !["main"] = @ + 1] /\ UNCHANGED pc
     ELSE Goto("main", "unload") /\ UNCHANGED idx
  /\ UNCHANGED <<envVars, slotVars, cur, env, store, progVars>>

\* The loop that unloads what is loaded; then jrtc_router_stop.
Sweep ==
  /\ pc["main"] = "sweep"
  /\ IF idx["main"] = NumSlots
     THEN pc' = [main |-> "end", rest |-> "down"] /\ UNCHANGED idx
     ELSE IF app_envs[idx["main"]] = NoEnv
     THEN idx' = [idx EXCEPT !["main"] = @ + 1] /\ UNCHANGED pc
     ELSE Goto("main", "unload") /\ UNCHANGED idx
  /\ UNCHANGED <<envVars, slotVars, cur, env, store, progVars>>

-----------------------------------------------------------------------------
(***************************************************************************)
(* The REST server                                                         *)
(***************************************************************************)

\* The server takes another request.
Accepts ==
  /\ pc["rest"] = "idle"
  /\ ~closing

RestLoad(l) ==
  /\ Accepts
  /\ cur' = [cur EXCEPT !["rest"] = l]
  /\ Goto("rest", "load")
  /\ UNCHANGED <<envVars, slotVars, env, idx, store, progVars>>

RestUnload(i) ==
  /\ Accepts
  /\ idx' = [idx EXCEPT !["rest"] = i]
  /\ Goto("rest", "unload")
  /\ UNCHANGED <<envVars, slotVars, cur, env, store, progVars>>

\* _start_rest_server: the server listens, maybe after it is told to shut down.
RestUp ==
  /\ pc["rest"] = "starting"
  /\ Goto("rest", "idle")
  /\ UNCHANGED <<envVars, slotVars, cur, env, idx, store, progVars>>

RestDown ==
  /\ pc["rest"] = "idle"
  /\ closing
  /\ Goto("rest", "down")
  /\ UNCHANGED <<envVars, slotVars, cur, env, idx, store, progVars>>

-----------------------------------------------------------------------------
LoadStep(t) ==
  \/ LoadRejected(t) \/ LoadAlloc(t)
  \/ ReserveFind(t) \/ ReserveFull(t) \/ ReserveTake(t)
  \/ LoadOpen(t) \/ LoadFails(t) \/ LoadCreate(t)

UnloadStep(t) ==
  \/ UnloadRead(t) \/ UnloadFlag(t) \/ UnloadJoin(t)
  \/ UnloadClose(t) \/ UnloadCloseFails(t) \/ UnloadRelease(t)

MainStep ==
  \/ StartRest \/ RouterInit \/ LoadNorth \/ StopRest \/ Sweep
  \/ LoadStep("main") \/ UnloadStep("main")

RestStep == LoadStep("rest") \/ UnloadStep("rest") \/ RestUp \/ RestDown

AppStep(e) == AppStart(e) \/ AppStartNoRouter(e) \/ AppReturn(e)

\* start_jrtc has returned, or the process has been aborted.
Over == pc["main"] \in {"end", "dead"}

Step ==
  \/ ~handler /\ MainStep
  \/ RestStep
  \/ Sigint \/ FinalizeReturns \/ FinalizeCrashes
  \/ \E e \in Envs : AppStep(e)
  \/ \E l \in Loads(Reqs) : RestLoad(l)
  \/ \E i \in Slots : RestUnload(i)

\* the thread is in load_app or unload_app
InCall(t) ==
  pc[t] \in {"load", "reserve", "take", "open", "create",
            "unload", "flag", "join", "close", "release"}

\* it has found the slot it works on
AtSlot(t) ==
  pc[t] \in {"take", "open", "create", "flag", "join", "close", "release"}

\* the two threads work on the same slot
SameSlot == AtSlot("main") /\ AtSlot("rest") /\ idx["main"] = idx["rest"]

\* a request is in progress after the REST server has been told to shut down
LateRequest == closing /\ InCall("rest")

History ==
  overlap' = overlap \cup (IF SameSlot' THEN {"slot"} ELSE {})
                     \cup (IF LateRequest' THEN {"stop"} ELSE {})

Next ==
  \/ Step /\ History
  \/ Over /\ UNCHANGED vars

Spec == Init /\ [][Next]_vars

-----------------------------------------------------------------------------
\* No thread uses the environment of an app after it has been freed: not the
\* thread of the app, which unload_app joins, not a thread in unload_app, and
\* not one that finds the environment in app_envs[] later.
EnvsAlive ==
  /\ \A e \in Envs : thr[e] \in {"started", "running"} => mem[e] = "live"
  /\ \A t \in Threads :
       pc[t] \in {"flag", "join", "close"} => mem[env[t]] = "live"
  /\ \A i \in Slots : app_envs[i] # NoEnv => mem[app_envs[i]] = "live"

\* The main thread and the REST thread may load and unload apps at the same
\* time, without a lock, and no environment is used after it has been freed, as
\* long as they have never worked on the same slot at once.
SlotsApartAreSafe == "slot" \notin overlap => EnvsAlive

\* The REST server and the controller agree on what is loaded: between two
\* requests the store has the ids of all loaded apps except the default app,
\* even if a request was served while the default app was being loaded, unless
\* both got the same slot.
StoreMatches ==
  "slot" \notin overlap /\ pc["rest"] = "idle" /\ pc["main"] = "wait" =>
    store = {i \in Slots : app_envs[i] # NoEnv /\ what[app_envs[i]] # NorthLoad}

\* unload_app waits only for an app that still has its app_exit set: load_app,
\* which clears the flag after it has put the environment in a slot, does so
\* before another thread can set it, unless both work on the same slot.
WaitsForToldOnly ==
  "slot" \notin overlap =>
    \A t \in Threads : pc[t] = "join" => app_exit[env[t]]

\* When start_jrtc returns no app thread is left running, no slot is taken and
\* no app is registered with the router, provided that no request was in
\* progress when the REST server was told to stop, and none had shared a slot
\* with the main thread before.
AllUnloaded ==
  overlap = {} /\ pc["main"] = "end" =>
    /\ \A i \in Slots : app_envs[i] = NoEnv
    /\ \A e \in Envs : thr[e] = "none" /\ ~dapp[e]
=============================================================================

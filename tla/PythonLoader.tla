---------------------------- MODULE PythonLoader ----------------------------
(***************************************************************************)
(* The loader of Python apps: jrtc_start_app of jrtc_pythonapp_loader.c.   *)
(*                                                                         *)
(* Every Python app has a thread with a sub-interpreter of its own.  The   *)
(* threads share python_lock, under which interpreters are created and     *)
(* ended, and the GIL of CPython (3.12, the version the images install),   *)
(* which is held by a thread through a thread state.  A thread has up to   *)
(* two thread states in its sub-interpreter: "sub", of the loader, and     *)
(* "app", which runs the app; "main" is the one of Py_Initialize.          *)
(***************************************************************************)
EXTENDS Naturals, FiniteSets

CONSTANTS Threads, NoThread

ASSUME ThreadsAssumption == NoThread \notin Threads

VARIABLES
  pc,           \* where each thread is in jrtc_start_app
  pyLock,       \* the thread that holds python_lock
  gil,          \* the thread that holds the GIL
  cur,          \* the thread state each thread runs, or will run, Python with
  states,       \* its thread states in the sub-interpreter
  initialized   \* shared_python_state.initialized

pyVars == <<pc, pyLock, gil, cur, states, initialized>>

PyInit ==
  /\ pc = [p \in Threads |-> "start"]
  /\ pyLock = NoThread
  /\ gil = NoThread
  /\ cur = [p \in Threads |-> "none"]
  /\ states = [p \in Threads |-> {}]
  /\ initialized = FALSE

Goto(p, label) == pc' = [pc EXCEPT ![p] = label]

\* The thread gets the GIL with thread state ts, if no other thread has it.
TakeGil(p, ts) ==
  /\ gil \in {p, NoThread}
  /\ gil' = p
  /\ cur' = [cur EXCEPT ![p] = ts]

\* PyEval_ReleaseThread
DropGil(p) ==
  /\ gil' = NoThread
  /\ cur' = [cur EXCEPT ![p] = "none"]

-----------------------------------------------------------------------------
Lock(p) ==
  /\ pc[p] = "start"
  /\ pyLock = NoThread
  /\ pyLock' = p
  /\ Goto(p, "init")
  /\ UNCHANGED <<gil, cur, states, initialized>>

\* The first app initializes Python, and has the GIL from then on.
Initialize(p) ==
  /\ pc[p] = "init"
  /\ IF initialized THEN UNCHANGED <<gil, cur>> ELSE TakeGil(p, "main")
  /\ initialized' = TRUE
  /\ Goto(p, "new")
  /\ UNCHANGED <<pyLock, states>>

\* Py_NewInterpreter takes the GIL for the new thread state.
NewInterpreter(p) ==
  /\ pc[p] = "new"
  /\ TakeGil(p, "sub")
  /\ states' = [states EXCEPT ![p] = {"sub"}]
  /\ Goto(p, "release")
  /\ UNCHANGED <<pyLock, initialized>>

\* Mutant: python_lock is not released.
MutNewInterpreterFailsLocked(p) ==
  /\ pc[p] = "new"
  /\ Goto(p, "done")
  /\ UNCHANGED <<pyLock, gil, cur, states, initialized>>

\* Py_NewInterpreter fails, and leaves the thread as it was before the call:
\* the first app, which has initialized Python, keeps the GIL.
NewInterpreterFails(p) ==
  /\ pc[p] = "new"
  /\ pyLock' = NoThread
  /\ Goto(p, "done")
  /\ UNCHANGED <<gil, cur, states, initialized>>

\* PyEval_ReleaseThread, then pthread_mutex_unlock
Release(p) ==
  /\ pc[p] = "release"
  /\ DropGil(p)
  /\ Goto(p, "unlock")
  /\ UNCHANGED <<pyLock, states, initialized>>

Unlock(p) ==
  /\ pc[p] = "unlock"
  /\ pyLock' = NoThread
  /\ Goto(p, "acquire")
  /\ UNCHANGED <<gil, cur, states, initialized>>

Acquire(p) ==
  /\ pc[p] = "acquire"
  /\ TakeGil(p, "sub")
  /\ Goto(p, "load")
  /\ UNCHANGED <<pyLock, states, initialized>>

-----------------------------------------------------------------------------
\* the thread executes Python code
Running(p) == pc[p] \in {"load", "app"} /\ gil = p

\* The modules are imported and injected; a failure to import one, or to make
\* the capsule, goes to the cleanup labels.
LoadModules(p) ==
  /\ pc[p] = "load" /\ Running(p)
  /\ Goto(p, "run")
  /\ UNCHANGED <<pyLock, gil, cur, states, initialized>>

\* Mutant: jrtc_start_app returns at once.
MutLoadModulesReturns(p) ==
  /\ pc[p] = "load" /\ Running(p)
  /\ Goto(p, "done")
  /\ UNCHANGED <<pyLock, gil, cur, states, initialized>>

LoadModulesFails(p) ==
  /\ pc[p] = "load" /\ Running(p)
  /\ Goto(p, "cleanup")
  /\ UNCHANGED <<pyLock, gil, cur, states, initialized>>

\* run_python_using_interpreter: a new thread state is made and swapped in.
SwapIn(p) ==
  /\ pc[p] = "run"
  /\ states' = [states EXCEPT ![p] = @ \cup {"app"}]
  /\ cur' = [cur EXCEPT ![p] = "app"]
  /\ Goto(p, "app")
  /\ UNCHANGED <<pyLock, gil, initialized>>

SwapInFails(p) ==
  /\ pc[p] = "run"
  /\ Goto(p, "cleanup")
  /\ UNCHANGED <<pyLock, gil, cur, states, initialized>>

\* Mutant: an exception returns without the clean-up.
MutSwapOutException(p) ==
  /\ pc[p] = "app" /\ Running(p)
  /\ Goto(p, "cleanup")
  /\ UNCHANGED <<pyLock, gil, cur, states, initialized>>

\* The app has returned, raised an exception or could not be called: swap back
\* and delete the thread state.
SwapOut(p) ==
  /\ pc[p] = "app" /\ Running(p)
  /\ cur' = [cur EXCEPT ![p] = "sub"]
  /\ states' = [states EXCEPT ![p] = @ \ {"app"}]
  /\ Goto(p, "cleanup")
  /\ UNCHANGED <<pyLock, gil, initialized>>

\* CPython drops the GIL when another thread asks for it and around calls into
\* C through ctypes such as jrtc_router_receive, and takes it again to go on.
Yield(p) ==
  /\ Running(p)
  /\ gil' = NoThread
  /\ UNCHANGED <<pc, pyLock, cur, states, initialized>>

Resume(p) ==
  /\ pc[p] \in {"load", "app"}
  /\ gil = NoThread
  /\ gil' = p
  /\ UNCHANGED <<pc, pyLock, cur, states, initialized>>

-----------------------------------------------------------------------------
\* Mutant: the GIL is held on to.
MutCleanUpKeepsGil(p) ==
  /\ pc[p] = "cleanup"
  /\ Goto(p, "relock")
  /\ UNCHANGED <<pyLock, gil, cur, states, initialized>>

\* cleanup_thread: PyEval_ReleaseThread, so that python_lock is never waited
\* for with the GIL held
CleanUp(p) ==
  /\ pc[p] = "cleanup"
  /\ DropGil(p)
  /\ Goto(p, "relock")
  /\ UNCHANGED <<pyLock, states, initialized>>

Relock(p) ==
  /\ pc[p] = "relock"
  /\ pyLock = NoThread
  /\ pyLock' = p
  /\ Goto(p, "reacquire")
  /\ UNCHANGED <<gil, cur, states, initialized>>

Reacquire(p) ==
  /\ pc[p] = "reacquire"
  /\ TakeGil(p, "sub")
  /\ Goto(p, "end")
  /\ UNCHANGED <<pyLock, states, initialized>>

\* Py_EndInterpreter, which gives the GIL up, then pthread_mutex_unlock
EndInterpreter(p) ==
  /\ pc[p] = "end"
  /\ DropGil(p)
  /\ states' = [states EXCEPT ![p] = {}]
  /\ Goto(p, "last")
  /\ UNCHANGED <<pyLock, initialized>>

LastUnlock(p) ==
  /\ pc[p] = "last"
  /\ pyLock' = NoThread
  /\ Goto(p, "done")
  /\ UNCHANGED <<gil, cur, states, initialized>>

-----------------------------------------------------------------------------
\* steps that wait for the GIL
GilStep(p) == NewInterpreter(p) \/ Acquire(p) \/ Reacquire(p) \/ Resume(p)

LoadStep(p) == LoadModules(p) \/ LoadModulesFails(p)

ThreadStep(p) ==
  \/ Lock(p) \/ Initialize(p) \/ Release(p) \/ Unlock(p)
  \/ SwapIn(p) \/ SwapInFails(p) \/ Yield(p)
  \/ CleanUp(p) \/ Relock(p) \/ EndInterpreter(p) \/ LastUnlock(p)

-----------------------------------------------------------------------------
\* Each PyEval_ReleaseThread and Py_EndInterpreter is called with the GIL held
\* through my_sub_ts, and the interpreter is ended with no other thread state
\* in it (anything else is a fatal error of CPython), on every path out of the
\* imports and of the app.
ThreadStateMatches ==
  \A p \in Threads :
    /\ pc[p] \in {"release", "cleanup", "end"} => gil = p /\ cur[p] = "sub"
    /\ pc[p] \in {"cleanup", "end"} => states[p] = {"sub"}

\* a thread is over and has the GIL
GilLost == \E p \in Threads : pc[p] = "done" /\ gil = p

\* A thread ends with the GIL only if it was the first and its sub-interpreter
\* could not be created, and then no app ever runs: an app that has run, or
\* whose modules could not be imported, never takes the GIL away from the
\* others.
OnlyFirstLosesGil == GilLost => \A p \in Threads : states[p] = {}
=============================================================================

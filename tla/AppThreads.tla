------------------------------ MODULE AppThreads ------------------------------
(***************************************************************************)
(* Threads of apps in the process of the controller: the Python apps and   *)
(* the north IO app.  They share the descriptors of the process and its    *)
(* end: exit(0) of one ends them all.                                      *)
(***************************************************************************)
EXTENDS PythonLoader, NorthIo

vars == <<pyVars, northVars>>

Init == PyInit /\ NorthInit

Up == npc # "exit"

PythonStep(Step(_)) == \E p \in Threads : Up /\ Step(p) /\ UNCHANGED northVars

North(Step) == Up /\ Step /\ UNCHANGED pyVars

Next ==
  \/ PythonStep(GilStep) \/ PythonStep(LoadStep) \/ PythonStep(ThreadStep)
  \/ PythonStep(NewInterpreterFails) \/ PythonStep(SwapOut)
  \/ North(NorthStep) \/ North(Exit) \/ North(OtherOpens) \/ North(OtherCloses)

(***************************************************************************)
(* A thread that is not waiting goes on.  CPython hands the GIL to a       *)
(* thread that waits for it before the one that gave it up can have it     *)
(* again.  The app itself need not return, nor Py_NewInterpreter fail:     *)
(* nothing is assumed of them, nor of Exit.                                *)
(***************************************************************************)
Fairness ==
  /\ \A p \in Threads :
       /\ WF_vars(Up /\ ThreadStep(p) /\ UNCHANGED northVars)
       /\ SF_vars(Up /\ GilStep(p) /\ UNCHANGED northVars)
       /\ SF_vars(Up /\ LoadStep(p) /\ UNCHANGED northVars)
  /\ WF_vars(North(NorthStep))

Spec == Init /\ [][Next]_vars
FairSpec == Spec /\ Fairness

-----------------------------------------------------------------------------
\* Every Python app comes to run, or its thread to its end, unless the first
\* one has gone with the GIL or the process has exited: python_lock and the
\* GIL, taken in turn by jrtc_start_app in every thread, never block each other.
AppsStart ==
  \A p \in Threads :
    pc[p] = "start" ~> pc[p] \in {"app", "cleanup", "done"} \/ GilLost \/ ~Up

\* Once a Python app has returned, its interpreter is ended and its thread
\* returns, whatever the other apps do; and the north IO app returns once
\* app_exit is set, however many messages there are.  The controller, which
\* joins these threads, is not held up by them.
ThreadsEnd ==
  /\ \A p \in Threads : pc[p] = "cleanup" ~> pc[p] = "done" \/ ~Up
  /\ appExit ~> npc = "done" \/ ~Up
=============================================================================

--------------------------- MODULE RouterReqTable ---------------------------
(***************************************************************************)
(* The request table of the router (jrtc_router.c): which apps want the    *)
(* messages of which stream ids.                                           *)
(*                                                                         *)
(* App threads add and drop their bit in the entry of a request under one  *)
(* spinlock.  The router thread looks every arriving stream id up without  *)
(* that lock, inside an epoch section; an app that drops the last bit of   *)
(* an entry unlinks it and waits for the epoch barrier before it frees it. *)
(* Every access of one thread that another thread can observe is a step of *)
(* its own.                                                                *)
(***************************************************************************)
EXTENDS StreamId, FiniteSets

CONSTANTS Apps,      \* app ids; the thread of an app has its id
          Requests,  \* stream ids apps ask for: the keys of the table
          Sids,      \* stream ids messages arrive on
          Entries,   \* addresses malloc has for a jrtc_router_req_entry
          NoEntry,   \* the null pointer
          NoApp      \* holder of the free spinlock

ASSUME ReqTableAssumption ==
  /\ Requests \subseteq StreamIds
  /\ Sids \subseteq StreamIds
  /\ NULL \notin StreamIds
  /\ NoEntry \notin Entries
  /\ NoApp \notin Apps

VARIABLES
  reqs,    \* req_table.reqs: the entry of each request, or NoEntry
  bitmap,  \* req_bitmap of each entry
  heap,    \* "live" for the allocated entries, "free" for the others
  lock,    \* holder of req_table.lock
  pc,      \* where the thread of each app is
  req,     \* the request it registers or drops
  ent,     \* the entry it is about to free
  wait,    \* its barrier still waits for the router's epoch section
  rpc,     \* where the router thread is
  rsid,    \* the stream id it is looking up
  ri,      \* index of the current lookup
  rent,    \* entry the current lookup found
  result,  \* lookup_result: the apps found so far
  must,    \* history: matching subscriptions held since the section began
  may      \* history: matching subscriptions held at some time since then

appVars == <<lock, pc, req, ent, wait>>
tableVars == <<reqs, bitmap, heap>>
routerVars == <<rpc, rsid, ri, rent, result>>
histVars == <<must, may>>
vars == <<tableVars, appVars, routerVars, histVars>>

\* program counters between lock and unlock
InLock == {"reg", "dereg", "remove", "sync", "barrier", "unlock"}

-----------------------------------------------------------------------------
(***************************************************************************)
(* What the table means: the set of <<app, request>> subscriptions.        *)
(***************************************************************************)
Subscribed(a, k) == reqs[k] # NoEntry /\ a \in bitmap[reqs[k]]

Subs == {s \in Apps \X Requests : Subscribed(s[1], s[2])}

\* the subscriptions a message on stream id s is for
Matching(s) == {x \in Subs : x[2] \in Lookups(s)}

InSection == rpc # "idle"

Init ==
  /\ reqs = [k \in Requests |-> NoEntry]
  /\ bitmap = [e \in Entries |-> {}]
  /\ heap = [e \in Entries |-> "free"]
  /\ lock = NoApp
  /\ pc = [a \in Apps |-> "idle"]
  /\ req = [a \in Apps |-> NULL]
  /\ ent = [a \in Apps |-> NoEntry]
  /\ wait = [a \in Apps |-> FALSE]
  /\ rpc = "idle"
  /\ rsid = NULL
  /\ ri = 1
  /\ rent = NoEntry
  /\ result = {}
  /\ must = {}
  /\ may = {}

-----------------------------------------------------------------------------
(***************************************************************************)
(* App threads: jrtc_router_channel_register_stream_id_req and             *)
(* jrtc_router_channel_deregister_stream_id_req.                           *)
(***************************************************************************)
Goto(a, label) == pc' = [pc EXCEPT ![a] = label]

\* Mutant: the spinlock is not taken.
MutAcquireIgnored(a) == lock' = a

\* ck_spinlock_lock.  A thread that spins does nothing the others can see, so
\* a call is taken to begin when it gets the lock.
Acquire(a) == lock = NoApp /\ lock' = a

Register(a, k) ==
  /\ pc[a] = "idle"
  /\ Acquire(a)
  /\ Goto(a, "reg")
  /\ req' = [req EXCEPT ![a] = k]
  /\ UNCHANGED <<tableVars, ent, wait, routerVars>>

Deregister(a, k) ==
  /\ pc[a] = "idle"
  /\ Acquire(a)
  /\ Goto(a, "dereg")
  /\ req' = [req EXCEPT ![a] = k]
  /\ UNCHANGED <<tableVars, ent, wait, routerVars>>

\* The request has an entry: set the bit of the app in it.
RegisterKnown(a) ==
  /\ pc[a] = "reg"
  /\ reqs[req[a]] # NoEntry
  /\ bitmap' = [bitmap EXCEPT ![reqs[req[a]]] = @ \cup {a}]
  /\ Goto(a, "unlock")
  /\ UNCHANGED <<reqs, heap, lock, req, ent, wait, routerVars>>

\* No entry yet: allocate one with the bit of the app and link it.
RegisterNew(a) ==
  /\ pc[a] = "reg"
  /\ reqs[req[a]] = NoEntry
  /\ \E e \in Entries :
       /\ heap[e] = "free"
       /\ heap' = [heap EXCEPT ![e] = "live"]
       /\ bitmap' = [bitmap EXCEPT ![e] = {a}]
       /\ reqs' = [reqs EXCEPT ![req[a]] = e]
  /\ Goto(a, "unlock")
  /\ UNCHANGED <<lock, req, ent, wait, routerVars>>

\* An allocation fails (and what was allocated is freed again), or
\* ck_ht_set_spmc fails to link the entry, which then is never freed.
RegisterFails(a) ==
  /\ pc[a] = "reg"
  /\ reqs[req[a]] = NoEntry
  /\ \/ UNCHANGED <<heap, bitmap>>
     \/ \E e \in Entries :
          /\ heap[e] = "free"
          /\ heap' = [heap EXCEPT ![e] = "live"]
          /\ bitmap' = [bitmap EXCEPT ![e] = {a}]
  /\ Goto(a, "unlock")
  /\ UNCHANGED <<reqs, lock, req, ent, wait, routerVars>>

\* Mutant: the entry is unlinked even if other apps still use it.
MutDeregisterResetAlways(a) ==
  LET e == reqs[req[a]]
  IN  /\ pc[a] = "dereg"
      /\ e # NoEntry
      /\ bitmap' = [bitmap EXCEPT ![e] = @ \ {a}]
      /\ ent' = [ent EXCEPT ![a] = e]
      /\ Goto(a, "remove")
      /\ UNCHANGED <<reqs, heap, lock, req, wait, routerVars>>

\* Reset the bit of the app; go on to unlink the entry if no bit is left.
DeregisterReset(a) ==
  LET e == reqs[req[a]]
  IN  /\ pc[a] = "dereg"
      /\ e # NoEntry
      /\ bitmap' = [bitmap EXCEPT ![e] = @ \ {a}]
      /\ IF bitmap[e] \subseteq {a}
         THEN /\ ent' = [ent EXCEPT ![a] = e]
              /\ Goto(a, "remove")
         ELSE /\ Goto(a, "unlock")
              /\ UNCHANGED ent
      /\ UNCHANGED <<reqs, heap, lock, req, wait, routerVars>>

\* The request is not in the table: nothing to do.
DeregisterUnknown(a) ==
  /\ pc[a] = "dereg"
  /\ reqs[req[a]] = NoEntry
  /\ Goto(a, "unlock")
  /\ UNCHANGED <<tableVars, lock, req, ent, wait, routerVars>>

\* ck_ht_remove_spmc, in an epoch section of the app, and ck_epoch_call
Remove(a) ==
  /\ pc[a] = "remove"
  /\ reqs' = [reqs EXCEPT ![req[a]] = NoEntry]
  /\ Goto(a, "sync")
  /\ UNCHANGED <<bitmap, heap, lock, req, ent, wait, routerVars>>

\* Mutant: the barrier does not wait for the router.
MutBarrierStartNoWait(a) ==
  /\ pc[a] = "sync"
  /\ wait' = [wait EXCEPT ![a] = FALSE]
  /\ Goto(a, "barrier")
  /\ UNCHANGED <<tableVars, lock, req, ent, routerVars>>

\* Mutant: the barrier waits for the end of a section even if there is none.
MutBarrierStartWaits(a) ==
  /\ pc[a] = "sync"
  /\ wait' = [wait EXCEPT ![a] = TRUE]
  /\ Goto(a, "barrier")
  /\ UNCHANGED <<tableVars, lock, req, ent, routerVars>>

\* ck_epoch_barrier begins: it waits for a section the router is in now.
BarrierStart(a) ==
  /\ pc[a] = "sync"
  /\ wait' = [wait EXCEPT ![a] = InSection]
  /\ Goto(a, "barrier")
  /\ UNCHANGED <<tableVars, lock, req, ent, routerVars>>

\* ck_epoch_barrier ends and runs _stream_id_req_destructor.
BarrierEnd(a) ==
  /\ pc[a] = "barrier"
  /\ ~wait[a]
  /\ heap' = [heap EXCEPT ![ent[a]] = "free"]
  /\ Goto(a, "unlock")
  /\ UNCHANGED <<reqs, bitmap, lock, req, ent, wait, routerVars>>

\* ck_spinlock_unlock, and return
Unlock(a) ==
  /\ pc[a] = "unlock"
  /\ lock' = NoApp
  /\ Goto(a, "idle")
  /\ req' = [req EXCEPT ![a] = NULL]
  /\ ent' = [ent EXCEPT ![a] = NoEntry]
  /\ UNCHANGED <<tableVars, wait, routerVars>>

-----------------------------------------------------------------------------
(***************************************************************************)
(* Router thread: the lookups of _jrtc_router_forward_msgs.                *)
(***************************************************************************)

\* Mutant: the result of the previous lookups is not cleared.
MutRouterBeginNoClear(s) ==
  /\ rpc = "idle"
  /\ rpc' = "get"
  /\ rsid' = s
  /\ ri' = 1
  /\ UNCHANGED <<tableVars, appVars, rent, result>>

\* Messages arrive: clear lookup_result and begin the epoch section.
RouterBegin(s) ==
  /\ rpc = "idle"
  /\ rpc' = "get"
  /\ rsid' = s
  /\ ri' = 1
  /\ result' = {}
  /\ UNCHANGED <<tableVars, appVars, rent>>

\* Mutant: one lookup too many.
MutNextLookupOffByOne ==
  IF ri <= NumReqLookups
  THEN ri' = ri + 1 /\ rpc' = "get"
  ELSE UNCHANGED ri /\ rpc' = "end"

\* The loop goes on to the next lookup, or is over.
NextLookup ==
  IF ri < NumReqLookups
  THEN ri' = ri + 1 /\ rpc' = "get"
  ELSE UNCHANGED ri /\ rpc' = "end"

\* the entry ck_ht_get_spmc returns for key k
Find(k) == IF k \in Requests THEN reqs[k] ELSE NoEntry

\* ck_ht_get_spmc returns a pointer to the entry of the masked key, if any.
RouterGet ==
  /\ rpc = "get"
  /\ rent' = Find(LookupKey(rsid, ri))
  /\ IF rent' = NoEntry THEN NextLookup ELSE rpc' = "union" /\ UNCHANGED ri
  /\ UNCHANGED <<tableVars, appVars, rsid, result>>

\* Mutant: only the bits of the last entry found are kept.
MutRouterUnionOverwrites ==
  /\ rpc = "union"
  /\ result' = bitmap[rent]
  /\ rent' = NoEntry
  /\ NextLookup
  /\ UNCHANGED <<tableVars, appVars, rsid>>

\* ck_bitmap_union reads the bitmap of the entry.
RouterUnion ==
  /\ rpc = "union"
  /\ result' = result \cup bitmap[rent]
  /\ rent' = NoEntry
  /\ NextLookup
  /\ UNCHANGED <<tableVars, appVars, rsid>>

\* ck_epoch_end, which lets the barriers go on.
RouterEnd ==
  /\ rpc = "end"
  /\ rpc' = "idle"
  /\ rsid' = NULL
  /\ ri' = 1
  /\ wait' = [a \in Apps |-> FALSE]
  /\ UNCHANGED <<tableVars, lock, pc, req, ent, rent, result>>

-----------------------------------------------------------------------------
AppStep(a) ==
  \/ RegisterKnown(a) \/ RegisterNew(a) \/ RegisterFails(a)
  \/ DeregisterReset(a) \/ DeregisterUnknown(a) \/ Remove(a)
  \/ BarrierStart(a) \/ BarrierEnd(a) \/ Unlock(a)

Call(a) == \E k \in Requests : Register(a, k) \/ Deregister(a, k)

RouterStep == RouterGet \/ RouterUnion \/ RouterEnd

\* History: the subscriptions that hold throughout, or at some time during,
\* the router's section.
History ==
  /\ must' = IF rpc' = "idle" THEN {}
             ELSE IF rpc = "idle" THEN Matching(rsid)'
             ELSE must \cap Subs'
  /\ may' = IF rpc' = "idle" THEN {}
            ELSE IF rpc = "idle" THEN Matching(rsid)'
            ELSE may \cup Matching(rsid)'

Next ==
  /\ \/ \E a \in Apps : Call(a) \/ AppStep(a)
     \/ \E s \in Sids : RouterBegin(s)
     \/ RouterStep
  /\ History

\* The router thread and the app threads are never stopped between the steps
\* of one call.  Nothing is assumed of who gets the spinlock, or of calls.
Fairness ==
  /\ WF_vars(RouterStep /\ History)
  /\ \A a \in Apps : WF_vars(AppStep(a) /\ History)

Spec == Init /\ [][Next]_vars

FairSpec == Spec /\ Fairness

-----------------------------------------------------------------------------
\* Types of the request table, the app threads and the router thread; the index
\* of the lookup stays within lookup_mask[].
TypeOK ==
  /\ reqs \in [Requests -> Entries \cup {NoEntry}]
  /\ bitmap \in [Entries -> SUBSET Apps]
  /\ heap \in [Entries -> {"live", "free"}]
  /\ lock \in Apps \cup {NoApp}
  /\ pc \in [Apps -> {"idle"} \cup InLock]
  /\ req \in [Apps -> Requests \cup {NULL}]
  /\ ent \in [Apps -> Entries \cup {NoEntry}]
  /\ wait \in [Apps -> BOOLEAN]
  /\ rpc \in {"idle", "get", "union", "end"}
  /\ rsid \in Sids \cup {NULL}
  /\ ri \in 1..NumReqLookups
  /\ rent \in Entries \cup {NoEntry}
  /\ result \subseteq Apps
  /\ must \subseteq Apps \X Requests
  /\ may \subseteq Apps \X Requests

\* The router never reads the bitmap of an entry that a deregistering app has
\* freed: the epoch barrier before _stream_id_req_destructor outlasts every
\* section in which the router can have found the entry.
NoUseAfterFree == rpc = "union" => heap[rent] = "live"

\* Whenever the spinlock is free the table holds only requests some app still
\* has, each in an allocated entry of its own: the last app to drop a request
\* takes the entry with it, however registrations and removals interleave.
NoDeadRequests ==
  lock = NoApp =>
    \A k \in Requests : reqs[k] # NoEntry =>
      /\ heap[reqs[k]] = "live"
      /\ bitmap[reqs[k]] # {}
      /\ \A j \in Requests \ {k} : reqs[j] # reqs[k]

\* An app whose request matches the message and stands during all of the
\* lookups is found, whatever other apps do to the table meanwhile.
RoutingComplete ==
  rpc = "end" => \A s \in must : s[1] \in result

\* An app is found only if it had a matching request at some time during the
\* lookups: a message is never routed on the strength of a stale entry.
RoutingSound ==
  InSection => \A a \in result : \E k \in Requests : <<a, k>> \in may

\* A subscription ends only by a deregistration of that app for that request;
\* no call of another app (which may unlink entries) and no router step drops it.
OnlyOwnDeregister ==
  [][\A a \in Apps, k \in Requests :
       Subscribed(a, k) /\ ~Subscribed(a, k)' =>
         pc[a] = "dereg" /\ req[a] = k]_vars

\* A deregistering app spins in the epoch barrier holding the spinlock every
\* other app needs; it always gets out again and releases the lock.
LockIsReleased == \A a \in Apps : lock = a ~> lock # a
=============================================================================

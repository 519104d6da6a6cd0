----------------------------- MODULE RouterApps -----------------------------
(***************************************************************************)
(* Registration of apps with the router: app_metadata of jrtc_router.c.    *)
(*                                                                         *)
(* An app gets the first free id, a context (with its queue) and the slot  *)
(* of that id in ctx[].  The router thread knows apps by id only: from     *)
(* lookup_result it goes to ctx[id] and uses the context it finds there.   *)
(* Requests are the bits of the ids in the entry of one request; how they  *)
(* are kept is module RouterReqTable.                                      *)
(***************************************************************************)
EXTENDS Naturals, FiniteSets

CONSTANTS Owners,    \* threads that run an app, one app after another
          NumIds,    \* JRTC_ROUTER_MAX_NUM_APPS
          CleansUp,  \* apps drop their request first, as JrtcApp::CleanUp does
          Ctxs,      \* addresses calloc has for a dapp_router_ctx
          NoCtx      \* the null pointer

Ids == 0..NumIds - 1
NoId == NumIds

ASSUME AppsAssumption ==
  /\ NumIds \in Nat \ {0}
  /\ CleansUp \in BOOLEAN
  /\ NoCtx \notin Ctxs

VARIABLES
  appBitmap,  \* app_bitmap: the reserved ids
  ctx,        \* ctx[]: the context of each id
  mem,        \* "live" for the allocated contexts
  pc,         \* where the thread of each owner is
  id,         \* the id of its app
  dapp,       \* the context of its app
  requested,  \* the app has a request in the table
  reqBits,    \* ids in the bitmap of the request
  rids,       \* ids of lookup_result the router has still to serve
  rpc,        \* where the router thread is
  rctx        \* the context the router has read from ctx[]

appVars == <<appBitmap, ctx, mem, pc, id, dapp>>
reqVars == <<requested, reqBits>>
routerVars == <<rids, rpc, rctx>>
vars == <<appVars, reqVars, routerVars>>

Init ==
  /\ appBitmap = {}
  /\ ctx = [i \in Ids |-> NoCtx]
  /\ mem = [c \in Ctxs |-> "free"]
  /\ pc = [p \in Owners |-> "out"]
  /\ id = [p \in Owners |-> NoId]
  /\ dapp = [p \in Owners |-> NoCtx]
  /\ requested = [p \in Owners |-> FALSE]
  /\ reqBits = {}
  /\ rids = {}
  /\ rpc = "idle"
  /\ rctx = NoCtx

Goto(p, label) == pc' = [pc EXCEPT ![p] = label]

-----------------------------------------------------------------------------
(***************************************************************************)
(* jrtc_router_register_app                                                *)
(***************************************************************************)

\* The scan for a free id begins at the first bit of app_bitmap.
RegisterApp(p) ==
  /\ pc[p] = "out"
  /\ id' = [id EXCEPT ![p] = 0]
  /\ Goto(p, "scan")
  /\ UNCHANGED <<appBitmap, ctx, mem, dapp, reqVars, routerVars>>

\* _jrtc_router_reserve_new_app: the test-and-set finds the bit clear.
Reserve(p) ==
  /\ pc[p] = "scan"
  /\ id[p] \notin appBitmap
  /\ appBitmap' = appBitmap \cup {id[p]}
  /\ Goto(p, "reserved")
  /\ UNCHANGED <<ctx, mem, id, dapp, reqVars, routerVars>>

\* Mutant: the loop runs one bit too far.
MutTakenOffByOne(p) ==
  /\ pc[p] = "scan"
  /\ id[p] \in appBitmap
  /\ IF id[p] < NumIds
     THEN id' = [id EXCEPT ![p] = @ + 1] /\ UNCHANGED pc
     ELSE id' = [id EXCEPT ![p] = NoId] /\ Goto(p, "out")
  /\ UNCHANGED <<appBitmap, ctx, mem, dapp, reqVars, routerVars>>

\* The bit was set: go on to the next, or fail after the last.  Bits behind
\* the scan may be released meanwhile.
Taken(p) ==
  /\ pc[p] = "scan"
  /\ id[p] \in appBitmap
  /\ IF id[p] + 1 < NumIds
     THEN id' = [id EXCEPT ![p] = @ + 1] /\ UNCHANGED pc
     ELSE id' = [id EXCEPT ![p] = NoId] /\ Goto(p, "out")
  /\ UNCHANGED <<appBitmap, ctx, mem, dapp, reqVars, routerVars>>

\* The context, its queue and its tables are allocated; ctx[app_id] is set.
Store(p) ==
  /\ pc[p] = "reserved"
  /\ \E c \in Ctxs :
       /\ mem[c] = "free"
       /\ mem' = [mem EXCEPT ![c] = "live"]
       /\ ctx' = [ctx EXCEPT ![id[p]] = c]
       /\ dapp' = [dapp EXCEPT ![p] = c]
  /\ Goto(p, "in")
  /\ UNCHANGED <<appBitmap, id, reqVars, routerVars>>

\* Mutant: an error path that does not go through the last label.
MutStoreFailsKeepsId(p) ==
  /\ pc[p] = "reserved"
  /\ id' = [id EXCEPT ![p] = NoId]
  /\ Goto(p, "out")
  /\ UNCHANGED <<appBitmap, ctx, mem, dapp, reqVars, routerVars>>

\* An allocation fails: what there is is freed and the id is released.
StoreFails(p) ==
  /\ pc[p] = "reserved"
  /\ appBitmap' = appBitmap \ {id[p]}
  /\ id' = [id EXCEPT ![p] = NoId]
  /\ Goto(p, "out")
  /\ UNCHANGED <<ctx, mem, dapp, reqVars, routerVars>>

-----------------------------------------------------------------------------
(***************************************************************************)
(* The registered app makes and drops its request.                         *)
(***************************************************************************)
RegisterReq(p) ==
  /\ pc[p] = "in"
  /\ reqBits' = reqBits \cup {id[p]}
  /\ requested' = [requested EXCEPT ![p] = TRUE]
  /\ UNCHANGED <<appVars, routerVars>>

DeregisterReq(p) ==
  /\ pc[p] = "in"
  /\ reqBits' = reqBits \ {id[p]}
  /\ requested' = [requested EXCEPT ![p] = FALSE]
  /\ UNCHANGED <<appVars, routerVars>>

-----------------------------------------------------------------------------
(***************************************************************************)
(* jrtc_router_deregister_app.  It leaves the requests of the app alone.   *)
(***************************************************************************)

\* Mutant: the id is released before the slot is cleared.
MutFreeCtxReleasesId(p) ==
  /\ pc[p] = "in"
  /\ CleansUp => ~requested[p]
  /\ mem' = [mem EXCEPT ![dapp[p]] = "free"]
  /\ appBitmap' = appBitmap \ {id[p]}
  /\ Goto(p, "freed")
  /\ UNCHANGED <<ctx, id, dapp, reqVars, routerVars>>

\* The queue, the pool and the context are freed ...
FreeCtx(p) ==
  /\ pc[p] = "in"
  /\ CleansUp => ~requested[p]
  /\ mem' = [mem EXCEPT ![dapp[p]] = "free"]
  /\ Goto(p, "freed")
  /\ UNCHANGED <<appBitmap, ctx, id, dapp, reqVars, routerVars>>

\* ... then the slot is cleared ...
ClearSlot(p) ==
  /\ pc[p] = "freed"
  /\ ctx' = [ctx EXCEPT ![id[p]] = NoCtx]
  /\ dapp' = [dapp EXCEPT ![p] = NoCtx]
  /\ Goto(p, "cleared")
  /\ UNCHANGED <<appBitmap, mem, id, reqVars, routerVars>>

\* ... and the id is released.
ReleaseId(p) ==
  /\ pc[p] = "cleared"
  /\ appBitmap' = appBitmap \ {id[p]}
  /\ id' = [id EXCEPT ![p] = NoId]
  /\ requested' = [requested EXCEPT ![p] = FALSE]
  /\ Goto(p, "out")
  /\ UNCHANGED <<ctx, mem, dapp, reqBits, routerVars>>

-----------------------------------------------------------------------------
(***************************************************************************)
(* The router thread, in _jrtc_router_forward_msgs                         *)
(***************************************************************************)

\* A message for the request: the lookups take a copy of the ids.
Lookup ==
  /\ rpc = "idle"
  /\ rids' = reqBits
  /\ rpc' = "apps"
  /\ UNCHANGED <<appVars, reqVars, rctx>>

\* dapp = ctx[app_id]; an empty slot is skipped.
ReadSlot(i) ==
  /\ rpc = "apps"
  /\ i \in rids
  /\ rids' = rids \ {i}
  /\ rctx' = ctx[i]
  /\ rpc' = IF ctx[i] = NoCtx THEN "apps" ELSE "use"
  /\ UNCHANGED <<appVars, reqVars>>

\* The pool and the ring of the context are used.
UseCtx ==
  /\ rpc = "use"
  /\ rctx' = NoCtx
  /\ rpc' = "apps"
  /\ UNCHANGED <<appVars, reqVars, rids>>

Done ==
  /\ rpc = "apps"
  /\ rids = {}
  /\ rpc' = "idle"
  /\ UNCHANGED <<appVars, reqVars, rids, rctx>>

Next ==
  \/ \E p \in Owners :
       \/ RegisterApp(p) \/ Reserve(p) \/ Taken(p)
       \/ Store(p) \/ StoreFails(p)
       \/ RegisterReq(p) \/ DeregisterReq(p)
       \/ FreeCtx(p) \/ ClearSlot(p) \/ ReleaseId(p)
  \/ Lookup \/ UseCtx \/ Done
  \/ \E i \in Ids : ReadSlot(i)

Spec == Init /\ [][Next]_vars

-----------------------------------------------------------------------------
\* Types; the scan of _jrtc_router_reserve_new_app never gives an id past the end
\* of ctx[].
TypeOK ==
  /\ appBitmap \subseteq Ids
  /\ ctx \in [Ids -> Ctxs \cup {NoCtx}]
  /\ mem \in [Ctxs -> {"live", "free"}]
  /\ pc \in [Owners -> {"out", "scan", "reserved", "in", "freed", "cleared"}]
  /\ id \in [Owners -> Ids \cup {NoId}]
  /\ dapp \in [Owners -> Ctxs \cup {NoCtx}]
  /\ requested \in [Owners -> BOOLEAN]
  /\ reqBits \subseteq Ids
  /\ rids \subseteq Ids
  /\ rpc \in {"idle", "apps", "use"}
  /\ rctx \in Ctxs \cup {NoCtx}

HasId(p) == pc[p] \notin {"out", "scan"}

\* An id is reserved exactly while one app, and no other, is between the
\* reservation and the release of it: ids are neither leaked by the error
\* paths of the registration nor given out twice.
IdsConserved ==
  /\ appBitmap = {id[p] : p \in {q \in Owners : HasId(q)}}
  /\ \A p, q \in Owners : HasId(p) /\ HasId(q) /\ id[p] = id[q] => p = q

\* As long as an app is registered its slot leads to its own, allocated,
\* context; the deregistration of the previous owner of the id, or of the
\* memory, cannot touch it.
RegisteredIsReachable ==
  \A p \in Owners : pc[p] = "in" =>
    ctx[id[p]] = dapp[p] /\ mem[dapp[p]] = "live"

\* "Deregisters an app from the router": the router does not use the context
\* of an app after jrtc_router_deregister_app has freed it.
RouterUsesLiveApp == rpc = "use" => mem[rctx] = "live"
=============================================================================

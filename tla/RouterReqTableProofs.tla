------------------------ MODULE RouterReqTableProofs ------------------------
(***************************************************************************)
(* Proofs about the request table of the router, for any number of apps,   *)
(* requests, stream ids and entries.                                       *)
(***************************************************************************)
EXTENDS RouterPubSub, TLAPS

-----------------------------------------------------------------------------
(***************************************************************************)
(* Type correctness.  A thread that is in a call has a request, the router *)
(* has a stream id while it is in its section and an entry when it has     *)
(* found one.                                                              *)
(***************************************************************************)
TypeInv ==
  /\ TypeOK
  /\ \A a \in Apps : pc[a] # "idle" => req[a] \in Requests
  /\ rpc # "idle" => rsid \in Sids
  /\ rpc = "union" => rent \in Entries

\* The history variables hold subscriptions whatever the step is.
LEMMA HistoryType ==
  ASSUME TypeInv, History
  PROVE  must' \subseteq Apps \X Requests /\ may' \subseteq Apps \X Requests
BY DEF TypeInv, TypeOK, History, Matching, Subs

\* An empty table, and threads outside of any call, are well typed.
LEMMA TypeInit == Init => TypeInv
BY DEF Init, TypeInv, TypeOK, InLock, NumReqLookups

\* Each step of a thread, and stuttering, preserves the types.
LEMMA TypeStep == TypeInv /\ [Next]_vars => TypeInv'
<1> SUFFICES ASSUME TypeInv, [Next]_vars PROVE TypeInv'
  OBVIOUS
<1> USE DEF TypeInv, TypeOK, InLock, tableVars, appVars, routerVars, Goto
<1>1. CASE UNCHANGED vars
  BY <1>1, SMTT(30) DEF vars, histVars
<1>2. CASE Next
  <2> USE <1>2
  <2>h. must' \subseteq Apps \X Requests /\ may' \subseteq Apps \X Requests
    BY HistoryType DEF Next
  <2>1. ASSUME NEW a \in Apps, NEW k \in Requests, Register(a, k) PROVE TypeInv'
    BY <2>1, <2>h DEF Register, Acquire
  <2>2. ASSUME NEW a \in Apps, NEW k \in Requests, Deregister(a, k) PROVE TypeInv'
    BY <2>2, <2>h DEF Deregister, Acquire
  <2>3. ASSUME NEW a \in Apps, RegisterKnown(a) PROVE TypeInv'
    BY <2>3, <2>h DEF RegisterKnown
  <2>4. ASSUME NEW a \in Apps, RegisterNew(a) PROVE TypeInv'
    BY <2>4, <2>h DEF RegisterNew
  <2>5. ASSUME NEW a \in Apps, RegisterFails(a) PROVE TypeInv'
    BY <2>5, <2>h DEF RegisterFails
  <2>6. ASSUME NEW a \in Apps, DeregisterReset(a) PROVE TypeInv'
    BY <2>6, <2>h DEF DeregisterReset
  <2>7. ASSUME NEW a \in Apps, DeregisterUnknown(a) PROVE TypeInv'
    BY <2>7, <2>h DEF DeregisterUnknown
  <2>8. ASSUME NEW a \in Apps, Remove(a) PROVE TypeInv'
    BY <2>8, <2>h DEF Remove
  <2>9. ASSUME NEW a \in Apps, BarrierStart(a) PROVE TypeInv'
    BY <2>9, <2>h DEF BarrierStart, InSection
  <2>10. ASSUME NEW a \in Apps, BarrierEnd(a) PROVE TypeInv'
    BY <2>10, <2>h, Zenon DEF BarrierEnd
  <2>11. ASSUME NEW a \in Apps, Unlock(a) PROVE TypeInv'
    BY <2>11, <2>h DEF Unlock
  <2>12. ASSUME NEW s \in Sids, RouterBegin(s) PROVE TypeInv'
    BY <2>12, <2>h DEF RouterBegin, NumReqLookups
  <2>13. CASE RouterGet
    BY <2>13, <2>h DEF RouterGet, Find, NextLookup, NumReqLookups
  <2>14. CASE RouterUnion
    BY <2>14, <2>h DEF RouterUnion, NextLookup, NumReqLookups
  <2>15. CASE RouterEnd
    BY <2>15, <2>h DEF RouterEnd, NumReqLookups
  <2> QED
    BY <2>1, <2>2, <2>3, <2>4, <2>5, <2>6, <2>7, <2>8, <2>9, <2>10, <2>11,
       <2>12, <2>13, <2>14, <2>15 DEF Next, Call, AppStep, RouterStep
<1> QED
  BY <1>1, <1>2

\* All the variables of the table, the apps and the router keep their types.
THEOREM TypeCorrect == Spec => []TypeOK
<1>1. TypeInv => TypeOK
  BY DEF TypeInv
<1> QED
  BY TypeInit, TypeStep, <1>1, PTL DEF Spec

-----------------------------------------------------------------------------
(***************************************************************************)
(* Memory safety.  NoUseAfterFree is not inductive: it takes the spinlock, *)
(* the shape of the table, and what is known of an entry between the time  *)
(* it is emptied and the time it is freed.                                 *)
(***************************************************************************)

\* Only the holder of the spinlock is in a call.
LockInv == \A a \in Apps : pc[a] # "idle" => lock = a

\* Linked entries are allocated and have a single key each.
LinkedInv ==
  \A k \in Requests : reqs[k] # NoEntry =>
    /\ heap[reqs[k]] = "live"
    /\ \A j \in Requests : reqs[j] = reqs[k] => j = k

\* A linked entry has subscribers, unless it is just being removed.
UsedInv ==
  \A k \in Requests : reqs[k] # NoEntry =>
    bitmap[reqs[k]] # {} \/ \E a \in Apps : pc[a] = "remove" /\ req[a] = k

\* An entry that is being removed is empty, and is linked under that request.
RemoveInv ==
  \A a \in Apps : pc[a] = "remove" =>
    /\ ent[a] \in Entries
    /\ reqs[req[a]] = ent[a]
    /\ bitmap[ent[a]] = {}

\* A removed entry is allocated, empty and not linked.
RetiredInv ==
  \A a \in Apps : pc[a] \in {"sync", "barrier"} =>
    /\ ent[a] \in Entries
    /\ heap[ent[a]] = "live"
    /\ bitmap[ent[a]] = {}
    /\ reqs[req[a]] = NoEntry
    /\ \A k \in Requests : reqs[k] # ent[a]

\* The entry the router has found is linked under the key it looked up, or has
\* been removed by an app that has not yet got past its barrier.
FoundInv ==
  rpc = "union" =>
    LET k == LookupKey(rsid, ri)
    IN  /\ k \in Requests
        /\ \/ reqs[k] = rent
           \/ \E a \in Apps : /\ pc[a] \in {"sync", "barrier"}
                              /\ ent[a] = rent
                              /\ req[a] = k
                              /\ pc[a] = "barrier" => wait[a]

TableInv ==
  LockInv /\ LinkedInv /\ UsedInv /\ RemoveInv /\ RetiredInv /\ FoundInv

\* The table jrtc_router_init sets up is empty.
LEMMA TableInit == Init => TableInv
BY DEF Init, TableInv, LockInv, LinkedInv, UsedInv, RemoveInv, RetiredInv,
       FoundInv

\* Each step of a thread, and stuttering, preserves the invariant.
LEMMA TableStep == TypeInv /\ TableInv /\ [Next]_vars => TableInv'
<1> SUFFICES ASSUME TypeInv, TableInv, [Next]_vars PROVE TableInv'
  OBVIOUS
<1> USE ReqTableAssumption
    DEF TypeInv, TypeOK, InLock, tableVars, appVars, routerVars, Goto,
        TableInv, LockInv, LinkedInv, UsedInv, RemoveInv, RetiredInv, FoundInv
<1>1. CASE UNCHANGED vars
  BY <1>1 DEF vars, histVars
<1>2. CASE Next
  <2>1. ASSUME NEW a \in Apps, NEW k \in Requests, Register(a, k) PROVE TableInv'
    BY <2>1 DEF Register, Acquire
  <2>2. ASSUME NEW a \in Apps, NEW k \in Requests, Deregister(a, k) PROVE TableInv'
    BY <2>2 DEF Deregister, Acquire
  <2>3. ASSUME NEW a \in Apps, RegisterKnown(a) PROVE TableInv'
    BY <2>3 DEF RegisterKnown
  <2>4. ASSUME NEW a \in Apps, RegisterNew(a) PROVE TableInv'
    <3>1. LockInv'
      BY <2>4 DEF RegisterNew
    <3>2. LinkedInv'
      BY <2>4 DEF RegisterNew
    <3>3. UsedInv' /\ RemoveInv'
      BY <2>4 DEF RegisterNew
    <3>4. RetiredInv'
      BY <2>4 DEF RegisterNew
    <3>5. FoundInv'
      BY <2>4 DEF RegisterNew
    <3> QED
      BY ONLY <3>1, <3>2, <3>3, <3>4, <3>5 DEF TableInv
  <2>5. ASSUME NEW a \in Apps, RegisterFails(a) PROVE TableInv'
    BY <2>5 DEF RegisterFails
  <2>6. ASSUME NEW a \in Apps, DeregisterReset(a) PROVE TableInv'
    BY <2>6 DEF DeregisterReset
  <2>7. ASSUME NEW a \in Apps, DeregisterUnknown(a) PROVE TableInv'
    BY <2>7 DEF DeregisterUnknown
  <2>8. ASSUME NEW a \in Apps, Remove(a) PROVE TableInv'
    BY <2>8 DEF Remove
  <2>9. ASSUME NEW a \in Apps, BarrierStart(a) PROVE TableInv'
    <3>1. rpc = "union" => wait'[a]
      <4>1. wait'[a] = InSection
        BY <2>9 DEF BarrierStart
      <4>2. rpc = "union" => InSection
        BY DEF InSection
      <4> QED
        BY <4>1, <4>2, Zenon
    <3>2. /\ pc' = [pc EXCEPT ![a] = "barrier"]
          /\ \A b \in Apps : b # a => wait'[b] = wait[b]
          /\ UNCHANGED <<reqs, bitmap, heap, lock, req, ent, rpc, rsid, ri, rent>>
      BY <2>9 DEF BarrierStart
    <3>3. pc[a] = "sync"
      BY <2>9 DEF BarrierStart
    <3> QED
      BY <3>1, <3>2, <3>3
  <2>10. ASSUME NEW a \in Apps, BarrierEnd(a) PROVE TableInv'
    BY <2>10 DEF BarrierEnd
  <2>11. ASSUME NEW a \in Apps, Unlock(a) PROVE TableInv'
    BY <2>11 DEF Unlock
  <2>12. ASSUME NEW s \in Sids, RouterBegin(s) PROVE TableInv'
    BY <2>12 DEF RouterBegin
  <2>13. CASE RouterGet
    BY <2>13 DEF RouterGet, Find, NextLookup
  <2>14. CASE RouterUnion
    BY <2>14 DEF RouterUnion, NextLookup
  <2>15. CASE RouterEnd
    BY <2>15 DEF RouterEnd
  <2> QED
    BY <1>2, <2>1, <2>2, <2>3, <2>4, <2>5, <2>6, <2>7, <2>8, <2>9, <2>10,
       <2>11, <2>12, <2>13, <2>14, <2>15, ZenonT(30)
       DEF Next, Call, AppStep, RouterStep
<1> QED
  BY <1>1, <1>2

\* The table and the types are invariant together.
LEMMA TableInvariant == Spec => [](TypeInv /\ TableInv)
BY TypeInit, TypeStep, TableInit, TableStep, PTL DEF Spec

\* The router never reads the bitmap of an entry that has been freed, however
\* its lookups interleave with registrations and deregistrations.
THEOREM MemorySafety == Spec => []NoUseAfterFree
<1>1. TypeInv /\ TableInv => NoUseAfterFree
  BY ReqTableAssumption
     DEF TypeInv, TypeOK, TableInv, LinkedInv, RetiredInv, FoundInv,
         NoUseAfterFree
<1> QED
  BY TableInvariant, <1>1, PTL

\* With the spinlock free, every request in the table has a subscriber and an
\* allocated entry of its own.
THEOREM TableHasNoDeadRequests == Spec => []NoDeadRequests
<1>1. TypeInv /\ TableInv => NoDeadRequests
  BY ReqTableAssumption
     DEF TypeInv, TypeOK, TableInv, LockInv, LinkedInv, UsedInv, NoDeadRequests
<1> QED
  BY TableInvariant, <1>1, PTL

-----------------------------------------------------------------------------
(***************************************************************************)
(* Routing.  The lookups done so far have found every app in must with one *)
(* of their keys, and nobody but apps in may.                              *)
(***************************************************************************)
LookedUp(i) == i < ri \/ rpc = "end"

HistInv ==
  rpc # "idle" =>
    /\ must \subseteq Matching(rsid)
    /\ Matching(rsid) \subseteq may
    /\ \A x \in must, i \in 1..NumReqLookups :
         LookupKey(rsid, i) = x[2] /\ LookedUp(i) => x[1] \in result
    /\ \A a \in result : \E k \in Requests : <<a, k>> \in may

\* What it is to match, in terms of the table.
LEMMA MatchingIs ==
  ASSUME NEW a \in Apps, NEW k \in Requests
  PROVE  <<a, k>> \in Matching(rsid) <=>
           reqs[k] # NoEntry /\ a \in bitmap[reqs[k]] /\ k \in Lookups(rsid)
BY DEF Matching, Subs, Subscribed

\* A step that leaves the router alone preserves the invariant whatever it
\* does to the table: must only keeps, and may only gains, subscriptions.
LEMMA HistAppStep ==
  ASSUME TypeInv, HistInv, History, UNCHANGED routerVars
  PROVE  HistInv'
<1> SUFFICES ASSUME rpc # "idle" PROVE HistInv'
  BY DEF HistInv, routerVars
<1>1. must' = must \cap Subs' /\ may' = may \cup Matching(rsid)'
  BY DEF History, routerVars
<1>2. Matching(rsid)' = {x \in Subs' : x[2] \in Lookups(rsid)}
  BY DEF Matching, routerVars
<1>3. \A x \in must : x[2] \in Lookups(rsid)
  BY DEF HistInv, Matching
<1> QED
  BY <1>1, <1>2, <1>3 DEF HistInv, LookedUp, routerVars

\* A step of the router leaves the table, and so the subscriptions, alone.
LEMMA HistRouterStep ==
  ASSUME History, UNCHANGED <<tableVars, rsid>>, rpc # "idle", rpc' # "idle",
         HistInv
  PROVE  must' = must /\ may' = may /\ Matching(rsid)' = Matching(rsid)
<1>1. Subs' = Subs
  BY DEF Subs, Subscribed, tableVars
<1>2. Matching(rsid)' = Matching(rsid)
  BY <1>1 DEF Matching
<1> QED
  BY <1>1, <1>2 DEF History, HistInv, Matching

\* No app in must can be missed by a lookup that finds nothing.
LEMMA HistGet ==
  ASSUME TypeInv, HistInv, History, RouterGet
  PROVE  HistInv'
<1> DEFINE k == LookupKey(rsid, ri)
<1>1. must' = must /\ may' = may /\ Matching(rsid)' = Matching(rsid)
  BY HistRouterStep DEF RouterGet, NextLookup
<1>2. CASE Find(k) # NoEntry
  BY <1>1, <1>2 DEF RouterGet, HistInv, LookedUp
<1>3. CASE Find(k) = NoEntry
  <2>1. \A x \in must : x[2] # k
    BY <1>3, MatchingIs DEF RouterGet, HistInv, Find, Matching, Subs, Subscribed
  <2>2. \A i \in 1..NumReqLookups : LookedUp(i)' => LookedUp(i) \/ i = ri
    BY <1>3 DEF RouterGet, NextLookup, LookedUp, TypeInv, TypeOK, NumReqLookups
  <2> QED
    BY <1>1, <1>3, <2>1, <2>2 DEF RouterGet, HistInv
<1> QED
  BY <1>2, <1>3

\* The bits of an entry found are those of the subscribers of its key; an entry
\* removed meanwhile has none.
LEMMA HistUnion ==
  ASSUME TypeInv, TableInv, HistInv, History, RouterUnion
  PROVE  HistInv'
<1> DEFINE k == LookupKey(rsid, ri)
<1>1. must' = must /\ may' = may /\ Matching(rsid)' = Matching(rsid)
  BY HistRouterStep DEF RouterUnion, NextLookup
<1>2. k \in Requests /\ k \in Lookups(rsid)
  BY DEF RouterUnion, TableInv, FoundInv, Lookups, TypeInv, TypeOK
<1>3. \/ reqs[k] = rent
      \/ reqs[k] = NoEntry /\ bitmap[rent] = {}
  BY DEF RouterUnion, TableInv, FoundInv, RetiredInv
<1>4. rent \in Entries /\ rent # NoEntry /\ bitmap[rent] \subseteq Apps
  BY ReqTableAssumption DEF RouterUnion, TypeInv, TypeOK
<1>5. \A x \in must : x[2] = k => x[1] \in bitmap[rent]
  BY <1>3, <1>4 DEF RouterUnion, HistInv, Matching, Subs, Subscribed
<1>6. \A a \in bitmap[rent] : <<a, k>> \in may
  BY <1>2, <1>3, <1>4, MatchingIs DEF RouterUnion, HistInv
<1>7. \A i \in 1..NumReqLookups : LookedUp(i)' => LookedUp(i) \/ i = ri
  BY DEF RouterUnion, NextLookup, LookedUp, TypeInv, TypeOK, NumReqLookups
<1> QED
  BY <1>1, <1>2, <1>5, <1>6, <1>7 DEF RouterUnion, HistInv

\* Every step preserves the routing invariant.
LEMMA HistStep ==
  TypeInv /\ TableInv /\ HistInv /\ [Next]_vars => HistInv'
<1> SUFFICES ASSUME TypeInv, TableInv, HistInv, [Next]_vars PROVE HistInv'
  OBVIOUS
<1>1. CASE UNCHANGED vars
  <2>1. Matching(rsid)' = Matching(rsid)
    BY <1>1 DEF vars, Matching, Subs, Subscribed, tableVars, routerVars
  <2> QED
    BY <1>1, <2>1 DEF vars, histVars, routerVars, HistInv, LookedUp
<1>2. CASE Next
  <2>1. History
    BY <1>2 DEF Next
  <2>2. ASSUME NEW a \in Apps, Call(a) \/ AppStep(a) PROVE HistInv'
    <3>1. UNCHANGED routerVars
      BY <2>2, SMTT(30) DEF Call, AppStep, Register, Deregister, RegisterKnown,
         RegisterNew, RegisterFails, DeregisterReset, DeregisterUnknown, Remove,
         BarrierStart, BarrierEnd, Unlock
    <3> QED
      BY <2>1, <3>1, HistAppStep
  <2>3. ASSUME NEW s \in Sids, RouterBegin(s) PROVE HistInv'
    BY <2>1, <2>3, SMTT(30) DEF RouterBegin, History, HistInv, LookedUp, NumReqLookups
  <2>4. CASE RouterGet
    BY <2>1, <2>4, HistGet
  <2>5. CASE RouterUnion
    BY <2>1, <2>5, HistUnion
  <2>6. CASE RouterEnd
    BY <2>6 DEF RouterEnd, HistInv
  <2> QED
    BY <1>2, <2>2, <2>3, <2>4, <2>5, <2>6 DEF Next, RouterStep
<1> QED
  BY <1>1, <1>2

\* The three invariants hold together in every state of the router.
LEMMA HistInvariant == Spec => [](TypeInv /\ TableInv /\ HistInv)
<1>1. Init => HistInv
  BY DEF Init, HistInv
<1> QED
  BY <1>1, TypeInit, TypeStep, TableInit, TableStep, HistStep, PTL DEF Spec

\* After the last lookup each key of the stream id has been looked up.
LEMMA CompleteAtEnd == HistInv => RoutingComplete
<1> SUFFICES ASSUME HistInv, rpc = "end", NEW x \in must
             PROVE  x[1] \in result
  BY DEF RoutingComplete
<1>1. PICK i \in 1..NumReqLookups : x[2] = LookupKey(rsid, i)
  BY DEF HistInv, Matching, Lookups
<1> QED
  BY <1>1 DEF HistInv, LookedUp

\* Each app of the result was in the bitmap of a matching request.
LEMMA SoundInSection == HistInv => RoutingSound
BY Zenon DEF HistInv, RoutingSound, InSection

\* An app whose matching request stands during the 16 lookups is found.
THEOREM RoutingIsComplete == Spec => []RoutingComplete
BY HistInvariant, CompleteAtEnd, PTL

\* An app is found only if it had a matching request during the lookups.
THEOREM RoutingIsSound == Spec => []RoutingSound
BY HistInvariant, SoundInSection, PTL

-----------------------------------------------------------------------------
(***************************************************************************)
(* Subscriptions.  Which step can change whose subscription.               *)
(***************************************************************************)

\* Only the step that resets the bit of an app ends a subscription: linking a
\* new entry uses free memory, and an entry is unlinked only when empty.
LEMMA SubscriptionStep ==
  ASSUME TypeInv, TableInv, Next,
         NEW b \in Apps, NEW k \in Requests,
         Subscribed(b, k), ~Subscribed(b, k)'
  PROVE  pc[b] = "dereg" /\ req[b] = k
<1> USE ReqTableAssumption
    DEF TypeInv, TypeOK, TableInv, LinkedInv, RemoveInv, Subscribed
<1>1. ASSUME NEW a \in Apps, Call(a) PROVE FALSE
  BY <1>1 DEF Call, Register, Deregister, tableVars
<1>2. ASSUME NEW a \in Apps, RegisterKnown(a) PROVE FALSE
  BY <1>2 DEF RegisterKnown
<1>3. ASSUME NEW a \in Apps, RegisterNew(a) PROVE FALSE
  BY <1>3 DEF RegisterNew
<1>4. ASSUME NEW a \in Apps, RegisterFails(a) PROVE FALSE
  BY <1>4 DEF RegisterFails
<1>5. ASSUME NEW a \in Apps, DeregisterReset(a)
      PROVE  pc[b] = "dereg" /\ req[b] = k
  BY <1>5 DEF DeregisterReset
<1>6. ASSUME NEW a \in Apps, Remove(a) PROVE FALSE
  BY <1>6 DEF Remove
<1>7. ASSUME NEW a \in Apps,
             DeregisterUnknown(a) \/ BarrierStart(a) \/ BarrierEnd(a) \/ Unlock(a)
      PROVE  FALSE
  BY <1>7 DEF DeregisterUnknown, BarrierStart, BarrierEnd, Unlock, tableVars
<1>8. ASSUME RouterStep \/ \E s \in Sids : RouterBegin(s) PROVE FALSE
  BY <1>8 DEF RouterStep, RouterBegin, RouterGet, RouterUnion, RouterEnd, tableVars
<1> QED
  BY <1>1, <1>2, <1>3, <1>4, <1>5, <1>6, <1>7, <1>8 DEF Next, AppStep

\* A subscription ends only by a deregistration of that app for that request.
THEOREM OthersKeepSubscriptions == Spec => OnlyOwnDeregister
<1>1. TypeInv /\ TableInv /\ [Next]_vars =>
        [\A a \in Apps, k \in Requests :
           Subscribed(a, k) /\ ~Subscribed(a, k)' =>
             pc[a] = "dereg" /\ req[a] = k]_vars
  BY SubscriptionStep
<1> QED
  BY TableInvariant, <1>1, PTL DEF Spec, OnlyOwnDeregister

-----------------------------------------------------------------------------
(***************************************************************************)
(* Refinement.  The table, its lock and the 16 lookups implement PubSub.   *)
(***************************************************************************)

\* Every set of fields is one of the rows of lookup_mask[].
LEMMA MasksCover ==
  ASSUME NEW m \in SUBSET Fields
  PROVE  \E i \in 1..NumReqLookups : LookupMask[i] = m
<1> DEFINE F == "fwd_dst"
           D == "device_id"
           P == "stream_path"
           N == "stream_name"
<1>1. CASE F \notin m /\ D \notin m
  <2>1. m = {} \/ m = {N} \/ m = {P} \/ m = {P, N}
    BY <1>1, Zenon DEF Fields
  <2> QED
    BY <2>1 DEF LookupMask, NumReqLookups
<1>2. CASE F \notin m /\ D \in m
  <2>1. m = {D} \/ m = {D, N} \/ m = {D, P} \/ m = {D, P, N}
    BY <1>2, Zenon DEF Fields
  <2> QED
    BY <2>1 DEF LookupMask, NumReqLookups
<1>3. CASE F \in m /\ D \notin m
  <2>1. m = {F} \/ m = {F, N} \/ m = {F, P} \/ m = {F, P, N}
    BY <1>3, Zenon DEF Fields
  <2> QED
    BY <2>1 DEF LookupMask, NumReqLookups
<1>4. CASE F \in m /\ D \in m
  <2>1. m = {F, D} \/ m = {F, D, N} \/ m = {F, D, P} \/ m = {F, D, P, N}
    BY <1>4, Zenon DEF Fields
  <2> QED
    BY <2>1 DEF LookupMask, NumReqLookups
<1> QED
  BY <1>1, <1>2, <1>3, <1>4

\* A request is one of the 16 keys of a stream id exactly if it wants it.
LEMMA KeysAreWants ==
  ASSUME NEW s \in StreamIds, NEW r \in StreamIds
  PROVE  r \in Lookups(s) <=> PS!Wants(r, s)
<1>1. ASSUME NEW i \in 1..NumReqLookups, r = LookupKey(s, i), NEW f \in Fields
      PROVE  r[f] \in {s[f], ANY}
  BY <1>1, Zenon DEF LookupKey, ApplyMask, ANY, StreamIds, FieldValue
<1>2. ASSUME \A f \in Fields : r[f] \in {s[f], ANY}
      PROVE  r \in Lookups(s)
  <2> DEFINE m == {f \in Fields : r[f] = ANY}
  <2>1. PICK i \in 1..NumReqLookups : LookupMask[i] = m
    BY MasksCover, Zenon
  <2>2. \A f \in Fields : ApplyMask(s, m)[f] = r[f]
    BY <1>2 DEF ApplyMask, ANY, StreamIds, FieldValue
  <2>3. ApplyMask(s, m) = r
    BY <2>2 DEF ApplyMask, StreamIds
  <2> QED
    BY <2>1, <2>3 DEF Lookups, LookupKey
<1>3. PS!Wants(r, s) <=> \A f \in Fields : r[f] \in {s[f], ANY}
  BY DEF PS!Wants, PS!Fields, Fields, PS!ANY, ANY
<1> QED
  BY <1>1, <1>2, <1>3 DEF Lookups

\* Between two sections of the router the history is empty.
IdleInv == rpc = "idle" => must = {} /\ may = {}

\* Every step keeps it so.
LEMMA IdleStep == IdleInv /\ [Next]_vars => IdleInv'
BY DEF IdleInv, Next, History, vars, routerVars, histVars

PubSubInv == TypeInv /\ TableInv /\ HistInv /\ IdleInv

\* The invariants of the table and the histories hold together.
LEMMA PubSubInvariant == Spec => []PubSubInv
<1>1. Init => IdleInv
  BY DEF Init, IdleInv
<1> QED
  BY <1>1, IdleStep, HistInvariant, PTL DEF Spec, PubSubInv

Phase ==
  CASE rpc = "idle" -> "idle"
    [] rpc = "end"  -> "routed"
    [] OTHER        -> "routing"
Out == IF rpc = "end" THEN result ELSE {}

\* What a step that leaves the router thread alone does to the history
LEMMA AppHistory ==
  ASSUME PubSubInv, History, UNCHANGED routerVars
  PROVE  /\ Phase' = Phase /\ Out' = Out /\ rsid' = rsid
         /\ must' = must \cap Subs'
         /\ may' = IF rpc = "idle" THEN may ELSE may \cup Matching(rsid)'
         /\ must \subseteq Subs
         /\ rpc # "idle" => Matching(rsid) \subseteq may
<1>1. UNCHANGED <<rpc, rsid, result>>
  BY DEF routerVars
<1>2. Phase' = Phase /\ Out' = Out
  BY <1>1 DEF Phase, Out
<1>3. must \subseteq Subs /\ (rpc # "idle" => Matching(rsid) \subseteq may)
  BY DEF PubSubInv, IdleInv, HistInv, Matching
<1>4. /\ must' = must \cap Subs'
      /\ may' = IF rpc = "idle" THEN may ELSE may \cup Matching(rsid)'
  BY <1>1 DEF History, PubSubInv, IdleInv
<1> QED
  BY <1>1, <1>2, <1>3, <1>4

\* A step of an app that keeps the subscriptions is not seen.
LEMMA TableStutters ==
  ASSUME PubSubInv, History, UNCHANGED routerVars, Subs' = Subs
  PROVE  UNCHANGED PS!vars
<1>1. Matching(rsid)' = Matching(rsid)
  BY DEF Matching, routerVars
<1>2. must' = must /\ may' = may
  BY <1>1, AppHistory, Zenon
<1> QED
  BY <1>2, AppHistory DEF PS!vars, Phase, Out

\* A new subscription can only add to the apps a message may reach.
LEMMA NewSubscription ==
  ASSUME PubSubInv, History, UNCHANGED routerVars,
         NEW a \in Apps, NEW k \in Requests, Subs' = Subs \cup {<<a, k>>}
  PROVE  PS!Next
<1>1. must' = must
  BY AppHistory
<1>2. may' = IF Phase # "idle" /\ PS!Wants(k, rsid) THEN may \cup {<<a, k>>} ELSE may
  <2>1. CASE rpc = "idle"
    BY <2>1, AppHistory DEF Phase
  <2>2. CASE rpc # "idle"
    <3>1. Phase # "idle"
      BY <2>2 DEF Phase
    <3>2. k \in Lookups(rsid) <=> PS!Wants(k, rsid)
      BY <2>2, KeysAreWants, ReqTableAssumption DEF PubSubInv, TypeInv
    <3>3. Matching(rsid)' = Matching(rsid) \cup {x \in {<<a, k>>} : k \in Lookups(rsid)}
      BY DEF Matching, routerVars
    <3>4. may' = may \cup {x \in {<<a, k>>} : k \in Lookups(rsid)}
      BY <2>2, <3>3, AppHistory
    <3> QED
      BY <3>1, <3>2, <3>4
  <2> QED
    BY <2>1, <2>2
<1>3. PS!Subscribe(a, k)
  BY <1>1, <1>2, AppHistory DEF PS!Subscribe, Phase, Out
<1> QED
  BY <1>3 DEF PS!Next

\* The end of a subscription takes it from the apps a message must reach.
LEMMA EndedSubscription ==
  ASSUME PubSubInv, History, UNCHANGED routerVars,
         NEW a \in Apps, NEW k \in Requests, Subs' = Subs \ {<<a, k>>}
  PROVE  PS!Next
<1>1. must' = must \ {<<a, k>>}
  BY AppHistory
<1>2. Matching(rsid)' \subseteq Matching(rsid)
  BY DEF Matching, routerVars
<1>3. may' = may
  BY <1>2, AppHistory, Zenon
<1>4. PS!Unsubscribe(a, k)
  BY <1>1, <1>3, AppHistory DEF PS!Unsubscribe, Phase, Out
<1> QED
  BY <1>4 DEF PS!Next

\* The bit a registration sets in an entry is a subscription, and the only new
\* one: the entry has no other key.
LEMMA RegisterSubscribes ==
  ASSUME PubSubInv, NEW a \in Apps, RegisterKnown(a) \/ RegisterNew(a)
  PROVE  Subs' = Subs \cup {<<a, req[a]>>}
<1> USE ReqTableAssumption
<1>1. req[a] \in Requests /\ reqs \in [Requests -> Entries \cup {NoEntry}]
      /\ bitmap \in [Entries -> SUBSET Apps]
  BY DEF PubSubInv, TypeInv, TypeOK, RegisterKnown, RegisterNew
<1>2. LinkedInv
  BY DEF PubSubInv, TableInv
<1>3. ASSUME NEW b \in Apps, NEW k \in Requests
      PROVE  Subscribed(b, k)' <=> Subscribed(b, k) \/ (b = a /\ k = req[a])
  <2>1. CASE RegisterKnown(a)
    BY <1>1, <1>2, <2>1 DEF RegisterKnown, Subscribed, LinkedInv
  <2>2. CASE RegisterNew(a)
    BY <1>1, <1>2, <2>2 DEF RegisterNew, Subscribed, LinkedInv
  <2> QED
    BY <2>1, <2>2
<1> QED
  BY <1>1, <1>3 DEF Subs

\* Resetting the bit of an app ends that subscription only.
LEMMA ResetUnsubscribes ==
  ASSUME PubSubInv, NEW a \in Apps, DeregisterReset(a)
  PROVE  Subs' = Subs \ {<<a, req[a]>>}
<1> USE ReqTableAssumption
<1>1. req[a] \in Requests /\ reqs \in [Requests -> Entries \cup {NoEntry}]
      /\ bitmap \in [Entries -> SUBSET Apps]
  BY DEF PubSubInv, TypeInv, TypeOK, DeregisterReset
<1>2. LinkedInv
  BY DEF PubSubInv, TableInv
<1>3. ASSUME NEW b \in Apps, NEW k \in Requests
      PROVE  Subscribed(b, k)' <=> Subscribed(b, k) /\ ~(b = a /\ k = req[a])
  BY <1>1, <1>2 DEF DeregisterReset, Subscribed, LinkedInv
<1> QED
  BY <1>1, <1>3 DEF Subs

\* The other steps of an app keep the subscriptions: what is unlinked is empty,
\* and an entry that ck_ht_set_spmc did not link is found by nobody.
LEMMA OthersKeepSubs ==
  ASSUME PubSubInv, NEW a \in Apps,
         \/ Call(a) \/ RegisterFails(a) \/ DeregisterUnknown(a) \/ Remove(a)
         \/ BarrierStart(a) \/ BarrierEnd(a) \/ Unlock(a)
  PROVE  Subs' = Subs
<1> USE ReqTableAssumption
<1>1. reqs \in [Requests -> Entries \cup {NoEntry}]
      /\ bitmap \in [Entries -> SUBSET Apps]
  BY DEF PubSubInv, TypeInv, TypeOK
<1>2. ASSUME NEW b \in Apps, NEW k \in Requests
      PROVE  Subscribed(b, k)' <=> Subscribed(b, k)
  <2>1. CASE UNCHANGED <<reqs, bitmap>>
    BY <2>1 DEF Subscribed
  <2>2. CASE RegisterFails(a)
    BY <1>1, <2>2 DEF RegisterFails, Subscribed, LinkedInv, PubSubInv, TableInv
  <2>3. CASE Remove(a)
    BY <1>1, <2>3 DEF Remove, Subscribed, RemoveInv, PubSubInv, TableInv
  <2>4. CASE \/ Call(a) \/ DeregisterUnknown(a)
             \/ BarrierStart(a) \/ BarrierEnd(a) \/ Unlock(a)
    <3>1. UNCHANGED <<reqs, bitmap>>
      BY <2>4, Zenon DEF Call, Register, Deregister, DeregisterUnknown,
         BarrierStart, BarrierEnd, Unlock, tableVars
    <3> QED
      BY <2>1, <3>1
  <2> QED
    BY <2>2, <2>3, <2>4
<1> QED
  BY <1>2 DEF Subs

\* Every step of an app is a step of the publish-subscribe router, or none.
LEMMA AppRefines ==
  ASSUME PubSubInv, History, NEW a \in Apps, Call(a) \/ AppStep(a)
  PROVE  [PS!Next]_(PS!vars)
<1>1. UNCHANGED routerVars
  BY Zenon DEF Call, Register, Deregister, AppStep, RegisterKnown, RegisterNew,
     RegisterFails, DeregisterReset, DeregisterUnknown, Remove, BarrierStart,
     BarrierEnd, Unlock
<1>2. CASE RegisterKnown(a) \/ RegisterNew(a)
  <2>1. req[a] \in Requests
    <3>1. pc[a] = "reg"
      BY <1>2 DEF RegisterKnown, RegisterNew
    <3> QED
      BY <3>1 DEF PubSubInv, TypeInv
  <2>2. Subs' = Subs \cup {<<a, req[a]>>}
    BY <1>2, RegisterSubscribes
  <2> QED
    BY <1>1, <2>1, <2>2, NewSubscription
<1>3. CASE DeregisterReset(a)
  <2>1. req[a] \in Requests
    <3>1. pc[a] = "dereg"
      BY <1>3 DEF DeregisterReset
    <3> QED
      BY <3>1 DEF PubSubInv, TypeInv
  <2>2. Subs' = Subs \ {<<a, req[a]>>}
    BY <1>3, ResetUnsubscribes
  <2> QED
    BY <1>1, <2>1, <2>2, EndedSubscription
<1>4. CASE \/ Call(a) \/ RegisterFails(a) \/ DeregisterUnknown(a) \/ Remove(a)
           \/ BarrierStart(a) \/ BarrierEnd(a) \/ Unlock(a)
  <2>1. Subs' = Subs
    BY <1>4, OthersKeepSubs
  <2> QED
    BY <1>1, <2>1, TableStutters
<1> QED
  BY <1>2, <1>3, <1>4 DEF AppStep

\* The messages arrive when the router begins its section.
LEMMA BeginArrives ==
  ASSUME PubSubInv, History, NEW s \in Sids, RouterBegin(s)
  PROVE  PS!Next
<1>1. Subs' = Subs
  BY DEF RouterBegin, tableVars, Subs, Subscribed
<1>2. Matching(rsid)' = {x \in Subs : PS!Wants(x[2], s)}
  <2>1. Matching(rsid)' = {x \in Subs : x[2] \in Lookups(s)}
    BY <1>1 DEF Matching, RouterBegin
  <2>2. \A x \in Subs : x[2] \in Lookups(s) <=> PS!Wants(x[2], s)
    BY KeysAreWants, ReqTableAssumption DEF Subs
  <2> QED
    BY <2>1, <2>2
<1>3. must' = Matching(rsid)' /\ may' = Matching(rsid)'
  BY DEF History, RouterBegin
<1>4. PS!Arrive(s)
  BY <1>1, <1>2, <1>3 DEF PS!Arrive, RouterBegin
<1> QED
  BY <1>4 DEF PS!Next

\* A lookup changes neither the table nor the histories.
LEMMA LookupKeeps ==
  ASSUME PubSubInv, History, RouterGet \/ RouterUnion
  PROVE  /\ UNCHANGED <<Subs, rsid, must, may>>
         /\ rpc \in {"get", "union"}
         /\ rpc' \in {"get", "union", "end"}
<1>1. /\ UNCHANGED <<tableVars, rsid>>
      /\ rpc \in {"get", "union"}
      /\ rpc' \in {"get", "union", "end"}
  BY DEF RouterGet, RouterUnion, NextLookup
<1>2. Subs' = Subs
  BY <1>1 DEF tableVars, Subs, Subscribed
<1>3. Matching(rsid)' = Matching(rsid)
  BY <1>1, <1>2 DEF Matching
<1>4. must \subseteq Subs /\ Matching(rsid) \subseteq may
  BY <1>1 DEF PubSubInv, HistInv, Matching
<1>5. must' = must /\ may' = may
  BY <1>1, <1>2, <1>3, <1>4 DEF History
<1> QED
  BY <1>1, <1>2, <1>5

\* The last of the 16 lookups routes the messages, the others are not seen.
LEMMA LookupRefines ==
  ASSUME PubSubInv, PubSubInv', History, RouterGet \/ RouterUnion
  PROVE  [PS!Next]_(PS!vars)
<1>1. CASE rpc' = "end"
  <2>1. RoutingComplete' /\ RoutingSound'
    BY CompleteAtEnd, SoundInSection, PTL DEF PubSubInv
  <2>2. /\ \A x \in must' : x[1] \in result'
        /\ \A a \in result' : \E x \in may' : x[1] = a
    BY <1>1, <2>1, Zenon DEF RoutingComplete, RoutingSound, InSection
  <2>3. result' \subseteq Apps
    BY DEF PubSubInv, TypeInv, TypeOK
  <2>4. PS!Route
    BY <1>1, <2>2, <2>3, LookupKeeps DEF PS!Route
  <2> QED
    BY <2>4 DEF PS!Next
<1>2. CASE rpc' # "end"
  BY <1>2, LookupKeeps DEF PS!vars
<1> QED
  BY <1>1, <1>2

\* The end of the section ends the routing.
LEMMA EndFinishes ==
  ASSUME PubSubInv, History, RouterEnd
  PROVE  PS!Next
<1>1. Subs' = Subs
  BY DEF RouterEnd, tableVars, Subs, Subscribed
<1>2. must' = {} /\ may' = {}
  BY DEF History, RouterEnd
<1>3. PS!Finish
  BY <1>1, <1>2 DEF PS!Finish, RouterEnd
<1> QED
  BY <1>3 DEF PS!Next

\* Nobody is subscribed in an empty table.
LEMMA InitRefines == Init => PS!Init
<1> SUFFICES ASSUME Init PROVE PS!Init
  OBVIOUS
<1>1. Subs = {}
  BY DEF Init, Subs, Subscribed
<1> QED
  BY <1>1 DEF Init, PS!Init

\* The table with its spinlock, its epochs and the 16 lookups of a stream id
\* implements publish-subscribe with atomic subscriptions: an app that wants the
\* messages from their arrival on gets them, an app that never did does not.
THEOREM TableIsPubSub == Spec => ImplementsPubSub
<1>1. PubSubInv /\ PubSubInv' /\ [Next]_vars => [PS!Next]_(PS!vars)
  <2> SUFFICES ASSUME PubSubInv, PubSubInv', [Next]_vars
               PROVE  [PS!Next]_(PS!vars)
    OBVIOUS
  <2>1. CASE UNCHANGED vars
    BY <2>1 DEF vars, tableVars, routerVars, histVars, PS!vars, Subs, Subscribed
  <2>2. ASSUME Next PROVE [PS!Next]_(PS!vars)
    BY <2>2, AppRefines, BeginArrives, LookupRefines, EndFinishes
       DEF Next, RouterStep
  <2> QED
    BY <2>1, <2>2
<1> QED
  BY <1>1, InitRefines, PubSubInvariant, PTL DEF Spec, ImplementsPubSub, PS!Spec
=============================================================================

-------------------------- MODULE RouterAppsProofs --------------------------
(***************************************************************************)
(* Registration of apps, for any number of app threads, ids and addresses. *)
(***************************************************************************)
EXTENDS RouterApps, TLAPS

-----------------------------------------------------------------------------
(***************************************************************************)
(* Types.  A thread that scans or has an id points at a bit of app_bitmap, *)
(* and one whose context is stored has a context.                          *)
(***************************************************************************)
TypeInv ==
  /\ TypeOK
  /\ \A p \in Owners :
       /\ pc[p] # "out" => id[p] \in Ids
       /\ pc[p] \in {"in", "freed"} => dapp[p] \in Ctxs

\* No app is registered at first.
LEMMA TypeInit == Init => TypeInv
BY AppsAssumption DEF Init, TypeInv, TypeOK, Ids, NoId

\* Each step of an app thread or of the router thread preserves the types.
LEMMA TypeStep == TypeInv /\ [Next]_vars => TypeInv'
<1> SUFFICES ASSUME TypeInv, [Next]_vars PROVE TypeInv'
  OBVIOUS
<1> USE AppsAssumption DEF TypeInv, TypeOK, Ids, NoId, Goto, appVars, reqVars,
                           routerVars
<1>1. ASSUME NEW p \in Owners, RegisterApp(p) PROVE TypeInv'
  BY <1>1 DEF RegisterApp
<1>2. ASSUME NEW p \in Owners, Reserve(p) PROVE TypeInv'
  BY <1>2, Zenon DEF Reserve
<1>3. ASSUME NEW p \in Owners, Taken(p) PROVE TypeInv'
  <2>1. CASE id[p] + 1 < NumIds
    <3>1. id[p] + 1 \in Ids
      BY <1>3, <2>1 DEF Taken
    <3> QED
      BY <1>3, <2>1, <3>1 DEF Taken
  <2>2. CASE ~(id[p] + 1 < NumIds)
    BY <1>3, <2>2 DEF Taken
  <2> QED
    BY <2>1, <2>2
<1>4. ASSUME NEW p \in Owners, Store(p) PROVE TypeInv'
  BY <1>4 DEF Store
<1>5. ASSUME NEW p \in Owners, StoreFails(p) PROVE TypeInv'
  BY <1>5, Zenon DEF StoreFails
<1>6. ASSUME NEW p \in Owners, RegisterReq(p) PROVE TypeInv'
  BY <1>6, Zenon DEF RegisterReq
<1>7. ASSUME NEW p \in Owners, DeregisterReq(p) PROVE TypeInv'
  BY <1>7, Zenon DEF DeregisterReq
<1>8. ASSUME NEW p \in Owners, FreeCtx(p) PROVE TypeInv'
  BY <1>8 DEF FreeCtx
<1>9. ASSUME NEW p \in Owners, ClearSlot(p) PROVE TypeInv'
  BY <1>9 DEF ClearSlot
<1>10. ASSUME NEW p \in Owners, ReleaseId(p) PROVE TypeInv'
  BY <1>10, Zenon DEF ReleaseId
<1>11. CASE Lookup
  BY <1>11 DEF Lookup
<1>12. CASE UseCtx
  BY <1>12 DEF UseCtx
<1>13. CASE Done
  BY <1>13 DEF Done
<1>14. ASSUME NEW i \in Ids, ReadSlot(i) PROVE TypeInv'
  BY <1>14 DEF ReadSlot
<1>15. CASE UNCHANGED vars
  BY <1>15 DEF vars
<1> QED
  BY <1>1, <1>2, <1>3, <1>4, <1>5, <1>6, <1>7, <1>8, <1>9, <1>10, <1>11, <1>12,
     <1>13, <1>14, <1>15 DEF Next

\* The registration state stays well typed.
THEOREM TypeCorrect == Spec => []TypeOK
<1>1. TypeInv => TypeOK
  BY DEF TypeInv
<1> QED
  BY <1>1, TypeInit, TypeStep, PTL DEF Spec

-----------------------------------------------------------------------------
(***************************************************************************)
(* The inductive invariant: ids are conserved, the slot of an id leads to  *)
(* the context of its app until the slot is cleared, and the contexts of   *)
(* registered apps are allocated and distinct.                             *)
(***************************************************************************)
SlotInv ==
  \A p \in Owners : pc[p] \in {"in", "freed"} => ctx[id[p]] = dapp[p]

LiveInv ==
  /\ \A p \in Owners : pc[p] = "in" => mem[dapp[p]] = "live"
  /\ \A p, q \in Owners :
       pc[p] = "in" /\ pc[q] = "in" /\ dapp[p] = dapp[q] => p = q

AppsInv == TypeInv /\ IdsConserved /\ SlotInv /\ LiveInv

\* With no id reserved there is nothing to conserve.
LEMMA AppsInit == Init => AppsInv
<1> SUFFICES ASSUME Init PROVE AppsInv
  OBVIOUS
<1>1. IdsConserved
  BY DEF Init, IdsConserved, HasId
<1> QED
  BY <1>1, TypeInit DEF Init, AppsInv, SlotInv, LiveInv

\* Registration with its error paths, and deregistration, keep ids, slots and
\* contexts in step.
LEMMA AppsStep == AppsInv /\ [Next]_vars => AppsInv'
<1> SUFFICES ASSUME AppsInv, [Next]_vars PROVE AppsInv'
  OBVIOUS
<1>0. TypeInv /\ TypeInv'
  BY TypeStep DEF AppsInv
<1> SUFFICES IdsConserved' /\ SlotInv' /\ LiveInv'
  BY <1>0 DEF AppsInv
<1> USE <1>0 DEF TypeInv, TypeOK, AppsInv, IdsConserved, HasId, SlotInv, LiveInv,
                 Goto
<1>1. ASSUME NEW p \in Owners, RegisterApp(p)
      PROVE  IdsConserved' /\ SlotInv' /\ LiveInv'
  BY <1>1 DEF RegisterApp
<1>2. ASSUME NEW p \in Owners, Reserve(p)
      PROVE  IdsConserved' /\ SlotInv' /\ LiveInv'
  BY <1>2 DEF Reserve
<1>3. ASSUME NEW p \in Owners, Taken(p)
      PROVE  IdsConserved' /\ SlotInv' /\ LiveInv'
  BY <1>3 DEF Taken
<1>4. ASSUME NEW p \in Owners, Store(p)
      PROVE  IdsConserved' /\ SlotInv' /\ LiveInv'
  BY <1>4 DEF Store
<1>5. ASSUME NEW p \in Owners, StoreFails(p)
      PROVE  IdsConserved' /\ SlotInv' /\ LiveInv'
  BY <1>5 DEF StoreFails
<1>6. ASSUME NEW p \in Owners, FreeCtx(p)
      PROVE  IdsConserved' /\ SlotInv' /\ LiveInv'
  BY <1>6 DEF FreeCtx
<1>7. ASSUME NEW p \in Owners, ClearSlot(p)
      PROVE  IdsConserved' /\ SlotInv' /\ LiveInv'
  BY <1>7 DEF ClearSlot
<1>8. ASSUME NEW p \in Owners, ReleaseId(p)
      PROVE  IdsConserved' /\ SlotInv' /\ LiveInv'
  BY <1>8 DEF ReleaseId
<1>9. CASE UNCHANGED appVars
  BY <1>9 DEF appVars
<1>10. ASSUME NEW p \in Owners, RegisterReq(p) \/ DeregisterReq(p)
       PROVE  UNCHANGED appVars
  BY <1>10 DEF RegisterReq, DeregisterReq
<1>11. ASSUME Lookup \/ UseCtx \/ Done \/ \E i \in Ids : ReadSlot(i)
       PROVE  UNCHANGED appVars
  BY <1>11 DEF Lookup, UseCtx, Done, ReadSlot
<1> QED
  BY <1>1, <1>2, <1>3, <1>4, <1>5, <1>6, <1>7, <1>8, <1>9, <1>10, <1>11
  DEF Next, vars

\* The invariant holds in every state.
LEMMA AppsInvariant == Spec => []AppsInv
BY AppsInit, AppsStep, PTL DEF Spec

\* Every reserved bit of app_bitmap belongs to one app and every app between
\* reservation and release has one: no id is leaked or given out twice.
THEOREM IdsAreConserved == Spec => []IdsConserved
<1>1. AppsInv => IdsConserved
  BY DEF AppsInv
<1> QED
  BY <1>1, AppsInvariant, PTL

\* The router finds a registered app's own live context under its id.
THEOREM RegisteredAreReachable == Spec => []RegisteredIsReachable
<1>1. AppsInv => RegisteredIsReachable
  BY DEF AppsInv, SlotInv, LiveInv, RegisteredIsReachable
<1> QED
  BY <1>1, AppsInvariant, PTL
=============================================================================

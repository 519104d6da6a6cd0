---------------------------- MODULE JrtcAppProofs ----------------------------
(***************************************************************************)
(* The wrapper of the apps and their channels, for any number of apps,     *)
(* whatever streams they have.                                             *)
(***************************************************************************)
EXTENDS JrtcApp, TLAPS

-----------------------------------------------------------------------------
(***************************************************************************)
(* The inductive invariant.  The table of the channels of an app has those *)
(* that are live, which are all up to the stream Init is at; stream_items  *)
(* has the streams before it; and the requests are of stream items that    *)
(* CleanUp has not come to.                                                *)
(***************************************************************************)
\* The thread is in Init or in the receive loop.
Active(a) == pc[a] \in {"create", "register", "wait", "run", "handle"}

AppTypes ==
  /\ pc \in [Apps -> {"out", "create", "register", "wait", "run", "handle",
                      "cleanup", "done", "dead"}]
  /\ si \in [Apps -> Nat \ {0}]
  /\ items \in [Apps -> Nat]
  /\ DOMAIN reqs = Apps

\* The tables have the channels that are there, each with a context that is
\* live.
TabInv ==
  /\ chans = [a \in Apps |-> chans[a]]
  /\ tab = [a \in Apps |-> tab[a]]
  /\ \A a \in Apps : /\ chans[a] \in [Index(a) -> {"none", "live"}]
                     /\ tab[a] = {i \in Index(a) : chans[a][i] = "live"}

\* the streams whose channels are there by now
Created(a) ==
  CASE pc[a] = "create"   -> 1..(si[a] - 1)
    [] pc[a] = "register" -> 1..si[a]
    [] OTHER              -> Index(a)

ChanInv(a) ==
  /\ pc[a] = "out" => tab[a] = {}
  /\ Active(a) =>
       \A i \in Created(a) : Streams[a][i].chan # "none" => chans[a][i] = "live"

ItemInv(a) ==
  /\ pc[a] \in {"create", "register", "wait"} => si[a] \in Index(a)
  /\ items[a] <= Len(Streams[a])
  /\ pc[a] = "out" => items[a] = 0
  /\ pc[a] \in {"create", "register"} => items[a] = si[a] - 1

\* a stream for reception that is registered under id s
ReceivedOn(a, i, s) == Streams[a][i].rx /\ Sid(a, i) = s

ReqInv(a) ==
  a \notin raised =>
    /\ pc[a] \in {"done", "out"} => reqs[a] = {}
    /\ Active(a) => \A s \in reqs[a] : \E i \in 1..items[a] : ReceivedOn(a, i, s)
    /\ pc[a] = "cleanup" =>
         \A s \in reqs[a] : \E i \in si[a]..items[a] : ReceivedOn(a, i, s)

OfApp(a) == ChanInv(a) /\ ItemInv(a) /\ ReqInv(a)

AppInv == AppTypes /\ TabInv /\ \A a \in Apps : OfApp(a)

\* No app is loaded at first.
LEMMA AppInitially == Init => AppInv
<1> SUFFICES ASSUME Init PROVE AppInv
  OBVIOUS
<1> USE DEF Init, ChanInit
<1>1. AppTypes /\ TabInv
  BY DEF AppTypes, TabInv
<1>2. ASSUME NEW a \in Apps PROVE OfApp(a)
  BY StreamsAssumption DEF OfApp, ChanInv, ItemInv, ReqInv, Active
<1> QED
  BY <1>1, <1>2 DEF AppInv

-----------------------------------------------------------------------------
(***************************************************************************)
(* What the router does to the channels of one app                         *)
(***************************************************************************)
OthersKeep(a) ==
  \A b \in Apps \ {a} : chans'[b] = chans[b] /\ tab'[b] = tab[b]

\* jrtc_router_channel_create
LEMMA CreateStep ==
  ASSUME TabInv, NEW a \in Apps, NEW i \in Index(a), ChannelCreate(a, i)
  PROVE  /\ TabInv'
         /\ OthersKeep(a)
         /\ chans'[a] = [chans[a] EXCEPT ![i] = "live"]
BY Zenon DEF TabInv, OthersKeep, ChannelCreate

\* Channels are destroyed that are in the table, and leave it.
LEMMA DestroyStep ==
  ASSUME TabInv, NEW a \in Apps, NEW I \in SUBSET tab[a],
         Destroy(a, I), tab' = [tab EXCEPT ![a] = @ \ I]
  PROVE  TabInv' /\ OthersKeep(a)
<1>1. chans' = [b \in Apps |-> chans'[b]] /\ tab' = [b \in Apps |-> tab'[b]]
  BY Zenon DEF TabInv, Destroy
<1>2. OthersKeep(a)
  BY Zenon DEF TabInv, Destroy, OthersKeep
<1>3. \A i \in Index(a) : chans'[a][i] = IF i \in I THEN "none" ELSE chans[a][i]
  BY DEF TabInv, Destroy
<1>4. chans'[a] \in [Index(a) -> {"none", "live"}]
  BY <1>3 DEF TabInv, Destroy
<1>5. tab'[a] = {i \in Index(a) : chans'[a][i] = "live"}
  BY <1>3 DEF TabInv
<1> QED
  BY <1>1, <1>2, <1>4, <1>5 DEF TabInv, OthersKeep

\* CleanUp: jrtc_router_channel_destroy finds the channel in the table or not.
LEMMA ChannelDestroyStep ==
  ASSUME TabInv, NEW a \in Apps, NEW i \in Index(a), ChannelDestroy(a, i)
  PROVE  TabInv' /\ OthersKeep(a)
<1>1. CASE UNCHANGED chanVars
  BY <1>1 DEF chanVars, TabInv, OthersKeep
<1>2. CASE i \in tab[a] /\ tab' = [tab EXCEPT ![a] = @ \ {i}] /\ Destroy(a, {i})
  BY <1>2, DestroyStep, Zenon
<1> QED
  BY <1>1, <1>2 DEF ChannelDestroy

\* jrtc_router_deregister_app
LEMMA DestroyAllStep ==
  ASSUME TabInv, NEW a \in Apps, DestroyAll(a)
  PROVE  TabInv' /\ OthersKeep(a) /\ tab'[a] = {}
<1>1. tab' = [tab EXCEPT ![a] = @ \ tab[a]] /\ tab'[a] = {}
  BY Zenon DEF DestroyAll, TabInv
<1> QED
  BY <1>1, DestroyStep, Zenon DEF DestroyAll

-----------------------------------------------------------------------------
\* A step leaves all that concerns the other apps as it is.
OnlyOf(a) ==
  \A b \in Apps \ {a} :
    /\ chans'[b] = chans[b] /\ tab'[b] = tab[b]
    /\ pc'[b] = pc[b] /\ si'[b] = si[b] /\ items'[b] = items[b]
    /\ reqs'[b] = reqs[b]
    /\ b \in raised' <=> b \in raised

\* It is then enough to look at one app.
LEMMA LocalStep ==
  ASSUME AppInv, AppTypes', TabInv', NEW a \in Apps, OnlyOf(a), OfApp(a)'
  PROVE  AppInv'
<1> SUFFICES ASSUME NEW b \in Apps, b # a PROVE OfApp(b)'
  BY DEF AppInv
<1> QED
  BY DEF AppInv, OnlyOf, OfApp, ChanInv, ItemInv, ReqInv, Active, Created

\* A step that does nothing to the channels, nor to what Init and CleanUp have
\* recorded, preserves the invariant.
LEMMA QuietStep ==
  ASSUME AppInv, UNCHANGED <<chans, tab, pc, si, items, reqs, raised>>
  PROVE  AppInv'
BY DEF AppInv, AppTypes, TabInv, OfApp, ChanInv, ItemInv, ReqInv, Active, Created

\* Most steps of the thread of an app just go on to another place.
LEMMA ThreadStep ==
  ASSUME AppInv, NEW a \in Apps, NEW label, NEW i, Goto(a, label, i),
         UNCHANGED <<chans, tab, items, reqs>>,
         raised \subseteq raised', raised' \subseteq raised \cup {a},
         AppTypes', OfApp(a)'
  PROVE  AppInv'
<1>1. OnlyOf(a)
  BY DEF AppInv, AppTypes, Goto, OnlyOf
<1>2. TabInv'
  BY DEF AppInv, TabInv
<1> QED
  BY <1>1, <1>2, LocalStep

\* Each step of an app, of the controller, the router and the agent preserves it.
LEMMA AppPreserved == AppInv /\ [Next]_vars => AppInv'
<1> SUFFICES ASSUME AppInv, [Next]_vars PROVE AppInv'
  OBVIOUS
<1> USE StreamsAssumption DEF ChanInv, ItemInv, ReqInv, Active, Created,
                              GotoCleanUp, InitFails
<1>1. CASE UNCHANGED vars
  BY <1>1, QuietStep DEF vars, appVars, chanVars
<1>2. ASSUME NEW a \in Apps, Load(a) PROVE AppInv'
  <2>1. AppTypes' /\ OfApp(a)'
    BY <1>2 DEF Load, chanVars, AppInv, AppTypes, OfApp, Goto
  <2> QED
    BY <1>2, <2>1, ThreadStep DEF Load, chanVars
<1>3. ASSUME NEW a \in Apps, Unload(a) PROVE AppInv'
  BY <1>3, QuietStep DEF Unload, chanVars
<1>4. ASSUME NEW a \in Apps, Deregister(a) PROVE AppInv'
  <2>1. TabInv' /\ OthersKeep(a) /\ tab'[a] = {}
    BY <1>4, DestroyAllStep DEF Deregister, AppInv
  <2>2. AppTypes' /\ OfApp(a)'
    BY <1>4, <2>1 DEF Deregister, AppInv, AppTypes, OfApp, Goto
  <2>3. OnlyOf(a)
    BY <1>4, <2>1 DEF Deregister, OthersKeep, OnlyOf, AppInv, AppTypes, Goto
  <2> QED
    BY <2>1, <2>2, <2>3, LocalStep
<1>5. ASSUME NEW a \in Apps, Expire(a) PROVE AppInv'
  BY <1>5, QuietStep DEF Expire, chanVars
<1>6. ASSUME NEW a \in Apps, InitCreate(a) PROVE AppInv'
  <2>1. pc[a] = "create" /\ si[a] \in Index(a)
    BY <1>6 DEF InitCreate, AppInv, OfApp
  <2>2. AppTypes' /\ ItemInv(a)' /\ ReqInv(a)'
    BY <1>6 DEF InitCreate, AppInv, AppTypes, OfApp, Goto
  <2>3. CASE Streams[a][si[a]].chan # "none"
    <3>1. /\ TabInv'
          /\ OthersKeep(a)
          /\ chans'[a] = [chans[a] EXCEPT ![si[a]] = "live"]
      BY <1>6, <2>1, <2>3, CreateStep, Zenon DEF InitCreate, AppInv
    <3>2. OnlyOf(a)
      BY <1>6, <3>1 DEF InitCreate, OthersKeep, OnlyOf, AppInv, AppTypes, Goto
    <3>3. ChanInv(a)'
      <4> SUFFICES ASSUME NEW i \in 1..si[a], Streams[a][i].chan # "none"
                   PROVE  chans'[a][i] = "live"
        BY <1>6, <2>1 DEF InitCreate, AppInv, AppTypes, Goto
      <4>1. i # si[a] => i \in 1..(si[a] - 1) /\ chans[a][i] = "live"
        BY <2>1 DEF AppInv, AppTypes, OfApp
      <4> QED
        BY <2>1, <3>1, <4>1 DEF AppInv, TabInv
    <3> QED
      BY <2>2, <3>1, <3>2, <3>3, LocalStep, Zenon DEF OfApp
  <2>4. CASE Streams[a][si[a]].chan = "none"
    <3>1. UNCHANGED <<chans, tab>>
      BY <1>6, <2>4 DEF InitCreate, chanVars
    <3>2. ChanInv(a)'
      BY <1>6, <2>1, <2>4, <3>1 DEF InitCreate, AppInv, AppTypes, OfApp, Goto
    <3>3. OfApp(a)'
      BY <2>2, <3>2 DEF OfApp
    <3> QED
      BY <1>6, <2>2, <3>1, <3>3, ThreadStep DEF InitCreate
  <2> QED
    BY <2>3, <2>4
<1>7. ASSUME NEW a \in Apps, InitCreateFails(a) PROVE AppInv'
  <2>1. AppTypes' /\ OfApp(a)'
    BY <1>7 DEF InitCreateFails, AppInv, AppTypes, OfApp, Goto
  <2> QED
    BY <1>7, <2>1, ThreadStep DEF InitCreateFails, chanVars
<1>8. ASSUME NEW a \in Apps, InitRegister(a) \/ InitRegisterUnnoticed(a) PROVE AppInv'
  <2> DEFINE i == si[a]
  <2>1. /\ pc[a] = "register" /\ i \in Index(a) /\ items[a] = i - 1
        /\ items' = [items EXCEPT ![a] = i]
        /\ UNCHANGED <<chans, tab, raised>>
    BY <1>8 DEF InitRegister, InitRegisterUnnoticed, InitPush, chanVars, AppInv, OfApp
  <2>2. /\ DOMAIN reqs' = Apps
        /\ \A b \in Apps \ {a} : reqs'[b] = reqs[b]
        /\ \A s \in reqs'[a] : s \in reqs[a] \/ ReceivedOn(a, i, s)
    BY <1>8 DEF InitRegister, InitRegisterUnnoticed, ReceivedOn, AppInv, AppTypes
  <2>3. \/ Goto(a, "cleanup", 1)
        \/ i < Len(Streams[a]) /\ Goto(a, "create", i + 1)
        \/ i = Len(Streams[a]) /\ Goto(a, "wait", 1)
    BY <1>8, <2>1 DEF InitRegister, InitRegisterUnnoticed, InitPush
  <2>4. \A k \in 1..i : Streams[a][k].chan # "none" => chans'[a][k] = "live"
    BY <2>1 DEF AppInv, OfApp
  <2>5. ReqInv(a)'
    <3>1. pc'[a] \in {"cleanup", "create", "wait"} /\ (pc'[a] = "cleanup" => si'[a] = 1)
      BY <2>3 DEF Goto, AppInv, AppTypes
    <3>2. items'[a] = i
      BY <2>1 DEF AppInv, AppTypes
    <3> SUFFICES ASSUME a \notin raised, NEW s \in reqs'[a]
                 PROVE  \E j \in 1..i : ReceivedOn(a, j, s)
      BY <2>1, <3>1, <3>2
    <3>3. s \in reqs[a] => \E j \in 1..items[a] : ReceivedOn(a, j, s)
      BY <2>1 DEF AppInv, OfApp
    <3> QED
      BY <2>1, <2>2, <3>3
  <2>6. AppTypes' /\ ChanInv(a)' /\ ItemInv(a)' /\ OnlyOf(a)
    <3> USE DEF AppInv, AppTypes, Goto, OnlyOf
    <3>1. CASE Goto(a, "cleanup", 1)
      BY <2>1, <2>2, <3>1
    <3>2. CASE i < Len(Streams[a]) /\ Goto(a, "create", i + 1)
      BY <2>1, <2>2, <2>4, <3>2
    <3>3. CASE i = Len(Streams[a]) /\ Goto(a, "wait", 1)
      <4>1. Index(a) = 1..i
        BY <3>3
      <4>2. AppTypes' /\ ItemInv(a)' /\ OnlyOf(a)
        BY <2>1, <2>2, <3>3
      <4>3. pc'[a] = "wait"
        BY <3>3
      <4>4. ChanInv(a)'
        BY <2>4, <4>1, <4>3
      <4> QED
        BY <4>2, <4>4
    <3> QED
      BY <2>3, <3>1, <3>2, <3>3
  <2>7. TabInv'
    BY <2>1 DEF TabInv, AppInv
  <2> QED
    BY <2>5, <2>6, <2>7, LocalStep DEF OfApp
<1>9. ASSUME NEW a \in Apps, InitRegisterFails(a) PROVE AppInv'
  <2>1. AppTypes' /\ OfApp(a)'
    BY <1>9 DEF InitRegisterFails, AppInv, AppTypes, OfApp, Goto
  <2> QED
    BY <1>9, <2>1, ThreadStep DEF InitRegisterFails, chanVars
<1>10. ASSUME NEW a \in Apps, WaitOver(a) PROVE AppInv'
  <2>1. pc[a] = "wait" /\ UNCHANGED <<chans, tab, items, reqs, raised>>
    BY <1>10 DEF WaitOver, chanVars
  <2>2. CASE si[a] < Len(Streams[a]) /\ Goto(a, "wait", si[a] + 1)
    <3>1. AppTypes' /\ OfApp(a)'
      BY <2>1, <2>2 DEF AppInv, AppTypes, OfApp, Goto
    <3> QED
      BY <2>1, <2>2, <3>1, ThreadStep
  <2>3. CASE Goto(a, "run", 1)
    <3>1. AppTypes' /\ OfApp(a)'
      BY <2>1, <2>3 DEF AppInv, AppTypes, OfApp, Goto
    <3> QED
      BY <2>1, <2>3, <3>1, ThreadStep
  <2> QED
    BY <1>10, <2>2, <2>3 DEF WaitOver
<1>11. ASSUME NEW a \in Apps, WaitExpires(a) PROVE AppInv'
  <2>1. AppTypes' /\ OfApp(a)'
    BY <1>11 DEF WaitExpires, AppInv, AppTypes, OfApp, Goto
  <2> QED
    BY <1>11, <2>1, ThreadStep DEF WaitExpires, chanVars
<1>12. ASSUME NEW a \in Apps, Receive(a) \/ Handle(a) PROVE AppInv'
  <2>1. PICK label \in {"run", "handle"} :
          /\ pc[a] \in {"run", "handle"} /\ Goto(a, label, 1)
          /\ UNCHANGED <<chans, tab, items, reqs, raised>>
    BY <1>12, Zenon DEF Receive, Take, Handle
  <2>2. AppTypes' /\ pc'[a] = label
    BY <2>1 DEF AppInv, AppTypes, Goto
  <2>3. OfApp(a)'
    BY <2>1, <2>2 DEF AppInv, OfApp
  <2> QED
    BY <2>1, <2>2, <2>3, ThreadStep
<1>13. ASSUME NEW a \in Apps, HandlerAborts(a) PROVE AppInv'
  BY <1>13 DEF HandlerAborts, chanVars, AppInv, AppTypes, TabInv, OfApp
<1>14. ASSUME NEW a \in Apps, HandlerRaises(a) PROVE AppInv'
  <2>1. AppTypes' /\ OfApp(a)'
    BY <1>14 DEF HandlerRaises, AppInv, AppTypes, OfApp, Goto
  <2> QED
    BY <1>14, <2>1, ThreadStep DEF HandlerRaises
<1>15. ASSUME NEW a \in Apps, RunEnds(a) PROVE AppInv'
  <2>1. AppTypes' /\ OfApp(a)'
    BY <1>15 DEF RunEnds, AppInv, AppTypes, OfApp, Goto
  <2> QED
    BY <1>15, <2>1, ThreadStep DEF RunEnds, chanVars
<1>16. ASSUME NEW a \in Apps, CleanUpItem(a) PROVE AppInv'
  <2> DEFINE i == si[a]
  <2>1. i \in Index(a) /\ pc[a] = "cleanup" /\ Goto(a, "cleanup", i + 1)
    BY <1>16 DEF CleanUpItem, AppInv, AppTypes, OfApp
  <2>2. TabInv' /\ OthersKeep(a)
    <3>1. ChannelDestroy(a, i) \/ UNCHANGED chanVars
      BY <1>16 DEF CleanUpItem
    <3>2. CASE UNCHANGED chanVars
      BY <3>2 DEF chanVars, AppInv, TabInv, OthersKeep
    <3> QED
      BY <2>1, <3>1, <3>2, ChannelDestroyStep DEF AppInv
  <2>3. AppTypes' /\ ChanInv(a)' /\ ItemInv(a)'
    BY <1>16, <2>1 DEF CleanUpItem, AppInv, AppTypes, OfApp, Goto
  <2>4. OnlyOf(a)
    BY <1>16, <2>1, <2>2 DEF CleanUpItem, OthersKeep, OnlyOf, AppInv, AppTypes, Goto
  <2>5. ReqInv(a)'
    <3> SUFFICES ASSUME a \notin raised, NEW s \in reqs'[a]
                 PROVE  \E j \in (i + 1)..items[a] : ReceivedOn(a, j, s)
      BY <1>16, <2>1 DEF CleanUpItem, AppInv, AppTypes, Goto
    <3>1. s \in reqs[a] /\ ~ReceivedOn(a, i, s)
      BY <1>16 DEF CleanUpItem, ReceivedOn, AppInv, AppTypes
    <3>2. PICK j \in i..items[a] : ReceivedOn(a, j, s)
      BY <2>1, <3>1 DEF AppInv, OfApp
    <3> QED
      BY <3>1, <3>2 DEF AppInv, AppTypes
  <2> QED
    BY <2>2, <2>3, <2>4, <2>5, LocalStep DEF OfApp
<1>17. ASSUME NEW a \in Apps, CleanUpEnds(a) PROVE AppInv'
  <2>1. AppTypes' /\ OfApp(a)'
    BY <1>17 DEF CleanUpEnds, AppInv, AppTypes, OfApp, Goto
  <2> QED
    BY <1>17, <2>1, ThreadStep DEF CleanUpEnds, chanVars
<1>18. ASSUME NEW a \in Apps, NEW i \in Index(a), ForwardApp(a, i) PROVE AppInv'
  BY <1>18, QuietStep DEF ForwardApp
<1>19. ASSUME NEW s \in AgentOut, ForwardAgent(s) PROVE AppInv'
  BY <1>19, QuietStep DEF ForwardAgent, chanVars
<1>20. ASSUME NEW s \in AgentIn, Agent(s) PROVE AppInv'
  BY <1>20, QuietStep DEF Agent, AgentCreate, AgentDestroy, AgentReceive, appVars
<1> QED
  BY <1>1, <1>2, <1>3, <1>4, <1>5, <1>6, <1>7, <1>8, <1>9, <1>10, <1>11, <1>12,
     <1>13, <1>14, <1>15, <1>16, <1>17, <1>18, <1>19, <1>20
  DEF Next, AppStep

\* The invariant holds in every state.
LEMMA AppInvariant == Spec => []AppInv
BY AppInitially, AppPreserved, PTL DEF Spec

-----------------------------------------------------------------------------
\* However Init fails, whatever CleanUp finds in the table and however often an
\* app is loaded, each channel is destroyed exactly once by the time its app is
\* deregistered.
THEOREM ChannelsAreDestroyedOnce == Spec => []DestroyedOnce
<1>1. AppInv => DestroyedOnce
  BY DEF AppInv, TabInv, OfApp, ChanInv, DestroyedOnce
<1> QED
  BY <1>1, AppInvariant, PTL

\* CleanUp leaves no request of an app in the table of the router, unless the
\* handler of a Python app has raised an exception.
THEOREM RequestsAreDropped == Spec => []RequestsDropped
<1>1. AppInv => RequestsDropped
  BY DEF AppInv, OfApp, ReqInv, RequestsDropped
<1> QED
  BY <1>1, AppInvariant, PTL

\* However many apps send to each other's input channels, an app that has come
\* to the wait of Init has the channels others may be waiting for.
THEOREM AppsDoNotWaitForEachOther == Spec => []NoMutualWait
<1>1. AppInv => NoMutualWait
  <2> SUFFICES ASSUME AppInv, NEW b \in Apps, pc[b] \in {"wait", "run", "handle"},
                      NEW j \in Index(b), Streams[b][j].chan = "in"
               PROVE  InputExists(Sid(b, j))
    BY DEF NoMutualWait
  <2>1. chans[b][j] = "live"
    BY DEF AppInv, OfApp, ChanInv, Active, Created
  <2> QED
    BY <2>1 DEF InputExists
<1> QED
  BY <1>1, AppInvariant, PTL
=============================================================================

------------------------------- MODULE JrtcApp -------------------------------
(***************************************************************************)
(* The wrapper most apps are written with: JrtcApp of jrtc_app.cpp, and    *)
(* its counterpart for Python apps in jrtc_app.py.                         *)
(*                                                                         *)
(* Each app has a thread that runs Init, the receive loop and CleanUp; the *)
(* controller asks it to exit and deregisters the app once the thread is   *)
(* over.  An app may be loaded again.  The handler sends messages and      *)
(* asserts that they are sent; in C a failed assertion aborts the process, *)
(* and with it every app, in Python it ends the thread without CleanUp.    *)
(***************************************************************************)
EXTENDS RouterChannels

CONSTANTS Python,       \* apps written in Python
          InitTimeout,  \* apps with initialization_timeout_secs > 0
          Sends,        \* streams the handler of each stream sends on
          QSize,        \* q_size of each app
          RingSize,     \* its ioq_size, the app_queue_size of the router
          AgentOut      \* streams of the codelets

VARIABLES
  pc,       \* where the thread of each app is
  si,       \* index of the stream it is at
  items,    \* stream_items.size()
  reqs,     \* requests the app has in the table of the router
  ring,     \* messages the router has put in the queue of the app
  entries,  \* data_entries still to be handled
  expired,  \* initialization_timeout_secs have passed since the start of Init
  exit,     \* app_exit
  raised    \* Python apps of which a handler has raised an exception

appVars == <<pc, si, items, reqs, ring, entries, expired, exit, raised>>
vars == <<chanVars, appVars>>

Init ==
  /\ ChanInit
  /\ pc = [a \in Apps |-> "out"]
  /\ si = [a \in Apps |-> 1]
  /\ items = [a \in Apps |-> 0]
  /\ reqs = [a \in Apps |-> {}]
  /\ ring = [a \in Apps |-> <<>>]
  /\ entries = [a \in Apps |-> <<>>]
  /\ expired = [a \in Apps |-> FALSE]
  /\ exit = [a \in Apps |-> FALSE]
  /\ raised = {}

Goto(a, label, i) == pc' = [pc EXCEPT ![a] = label] /\ si' = [si EXCEPT ![a] = i]

\* The thread goes on to CleanUp; its queue is not read any more.
GotoCleanUp(a) == Goto(a, "cleanup", 1) /\ ring' = [ring EXCEPT ![a] = <<>>]

\* Init returns -1.
InitFails(a) == GotoCleanUp(a) /\ expired' = [expired EXCEPT ![a] = FALSE]

-----------------------------------------------------------------------------
(***************************************************************************)
(* The controller and the clock                                            *)
(***************************************************************************)
Load(a) ==
  /\ pc[a] = "out"
  /\ Goto(a, "create", 1)
  /\ UNCHANGED <<chanVars, items, reqs, ring, entries, expired, exit, raised>>

\* app_exit is set: the app is unloaded.
Unload(a) ==
  /\ pc[a] \notin {"out", "dead"}
  /\ ~exit[a]
  /\ exit' = [exit EXCEPT ![a] = TRUE]
  /\ UNCHANGED <<chanVars, pc, si, items, reqs, ring, entries, expired, raised>>

\* The thread is joined and jrtc_router_deregister_app called.
Deregister(a) ==
  /\ pc[a] = "done"
  /\ exit[a]
  /\ DestroyAll(a)
  /\ Goto(a, "out", 1)
  /\ items' = [items EXCEPT ![a] = 0]
  /\ exit' = [exit EXCEPT ![a] = FALSE]
  /\ UNCHANGED <<reqs, ring, entries, expired, raised>>

Expire(a) ==
  /\ a \in InitTimeout
  /\ pc[a] \in {"create", "register", "wait"}
  /\ ~expired[a]
  /\ expired' = [expired EXCEPT ![a] = TRUE]
  /\ UNCHANGED <<chanVars, pc, si, items, reqs, ring, entries, exit, raised>>

-----------------------------------------------------------------------------
(***************************************************************************)
(* JrtcApp::Init                                                           *)
(***************************************************************************)

\* The stream id is generated and the channel, if the stream has one, created.
InitCreate(a) ==
  /\ pc[a] = "create"
  /\ IF Streams[a][si[a]].chan # "none" THEN ChannelCreate(a, si[a])
                                        ELSE UNCHANGED chanVars
  /\ Goto(a, "register", si[a])
  /\ UNCHANGED <<items, reqs, ring, entries, expired, exit, raised>>

\* The stream id cannot be generated, or the channel not be created.
InitCreateFails(a) ==
  /\ pc[a] = "create"
  /\ InitFails(a)
  /\ UNCHANGED <<chanVars, items, reqs, entries, exit, raised>>

\* The stream is pushed to stream_items; the timeout is checked before the next.
InitPush(a) ==
  LET i == si[a]
  IN  /\ items' = [items EXCEPT ![a] = i]
      /\ IF expired[a] THEN InitFails(a)
         ELSE /\ IF i < Len(Streams[a]) THEN Goto(a, "create", i + 1) ELSE Goto(a, "wait", 1)
              /\ UNCHANGED <<ring, expired>>

\* Mutant: the item is pushed only after the timeout has been checked.
MutInitRegisterPushLate(a) ==
  LET i == si[a]
  IN  /\ pc[a] = "register"
      /\ reqs' = IF Streams[a][i].rx THEN [reqs EXCEPT ![a] = @ \cup {Sid(a, i)}] ELSE reqs
      /\ IF expired[a] THEN InitFails(a) /\ UNCHANGED items
         ELSE /\ items' = [items EXCEPT ![a] = i]
              /\ IF i < Len(Streams[a]) THEN Goto(a, "create", i + 1) ELSE Goto(a, "wait", 1)
              /\ UNCHANGED <<ring, expired>>
      /\ UNCHANGED <<chanVars, entries, exit, raised>>

\* Mutant: the wait comes before the channels of the later streams.
MutInitRegisterWaitsEarly(a) ==
  LET i == si[a]
  IN  /\ pc[a] = "register"
      /\ reqs' = IF Streams[a][i].rx THEN [reqs EXCEPT ![a] = @ \cup {Sid(a, i)}] ELSE reqs
      /\ items' = [items EXCEPT ![a] = i]
      /\ IF i < Len(Streams[a]) /\ Streams[a][i].rx THEN Goto(a, "create", i + 1)
         ELSE Goto(a, "wait", i)
      /\ UNCHANGED <<chanVars, ring, expired, entries, exit, raised>>

\* The stream is registered, if it is for reception, and pushed.
InitRegister(a) ==
  LET i == si[a]
  IN  /\ pc[a] = "register"
      /\ reqs' = IF Streams[a][i].rx THEN [reqs EXCEPT ![a] = @ \cup {Sid(a, i)}] ELSE reqs
      /\ InitPush(a)
      /\ UNCHANGED <<chanVars, entries, exit, raised>>

\* The registration fails, but Python takes the negative result for success.
InitRegisterUnnoticed(a) ==
  /\ pc[a] = "register"
  /\ a \in Python
  /\ Streams[a][si[a]].rx
  /\ InitPush(a)
  /\ UNCHANGED <<chanVars, reqs, entries, exit, raised>>

\* The registration fails; the channel of the stream is in no stream item.
InitRegisterFails(a) ==
  /\ pc[a] = "register"
  /\ a \notin Python
  /\ Streams[a][si[a]].rx
  /\ InitFails(a)
  /\ UNCHANGED <<chanVars, items, reqs, entries, exit, raised>>

\* the stream is sent on, and its channel is another's
Awaited(a, i) == ~Streams[a][i].rx /\ Streams[a][i].chan = "none"

\* The channel need not be waited for, or exists: go on to the next stream.
WaitOver(a) ==
  /\ pc[a] = "wait"
  /\ Awaited(a, si[a]) => InputExists(Sid(a, si[a]))
  /\ IF si[a] < Len(Streams[a])
     THEN Goto(a, "wait", si[a] + 1) /\ UNCHANGED expired
     ELSE Goto(a, "run", 1) /\ expired' = [expired EXCEPT ![a] = FALSE]
  /\ UNCHANGED <<chanVars, items, reqs, ring, entries, exit, raised>>

\* Mutant: the timeout is checked in the first loop only.
MutWaitExpiresNever(a) ==
  /\ pc[a] = "wait"
  /\ FALSE
  /\ UNCHANGED vars

\* The channel does not exist, and the timeout has passed.
WaitExpires(a) ==
  /\ pc[a] = "wait"
  /\ Awaited(a, si[a]) /\ ~InputExists(Sid(a, si[a]))
  /\ expired[a]
  /\ InitFails(a)
  /\ UNCHANGED <<chanVars, items, reqs, entries, exit, raised>>

-----------------------------------------------------------------------------
(***************************************************************************)
(* JrtcApp::run                                                            *)
(***************************************************************************)

\* n entries come from the queue, the others from the input channels of streams q.
Take(a, n, q) ==
  /\ n + Len(q) > 0
  /\ entries' = [entries EXCEPT ![a] =
       SubSeq(ring[a], 1, n) \o [k \in DOMAIN q |-> Sid(a, q[k])]]
  /\ ring' = [ring EXCEPT ![a] = SubSeq(@, n + 1, Len(@))]
  /\ msgs' = [s \in Sids |-> msgs[s] - Cardinality({k \in DOMAIN q : Sid(a, q[k]) = s})]
  /\ Goto(a, "handle", 1)
  /\ UNCHANGED <<chans, tab, agentIn, items, reqs, expired, exit, raised>>

\* Mutant: the input channels are polled only when the queue is empty.
MutReceiveQueueOrInputs(a) ==
  LET n == Min({Len(ring[a]), QSize[a]})
  IN  /\ pc[a] = "run"
      /\ ~exit[a]
      /\ \E q \in FromInputs(a, IF n > 0 THEN 0 ELSE QSize[a]) : Take(a, n, q)

\* jrtc_router_receive: the queue first, then the input channels.
Receive(a) ==
  LET n == Min({Len(ring[a]), QSize[a]})
  IN  /\ pc[a] = "run"
      /\ ~exit[a]
      /\ \E q \in FromInputs(a, QSize[a] - n) : Take(a, n, q)

\* the first stream for reception the message matches, if any
Dispatch(a, s) ==
  SelectInSeq(Streams[a], LAMBDA st : st.rx /\ st.sid = s)

\* get_stream, get_chan_ctx: the index is one of stream_items
HasItem(a, j) == j <= items[a]

\* jrtc_app_router_channel_reserve_buf and jrtc_app_router_channel_send_output,
\* or jrtc_app_router_channel_send_input_msg, succeed for the stream.
SendOk(a, j) ==
  /\ HasItem(a, j)
  /\ IF Streams[a][j].chan = "out" THEN CanReserve(a, j) ELSE CanSendInput(Sid(a, j))

\* the streams app_handler sends on for the first entry
ToSend(a) ==
  LET i == Dispatch(a, Head(entries[a])) IN IF i = 0 THEN {} ELSE Sends[a][i]

\* The handler is called for the first entry, and the buffer released.
Handle(a) ==
  /\ pc[a] = "handle"
  /\ \E J \in {ToSend(a)} : (\A j \in J : SendOk(a, j)) /\ Send(a, J)
  /\ entries' = [entries EXCEPT ![a] = Tail(@)]
  /\ Goto(a, IF Len(entries[a]) = 1 THEN "run" ELSE "handle", 1)
  /\ UNCHANGED <<chans, tab, agentIn, items, reqs, ring, expired, exit, raised>>

\* An assertion of a handler in C fails.
HandlerAborts(a) ==
  /\ pc[a] = "handle"
  /\ a \notin Python
  /\ \E j \in ToSend(a) : ~SendOk(a, j)
  /\ pc' = [b \in Apps |-> "dead"]
  /\ UNCHANGED <<chanVars, si, items, reqs, ring, entries, expired, exit, raised>>

\* An assertion of a handler in Python fails, after the messages before it are
\* sent: the exception leaves run, the buffer is not released and
\* jrtc_app_destroy is not called.
HandlerRaises(a) ==
  /\ pc[a] = "handle"
  /\ a \in Python
  /\ \E j \in ToSend(a) : ~SendOk(a, j)
  /\ \E J \in {{j \in ToSend(a) : \A k \in ToSend(a) : k <= j => SendOk(a, k)}} : Send(a, J)
  /\ entries' = [entries EXCEPT ![a] = <<>>]
  /\ ring' = [ring EXCEPT ![a] = <<>>]
  /\ Goto(a, "done", 1)
  /\ raised' = raised \cup {a}
  /\ UNCHANGED <<chans, tab, agentIn, items, reqs, expired, exit>>

\* app_exit ends the loop.
RunEnds(a) ==
  /\ pc[a] = "run"
  /\ exit[a]
  /\ GotoCleanUp(a)
  /\ UNCHANGED <<chanVars, items, reqs, entries, expired, exit, raised>>

-----------------------------------------------------------------------------
(***************************************************************************)
(* JrtcApp::CleanUp                                                        *)
(***************************************************************************)
CleanUpItem(a) ==
  LET i == si[a]
  IN  /\ pc[a] = "cleanup"
      /\ i <= items[a]
      /\ reqs' = IF Streams[a][i].rx THEN [reqs EXCEPT ![a] = @ \ {Sid(a, i)}] ELSE reqs
      /\ IF Streams[a][i].chan # "none" THEN ChannelDestroy(a, i)
                                        ELSE UNCHANGED chanVars
      /\ Goto(a, "cleanup", i + 1)
      /\ UNCHANGED <<items, ring, entries, expired, exit, raised>>

CleanUpEnds(a) ==
  /\ pc[a] = "cleanup"
  /\ si[a] > items[a]
  /\ Goto(a, "done", 1)
  /\ UNCHANGED <<chanVars, items, reqs, ring, entries, expired, exit, raised>>

-----------------------------------------------------------------------------
(***************************************************************************)
(* The router thread                                                       *)
(***************************************************************************)
\* the app is registered, and its queue still matters
Reads(a) == pc[a] \notin {"cleanup", "done", "out"}

\* The message is put in the queue of an app that asks for it, if there is room.
Put(s) ==
  ring' = [a \in Apps |-> IF s \in reqs[a] /\ Len(ring[a]) < RingSize[a] /\ Reads(a)
                          THEN Append(ring[a], s) ELSE ring[a]]

\* a message of a codelet
ForwardAgent(s) ==
  /\ \A a \in Apps : pc[a] # "dead"
  /\ Put(s)
  /\ UNCHANGED <<chanVars, pc, si, items, reqs, entries, expired, exit, raised>>

\* a message in the output channel of an app
ForwardApp(a, i) ==
  /\ pc[a] # "dead"
  /\ Streams[a][i].chan = "out"
  /\ msgs[Sid(a, i)] > 0
  /\ msgs' = [msgs EXCEPT ![Sid(a, i)] = @ - 1]
  /\ Put(Sid(a, i))
  /\ UNCHANGED <<chans, tab, agentIn, pc, si, items, reqs, entries, expired, exit, raised>>

Agent(s) ==
  /\ AgentCreate(s) \/ AgentDestroy(s) \/ AgentReceive(s)
  /\ UNCHANGED <<appVars>>

-----------------------------------------------------------------------------
AppStep(a) ==
  \/ InitCreate(a) \/ InitCreateFails(a) \/ InitRegister(a)
  \/ InitRegisterUnnoticed(a) \/ InitRegisterFails(a)
  \/ WaitOver(a) \/ WaitExpires(a)
  \/ Receive(a) \/ Handle(a) \/ HandlerAborts(a) \/ HandlerRaises(a) \/ RunEnds(a)
  \/ CleanUpItem(a) \/ CleanUpEnds(a)

Next ==
  \/ \E a \in Apps :
       \/ Load(a) \/ Unload(a) \/ Deregister(a) \/ Expire(a) \/ AppStep(a)
       \/ \E i \in Index(a) : ForwardApp(a, i)
  \/ \E s \in AgentOut : ForwardAgent(s)
  \/ \E s \in AgentIn : Agent(s)

\* The threads of the apps run, time passes, and the controller joins a thread
\* it has asked to exit.  Nothing is assumed of loads, unloads, messages and
\* the agent.
Fairness ==
  \A a \in Apps : WF_vars(AppStep(a) \/ Deregister(a)) /\ WF_vars(Expire(a))

Spec == Init /\ [][Next]_vars /\ Fairness

-----------------------------------------------------------------------------
\* By the time an app is deregistered each of its channels has been destroyed,
\* and its context freed, exactly once, however Init failed and whatever CleanUp
\* found in the table: a channel that is in no stream item, or that
\* jrtc_router_channel_destroy misses, is left to jrtc_router_deregister_app, and
\* what CleanUp destroyed is not destroyed again there.
DestroyedOnce ==
  \A a \in Apps : \A i \in Index(a) :
    /\ chans[a][i] \in {"none", "live"}
    /\ pc[a] = "out" => chans[a][i] = "none"

\* When CleanUp is over the app has no request left, even if Init failed half
\* way.  jrtc_router_deregister_app leaves requests alone, so one left here
\* would be the next owner's of the id: that is what happens to a Python app
\* whose handler raises an exception.
RequestsDropped ==
  \A a \in Apps \ raised : pc[a] \in {"done", "out"} => reqs[a] = {}

\* An app waits only for apps that have yet to get to their own wait: no two
\* apps wait for each other's channels, as each creates all of its own first.
NoMutualWait ==
  \A a, b \in Apps : pc[a] = "wait" /\ pc[b] \in {"wait", "run", "handle"} =>
    \A i \in Index(a), j \in Index(b) :
      Awaited(a, i) /\ Streams[b][j].chan = "in" /\ Sid(b, j) = Sid(a, i) =>
        InputExists(Sid(a, i))

\* The thread of an app with an initialization timeout ends once app_exit is
\* set, although Init does not look at app_exit: the wait for a channel that
\* never comes ends by the timeout.
UnloadReturns ==
  \A a \in InitTimeout : exit[a] ~> pc[a] \in {"out", "dead"}

\* A message in the input channel of a running app is received, however busy
\* its queue is, unless the queue comes to hold a whole batch of q_size entries,
\* of which jrtc_router_receive leaves nothing for the input channels.
InputServed ==
  \A a \in Apps : \A i \in {j \in Index(a) : Streams[a][j].chan = "in"} :
    (pc[a] = "run" /\ msgs[Sid(a, i)] > 0)
      ~> \/ msgs[Sid(a, i)] = 0
         \/ Len(ring[a]) >= QSize[a]
         \/ pc[a] \in {"cleanup", "done", "dead"}
=============================================================================

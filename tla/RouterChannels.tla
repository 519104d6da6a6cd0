--------------------------- MODULE RouterChannels ---------------------------
(***************************************************************************)
(* The channels apps create with the router, and the messages in them:     *)
(* jrtc_router_channel_* of jrtc_router.c over the channels of jbpf_io,    *)
(* and the input channels of the agent, which are in the same jbpf_io.     *)
(*                                                                         *)
(* An app has at most one channel per stream of its configuration, so a    *)
(* channel is named by the app and the index of the stream.  The context   *)
(* of a channel and its jbpf_io channel are made and destroyed together.   *)
(***************************************************************************)
EXTENDS Naturals, SequencesExt, FiniteSetsExt

CONSTANTS Apps,
          Streams,   \* the streams of each app, [sid, rx, chan]: is_rx, and
                     \* the direction of its appChannel ("none": it has none)
          AgentIn,   \* input channels of the codelets
          Capacity,  \* num_elems of a channel
          Batch      \* JRTC_ROUTER_DATA_BATCH_SIZE

Index(a) == DOMAIN Streams[a]

\* Each app has a sequence of streams, of one at least.
ASSUME StreamsAssumption ==
  \A a \in Apps :
    Len(Streams[a]) \in Nat \ {0} /\ Index(a) = 1..Len(Streams[a])

Sid(a, i) == Streams[a][i].sid
Sids == UNION {{Sid(a, i) : i \in Index(a)} : a \in Apps} \cup AgentIn

VARIABLES
  chans,    \* the context of each channel: "none", "live" or (never) "twice" freed
  tab,      \* channels in app_in_channel_list and app_out_channel_list
  agentIn,  \* input channels the agent has at present
  msgs      \* number of messages in the channel of each stream

chanVars == <<chans, tab, agentIn, msgs>>

ChanInit ==
  /\ chans = [a \in Apps |-> [i \in Index(a) |-> "none"]]
  /\ tab = [a \in Apps |-> {}]
  /\ agentIn = {}
  /\ msgs = [s \in Sids |-> 0]

\* jrtc_router_input_channel_exists
InputExists(s) ==
  \/ s \in agentIn
  \/ \E a \in Apps : \E i \in Index(a) :
       chans[a][i] = "live" /\ Streams[a][i].chan = "in" /\ Sid(a, i) = s

-----------------------------------------------------------------------------
\* jrtc_router_channel_create: the jbpf_io channel, and the entry in the table.
\* (On every error what there is is destroyed and NULL returned.)
ChannelCreate(a, i) ==
  /\ chans' = [chans EXCEPT ![a][i] = "live"]
  /\ tab' = [tab EXCEPT ![a] = @ \cup {i}]
  /\ UNCHANGED <<agentIn, msgs>>

\* jbpf_io_destroy_channel, with what is in the channel, and jbpf_free
Destroy(a, I) ==
  /\ chans' = [chans EXCEPT ![a] = [i \in Index(a) |->
                 IF i \notin I THEN @[i] ELSE IF @[i] = "live" THEN "none" ELSE "twice"]]
  /\ msgs' = [s \in Sids |-> IF \E i \in I : Sid(a, i) = s THEN 0 ELSE msgs[s]]
  /\ UNCHANGED agentIn

\* Mutant: the result of ck_ht_remove_spmc is ignored.
MutChannelDestroyAlways(a, i) ==
  /\ Destroy(a, {i})
  /\ \/ tab' = [tab EXCEPT ![a] = @ \ {i}]
     \/ UNCHANGED tab

\* jrtc_router_channel_destroy.  The key in the table is a pointer to a
\* parameter of jrtc_router_channel_create, which has returned: the entry is
\* found or it is not, and then nothing is destroyed.
ChannelDestroy(a, i) ==
  \/ /\ i \in tab[a]
     /\ tab' = [tab EXCEPT ![a] = @ \ {i}]
     /\ Destroy(a, {i})
  \/ UNCHANGED chanVars

\* jrtc_router_deregister_app destroys what it finds in the tables.
DestroyAll(a) ==
  /\ Destroy(a, tab[a])
  /\ tab' = [tab EXCEPT ![a] = {}]

-----------------------------------------------------------------------------
\* jrtc_router_channel_reserve_buf: there is room in the app's own channel.
CanReserve(a, j) == chans[a][j] = "live" /\ msgs[Sid(a, j)] < Capacity

\* jrtc_router_channel_send_input_msg: there is a channel, whoever's, with room.
CanSendInput(s) == InputExists(s) /\ msgs[s] < Capacity

\* jrtc_router_channel_send_output and jrtc_router_channel_send_input_msg
Send(a, J) ==
  msgs' = [s \in Sids |->
             IF \E j \in J : Sid(a, j) = s THEN msgs[s] + 1 ELSE msgs[s]]

Inputs(a) == {i \in tab[a] : Streams[a][i].chan = "in"}

\* The loop of jrtc_router_receive over the input channels: the streams of the
\* messages it takes, a batch at most of each, until there is no room for more
\* entries.  The order of the channels is that of the hash table.
FromInputs(a, room) ==
  LET Taken(q, i) == Cardinality({k \in DOMAIN q : q[k] = i})
      Batched(i) == Min({msgs[Sid(a, i)], Batch})
  IN  {q \in UNION {[1..c -> Inputs(a)] : c \in 0..room} :
         /\ \A i \in Inputs(a) : Taken(q, i) <= Batched(i)
         /\ Len(q) = room \/ \A i \in Inputs(a) : Taken(q, i) = Batched(i)}

-----------------------------------------------------------------------------
\* agent_create_input_channel, agent_destroy_channel
AgentCreate(s) ==
  /\ s \notin agentIn
  /\ agentIn' = agentIn \cup {s}
  /\ UNCHANGED <<chans, tab, msgs>>

AgentDestroy(s) ==
  /\ s \in agentIn
  /\ agentIn' = agentIn \ {s}
  /\ msgs' = [msgs EXCEPT ![s] = 0]
  /\ UNCHANGED <<chans, tab>>

\* The codelet takes a message from its map.
AgentReceive(s) ==
  /\ s \in agentIn
  /\ msgs[s] > 0
  /\ msgs' = [msgs EXCEPT ![s] = @ - 1]
  /\ UNCHANGED <<chans, tab, agentIn>>
=============================================================================

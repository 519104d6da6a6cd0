------------------------------- MODULE NorthIo -------------------------------
(***************************************************************************)
(* The app that sends messages out over UDP: jrtc_north_io_app.c.          *)
(*                                                                         *)
(* It has a pool of mbufs and two sockets, whose descriptors are those of  *)
(* the process: other threads open and close descriptors meanwhile.  The   *)
(* result of aa_net_init is ignored, so the app goes on with whatever      *)
(* net_info holds.                                                         *)
(***************************************************************************)
EXTENDS Naturals, FiniteSetsExt

CONSTANTS MaxFd,      \* descriptors are 0..MaxFd; 0 is the standard input
          BatchSize,  \* AA_OUT_BUFS_BATCH_SIZE
          NumMbufs    \* AA_NET_NUM_DATA_ELEM

ASSUME NorthAssumption == MaxFd \in Nat /\ BatchSize \in Nat /\ NumMbufs \in Nat

Fds == 0..MaxFd
NoFd == MaxFd + 1  \* -1

VARIABLES
  npc,       \* where the app is
  owner,     \* "north", "other" or "free": who has opened each descriptor
  inFd,      \* in_sockfd
  outFd,     \* out_sockfd
  pool,      \* what net_mempool points to
  mbufs,     \* mbufs in the pool
  initOk,    \* what aa_net_init has returned
  entries,   \* data_entries that the loop has not reached; their buffers are held
  nSent,     \* n_sent
  appExit    \* app_exit

northVars == <<npc, owner, inFd, outFd, pool, mbufs, initOk, entries, nSent, appExit>>
net == <<inFd, outFd, pool, mbufs, initOk>>
loop == <<entries, nSent, appExit>>

NorthInit ==
  /\ npc = "init"
  /\ owner = [f \in Fds |-> IF f = 0 THEN "other" ELSE "free"]
  /\ inFd = 0 /\ outFd = 0
  /\ pool = "null"
  /\ mbufs = 0
  /\ initOk = FALSE
  /\ entries = 0 /\ nSent = 0
  /\ appExit = FALSE

-----------------------------------------------------------------------------
(***************************************************************************)
(* Descriptors                                                             *)
(***************************************************************************)
Free == {f \in Fds : owner[f] = "free"}

\* the lowest free descriptor is the one opened
Open(who) == Free # {} /\ owner' = [owner EXCEPT ![Min(Free)] = who]

\* whoever has opened it
Close(fd) == owner' = [f \in Fds |-> IF f = fd THEN "free" ELSE owner[f]]

\* net_info, a local variable, before aa_net_init and after jrtc_start_app
ForgetNet ==
  /\ inFd' = 0 /\ outFd' = 0
  /\ pool' = "null"
  /\ mbufs' = 0
  /\ initOk' = FALSE

\* The process is gone, with all its threads and descriptors.
ProcessEnds ==
  /\ npc' = "exit"
  /\ owner' = [f \in Fds |-> "free"]
  /\ ForgetNet
  /\ entries' = 0 /\ nSent' = 0
  /\ UNCHANGED appExit

OtherOpens ==
  /\ Open("other")
  /\ UNCHANGED <<npc, net, loop>>

OtherCloses ==
  \E f \in Fds \ {0} : owner[f] = "other" /\ Close(f) /\ UNCHANGED <<npc, net, loop>>

-----------------------------------------------------------------------------
(***************************************************************************)
(* aa_net_init                                                             *)
(***************************************************************************)
InitMempool ==
  /\ npc = "init"
  /\ \/ npc' = "input" /\ pool' = "live" /\ mbufs' = NumMbufs
     \/ npc' = "register" /\ UNCHANGED <<pool, mbufs>>
  /\ UNCHANGED <<owner, inFd, outFd, initOk, loop>>

MempoolDestroyed == pool' = "destroyed" /\ mbufs' = 0

\* The socket is left open if it cannot be bound.
OpenInputSocket ==
  /\ npc = "input"
  /\ \/ Open("north") /\ inFd' = Min(Free)
     \/ inFd' = NoFd /\ UNCHANGED owner
  /\ \/ inFd' # NoFd /\ npc' = "output" /\ UNCHANGED <<pool, mbufs>>
     \/ npc' = "register" /\ MempoolDestroyed
  /\ UNCHANGED <<outFd, initOk, loop>>

OpenOutputSocket ==
  /\ npc = "output"
  /\ \/ Open("north") /\ outFd' = Min(Free) /\ npc' = "connect"
     \/ outFd' = NoFd /\ npc' = "undo" /\ UNCHANGED owner
  /\ UNCHANGED <<inFd, pool, mbufs, initOk, loop>>

\* Mutant: what is undone for a failure is undone for success.
MutConnectFallsThrough ==
  /\ npc = "connect"
  /\ npc' = "undo"
  /\ initOk' \in BOOLEAN
  /\ UNCHANGED <<owner, inFd, outFd, pool, mbufs, loop>>

Connect ==
  /\ npc = "connect"
  /\ \/ npc' = "register" /\ initOk' = TRUE
     \/ npc' = "undo" /\ UNCHANGED initOk
  /\ UNCHANGED <<owner, inFd, outFd, pool, mbufs, loop>>

\* net_info keeps the pool and the descriptor.
UndoInit ==
  /\ npc = "undo"
  /\ MempoolDestroyed
  /\ Close(inFd)
  /\ npc' = "register"
  /\ UNCHANGED <<inFd, outFd, initOk, loop>>

-----------------------------------------------------------------------------
(***************************************************************************)
(* jrtc_start_app and aa_channel_encode_fwd_out_data                       *)
(***************************************************************************)
Register ==
  /\ npc = "register"
  /\ npc' = "loop"
  /\ UNCHANGED <<owner, net, loop>>

\* exit(0)
RegisterFails ==
  /\ npc = "register"
  /\ ProcessEnds

Receive ==
  /\ npc = "loop" /\ ~appExit
  /\ entries' \in 1..BatchSize
  /\ npc' = "encode"
  /\ UNCHANGED <<owner, net, nSent, appExit>>

\* jbpf_mbuf_alloc: a pool that is not there, or not any more, may do anything.
CanAlloc == pool = "live" => mbufs > 0
CanFail == pool = "live" => mbufs = 0

\* mbufs of a live pool only are counted
EncodeEntry ==
  /\ npc = "encode" /\ entries > 0
  /\ CanAlloc
  /\ IF pool = "live" THEN mbufs' = mbufs - 1 /\ nSent' = nSent + 1
                      ELSE UNCHANGED <<mbufs, nSent>>
  /\ entries' = entries - 1
  /\ UNCHANGED <<npc, owner, inFd, outFd, pool, initOk, appExit>>

\* Mutant: the mbuf of the entry is not freed.
MutEncodeFailsLeaks ==
  /\ npc = "encode" /\ entries > 0
  /\ CanAlloc
  /\ IF pool = "live" THEN mbufs' = mbufs - 1 ELSE UNCHANGED mbufs
  /\ entries' = entries - 1
  /\ UNCHANGED <<npc, owner, inFd, outFd, pool, initOk, nSent, appExit>>

\* The entry cannot be serialized: its mbuf is freed at once.
EncodeFails ==
  /\ npc = "encode" /\ entries > 0
  /\ CanAlloc
  /\ entries' = entries - 1
  /\ UNCHANGED <<npc, owner, net, nSent, appExit>>

AllocFails ==
  /\ npc = "encode" /\ entries > 0
  /\ CanFail
  /\ entries' = entries - 1
  /\ UNCHANGED <<npc, owner, net, nSent, appExit>>

AllocCrashes ==
  /\ npc = "encode" /\ entries > 0
  /\ pool # "live"
  /\ ProcessEnds

\* sendmmsg takes all, some or none; every mbuf is freed.
Send ==
  /\ npc = "encode" /\ entries = 0
  /\ mbufs' = mbufs + nSent
  /\ nSent' = 0
  /\ npc' = "loop"
  /\ UNCHANGED <<owner, inFd, outFd, pool, initOk, entries, appExit>>

\* the controller unloads the app
Exit ==
  /\ npc # "done"
  /\ appExit' = TRUE
  /\ UNCHANGED <<npc, owner, net, entries, nSent>>

\* aa_net_stop
StopInput ==
  /\ npc = "loop" /\ appExit
  /\ Close(inFd)
  /\ npc' = "stop"
  /\ UNCHANGED <<net, loop>>

StopOutput ==
  /\ npc = "stop"
  /\ Close(outFd)
  /\ npc' = "done"
  /\ ForgetNet
  /\ UNCHANGED loop

NorthStep ==
  \/ InitMempool \/ OpenInputSocket \/ OpenOutputSocket \/ Connect \/ UndoInit
  \/ Register \/ RegisterFails \/ Receive
  \/ EncodeEntry \/ EncodeFails \/ AllocFails \/ AllocCrashes
  \/ Send \/ StopInput \/ StopOutput

-----------------------------------------------------------------------------
\* After every batch of aa_channel_encode_fwd_out_data the mbufs are back in the
\* pool, whichever entries could not be given one or serialized and however
\* many datagrams sendmmsg took.
MbufsReturn == npc = "loop" /\ pool = "live" => mbufs = NumMbufs

\* If aa_net_init has succeeded, then up to the calls of close in aa_net_stop
\* the descriptors are two different ones that the app has opened, whatever
\* the other threads have opened and closed, and the pool is live.  Once the app
\* has returned no socket it has opened is left open, even if aa_net_init has
\* failed half way.
OwnSockets ==
  /\ initOk /\ npc \in {"register", "loop", "encode", "stop"} =>
       /\ owner[outFd] = "north"
       /\ npc # "stop" => inFd # outFd /\ owner[inFd] = "north"
       /\ pool = "live"
  /\ npc = "done" => \A f \in Fds : owner[f] # "north"
=============================================================================

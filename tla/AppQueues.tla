------------------------------ MODULE AppQueues ------------------------------
(***************************************************************************)
(* What the queue of an app promises: a first-in first-out queue of at     *)
(* most QueueSize[a] messages.  A message that finds no room is dropped    *)
(* for that app alone; one that is in the queue is received once, in order *)
(* and unaltered.                                                          *)
(***************************************************************************)
EXTENDS Naturals, Sequences

CONSTANTS Apps, QueueSize, Bufs, NoBuf

VARIABLES queue,    \* the messages each app has still to receive
          taking,   \* the message its receive call is copying
          received  \* the messages it has and has not released

vars == <<queue, taking, received>>

Init ==
  /\ queue = [a \in Apps |-> <<>>]
  /\ taking = [a \in Apps |-> NoBuf]
  /\ received = [a \in Apps |-> {}]

Put(a, b) ==
  /\ Len(queue[a]) + (IF taking[a] = NoBuf THEN 0 ELSE 1) < QueueSize[a]
  /\ queue' = [queue EXCEPT ![a] = Append(@, b)]
  /\ UNCHANGED <<taking, received>>

Take(a) ==
  /\ taking[a] = NoBuf
  /\ queue[a] # <<>>
  /\ taking' = [taking EXCEPT ![a] = Head(queue[a])]
  /\ queue' = [queue EXCEPT ![a] = Tail(@)]
  /\ UNCHANGED received

Receive(a) ==
  /\ taking[a] # NoBuf
  /\ received' = [received EXCEPT ![a] = @ \cup {taking[a]}]
  /\ taking' = [taking EXCEPT ![a] = NoBuf]
  /\ UNCHANGED queue

Release(a, b) ==
  /\ b \in received[a]
  /\ received' = [received EXCEPT ![a] = @ \ {b}]
  /\ UNCHANGED <<queue, taking>>

Next ==
  \E a \in Apps :
    \/ Take(a) \/ Receive(a)
    \/ \E b \in Bufs : Put(a, b) \/ Release(a, b)

Spec == Init /\ [][Next]_vars
=============================================================================

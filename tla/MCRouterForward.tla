--------------------------- MODULE MCRouterForward ---------------------------
(***************************************************************************)
(* A queue of one element, which is often full, and one of three, whose    *)
(* ring has four slots.  For the ring of two elements see MCSizeTwo.       *)
(***************************************************************************)
EXTENDS RouterForward

MCApps == {"a1", "a2"}
MCQueueSize == [a1 |-> 1, a2 |-> 3]
MCSizeTwo == [a1 |-> 1, a2 |-> 2]
MCSizeOne == [a1 |-> 1, a2 |-> 1]
=============================================================================

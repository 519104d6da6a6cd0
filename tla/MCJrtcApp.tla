----------------------------- MODULE MCJrtcApp -----------------------------
(***************************************************************************)
(* The two sample apps, the first in C and without an initialization       *)
(* timeout, the second in Python and with one, on channels of one message. *)
(* The queue of the first, which has an input channel, holds a whole batch *)
(* of the two entries that it receives at a time.                          *)
(***************************************************************************)
EXTENDS JrtcApp, SampleApps

MCApps == {"app1", "app2"}
MCPython == {"app2"}
MCInitTimeout == {"app2"}
MCStreams == [app1 |-> AdvancedExample1, app2 |-> AdvancedExample2]
MCSends == [app1 |-> AppHandler1, app2 |-> AppHandler2]
MCQSize == [app1 |-> 2, app2 |-> 1]
MCRingSize == [app1 |-> 2, app2 |-> 1]
MCAgentIn == {"simple_input"}
MCAgentOut == {"generator", "generator_pb"}
=============================================================================

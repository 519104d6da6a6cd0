----------------------------- MODULE SampleApps -----------------------------
(***************************************************************************)
(* The apps of sample_apps/advanced_example_c.  AdvancedExample1 receives   *)
(* from a codelet, from the output channel of AdvancedExample2 and from an  *)
(* input channel of its own, and sends to another codelet.                  *)
(* AdvancedExample2 receives from a codelet and sends on an output channel  *)
(* of its own and to the input channel of AdvancedExample1.                 *)
(***************************************************************************)

Stream(s, is_rx, channel) == [sid |-> s, rx |-> is_rx, chan |-> channel]

AdvancedExample1 ==
  << Stream("generator", TRUE, "none"),
     Stream("app2_out", TRUE, "none"),
     Stream("simple_input", FALSE, "none"),
     Stream("app1_in", TRUE, "in") >>

AdvancedExample2 ==
  << Stream("generator_pb", TRUE, "none"),
     Stream("app2_out", FALSE, "out"),
     Stream("app1_in", FALSE, "none") >>

\* The streams on which app_handler sends for a message of each stream
AppHandler1 == << {3}, {}, {}, {} >>
AppHandler2 == << {2, 3}, {}, {} >>
=============================================================================

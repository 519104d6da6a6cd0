------------------------------- MODULE PubSub -------------------------------
(***************************************************************************)
(* What the stream router promises: 1:N publish-subscribe by stream id.    *)
(* A subscription is atomic, and the messages that arrive together reach   *)
(* every app that wanted them all the while they were being routed, and no *)
(* app that did not want them at any time meanwhile.                       *)
(***************************************************************************)
EXTENDS StreamId

CONSTANTS Apps, Requests, Sids

VARIABLES subs,   \* the <<app, request>> subscriptions
          phase,  \* "idle", "routing" or "routed"
          sid,    \* stream id being routed
          must,   \* subscriptions that wanted it from the beginning until now
          may,    \* subscriptions that have wanted it at some time
          out     \* the apps it is routed to

vars == <<subs, phase, sid, must, may, out>>

\* A request wants a stream id if each field is that of the id or a wildcard.
Wants(k, s) == \A f \in Fields : k[f] \in {s[f], ANY}

Init ==
  /\ subs = {}
  /\ phase = "idle"
  /\ sid = NULL
  /\ must = {}
  /\ may = {}
  /\ out = {}

Subscribe(a, k) ==
  /\ subs' = subs \cup {<<a, k>>}
  /\ may' = IF phase # "idle" /\ Wants(k, sid) THEN may \cup {<<a, k>>} ELSE may
  /\ UNCHANGED <<phase, sid, must, out>>

Unsubscribe(a, k) ==
  /\ subs' = subs \ {<<a, k>>}
  /\ must' = must \ {<<a, k>>}
  /\ UNCHANGED <<phase, sid, may, out>>

Arrive(s) ==
  /\ phase = "idle"
  /\ phase' = "routing"
  /\ sid' = s
  /\ must' = {x \in subs : Wants(x[2], s)}
  /\ may' = must'
  /\ UNCHANGED <<subs, out>>

Route ==
  /\ phase = "routing"
  /\ phase' = "routed"
  /\ out' \in SUBSET Apps
  /\ \A x \in must : x[1] \in out'
  /\ \A a \in out' : \E x \in may : x[1] = a
  /\ UNCHANGED <<subs, sid, must, may>>

Finish ==
  /\ phase = "routed"
  /\ phase' = "idle"
  /\ sid' = NULL
  /\ must' = {}
  /\ may' = {}
  /\ out' = {}
  /\ UNCHANGED subs

Next ==
  \/ \E a \in Apps, k \in Requests : Subscribe(a, k) \/ Unsubscribe(a, k)
  \/ \E s \in Sids : Arrive(s)
  \/ Route
  \/ Finish

Spec == Init /\ [][Next]_vars
=============================================================================

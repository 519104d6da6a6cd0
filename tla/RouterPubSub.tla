---------------------------- MODULE RouterPubSub ----------------------------
(***************************************************************************)
(* The request table with its spinlock, epochs and 16 lookups implements   *)
(* the publish-subscribe router of module PubSub.                          *)
(***************************************************************************)
EXTENDS RouterReqTable

\* An app is subscribed once its bit is in an entry linked in the table; the
\* routing takes effect when the last lookup is done.
PS == INSTANCE PubSub WITH
        subs  <- Subs,
        phase <- CASE rpc = "idle" -> "idle"
                   [] rpc = "end"  -> "routed"
                   [] OTHER        -> "routing",
        sid   <- rsid,
        out   <- IF rpc = "end" THEN result ELSE {}

\* Every step of the threads of the router is a step of the publish-subscribe
\* router or invisible to it.
ImplementsPubSub == PS!Spec
=============================================================================

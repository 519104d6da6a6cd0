-------------------------- MODULE MCRouterReqTable --------------------------
(***************************************************************************)
(* One exact request and one with a wildcard, both of which match the      *)
(* first stream id; only the second matches the other stream id.           *)
(***************************************************************************)
EXTENDS RouterPubSub

MCBit == {0, 1}
MCHashFn == {1}

MCSid == [f \in Fields |-> {0}]
MCOtherSid == [MCSid EXCEPT !["device_id"] = {1}]
MCWildcard == ApplyMask(MCSid, {"device_id"})

MCSids == {MCSid, MCOtherSid}
MCRequests == {MCSid, MCWildcard}
=============================================================================

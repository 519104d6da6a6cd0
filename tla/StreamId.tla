------------------------------ MODULE StreamId ------------------------------
(***************************************************************************)
(* Stream identifiers and the requests apps make for them.                 *)
(*                                                                         *)
(* A stream id packs four routed fields (forwarding destination, device,   *)
(* path, name) into 16 bytes.  A field is modelled by the set of its bits  *)
(* that are one, so the bitwise "or" of the code is \cup, its "and" is     *)
(* \cap, and the wildcard, all ones, is the full set.  The widths (7, 7,   *)
(* 54 and 54 bits) are one constant, Bit: no property tells them apart.    *)
(* The version field is the same constant in every id and is left out.     *)
(***************************************************************************)
EXTENDS Integers, FiniteSets

CONSTANTS Bit,     \* bit positions of a field
          HashFn,  \* seeds of the Bloom-filter hash functions
          NULL     \* an absent path or name

\* JRTC_ROUTER_NUM_HASH_FUNCTIONS < JRTC_ROUTER_HASH_NUMBER_BITS (38 and 54)
ASSUME HashAssumption ==
  /\ HashFn # {}
  /\ IsFiniteSet(HashFn)
  /\ IsFiniteSet(Bit)
  /\ Cardinality(HashFn) < Cardinality(Bit)
  /\ NULL \notin [HashFn -> Bit]

Fields == {"fwd_dst", "device_id", "stream_path", "stream_name"}

FieldValue == SUBSET Bit

\* The *_ANY wildcards: every bit of the field is one.
ANY == Bit

\* A value of the four fields, be it the id of a stream or a request.
StreamIds == [Fields -> FieldValue]

ZeroId == [f \in Fields |-> {}]

-----------------------------------------------------------------------------
(***************************************************************************)
(* The router answers wildcard requests by looking the arriving id up 16   *)
(* times, each time with another set of its fields turned into wildcards.  *)
(***************************************************************************)
NumReqLookups == 16

\* lookup_mask[]: the fields each lookup turns into ANY, in table order.
LookupMask == <<
  {},
  {"stream_name"},
  {"stream_path"},
  {"device_id"},
  {"fwd_dst"},
  {"stream_path", "stream_name"},
  {"device_id", "stream_name"},
  {"fwd_dst", "stream_name"},
  {"device_id", "stream_path"},
  {"fwd_dst", "stream_path"},
  {"fwd_dst", "device_id"},
  {"device_id", "stream_path", "stream_name"},
  {"fwd_dst", "stream_path", "stream_name"},
  {"fwd_dst", "device_id", "stream_name"},
  {"fwd_dst", "device_id", "stream_path"},
  {"fwd_dst", "device_id", "stream_path", "stream_name"} >>

\* Mutant: the field is overwritten by its mask instead of or-ed with it.
MutApplyMaskOverwrites(sid, m) ==
  [f \in Fields |-> IF f \in m THEN ANY ELSE {}]

\* The _apply_*_mask macros: each field is or-ed with its mask.
ApplyMask(sid, m) ==
  [f \in Fields |-> sid[f] \cup (IF f \in m THEN ANY ELSE {})]

\* The key of the i-th lookup for an arriving stream id.
LookupKey(sid, i) == ApplyMask(sid, LookupMask[i])

\* The keys of all the lookups.
Lookups(sid) == {LookupKey(sid, i) : i \in 1..NumReqLookups}

\* jrtc_router_stream_id_matches_req: every one-bit of the id is in the request.
MatchesReq(sid, req) == \A f \in Fields : sid[f] \cap req[f] = sid[f]

-----------------------------------------------------------------------------
(***************************************************************************)
(* jrtc_router_generate_stream_id.  A path or a name is modelled by the    *)
(* bit each hash function gives it; its hash is the Bloom filter that      *)
(* holds just that name.                                                   *)
(***************************************************************************)
Names == [HashFn -> Bit]

\* Mutant: the loop over the set bits also contributes its stale first index.
MutGetHashStaleIndex(name) == {name[i] : i \in HashFn} \cup {0}

\* jrtc_router_get_hash: the bits set by jrtc_router_bf_add and extracted again.
GetHash(name) == {name[i] : i \in HashFn}

\* Hash of an optional name.  oom: the filter could not be allocated.
HashOrAny(name, oom) ==
  IF name = NULL THEN ANY
  ELSE IF oom THEN {}
  ELSE GetHash(name)

\* The id, zero if a hash is zero, with the code's return value.
GenerateStreamId(fwd_dst, device_id, path, name, oom) ==
  LET p == HashOrAny(path, oom)
      n == HashOrAny(name, oom)
  IN  IF p = {} \/ n = {}
      THEN [res |-> -1, id |-> ZeroId]
      ELSE [res |-> 1,
            id  |-> [f \in Fields |->
                       CASE f = "fwd_dst"     -> fwd_dst
                         [] f = "device_id"   -> device_id
                         [] f = "stream_path" -> p
                         [] f = "stream_name" -> n]]
=============================================================================

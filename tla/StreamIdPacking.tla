--------------------------- MODULE StreamIdPacking ---------------------------
(***************************************************************************)
(* The 16 bytes of a stream id, next to the fields of StreamIdRequests.    *)
(*                                                                         *)
(* Numbers and bytes are the sets of their bits that are one, at the real  *)
(* widths.  A field of the abstract request, a set of bits of Bit, stands  *)
(* for the number whose k-th bit is its bit Block(k).                      *)
(***************************************************************************)
EXTENDS StreamIdRequests

CONSTANT Block(_)

\* Each bit of a field is one of the number's, at either width.
ASSUME BlockAssumption ==
  /\ \A k \in 0..53 : Block(k) \in Bit
  /\ \A b \in Bit : \E k \in 0..6 : Block(k) = b

VARIABLES id,      \* the bytes of req
          ver,     \* its version
          bytes    \* the bytes of sid

packVars == <<vars, id, ver, bytes>>

Width(f) == IF f \in {"fwd_dst", "device_id"} THEN 7 ELSE 54

Number(f, v) == {k \in 0..(Width(f) - 1) : Block(k) \in v}

\* a version other than JRTC_ROUTER_STREAM_ID_VERSION, 0
OtherVersion == {0, 5}

Zero == [k \in 0..15 |-> {}]

\* v >> n and v << n
Shr(v, n) == {k - n : k \in {j \in v : j >= n}}
Shl(v, n) == {k + n : k \in v}

-----------------------------------------------------------------------------
(***************************************************************************)
(* The _set_* macros on the bytes of an id.  A mask is the range of its    *)
(* bits: 0xFC is 2..7.                                                     *)
(***************************************************************************)
SetVer(b, v) ==
  [b EXCEPT ![0] = (Shl(v, 2) \cap 0..7) \cup (@ \cap 0..1)]

SetFwdDst(b, v) ==
  [b EXCEPT ![0] = (@ \cap 2..7) \cup Shr(v \cap 0..6, 5),
            ![1] = Shl(v \cap 0..4, 3) \cup (@ \cap 0..2)]

SetDeviceId(b, v) ==
  [b EXCEPT ![1] = (@ \cap 3..7) \cup (Shr(v, 4) \cap 0..2),
            ![2] = Shl(v \cap 0..3, 4) \cup (@ \cap 0..3)]

SetStreamPath(b, v) ==
  [k \in 0..15 |->
     CASE k = 2      -> (b[2] \cap 4..7) \cup (Shr(v, 50) \cap 0..3)
       [] k \in 3..8 -> Shr(v, 66 - 8 * k) \cap 0..7
       [] k = 9      -> Shl(v \cap 0..1, 6) \cup (b[9] \cap 0..5)
       [] OTHER      -> b[k]]

\* Mutant: the upper bits of byte 9, which are the path's, are not kept.
MutSetStreamNameClears(b, v) ==
  [k \in 0..15 |->
     CASE k = 9        -> Shr(v, 48) \cap 0..5
       [] k \in 10..15 -> Shr(v, 120 - 8 * k) \cap 0..7
       [] OTHER        -> b[k]]

SetStreamName(b, v) ==
  [k \in 0..15 |->
     CASE k = 9        -> (b[9] \cap 6..7) \cup (Shr(v, 48) \cap 0..5)
       [] k \in 10..15 -> Shr(v, 120 - 8 * k) \cap 0..7
       [] OTHER        -> b[k]]

Put(b, f, v) ==
  CASE f = "fwd_dst"     -> SetFwdDst(b, v)
    [] f = "device_id"   -> SetDeviceId(b, v)
    [] f = "stream_path" -> SetStreamPath(b, v)
    [] f = "stream_name" -> SetStreamName(b, v)

\* jrtc_router_generate_stream_id sets the fields of a zeroed id in this order.
PackNumbers(n) ==
  Put(Put(Put(Put(SetVer(Zero, {}), "fwd_dst", n["fwd_dst"]),
              "device_id", n["device_id"]),
          "stream_path", n["stream_path"]),
      "stream_name", n["stream_name"])

Pack(fields) == PackNumbers([f \in Fields |-> Number(f, fields[f])])

-----------------------------------------------------------------------------
(***************************************************************************)
(* The Bloom filter of jrtc_router_get_hash: a bitmap in words of 32 bits, *)
(* filled by bit number and read back by an iterator.                      *)
(***************************************************************************)
HashNumberBits == 54

BitmapCreate(size) == [size |-> size, data |-> [w \in 0..((size + 31) \div 32 - 1) |-> {}]]

\* jrtc_router_bitmap_set for each of the indices
BitmapSet(bitmap, indices) ==
  LET SetIn(w) == {i % 32 : i \in {j \in indices : j < bitmap.size /\ j \div 32 = w}}
  IN  [bitmap EXCEPT !.data = [w \in DOMAIN @ |-> @[w] \cup SetIn(w)]]

BitmapGet(bitmap, index) == index % 32 \in bitmap.data[index \div 32]

\* jrtc_router_bf_add, for the values of the hash functions
BfAdd(bitmap, hashes) == BitmapSet(bitmap, {h % bitmap.size : h \in hashes})

\* The bits that the iterator returns, the lowest first.
Iterated(bitmap) == {i \in 0..bitmap.size - 1 : BitmapGet(bitmap, i)}

\* The first n_bits of them.
BfExtractBits(bitmap, n_bits) ==
  LET bits == Iterated(bitmap)
  IN  IF n_bits > 64 \/ bitmap.size < n_bits THEN {}
      ELSE {i \in bits : Cardinality({j \in bits : j < i}) < n_bits}

\* what jrtc_router_get_hash returns for a name whose hash values are these
HashOf(hashes) ==
  BfExtractBits(BfAdd(BitmapCreate(HashNumberBits), hashes), HashNumberBits)

-----------------------------------------------------------------------------
(***************************************************************************)
(* The _get_* macros, where char is signed: a byte is sign-extended when   *)
(* it is converted, unless it is masked.                                   *)
(***************************************************************************)
Signed(byte) == byte \cup (IF 7 \in byte THEN 8..63 ELSE {})

GetVer(b) == Shr(Signed(b[0]), 2) \cap 0..5

GetFwdDst(b) == Shl(b[0] \cap 0..1, 5) \cup (Shr(Signed(b[1]), 3) \cap 0..4)

GetDeviceId(b) == Shl(b[1] \cap 0..2, 4) \cup (Shr(Signed(b[2]), 4) \cap 0..3)

\* uint64_t of byte k, shifted left by n
Part(b, k, n) == Shl(Signed(b[k]), n) \cap 0..63

GetStreamPath(b) ==
  UNION ({Shl(b[2] \cap 0..3, 50), Shr(b[9] \cap 6..7, 6)}
         \cup {Part(b, k, 66 - 8 * k) : k \in 3..8})

GetStreamName(b) ==
  UNION ({Shl(b[9] \cap 0..5, 48)} \cup {Part(b, k, 120 - 8 * k) : k \in 10..15})

-----------------------------------------------------------------------------
\* Mutant: the path's mask stops at the last whole byte.
MutMaskByteStops(f, k) ==
  CASE f = "fwd_dst"     -> (CASE k = 0 -> 0..1 [] k = 1 -> 3..7 [] OTHER -> {})
    [] f = "device_id"   -> (CASE k = 1 -> 0..2 [] k = 2 -> 4..7 [] OTHER -> {})
    [] f = "stream_path" -> (CASE k = 2 -> 0..3 [] k \in 3..8 -> 0..7 [] OTHER -> {})
    [] f = "stream_name" -> (CASE k = 9 -> 0..5 [] k \in 10..15 -> 0..7 [] OTHER -> {})

\* The bytes that the _apply_*_mask macro of a field or-s into an id, with the
\* mask ANY of lookup_mask[]
MaskByte(f, k) ==
  CASE f = "fwd_dst"     -> (CASE k = 0 -> 0..1 [] k = 1 -> 3..7 [] OTHER -> {})
    [] f = "device_id"   -> (CASE k = 1 -> 0..2 [] k = 2 -> 4..7 [] OTHER -> {})
    [] f = "stream_path" -> (CASE k = 2 -> 0..3 [] k \in 3..8 -> 0..7 [] k = 9 -> 6..7
                               [] OTHER -> {})
    [] f = "stream_name" -> (CASE k = 9 -> 0..5 [] k \in 10..15 -> 0..7 [] OTHER -> {})

\* One of the keys of the lookups for id b is r.
FoundBytes(b, r) ==
  \E i \in 1..NumReqLookups : \A k \in 0..15 :
    r[k] = b[k] \cup UNION {MaskByte(f, k) : f \in LookupMask[i]}

\* jrtc_router_stream_id_matches_req on the words of the ids
BytesMatch(b, r) == \A k \in 0..15 : b[k] \cap r[k] = b[k]

-----------------------------------------------------------------------------
PackInit ==
  /\ Init
  /\ id = Zero
  /\ ver = {}
  /\ bytes = Zero

PackField(f, v) ==
  /\ SetField(f, v)
  /\ id' = Put(id, f, Number(f, v))
  /\ UNCHANGED <<ver, bytes>>

PackVer(v) ==
  /\ asked = NULL
  /\ sid = ZeroId
  /\ id' = SetVer(id, v)
  /\ ver' = v
  /\ UNCHANGED <<vars, bytes>>

\* memset, and the setters if there is a hash for both the path and the name
Generated ==
  /\ id' = IF req' = ZeroId THEN Zero
           ELSE PackNumbers([f \in Fields |->
                  LET n == Number(f, req'[f])
                  IN  IF \/ f = "stream_path" /\ asked'.path # NULL
                         \/ f = "stream_name" /\ asked'.name # NULL
                      THEN HashOf(n) ELSE n])
  /\ ver' = {}
  /\ UNCHANGED bytes

PackArrive(s) ==
  /\ Arrive(s)
  /\ bytes' = Pack(s)
  /\ UNCHANGED <<id, ver>>

PackNext ==
  \/ \E f \in Fields, v \in FieldValue : PackField(f, v)
  \/ \E v \in {{}, OtherVersion} : PackVer(v)
  \/ \E fwd_dst, device_id \in FieldValue, path, name \in Names \cup {NULL},
        oom \in BOOLEAN :
          \/ InitStream(fwd_dst, device_id, path, name, oom) /\ Generated
          \/ RegisterReq(fwd_dst, device_id, path, name, oom) /\ Generated
  \/ \E s \in StreamIds : PackArrive(s)

PackSpec == PackInit /\ [][PackNext]_packVars

-----------------------------------------------------------------------------
(***************************************************************************)
(* The layout: an id is a string of 128 bits, most significant first, with *)
(* the version in bits 0 to 5 and then the four fields.                    *)
(***************************************************************************)
Start(f) ==
  CASE f = "fwd_dst"     -> 6
    [] f = "device_id"   -> 13
    [] f = "stream_path" -> 20
    [] f = "stream_name" -> 74

Laid(b, start, width) ==
  {k \in 0..(width - 1) :
     LET n == start + width - 1 - k IN 7 - (n % 8) \in b[n \div 8]}

\* However the setters are called, in whatever order and how often, and by
\* jrtc_router_generate_stream_id too, each field is in its own bits of the id:
\* the bytes that two fields share are never disturbed, and the bits of a hash
\* come back from the words of the Bloom filter as they were set.
PackedInPlace ==
  /\ Laid(id, 0, 6) = ver
  /\ \A f \in Fields : Laid(id, Start(f), Width(f)) = Number(f, req[f])

\* The hash table is keyed by the bytes, and they tell the same as the fields:
\* the router finds the request with one of its 16 masked keys exactly if the
\* versions are equal and every field of the request is the stream's value or
\* the wildcard, and the wrapper's test on words agrees with the test on fields.
BytesRoute ==
  /\ FoundBytes(bytes, id) <=> ver = {} /\ \A f \in Fields : req[f] \in {sid[f], ANY}
  /\ BytesMatch(bytes, id) <=> MatchesReq(sid, req)
=============================================================================

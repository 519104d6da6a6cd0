--------------------------- MODULE StreamIdProofs ---------------------------
(***************************************************************************)
(* The 16 lookups of the router and the hashing of names, for fields of    *)
(* any width and any number of hash functions below it, and the 16 bytes   *)
(* the setters make of the fields: what they hold, what the getters read   *)
(* back from them and what the router decides on them.                     *)
(***************************************************************************)
EXTENDS StreamIdPacking, FiniteSetTheorems, TLAPS

\* Every set of fields is one of the rows of lookup_mask[].
LEMMA MasksCover ==
  ASSUME NEW m \in SUBSET Fields
  PROVE  \E i \in 1..NumReqLookups : LookupMask[i] = m
<1> DEFINE F == "fwd_dst"
           D == "device_id"
           P == "stream_path"
           N == "stream_name"
<1>1. CASE F \notin m /\ D \notin m
  <2>1. m = {} \/ m = {N} \/ m = {P} \/ m = {P, N}
    BY <1>1, Zenon DEF Fields
  <2> QED
    BY <2>1 DEF LookupMask, NumReqLookups
<1>2. CASE F \notin m /\ D \in m
  <2>1. m = {D} \/ m = {D, N} \/ m = {D, P} \/ m = {D, P, N}
    BY <1>2, Zenon DEF Fields
  <2> QED
    BY <2>1 DEF LookupMask, NumReqLookups
<1>3. CASE F \in m /\ D \notin m
  <2>1. m = {F} \/ m = {F, N} \/ m = {F, P} \/ m = {F, P, N}
    BY <1>3, Zenon DEF Fields
  <2> QED
    BY <2>1 DEF LookupMask, NumReqLookups
<1>4. CASE F \in m /\ D \in m
  <2>1. m = {F, D} \/ m = {F, D, N} \/ m = {F, D, P} \/ m = {F, D, P, N}
    BY <1>4, Zenon DEF Fields
  <2> QED
    BY <2>1 DEF LookupMask, NumReqLookups
<1> QED
  BY <1>1, <1>2, <1>3, <1>4

\* Masking turns the fields of the mask into ANY and keeps the others.
LEMMA MaskedField ==
  ASSUME NEW s \in StreamIds, NEW m \in SUBSET Fields, NEW f \in Fields
  PROVE  ApplyMask(s, m)[f] = IF f \in m THEN ANY ELSE s[f]
BY DEF ApplyMask, StreamIds, FieldValue, ANY

\* The router looks a stream id up under exactly the requests whose fields are
\* those of the id or the wildcard.
THEOREM LookupsAreExactOrAny ==
  ASSUME NEW s \in StreamIds, NEW r \in StreamIds
  PROVE  r \in Lookups(s) <=> \A f \in Fields : r[f] \in {s[f], ANY}
<1>1. ASSUME NEW i \in 1..NumReqLookups, r = LookupKey(s, i), NEW f \in Fields
      PROVE  r[f] \in {s[f], ANY}
  BY <1>1 DEF LookupKey, ApplyMask, ANY, StreamIds, FieldValue
<1>2. ASSUME \A f \in Fields : r[f] \in {s[f], ANY}
      PROVE  r \in Lookups(s)
  <2> DEFINE m == {f \in Fields : r[f] = ANY}
  <2>1. PICK i \in 1..NumReqLookups : LookupMask[i] = m
    BY MasksCover, Zenon
  <2>2. \A f \in Fields : ApplyMask(s, m)[f] = r[f]
    BY <1>2, MaskedField
  <2>3. ApplyMask(s, m) = r
    BY <2>2 DEF ApplyMask, StreamIds
  <2> QED
    BY <2>1, <2>3 DEF Lookups, LookupKey
<1> QED
  BY <1>1, <1>2 DEF Lookups

-----------------------------------------------------------------------------
\* Hashing a name gives a value of the field that is neither zero nor ANY.
LEMMA HashIsNotAny ==
  ASSUME NEW name \in Names
  PROVE  /\ GetHash(name) \in FieldValue
         /\ GetHash(name) # {}
         /\ GetHash(name) # ANY
<1>1. GetHash(name) \subseteq Bit /\ GetHash(name) # {}
  BY HashAssumption DEF GetHash, Names
<1>2. name \in Surjection(HashFn, GetHash(name))
  BY DEF Surjection, GetHash, Names
<1>3. Cardinality(GetHash(name)) <= Cardinality(HashFn)
  BY <1>2, FS_Surjection, HashAssumption
<1>4. Cardinality(HashFn) \in Nat /\ Cardinality(Bit) \in Nat
  BY HashAssumption, FS_CardinalityType
<1>5. Cardinality(GetHash(name)) \in Nat
  BY <1>1, FS_Subset, FS_CardinalityType, HashAssumption
<1>6. GetHash(name) # Bit
  BY <1>3, <1>4, <1>5, HashAssumption
<1> QED
  BY <1>1, <1>6 DEF FieldValue, ANY

\* jrtc_router_generate_stream_id: a well-formed id in every case, and the
\* wildcard only where no name was given.
LEMMA GeneratedId ==
  ASSUME NEW fwd_dst \in FieldValue, NEW device_id \in FieldValue,
         NEW path \in Names \cup {NULL}, NEW name \in Names \cup {NULL},
         NEW oom \in BOOLEAN
  PROVE  LET gid == GenerateStreamId(fwd_dst, device_id, path, name, oom).id
         IN  /\ gid \in StreamIds
             /\ path # NULL => gid["stream_path"] # ANY
             /\ name # NULL => gid["stream_name"] # ANY
<1> DEFINE p == HashOrAny(path, oom)
           n == HashOrAny(name, oom)
           gid == GenerateStreamId(fwd_dst, device_id, path, name, oom).id
<1>1. ANY \in FieldValue /\ {} \in FieldValue /\ {} # ANY
  BY HashAssumption, FS_EmptySet, FS_CardinalityType DEF ANY, FieldValue
<1>2. p \in FieldValue /\ (path # NULL => p # ANY)
  BY <1>1, HashIsNotAny DEF HashOrAny
<1>3. n \in FieldValue /\ (name # NULL => n # ANY)
  BY <1>1, HashIsNotAny DEF HashOrAny
<1>4. CASE p = {} \/ n = {}
  BY <1>1, <1>4 DEF GenerateStreamId, ZeroId, StreamIds, Fields
<1>5. CASE ~(p = {} \/ n = {})
  <2>1. gid = [f \in Fields |-> CASE f = "fwd_dst"     -> fwd_dst
                                  [] f = "device_id"   -> device_id
                                  [] f = "stream_path" -> p
                                  [] f = "stream_name" -> n]
    BY <1>5, Zenon DEF GenerateStreamId
  <2>2. gid \in StreamIds /\ gid["stream_path"] = p /\ gid["stream_name"] = n
    BY <2>1, <1>2, <1>3 DEF StreamIds, Fields
  <2> QED
    BY <2>2, <1>2, <1>3
<1> QED
  BY <1>4, <1>5

IdsInv ==
  /\ sid \in StreamIds
  /\ req \in StreamIds
  /\ NamedIsNotAny

\* Ids are well formed, and named requests are not wildcards, in every state.
LEMMA IdsInvariant == Spec => []IdsInv
<1>1. Init => IdsInv
  BY DEF Init, IdsInv, NamedIsNotAny, ZeroId, StreamIds, FieldValue
<1>2. IdsInv /\ [Next]_vars => IdsInv'
  <2> SUFFICES ASSUME IdsInv, [Next]_vars PROVE IdsInv'
    OBVIOUS
  <2>1. ASSUME NEW f \in Fields, NEW v \in FieldValue, SetField(f, v)
        PROVE  IdsInv'
    BY <2>1 DEF SetField, IdsInv, NamedIsNotAny, StreamIds
  <2>2. ASSUME NEW fwd_dst \in FieldValue, NEW device_id \in FieldValue,
               NEW path \in Names \cup {NULL}, NEW name \in Names \cup {NULL},
               NEW oom \in BOOLEAN,
               \/ InitStream(fwd_dst, device_id, path, name, oom)
               \/ RegisterReq(fwd_dst, device_id, path, name, oom)
        PROVE  IdsInv'
    <3> DEFINE gen == GenerateStreamId(fwd_dst, device_id, path, name, oom)
    <3>1. /\ req' = gen.id
          /\ asked' = [path |-> path, name |-> name]
          /\ sid' = sid
      BY <2>2 DEF InitStream, RegisterReq, Asked
    <3>2. /\ gen.id \in StreamIds
          /\ path # NULL => gen.id["stream_path"] # ANY
          /\ name # NULL => gen.id["stream_name"] # ANY
      BY GeneratedId
    <3> HIDE DEF gen
    <3> QED
      BY <3>1, <3>2 DEF IdsInv, NamedIsNotAny
  <2>3. ASSUME NEW s \in StreamIds, Arrive(s)
        PROVE  IdsInv'
    BY <2>3 DEF Arrive, IdsInv, NamedIsNotAny
  <2>4. CASE UNCHANGED vars
    BY <2>4 DEF vars, IdsInv, NamedIsNotAny
  <2> QED
    BY <2>1, <2>2, <2>3, <2>4, Zenon DEF Next
<1> QED
  BY <1>1, <1>2, PTL DEF Spec

\* What the router routes for a request, JrtcApp::run recognises.
THEOREM RoutedAreDispatched == Spec => []RoutedIsDispatched
<1>1. IdsInv => RoutedIsDispatched
  <2> SUFFICES ASSUME IdsInv, req \in Lookups(sid), NEW f \in Fields
               PROVE  sid[f] \cap req[f] = sid[f]
    BY DEF RoutedIsDispatched, MatchesReq
  <2>1. req[f] \in {sid[f], ANY}
    BY LookupsAreExactOrAny DEF IdsInv
  <2>2. sid[f] \subseteq Bit
    BY DEF IdsInv, StreamIds, FieldValue
  <2> QED
    BY <2>1, <2>2 DEF ANY
<1> QED
  BY <1>1, IdsInvariant, PTL

\* With fewer hash functions than bits, a request that names a path or a name
\* is never a wildcard for it.
THEOREM NamedAreNotAny == Spec => []NamedIsNotAny
<1>1. IdsInv => NamedIsNotAny
  BY DEF IdsInv
<1> QED
  BY <1>1, IdsInvariant, PTL

-----------------------------------------------------------------------------
(***************************************************************************)
(* The bytes of an id, bit by bit: the n-th of the 128 bits is bit         *)
(* 7 - n % 8 of byte n \div 8.                                             *)
(***************************************************************************)
Bytes == [0..15 -> SUBSET (0..7)]

At(b, n) == 7 - (n % 8) \in b[n \div 8]

\* Bits first to last of c are the number v, the others are those of b.
Sets(c, b, first, last, v) ==
  /\ c \in Bytes
  /\ \A n \in 0..127 :
       At(c, n) <=> IF n \in first..last THEN last - n \in v ELSE At(b, n)

\* Where the n-th bit is
LEMMA Places ==
  ASSUME NEW n \in 0..127
  PROVE  \E k \in 0..15, j \in 0..7 :
           n \div 8 = k /\ 7 - (n % 8) = j /\ n = 8 * k + 7 - j
OBVIOUS

\* The bits of a byte
LEMMA BitsOfByte ==
  ASSUME NEW k \in 0..15, NEW j \in 0..7
  PROVE  /\ 8 * k + 7 - j \in 0..127
         /\ (8 * k + 7 - j) \div 8 = k
         /\ 7 - ((8 * k + 7 - j) % 8) = j
OBVIOUS

\* The bits of v >> n
LEMMA ShrBit ==
  ASSUME NEW v \in SUBSET Nat, NEW n \in Nat, NEW j \in Nat
  PROVE  j \in Shr(v, n) <=> j + n \in v
BY DEF Shr

\* The bits of v << n
LEMMA ShlBit ==
  ASSUME NEW v \in SUBSET Nat, NEW n \in Nat, NEW j \in Nat
  PROVE  j \in Shl(v, n) <=> j >= n /\ j - n \in v
BY DEF Shl

\* An assignment of all the bits of each byte is one of all the bits of the id.
LEMMA SetsByBytes ==
  ASSUME NEW b, NEW c \in Bytes, NEW first \in Nat, NEW last \in Nat, NEW v,
         \A k \in 0..15, j \in 0..7 :
           j \in c[k] <=> IF 8 * k + 7 - j \in first..last
                          THEN last - (8 * k + 7 - j) \in v
                          ELSE j \in b[k]
  PROVE  Sets(c, b, first, last, v)
<1> SUFFICES ASSUME NEW n \in 0..127
             PROVE  At(c, n) <=> IF n \in first..last THEN last - n \in v
                                 ELSE At(b, n)
  BY DEF Sets
<1>1. PICK k \in 0..15, j \in 0..7 :
        n \div 8 = k /\ 7 - (n % 8) = j /\ n = 8 * k + 7 - j
  BY Places
<1>2. At(c, n) <=> j \in c[k]
  BY <1>1 DEF At
<1>3. At(b, n) <=> j \in b[k]
  BY <1>1 DEF At
<1>4. j \in c[k] <=> IF 8 * k + 7 - j \in first..last
                     THEN last - (8 * k + 7 - j) \in v
                     ELSE j \in b[k]
  OBVIOUS
<1> QED
  BY <1>1, <1>2, <1>3, <1>4

\* _set_version writes the high bits of byte 0.
LEMMA SetsVer ==
  ASSUME NEW b \in Bytes, NEW v \in SUBSET (0..5)
  PROVE  Sets(SetVer(b, v), b, 0, 5, v)
<1> DEFINE c == SetVer(b, v)
<1>1. /\ c[0] = (Shl(v, 2) \cap 0..7) \cup (b[0] \cap 0..1)
      /\ \A k \in 1..15 : c[k] = b[k]
  BY DEF SetVer, Bytes
<1>2. c \in Bytes
  BY DEF SetVer, Bytes
<1> HIDE DEF c
<1>3. ASSUME NEW k \in 0..15, NEW j \in 0..7
      PROVE  j \in c[k] <=> IF 8 * k + 7 - j \in 0..5
                            THEN 5 - (8 * k + 7 - j) \in v ELSE j \in b[k]
  <2>1. j \in Shl(v, 2) <=> j >= 2 /\ j - 2 \in v
    BY ShlBit
  <2>2. CASE k = 0
    BY <1>1, <2>1, <2>2
  <2>3. CASE k # 0
    BY <1>1, <2>3
  <2> QED
    BY <2>2, <2>3
<1> QED
  BY <1>2, <1>3, SetsByBytes, Zenon DEF c

\* _set_fwd_dst writes the low bits of byte 0 and the high bits of byte 1.
LEMMA SetsFwdDst ==
  ASSUME NEW b \in Bytes, NEW v \in SUBSET (0..6)
  PROVE  Sets(SetFwdDst(b, v), b, 6, 12, v)
<1> DEFINE c == SetFwdDst(b, v)
<1>1. /\ c[0] = (b[0] \cap 2..7) \cup Shr(v \cap 0..6, 5)
      /\ c[1] = Shl(v \cap 0..4, 3) \cup (b[1] \cap 0..2)
      /\ \A k \in 2..15 : c[k] = b[k]
  BY DEF SetFwdDst, Bytes
<1>2. c \in Bytes
  <2>1. Shr(v \cap 0..6, 5) \subseteq 0..7 /\ Shl(v \cap 0..4, 3) \subseteq 0..7
    BY DEF Shl, Shr
  <2> QED
    BY <2>1, Zenon DEF SetFwdDst, Bytes
<1> HIDE DEF c
<1>3. ASSUME NEW k \in 0..15, NEW j \in 0..7
      PROVE  j \in c[k] <=> IF 8 * k + 7 - j \in 6..12
                            THEN 12 - (8 * k + 7 - j) \in v ELSE j \in b[k]
  <2>1. j \in Shr(v \cap 0..6, 5) <=> j + 5 \in v \cap 0..6
    BY ShrBit
  <2>2. j \in Shl(v \cap 0..4, 3) <=> j >= 3 /\ j - 3 \in v \cap 0..4
    BY ShlBit
  <2>3. CASE k = 0
    BY <1>1, <2>1, <2>3
  <2>4. CASE k = 1
    BY <1>1, <2>2, <2>4
  <2>5. CASE k \in 2..15
    BY <1>1, <2>5
  <2> QED
    BY <2>3, <2>4, <2>5
<1> QED
  BY <1>2, <1>3, SetsByBytes, Zenon DEF c

\* _set_device_id writes the low bits of byte 1 and the high bits of byte 2.
LEMMA SetsDeviceId ==
  ASSUME NEW b \in Bytes, NEW v \in SUBSET (0..6)
  PROVE  Sets(SetDeviceId(b, v), b, 13, 19, v)
<1> DEFINE c == SetDeviceId(b, v)
<1>1. /\ c[1] = (b[1] \cap 3..7) \cup (Shr(v, 4) \cap 0..2)
      /\ c[2] = Shl(v \cap 0..3, 4) \cup (b[2] \cap 0..3)
      /\ \A k \in 0..15 : k \notin 1..2 => c[k] = b[k]
  BY DEF SetDeviceId, Bytes
<1>2. c \in Bytes
  <2>1. Shl(v \cap 0..3, 4) \subseteq 0..7
    BY DEF Shl
  <2> QED
    BY <2>1 DEF SetDeviceId, Bytes
<1> HIDE DEF c
<1>3. ASSUME NEW k \in 0..15, NEW j \in 0..7
      PROVE  j \in c[k] <=> IF 8 * k + 7 - j \in 13..19
                            THEN 19 - (8 * k + 7 - j) \in v ELSE j \in b[k]
  <2>1. j \in Shr(v, 4) <=> j + 4 \in v
    BY ShrBit
  <2>2. j \in Shl(v \cap 0..3, 4) <=> j >= 4 /\ j - 4 \in v \cap 0..3
    BY ShlBit
  <2>3. CASE k = 1
    BY <1>1, <2>1, <2>3
  <2>4. CASE k = 2
    BY <1>1, <2>2, <2>4
  <2>5. CASE k \notin 1..2
    BY <1>1, <2>5
  <2> QED
    BY <2>3, <2>4, <2>5
<1> QED
  BY <1>2, <1>3, SetsByBytes, Zenon DEF c

\* _set_stream_path writes the low bits of byte 2, bytes 3 to 8 and the high
\* bits of byte 9.
LEMMA SetsStreamPath ==
  ASSUME NEW b \in Bytes, NEW v \in SUBSET (0..53)
  PROVE  Sets(SetStreamPath(b, v), b, 20, 73, v)
<1> DEFINE c == SetStreamPath(b, v)
<1>1. /\ c[2] = (b[2] \cap 4..7) \cup (Shr(v, 50) \cap 0..3)
      /\ \A k \in 3..8 : c[k] = Shr(v, 66 - 8 * k) \cap 0..7
      /\ c[9] = Shl(v \cap 0..1, 6) \cup (b[9] \cap 0..5)
      /\ \A k \in 0..15 : k \notin 2..9 => c[k] = b[k]
      /\ c = [k \in 0..15 |-> c[k]]
  BY DEF SetStreamPath
<1> HIDE DEF c
<1>2. c \in Bytes
  <2>1. Shl(v \cap 0..1, 6) \subseteq 0..7
    BY DEF Shl
  <2>2. c[2] \subseteq 0..7 /\ c[9] \subseteq 0..7
    <3>1. 0..5 \subseteq 0..7 /\ 4..7 \subseteq 0..7 /\ 0..3 \subseteq 0..7
      OBVIOUS
    <3> QED
      BY <1>1, <2>1, <3>1, Zenon
  <2>3. \A k \in 3..8 : c[k] \subseteq 0..7
    BY <1>1
  <2>4. \A k \in 0..15 : k \notin 2..9 => c[k] \subseteq 0..7
    BY <1>1 DEF Bytes
  <2>5. \A k \in 0..15 : k = 2 \/ k \in 3..8 \/ k = 9 \/ k \notin 2..9
    OBVIOUS
  <2>6. \A k \in 0..15 : c[k] \subseteq 0..7
    BY <2>2, <2>3, <2>4, <2>5
  <2> QED
    BY <1>1, <2>6 DEF Bytes
<1>3. ASSUME NEW k \in 0..15, NEW j \in 0..7
      PROVE  j \in c[k] <=> IF 8 * k + 7 - j \in 20..73
                            THEN 73 - (8 * k + 7 - j) \in v ELSE j \in b[k]
  <2>1. CASE k = 2
    <3>1. j \in Shr(v, 50) <=> j + 50 \in v
      BY ShrBit
    <3> QED
      BY <1>1, <2>1, <3>1
  <2>2. CASE k \in 3..8
    <3>1. j \in Shr(v, 66 - 8 * k) <=> j + (66 - 8 * k) \in v
      BY ShrBit, <2>2
    <3> QED
      BY <1>1, <2>2, <3>1
  <2>3. CASE k = 9
    <3>1. j \in Shl(v \cap 0..1, 6) <=> j >= 6 /\ j - 6 \in v \cap 0..1
      BY ShlBit
    <3> QED
      BY <1>1, <2>3, <3>1
  <2>4. CASE k \notin 2..9
    BY <1>1, <2>4
  <2> QED
    BY <2>1, <2>2, <2>3, <2>4
<1> QED
  BY <1>2, <1>3, SetsByBytes, Zenon DEF c

\* _set_stream_name writes the low bits of byte 9 and bytes 10 to 15.
LEMMA SetsStreamName ==
  ASSUME NEW b \in Bytes, NEW v \in SUBSET (0..53)
  PROVE  Sets(SetStreamName(b, v), b, 74, 127, v)
<1> DEFINE c == SetStreamName(b, v)
<1>1. /\ c[9] = (b[9] \cap 6..7) \cup (Shr(v, 48) \cap 0..5)
      /\ \A k \in 10..15 : c[k] = Shr(v, 120 - 8 * k) \cap 0..7
      /\ \A k \in 0..8 : c[k] = b[k]
      /\ c = [k \in 0..15 |-> c[k]]
  BY DEF SetStreamName
<1> HIDE DEF c
<1>2. c \in Bytes
  <2>1. c[9] \subseteq 0..7
    BY <1>1 DEF Bytes
  <2>2. \A k \in 10..15 : c[k] \subseteq 0..7
    BY <1>1
  <2>3. \A k \in 0..8 : c[k] \subseteq 0..7
    BY <1>1 DEF Bytes
  <2>4. \A k \in 0..15 : k \in 0..8 \/ k = 9 \/ k \in 10..15
    OBVIOUS
  <2>5. \A k \in 0..15 : c[k] \subseteq 0..7
    BY <2>1, <2>2, <2>3, <2>4
  <2> QED
    BY <1>1, <2>5 DEF Bytes
<1>3. ASSUME NEW k \in 0..15, NEW j \in 0..7
      PROVE  j \in c[k] <=> IF 8 * k + 7 - j \in 74..127
                            THEN 127 - (8 * k + 7 - j) \in v ELSE j \in b[k]
  <2>1. CASE k = 9
    <3>1. j \in Shr(v, 48) <=> j + 48 \in v
      BY ShrBit
    <3> QED
      BY <1>1, <2>1, <3>1
  <2>2. CASE k \in 10..15
    <3>1. j \in Shr(v, 120 - 8 * k) <=> j + (120 - 8 * k) \in v
      BY ShrBit, <2>2
    <3> QED
      BY <1>1, <2>2, <3>1
  <2>3. CASE k \in 0..8
    BY <1>1, <2>3
  <2> QED
    BY <2>1, <2>2, <2>3
<1> QED
  BY <1>2, <1>3, SetsByBytes, Zenon DEF c

-----------------------------------------------------------------------------
(***************************************************************************)
(* The four fields and the version are where the layout has them, and the  *)
(* intervals of the layout do not overlap.                                 *)
(***************************************************************************)
Last(f) == Start(f) + Width(f) - 1

\* Setting an interval of bits sets that field to the number.
LEMMA SetLaid ==
  ASSUME NEW b, NEW c, NEW start \in 0..127, NEW width \in 1..54, start + width <= 128,
         NEW v \in SUBSET (0..(width - 1)),
         Sets(c, b, start, start + width - 1, v)
  PROVE  Laid(c, start, width) = v
<1>1. ASSUME NEW k \in 0..(width - 1)
      PROVE  At(c, start + width - 1 - k) <=> k \in v
  <2> DEFINE n == start + width - 1 - k
  <2>1. n \in 0..127 /\ n \in start..(start + width - 1)
    OBVIOUS
  <2>2. start + width - 1 - n = k
    OBVIOUS
  <2> HIDE DEF n
  <2>3. At(c, n) <=> start + width - 1 - n \in v
    BY <2>1 DEF Sets
  <2> QED
    BY <2>2, <2>3 DEF n
<1>2. {k \in 0..(width - 1) : At(c, start + width - 1 - k)} = v
  BY <1>1, Zenon
<1> QED
  BY <1>2 DEF Laid, At

\* All that is laid out elsewhere is the same in both ids.
SameElsewhere(c, b, first, last) ==
  \A start \in 0..127, width \in 1..54 :
    start + width <= 128 /\ (last < start \/ start + width <= first) =>
      Laid(c, start, width) = Laid(b, start, width)

\* It leaves the fields elsewhere as they are.
LEMMA OtherLaid ==
  ASSUME NEW b, NEW c, NEW first \in 0..127, NEW last \in 0..127, NEW v,
         Sets(c, b, first, last, v)
  PROVE  SameElsewhere(c, b, first, last)
<1> SUFFICES ASSUME NEW start \in 0..127, NEW width \in 1..54, start + width <= 128,
                    last < start \/ start + width <= first
             PROVE  Laid(c, start, width) = Laid(b, start, width)
  BY Zenon DEF SameElsewhere
<1>1. ASSUME NEW k \in 0..(width - 1)
      PROVE  At(c, start + width - 1 - k) <=> At(b, start + width - 1 - k)
  <2> DEFINE n == start + width - 1 - k
  <2>1. n \in 0..127 /\ n \notin first..last
    OBVIOUS
  <2> HIDE DEF n
  <2>2. At(c, n) <=> At(b, n)
    BY <2>1 DEF Sets
  <2> QED
    BY <2>2 DEF n
<1>2. {k \in 0..(width - 1) : At(c, start + width - 1 - k)}
        = {k \in 0..(width - 1) : At(b, start + width - 1 - k)}
  BY <1>1
<1> QED
  BY <1>2 DEF Laid, At

\* jrtc_router_stream_id_set_* set a field and nothing else.
LEMMA PutSets ==
  ASSUME NEW b \in Bytes, NEW f \in Fields, NEW v \in SUBSET (0..(Width(f) - 1))
  PROVE  Sets(Put(b, f, v), b, Start(f), Last(f), v)
<1>1. CASE f = "fwd_dst"
  <2>1. Put(b, f, v) = SetFwdDst(b, v) /\ Start(f) = 6 /\ Last(f) = 12 /\ Width(f) = 7
    BY <1>1 DEF Put, Start, Last, Width
  <2> QED
    BY <2>1, SetsFwdDst
<1>2. CASE f = "device_id"
  <2>1. Put(b, f, v) = SetDeviceId(b, v) /\ Start(f) = 13 /\ Last(f) = 19 /\ Width(f) = 7
    BY <1>2 DEF Put, Start, Last, Width
  <2> QED
    BY <2>1, SetsDeviceId
<1>3. CASE f = "stream_path"
  <2>1. Put(b, f, v) = SetStreamPath(b, v) /\ Start(f) = 20 /\ Last(f) = 73 /\ Width(f) = 54
    BY <1>3 DEF Put, Start, Last, Width
  <2> QED
    BY <2>1, SetsStreamPath
<1>4. CASE f = "stream_name"
  <2>1. Put(b, f, v) = SetStreamName(b, v) /\ Start(f) = 74 /\ Last(f) = 127 /\ Width(f) = 54
    BY <1>4 DEF Put, Start, Last, Width
  <2> QED
    BY <2>1, SetsStreamName
<1> QED
  BY <1>1, <1>2, <1>3, <1>4 DEF Fields

\* The intervals of two fields are disjoint, and both come after the version.
LEMMA Layout ==
  ASSUME NEW f \in Fields
  PROVE  /\ Start(f) \in 6..127 /\ Width(f) \in 1..54 /\ Start(f) + Width(f) <= 128
         /\ Last(f) \in 6..127 /\ Last(f) = Start(f) + Width(f) - 1
         /\ \A g \in Fields \ {f} : Last(f) < Start(g) \/ Start(g) + Width(g) <= Start(f)
BY DEF Start, Width, Last, Fields

\* Id b holds version v and the numbers of num.
Holds(b, v, num) ==
  /\ b \in Bytes
  /\ Laid(b, 0, 6) = v
  /\ \A f \in Fields : Laid(b, Start(f), Width(f)) = num[f]

\* A setter replaces the number of one field, whatever the others are.
LEMMA PutHolds ==
  ASSUME NEW b, NEW ve, NEW num, Holds(b, ve, num),
         NEW f \in Fields, NEW v \in SUBSET (0..(Width(f) - 1)), NEW new,
         new[f] = v, \A g \in Fields \ {f} : new[g] = num[g]
  PROVE  Holds(Put(b, f, v), ve, new)
<1> DEFINE c == Put(b, f, v)
<1>1. Sets(c, b, Start(f), Last(f), v)
  BY PutSets DEF Holds
<1> HIDE DEF c
<1>0. /\ Start(f) \in 0..127 /\ Width(f) \in 1..54 /\ Start(f) + Width(f) <= 128
      /\ Last(f) \in 0..127 /\ 0 + 6 <= Start(f) /\ Last(f) = Start(f) + Width(f) - 1
  BY Layout
<1>o. SameElsewhere(c, b, Start(f), Last(f))
  BY <1>0, <1>1, OtherLaid, Zenon
<1>2. Laid(c, 0, 6) = Laid(b, 0, 6)
  <2>1. 0 \in 0..127 /\ 6 \in 1..54 /\ 0 + 6 <= 128
    OBVIOUS
  <2> QED
    BY <1>0, <1>o, <2>1, Zenon DEF SameElsewhere
<1>3. Laid(c, Start(f), Width(f)) = v
  BY <1>0, <1>1, SetLaid, Zenon
<1>4. ASSUME NEW g \in Fields \ {f}
      PROVE  Laid(c, Start(g), Width(g)) = Laid(b, Start(g), Width(g))
  <2>1. /\ Start(g) \in 0..127 /\ Width(g) \in 1..54 /\ Start(g) + Width(g) <= 128
    BY Layout
  <2>2. Last(f) < Start(g) \/ Start(g) + Width(g) <= Start(f)
    BY Layout
  <2> QED
    BY <1>o, <2>1, <2>2, Zenon DEF SameElsewhere
<1> QED
  BY <1>1, <1>2, <1>3, <1>4 DEF Holds, Sets, c

\* So does _set_version.
LEMMA SetVerHolds ==
  ASSUME NEW b, NEW ve, NEW num, Holds(b, ve, num), NEW v \in SUBSET (0..5)
  PROVE  Holds(SetVer(b, v), v, num)
<1> DEFINE c == SetVer(b, v)
<1>1. Sets(c, b, 0, 5, v)
  BY SetsVer DEF Holds
<1> HIDE DEF c
<1>2. Laid(c, 0, 6) = v
  <2>1. /\ 0 \in 0..127 /\ 6 \in 1..54 /\ 0 + 6 <= 128
        /\ v \in SUBSET (0..(6 - 1)) /\ 0 + 6 - 1 = 5
    OBVIOUS
  <2> QED
    BY <1>1, <2>1, SetLaid, Zenon
<1>3. ASSUME NEW g \in Fields
      PROVE  Laid(c, Start(g), Width(g)) = Laid(b, Start(g), Width(g))
  <2>1. /\ Start(g) \in 0..127 /\ Width(g) \in 1..54 /\ Start(g) + Width(g) <= 128
        /\ 0 \in 0..127 /\ 5 \in 0..127 /\ 5 < Start(g)
    BY Layout
  <2>2. SameElsewhere(c, b, 0, 5)
    BY <1>1, <2>1, OtherLaid, Zenon
  <2> QED
    BY <2>1, <2>2, Zenon DEF SameElsewhere
<1> QED
  BY <1>1, <1>2, <1>3 DEF Holds, Sets, c

\* A zeroed id holds zeros.
LEMMA ZeroHolds == Holds(Zero, {}, [f \in Fields |-> {}])
<1>1. \A n \in 0..127 : ~At(Zero, n)
  BY DEF At, Zero
<1>2. ASSUME NEW start \in 0..127, NEW width \in 1..54, start + width <= 128
      PROVE  Laid(Zero, start, width) = {}
  <2>1. \A k \in 0..(width - 1) : start + width - 1 - k \in 0..127
    BY <1>2
  <2>2. {k \in 0..(width - 1) : At(Zero, start + width - 1 - k)} = {}
    BY <1>1, <2>1, Zenon
  <2> QED
    BY <2>2 DEF Laid, At
<1>3. Zero \in Bytes
  BY DEF Zero, Bytes
<1> QED
  BY <1>2, <1>3, Layout DEF Holds

\* jrtc_router_generate_stream_id lays out any four numbers of these widths.
THEOREM PackNumbersHolds ==
  ASSUME NEW num, \A f \in Fields : num[f] \subseteq 0..(Width(f) - 1)
  PROVE  Holds(PackNumbers(num), {}, num)
<1> DEFINE F == "fwd_dst"
           D == "device_id"
           P == "stream_path"
           N == "stream_name"
           b0 == SetVer(Zero, {})
           b1 == Put(b0, F, num[F])
           b2 == Put(b1, D, num[D])
           b3 == Put(b2, P, num[P])
           n0 == [f \in Fields |-> {}]
           n1 == [n0 EXCEPT ![F] = num[F]]
           n2 == [n1 EXCEPT ![D] = num[D]]
           n3 == [n2 EXCEPT ![P] = num[P]]
<1>0. F \in Fields /\ D \in Fields /\ P \in Fields /\ N \in Fields
  BY DEF Fields
<1>1. Holds(b0, {}, n0)
  BY ZeroHolds, SetVerHolds
<1>2. Holds(b1, {}, n1)
  BY <1>0, <1>1, PutHolds, Zenon
<1>3. Holds(b2, {}, n2)
  BY <1>0, <1>2, PutHolds, Zenon
<1>4. Holds(b3, {}, n3)
  BY <1>0, <1>3, PutHolds, Zenon
<1>5. \A g \in Fields \ {N} : num[g] = n3[g]
  BY DEF Fields
<1>6. Holds(Put(b3, N, num[N]), {}, num)
  BY <1>0, <1>4, <1>5, PutHolds, Zenon
<1> QED
  BY <1>6 DEF PackNumbers

-----------------------------------------------------------------------------
(***************************************************************************)
(* The Bloom filter of jrtc_router_get_hash gives back the bits that the   *)
(* hash functions set.                                                     *)
(***************************************************************************)
\* Each of the 54 bits of the filter has a word and a place in it.
LEMMA Words ==
  ASSUME NEW i \in 0..53
  PROVE  \E k \in 0..1, p \in 0..31 : i \div 32 = k /\ i % 32 = p /\ i = 32 * k + p
OBVIOUS

\* Two bits of the filter are never the same place of the same word.
LEMMA WordsDiffer ==
  ASSUME NEW i \in 0..53, NEW j \in 0..53, i \div 32 = j \div 32, i % 32 = j % 32
  PROVE  i = j
<1>1. PICK k \in 0..1, p \in 0..31 : i \div 32 = k /\ i % 32 = p /\ i = 32 * k + p
  BY Words
<1>2. PICK m \in 0..1, q \in 0..31 : j \div 32 = m /\ j % 32 = q /\ j = 32 * m + q
  BY Words
<1>3. k = m /\ p = q
  BY <1>1, <1>2, Zenon
<1> QED
  BY <1>1, <1>2, <1>3

\* The bits extracted from the filter are those that were added.
LEMMA HashOfIs ==
  ASSUME NEW h \in SUBSET (0..53)
  PROVE  HashOf(h) = h
<1> DEFINE bm == BfAdd(BitmapCreate(HashNumberBits), h)
           words == [w \in 0..1 |-> {i % 32 : i \in {j \in h : j \div 32 = w}}]
<1>0. \A j \in h : j \in 0..53
  OBVIOUS
<1>1. BitmapCreate(54) = [size |-> 54, data |-> [w \in 0..1 |-> {}]]
  BY DEF BitmapCreate
<1>2. {i % 54 : i \in h} = h
  <2>1. \A i \in h : i % 54 = i
    BY <1>0
  <2> QED
    BY <2>1, Zenon
<1>3. bm.size = 54 /\ bm.data = words
  <2> DEFINE empty == [size |-> 54, data |-> [w \in 0..1 |-> {}]]
  <2>0. empty.size = 54 /\ empty.data = [w \in 0..1 |-> {}]
    OBVIOUS
  <2>1. bm = BitmapSet(empty, {i % empty.size : i \in h})
    BY <1>1, Zenon DEF BfAdd, HashNumberBits
  <2>2. {i % empty.size : i \in h} = h
    BY <1>2, <2>0
  <2>3. bm = BitmapSet(empty, h)
    BY <2>1, <2>2, Zenon
  <2>4. \A w \in 0..1 : {j \in h : j < 54 /\ j \div 32 = w} = {j \in h : j \div 32 = w}
    <3>1. \A j \in h : j < 54
      BY <1>0
    <3> QED
      BY <3>1, Zenon
  <2> QED
    BY <2>3, <2>4 DEF BitmapSet
<1> HIDE DEF bm
<1>4. Iterated(bm) = h
  <2>1. ASSUME NEW i \in 0..53
        PROVE  BitmapGet(bm, i) <=> i \in h
    <3>1. i \div 32 \in 0..1
      BY Words
    <3>2. BitmapGet(bm, i) <=> \E j \in h : j \div 32 = i \div 32 /\ j % 32 = i % 32
      BY <1>3, <3>1 DEF BitmapGet
    <3>3. \A j \in h : j \div 32 = i \div 32 /\ j % 32 = i % 32 => j = i
      BY <1>0, WordsDiffer
    <3> QED
      BY <3>2, <3>3
  <2>2. Iterated(bm) = {i \in 0..53 : BitmapGet(bm, i)}
    BY <1>3 DEF Iterated
  <2> QED
    BY <1>0, <2>1, <2>2, Zenon
<1>5. ASSUME NEW i \in h
      PROVE  Cardinality({j \in h : j < i}) < 54
  <2>1. IsFiniteSet(0..53) /\ Cardinality(0..53) = 54
    <3>1. 0 \in Int /\ 53 \in Int /\ ~(0 > 53) /\ 53 - 0 + 1 = 54
      OBVIOUS
    <3> QED
      BY <3>1, FS_Interval, Zenon
  <2>2. {j \in h : j < i} \subseteq 0..53
    BY <1>0, Zenon
  <2>3. i \in 0..53 /\ i \notin {j \in h : j < i}
    BY <1>0
  <2>4. {j \in h : j < i} # 0..53
    BY <2>3
  <2>5. Cardinality({j \in h : j < i}) \in Nat
    BY <2>1, <2>2, FS_Subset, FS_CardinalityType
  <2> QED
    BY <2>1, <2>2, <2>4, <2>5, FS_Subset
<1>6. {i \in h : Cardinality({j \in h : j < i}) < 54} = h
  BY <1>5, Zenon
<1>7. BfExtractBits(bm, 54) = {i \in h : Cardinality({j \in h : j < i}) < 54}
  BY <1>3, <1>4 DEF BfExtractBits
<1> QED
  BY <1>6, <1>7, Zenon DEF HashOf, HashNumberBits, bm

-----------------------------------------------------------------------------
(***************************************************************************)
(* The bytes of the request and of the stream id hold their fields,        *)
(* however they were set.                                                  *)
(***************************************************************************)
NumbersOf(r) == [f \in Fields |-> Number(f, r[f])]

PackInv ==
  /\ IdsInv
  /\ ver \in SUBSET (0..5)
  /\ Holds(id, ver, NumbersOf(req))
  /\ Holds(bytes, {}, NumbersOf(sid))

\* A number fits in the width of its field.
LEMMA NumberFits ==
  ASSUME NEW r, NEW f \in Fields
  PROVE  NumbersOf(r)[f] = Number(f, r[f]) /\ Number(f, r[f]) \in SUBSET (0..(Width(f) - 1))
BY DEF NumbersOf, Number

\* A zeroed id holds the fields of the zero request.
LEMMA ZeroNumbers == Holds(Zero, {}, NumbersOf(ZeroId))
<1>1. NumbersOf(ZeroId) = [f \in Fields |-> {}]
  BY DEF NumbersOf, Number, ZeroId
<1> QED
  BY <1>1, ZeroHolds

\* Pack lays out the fields of any stream id.
LEMMA PackHolds ==
  ASSUME NEW s
  PROVE  Holds(Pack(s), {}, NumbersOf(s))
<1>1. \A f \in Fields : NumbersOf(s)[f] \subseteq 0..(Width(f) - 1)
  BY NumberFits
<1>2. Pack(s) = PackNumbers(NumbersOf(s))
  BY DEF Pack, NumbersOf
<1> QED
  BY <1>1, <1>2, PackNumbersHolds

\* One setter keeps the invariant.
LEMMA PackFieldStep ==
  ASSUME PackInv, NEW f \in Fields, NEW v \in FieldValue, PackField(f, v)
  PROVE  Holds(id', ver', NumbersOf(req')) /\ Holds(bytes', {}, NumbersOf(sid'))
<1>1. /\ req' = [req EXCEPT ![f] = v] /\ sid' = sid /\ ver' = ver /\ bytes' = bytes
      /\ id' = Put(id, f, Number(f, v))
  BY DEF PackField, SetField
<1>2. req \in StreamIds /\ Holds(id, ver, NumbersOf(req)) /\ Holds(bytes, {}, NumbersOf(sid))
  BY DEF PackInv, IdsInv
<1>3. Number(f, v) \in SUBSET (0..(Width(f) - 1))
  BY DEF Number
<1>4. NumbersOf(req')[f] = Number(f, v)
  BY <1>1, <1>2 DEF NumbersOf, StreamIds
<1>5. \A g \in Fields \ {f} : NumbersOf(req')[g] = NumbersOf(req)[g]
  BY <1>1, <1>2 DEF NumbersOf, StreamIds
<1>6. Holds(Put(id, f, Number(f, v)), ver, NumbersOf(req'))
  BY <1>2, <1>3, <1>4, <1>5, PutHolds
<1> QED
  BY <1>1, <1>2, <1>6

\* jrtc_router_generate_stream_id packs the hashes of the path and the name.
LEMMA GeneratedStep ==
  ASSUME Generated
  PROVE  Holds(id', ver', NumbersOf(req'))
<1> DEFINE num == [f \in Fields |->
                     LET n == Number(f, req'[f])
                     IN  IF \/ f = "stream_path" /\ asked'.path # NULL
                            \/ f = "stream_name" /\ asked'.name # NULL
                         THEN HashOf(n) ELSE n]
<1>1. ver' = {}
  BY DEF Generated
<1>2. CASE req' = ZeroId
  BY <1>1, <1>2, ZeroNumbers DEF Generated
<1>3. CASE req' # ZeroId
  <2>1. id' = PackNumbers(num)
    BY <1>3 DEF Generated
  <2>2. ASSUME NEW f \in Fields
        PROVE  num[f] = Number(f, req'[f])
    <3>1. CASE f \in {"stream_path", "stream_name"}
      <4>1. Number(f, req'[f]) \in SUBSET (0..53)
        BY <3>1 DEF Number, Width
      <4>2. HashOf(Number(f, req'[f])) = Number(f, req'[f])
        BY <4>1, HashOfIs
      <4> QED
        BY <4>2
    <3>2. CASE f \notin {"stream_path", "stream_name"}
      BY <3>2
    <3> QED
      BY <3>1, <3>2
  <2>3. num = NumbersOf(req')
    BY <2>2 DEF NumbersOf
  <2> HIDE DEF num
  <2>4. \A f \in Fields : NumbersOf(req')[f] \subseteq 0..(Width(f) - 1)
    BY NumberFits
  <2> QED
    BY <1>1, <2>1, <2>3, <2>4, PackNumbersHolds
<1> QED
  BY <1>2, <1>3

\* Packing follows the requests of StreamIdRequests step by step.
LEMMA PackRefines == PackSpec => Spec
<1>1. PackInit => Init
  BY DEF PackInit
<1>2. [PackNext]_packVars => [Next]_vars
  <2> SUFFICES ASSUME [PackNext]_packVars PROVE [Next]_vars
    OBVIOUS
  <2>1. ASSUME NEW f \in Fields, NEW v \in FieldValue, PackField(f, v) PROVE Next
    BY <2>1 DEF PackField, Next
  <2>2. ASSUME NEW v, PackVer(v) PROVE UNCHANGED vars
    BY <2>2 DEF PackVer
  <2>3. ASSUME NEW s \in StreamIds, PackArrive(s) PROVE Next
    BY <2>3 DEF PackArrive, Next
  <2>4. CASE UNCHANGED packVars
    BY <2>4 DEF packVars
  <2> QED
    BY <2>1, <2>2, <2>3, <2>4, Zenon DEF PackNext, Next
<1> QED
  BY <1>1, <1>2, PTL DEF PackSpec, Spec

\* Every step keeps the bytes and the fields in agreement.
LEMMA PackStep == PackInv /\ IdsInv' /\ [PackNext]_packVars => PackInv'
<1> SUFFICES ASSUME PackInv, IdsInv', [PackNext]_packVars PROVE PackInv'
  OBVIOUS
<1> USE DEF PackInv
<1>1. ASSUME NEW f \in Fields, NEW v \in FieldValue, PackField(f, v)
      PROVE  PackInv'
  <2>1. ver' \in SUBSET (0..5)
    BY <1>1 DEF PackField
  <2> QED
    BY <1>1, <2>1, PackFieldStep
<1>2. ASSUME NEW v \in {{}, OtherVersion}, PackVer(v)
      PROVE  PackInv'
  <2>1. v \in SUBSET (0..5)
    BY DEF OtherVersion
  <2>2. UNCHANGED <<req, sid, bytes>> /\ ver' = v /\ id' = SetVer(id, v)
    BY <1>2 DEF PackVer, vars
  <2>3. Holds(SetVer(id, v), v, NumbersOf(req))
    BY <2>1, SetVerHolds
  <2> QED
    BY <2>1, <2>2, <2>3
<1>3. ASSUME Generated, sid' = sid
      PROVE  PackInv'
  <2>1. ver' \in SUBSET (0..5) /\ bytes' = bytes
    BY <1>3 DEF Generated
  <2> QED
    BY <1>3, <2>1, GeneratedStep
<1>4. ASSUME NEW s \in StreamIds, PackArrive(s)
      PROVE  PackInv'
  <2>1. UNCHANGED <<req, id, ver>> /\ sid' = s /\ bytes' = Pack(s)
    BY <1>4 DEF PackArrive, Arrive
  <2> QED
    BY <2>1, PackHolds
<1>5. CASE UNCHANGED packVars
  BY <1>5 DEF packVars, vars
<1>6. ASSUME NEW fwd_dst, NEW device_id, NEW path, NEW name, NEW oom,
             \/ InitStream(fwd_dst, device_id, path, name, oom)
             \/ RegisterReq(fwd_dst, device_id, path, name, oom)
      PROVE  sid' = sid
  BY <1>6 DEF InitStream, RegisterReq, Asked
<1> HIDE DEF PackInv
<1> QED
  BY <1>1, <1>2, <1>3, <1>4, <1>5, <1>6 DEF PackNext

\* Fields and bytes agree in every state.
LEMMA PackInvariant == PackSpec => []PackInv
<1>1. PackInit => PackInv
  <2>1. Init => IdsInv
    BY DEF Init, IdsInv, NamedIsNotAny, ZeroId, StreamIds, FieldValue
  <2> QED
    BY <2>1, ZeroNumbers DEF PackInit, Init, PackInv
<1> QED
  BY <1>1, PackStep, PackRefines, IdsInvariant, PTL DEF PackSpec

\* However the setters are called and whatever is generated, each field of the
\* request is in its own bits of the 16 bytes.
THEOREM FieldsArePacked == PackSpec => []PackedInPlace
<1>1. PackInv => PackedInPlace
  BY NumberFits DEF PackInv, PackedInPlace, Holds
<1> QED
  BY <1>1, PackInvariant, PTL

-----------------------------------------------------------------------------
(***************************************************************************)
(* The getters read the fields from where they are laid out.               *)
(***************************************************************************)

\* Bit x of a field is bit j of byte k.
LEMMA LaidBit ==
  ASSUME NEW b, NEW start \in 0..127, NEW width \in 1..54, start + width <= 128,
         NEW x \in 0..(width - 1), NEW k \in 0..15, NEW j \in 0..7,
         start + width - 1 - x = 8 * k + 7 - j
  PROVE  x \in Laid(b, start, width) <=> j \in b[k]
<1>1. x \in Laid(b, start, width) <=> At(b, start + width - 1 - x)
  BY DEF Laid, At
<1>2. At(b, 8 * k + 7 - j) <=> j \in b[k]
  BY BitsOfByte DEF At
<1> QED
  BY <1>1, <1>2

\* Sign extension adds bits above the byte only.
LEMMA SignedBits ==
  ASSUME NEW y \in SUBSET (0..7)
  PROVE  /\ Signed(y) \in SUBSET Nat
         /\ \A j \in 0..7 : j \in Signed(y) <=> j \in y
         /\ 7 \notin y => Signed(y) = y
BY DEF Signed

\* _get_version
LEMMA GetsVer ==
  ASSUME NEW b \in Bytes
  PROVE  GetVer(b) = Laid(b, 0, 6)
<1>1. ASSUME NEW x \in 0..5
      PROVE  x \in GetVer(b) <=> x \in Laid(b, 0, 6)
  <2>1. x \in Laid(b, 0, 6) <=> x + 2 \in b[0]
    <3>1. /\ 0 \in 0..127 /\ 6 \in 1..54 /\ 0 + 6 <= 128
          /\ x \in 0..(6 - 1) /\ 0 \in 0..15 /\ x + 2 \in 0..7
          /\ 0 + 6 - 1 - x = 8 * 0 + 7 - (x + 2)
      OBVIOUS
    <3> QED
      BY <3>1, LaidBit, Zenon
  <2>2. Signed(b[0]) \in SUBSET Nat /\ (x + 2 \in Signed(b[0]) <=> x + 2 \in b[0])
    BY SignedBits DEF Bytes
  <2>3. x \in Shr(Signed(b[0]), 2) <=> x + 2 \in Signed(b[0])
    BY <2>2, ShrBit
  <2> QED
    BY <2>1, <2>2, <2>3 DEF GetVer
<1>2. GetVer(b) \subseteq 0..5 /\ Laid(b, 0, 6) \subseteq 0..5
  BY DEF GetVer, Laid
<1> QED
  BY <1>1, <1>2

\* _get_fwd_dst
LEMMA GetsFwdDst ==
  ASSUME NEW b \in Bytes
  PROVE  GetFwdDst(b) = Laid(b, 6, 7)
<1>0. b[0] \in SUBSET (0..7) /\ b[1] \in SUBSET (0..7)
  BY DEF Bytes
<1>1. ASSUME NEW x \in Nat
      PROVE  /\ x \in Shl(b[0] \cap 0..1, 5) <=> x >= 5 /\ x - 5 \in b[0] \cap 0..1
             /\ x \in Shr(Signed(b[1]), 3) <=> x + 3 \in Signed(b[1])
  <2>1. x \in Shl(b[0] \cap 0..1, 5) <=> x >= 5 /\ x - 5 \in b[0] \cap 0..1
    BY <1>0, ShlBit
  <2>2. x \in Shr(Signed(b[1]), 3) <=> x + 3 \in Signed(b[1])
    BY <1>0, SignedBits, ShrBit
  <2> QED
    BY <2>1, <2>2
<1>2. ASSUME NEW x \in 0..6
      PROVE  x \in GetFwdDst(b) <=> x \in Laid(b, 6, 7)
  <2>1. CASE x \in 0..4
    <3>1. x \in Laid(b, 6, 7) <=> x + 3 \in b[1]
      <4>1. /\ 6 \in 0..127 /\ 7 \in 1..54 /\ 6 + 7 <= 128
            /\ x \in 0..(7 - 1) /\ 1 \in 0..15 /\ x + 3 \in 0..7
            /\ 6 + 7 - 1 - x = 8 * 1 + 7 - (x + 3)
        BY <2>1
      <4> QED
        BY <4>1, LaidBit, Zenon
    <3>2. x + 3 \in Signed(b[1]) <=> x + 3 \in b[1]
      BY <1>0, <2>1, SignedBits
    <3> QED
      BY <1>1, <2>1, <3>1, <3>2 DEF GetFwdDst
  <2>2. CASE x \in 5..6
    <3>1. x \in Laid(b, 6, 7) <=> x - 5 \in b[0]
      <4>1. /\ 6 \in 0..127 /\ 7 \in 1..54 /\ 6 + 7 <= 128
            /\ x \in 0..(7 - 1) /\ 0 \in 0..15 /\ x - 5 \in 0..7
            /\ 6 + 7 - 1 - x = 8 * 0 + 7 - (x - 5)
        BY <2>2
      <4> QED
        BY <4>1, LaidBit, Zenon
    <3> QED
      BY <1>1, <2>2, <3>1 DEF GetFwdDst
  <2> QED
    BY <2>1, <2>2
<1>3. GetFwdDst(b) \subseteq 0..6 /\ Laid(b, 6, 7) \subseteq 0..6
  <2>1. Shl(b[0] \cap 0..1, 5) \subseteq 0..6
    BY DEF Shl
  <2> QED
    BY <2>1 DEF GetFwdDst, Laid
<1> QED
  BY <1>2, <1>3

\* _get_device_id
LEMMA GetsDeviceId ==
  ASSUME NEW b \in Bytes
  PROVE  GetDeviceId(b) = Laid(b, 13, 7)
<1>0. b[1] \in SUBSET (0..7) /\ b[2] \in SUBSET (0..7)
  BY DEF Bytes
<1>1. ASSUME NEW x \in Nat
      PROVE  /\ x \in Shl(b[1] \cap 0..2, 4) <=> x >= 4 /\ x - 4 \in b[1] \cap 0..2
             /\ x \in Shr(Signed(b[2]), 4) <=> x + 4 \in Signed(b[2])
  <2>1. x \in Shl(b[1] \cap 0..2, 4) <=> x >= 4 /\ x - 4 \in b[1] \cap 0..2
    BY <1>0, ShlBit
  <2>2. x \in Shr(Signed(b[2]), 4) <=> x + 4 \in Signed(b[2])
    BY <1>0, SignedBits, ShrBit
  <2> QED
    BY <2>1, <2>2
<1>2. ASSUME NEW x \in 0..6
      PROVE  x \in GetDeviceId(b) <=> x \in Laid(b, 13, 7)
  <2>1. CASE x \in 0..3
    <3>1. x \in Laid(b, 13, 7) <=> x + 4 \in b[2]
      <4>1. /\ 13 \in 0..127 /\ 7 \in 1..54 /\ 13 + 7 <= 128
            /\ x \in 0..(7 - 1) /\ 2 \in 0..15 /\ x + 4 \in 0..7
            /\ 13 + 7 - 1 - x = 8 * 2 + 7 - (x + 4)
        BY <2>1
      <4> QED
        BY <4>1, LaidBit, Zenon
    <3>2. x + 4 \in Signed(b[2]) <=> x + 4 \in b[2]
      BY <1>0, <2>1, SignedBits
    <3> QED
      BY <1>1, <2>1, <3>1, <3>2 DEF GetDeviceId
  <2>2. CASE x \in 4..6
    <3>1. x \in Laid(b, 13, 7) <=> x - 4 \in b[1]
      <4>1. /\ 13 \in 0..127 /\ 7 \in 1..54 /\ 13 + 7 <= 128
            /\ x \in 0..(7 - 1) /\ 1 \in 0..15 /\ x - 4 \in 0..7
            /\ 13 + 7 - 1 - x = 8 * 1 + 7 - (x - 4)
        BY <2>2
      <4> QED
        BY <4>1, LaidBit, Zenon
    <3> QED
      BY <1>1, <2>2, <3>1 DEF GetDeviceId
  <2> QED
    BY <2>1, <2>2
<1>3. GetDeviceId(b) \subseteq 0..6 /\ Laid(b, 13, 7) \subseteq 0..6
  <2>1. Shl(b[1] \cap 0..2, 4) \subseteq 0..6
    BY DEF Shl
  <2> QED
    BY <2>1 DEF GetDeviceId, Laid
<1> QED
  BY <1>2, <1>3

\* A whole byte that a getter shifts into a field, with the sign it may extend
LEMMA PartBits ==
  ASSUME NEW b \in Bytes, NEW k \in 0..15, NEW n \in 0..56
  PROVE  /\ Part(b, k, n) \in SUBSET (0..63)
         /\ \A j \in 0..7 : j \in b[k] => n + j \in Part(b, k, n)
         /\ 7 \notin b[k] =>
              \A x \in Part(b, k, n) : \E j \in 0..7 : x = n + j /\ j \in b[k]
<1>0. b[k] \in SUBSET (0..7)
  BY DEF Bytes
<1>1. /\ Signed(b[k]) \in SUBSET Nat
      /\ \A j \in 0..7 : j \in Signed(b[k]) <=> j \in b[k]
      /\ 7 \notin b[k] => Signed(b[k]) = b[k]
  BY <1>0, SignedBits
<1>2. Part(b, k, n) \in SUBSET (0..63)
  BY DEF Part
<1>3. ASSUME NEW j \in 0..7, j \in b[k]
      PROVE  n + j \in Part(b, k, n)
  <2>1. j \in Signed(b[k]) /\ n + j \in 0..63
    BY <1>1, <1>3
  <2>2. n + j \in Shl(Signed(b[k]), n)
    <3>1. j + n \in Shl(Signed(b[k]), n)
      BY <2>1 DEF Shl
    <3> QED
      BY <3>1
  <2> QED
    BY <2>1, <2>2 DEF Part
<1>4. ASSUME 7 \notin b[k], NEW x \in Part(b, k, n)
      PROVE  \E j \in 0..7 : x = n + j /\ j \in b[k]
  <2>1. x \in Shl(b[k], n)
    BY <1>1, <1>4 DEF Part
  <2>2. PICK j \in b[k] : x = j + n
    BY <2>1 DEF Shl
  <2> QED
    BY <1>0, <2>2
<1> QED
  BY <1>2, <1>3, <1>4

\* _get_stream_path
LEMMA GetsStreamPath ==
  ASSUME NEW b \in Bytes
  PROVE  /\ Laid(b, 20, 54) \subseteq GetStreamPath(b)
         /\ (\A k \in 3..8 : 7 \notin b[k]) => GetStreamPath(b) = Laid(b, 20, 54)
<1>0. b[2] \in SUBSET (0..7) /\ b[9] \in SUBSET (0..7)
  BY DEF Bytes
<1>1. \A x : x \in GetStreamPath(b) <=>
        \/ x \in Shl(b[2] \cap 0..3, 50)
        \/ x \in Shr(b[9] \cap 6..7, 6)
        \/ \E k \in 3..8 : x \in Part(b, k, 66 - 8 * k)
  BY DEF GetStreamPath
<1>2. ASSUME NEW x \in Laid(b, 20, 54)
      PROVE  x \in GetStreamPath(b)
  <2>0. x \in 0..53
    BY DEF Laid
  <2>1. PICK k \in 0..15, j \in 0..7 : 73 - x = 8 * k + 7 - j
    BY <2>0, Places
  <2>2. j \in b[k]
    <3>1. 20 + 54 - 1 - x = 8 * k + 7 - j
      BY <2>0, <2>1
    <3>2. 20 \in 0..127 /\ 54 \in 1..54 /\ 20 + 54 <= 128 /\ x \in 0..(54 - 1)
      BY <2>0
    <3> QED
      BY <3>1, <3>2, LaidBit, Zenon
  <2>3. x = 66 - 8 * k + j
    BY <2>0, <2>1
  <2>4. CASE k = 2
    <3>1. j \in 0..3 /\ x = j + 50
      BY <2>0, <2>3, <2>4
    <3>2. j \in b[2] \cap 0..3
      BY <2>2, <2>4, <3>1
    <3> QED
      BY <1>1, <3>1, <3>2 DEF Shl
  <2>5. CASE k \in 3..8
    <3>1. (66 - 8 * k) + j \in Part(b, k, 66 - 8 * k)
      <4>1. 66 - 8 * k \in 0..56
        BY <2>5
      <4> QED
        BY <2>2, <4>1, PartBits, Zenon
    <3> QED
      BY <1>1, <2>3, <2>5, <3>1
  <2>6. CASE k = 9
    <3>1. j \in 6..7 /\ x = j - 6
      BY <2>0, <2>3, <2>6
    <3>2. j \in b[9] \cap 6..7
      BY <2>2, <2>6, <3>1
    <3> QED
      BY <1>1, <3>1, <3>2 DEF Shr
  <2>7. k \in 2..9
    BY <2>0, <2>3
  <2> QED
    BY <2>4, <2>5, <2>6, <2>7
<1>3. ASSUME \A k \in 3..8 : 7 \notin b[k], NEW x \in GetStreamPath(b)
      PROVE  x \in Laid(b, 20, 54)
  <2>1. \E k \in 0..15, j \in 0..7 :
          x \in 0..53 /\ x = 66 - 8 * k + j /\ j \in b[k]
    <3>1. CASE x \in Shl(b[2] \cap 0..3, 50)
      <4>1. PICK j \in b[2] \cap 0..3 : x = j + 50
        BY <3>1, Zenon DEF Shl
      <4> QED
        BY <4>1
    <3>2. CASE x \in Shr(b[9] \cap 6..7, 6)
      <4>1. PICK j \in b[9] \cap 6..7 : x = j - 6
        BY <3>2 DEF Shr
      <4> QED
        BY <4>1
    <3>3. ASSUME NEW k \in 3..8, x \in Part(b, k, 66 - 8 * k)
          PROVE  \E m \in 0..15, j \in 0..7 :
                   x \in 0..53 /\ x = 66 - 8 * m + j /\ j \in b[m]
      <4>1. 66 - 8 * k \in 0..56 /\ k \in 0..15 /\ 7 \notin b[k]
        BY <1>3
      <4>2. PICK j \in 0..7 : x = (66 - 8 * k) + j /\ j \in b[k]
        BY <3>3, <4>1, PartBits, Zenon
      <4>3. x \in 0..53 /\ x = 66 - 8 * k + j
        BY <4>2
      <4> QED
        BY <4>1, <4>2, <4>3, Zenon
    <3> QED
      BY <1>1, <3>1, <3>2, <3>3, Zenon
  <2>2. PICK k \in 0..15, j \in 0..7 :
          x \in 0..53 /\ x = 66 - 8 * k + j /\ j \in b[k]
    BY <2>1, Zenon
  <2>3. 20 + 54 - 1 - x = 8 * k + 7 - j
    BY <2>2
  <2>4. 20 \in 0..127 /\ 54 \in 1..54 /\ 20 + 54 <= 128 /\ x \in 0..(54 - 1)
    BY <2>2
  <2> QED
    BY <2>2, <2>3, <2>4, LaidBit, Zenon
<1> QED
  BY <1>2, <1>3

\* _get_stream_name
LEMMA GetsStreamName ==
  ASSUME NEW b \in Bytes
  PROVE  /\ Laid(b, 74, 54) \subseteq GetStreamName(b)
         /\ (\A k \in 10..15 : 7 \notin b[k]) => GetStreamName(b) = Laid(b, 74, 54)
<1>0. b[9] \in SUBSET (0..7)
  BY DEF Bytes
<1>1. \A x : x \in GetStreamName(b) <=>
        \/ x \in Shl(b[9] \cap 0..5, 48)
        \/ \E k \in 10..15 : x \in Part(b, k, 120 - 8 * k)
  BY DEF GetStreamName
<1>2. ASSUME NEW x \in Laid(b, 74, 54)
      PROVE  x \in GetStreamName(b)
  <2>0. x \in 0..53
    BY DEF Laid
  <2>1. PICK k \in 0..15, j \in 0..7 : 127 - x = 8 * k + 7 - j
    BY <2>0, Places
  <2>2. j \in b[k]
    <3>1. 74 + 54 - 1 - x = 8 * k + 7 - j
      BY <2>0, <2>1
    <3>2. 74 \in 0..127 /\ 54 \in 1..54 /\ 74 + 54 <= 128 /\ x \in 0..(54 - 1)
      BY <2>0
    <3> QED
      BY <3>1, <3>2, LaidBit, Zenon
  <2>3. x = 120 - 8 * k + j
    BY <2>0, <2>1
  <2>4. CASE k = 9
    <3>1. j \in 0..5 /\ x = j + 48
      BY <2>0, <2>3, <2>4
    <3>2. j \in b[9] \cap 0..5
      BY <2>2, <2>4, <3>1
    <3> QED
      BY <1>1, <3>1, <3>2 DEF Shl
  <2>5. CASE k \in 10..15
    <3>1. (120 - 8 * k) + j \in Part(b, k, 120 - 8 * k)
      <4>1. 120 - 8 * k \in 0..56
        BY <2>5
      <4> QED
        BY <2>2, <4>1, PartBits, Zenon
    <3> QED
      BY <1>1, <2>3, <2>5, <3>1
  <2>6. k \in 9..15
    BY <2>0, <2>3
  <2> QED
    BY <2>4, <2>5, <2>6
<1>3. ASSUME \A k \in 10..15 : 7 \notin b[k], NEW x \in GetStreamName(b)
      PROVE  x \in Laid(b, 74, 54)
  <2>1. \E k \in 0..15, j \in 0..7 :
          x \in 0..53 /\ x = 120 - 8 * k + j /\ j \in b[k]
    <3>1. CASE x \in Shl(b[9] \cap 0..5, 48)
      <4>1. PICK j \in b[9] \cap 0..5 : x = j + 48
        BY <3>1 DEF Shl
      <4> QED
        BY <4>1
    <3>2. ASSUME NEW k \in 10..15, x \in Part(b, k, 120 - 8 * k)
          PROVE  \E m \in 0..15, j \in 0..7 :
                   x \in 0..53 /\ x = 120 - 8 * m + j /\ j \in b[m]
      <4>1. 120 - 8 * k \in 0..56 /\ k \in 0..15 /\ 7 \notin b[k]
        BY <1>3
      <4>2. PICK j \in 0..7 : x = (120 - 8 * k) + j /\ j \in b[k]
        BY <3>2, <4>1, PartBits, Zenon
      <4>3. x \in 0..53 /\ x = 120 - 8 * k + j
        BY <4>2
      <4> QED
        BY <4>1, <4>2, <4>3, Zenon
    <3> QED
      BY <1>1, <3>1, <3>2, Zenon
  <2>2. PICK k \in 0..15, j \in 0..7 :
          x \in 0..53 /\ x = 120 - 8 * k + j /\ j \in b[k]
    BY <2>1, Zenon
  <2>3. 74 + 54 - 1 - x = 8 * k + 7 - j
    BY <2>2
  <2>4. 74 \in 0..127 /\ 54 \in 1..54 /\ 74 + 54 <= 128 /\ x \in 0..(54 - 1)
    BY <2>2
  <2> QED
    BY <2>2, <2>3, <2>4, LaidBit, Zenon
<1> QED
  BY <1>2, <1>3

\* With a signed char a byte that a getter takes whole fills the upper bits of
\* the result if its own highest bit is one.
LEMMA SignExtends ==
  ASSUME NEW b \in Bytes, NEW k \in 0..15, NEW n \in 0..48, 7 \in b[k]
  PROVE  63 \in Part(b, k, n)
<1>1. 63 - n \in Signed(b[k])
  BY DEF Signed
<1>2. (63 - n) + n \in Shl(Signed(b[k]), n)
  BY <1>1, Zenon DEF Shl
<1>3. (63 - n) + n = 63
  OBVIOUS
<1> QED
  BY <1>2, <1>3 DEF Part

\* jrtc_router_stream_id_get_*, for all the values of the 128 bits of an id: the
\* version, the destination and the device are those in the id; the path and the
\* name are if and only if none of the bytes taken whole has its highest bit set.
THEOREM GettersReturnFields ==
  ASSUME NEW b \in Bytes
  PROVE  /\ GetVer(b) = Laid(b, 0, 6)
         /\ GetFwdDst(b) = Laid(b, 6, 7)
         /\ GetDeviceId(b) = Laid(b, 13, 7)
         /\ GetStreamPath(b) = Laid(b, 20, 54) <=> \A k \in 3..8 : 7 \notin b[k]
         /\ GetStreamName(b) = Laid(b, 74, 54) <=> \A k \in 10..15 : 7 \notin b[k]
<1>0. 63 \notin Laid(b, 20, 54) /\ 63 \notin Laid(b, 74, 54)
  BY DEF Laid
<1>1. ASSUME NEW k \in 3..8, 7 \in b[k]
      PROVE  63 \in GetStreamPath(b)
  <2>1. 66 - 8 * k \in 0..48 /\ k \in 0..15
    OBVIOUS
  <2>2. 63 \in Part(b, k, 66 - 8 * k)
    BY <1>1, <2>1, SignExtends, Zenon
  <2> QED
    BY <2>2, Zenon DEF GetStreamPath
<1>2. ASSUME NEW k \in 10..15, 7 \in b[k]
      PROVE  63 \in GetStreamName(b)
  <2>1. 120 - 8 * k \in 0..48 /\ k \in 0..15
    OBVIOUS
  <2>2. 63 \in Part(b, k, 120 - 8 * k)
    BY <1>2, <2>1, SignExtends, Zenon
  <2> QED
    BY <2>2, Zenon DEF GetStreamName
<1>3. GetStreamPath(b) = Laid(b, 20, 54) <=> \A k \in 3..8 : 7 \notin b[k]
  BY <1>0, <1>1, GetsStreamPath, Zenon
<1>4. GetStreamName(b) = Laid(b, 74, 54) <=> \A k \in 10..15 : 7 \notin b[k]
  BY <1>0, <1>2, GetsStreamName, Zenon
<1> QED
  BY <1>3, <1>4, GetsVer, GetsFwdDst, GetsDeviceId, Zenon

-----------------------------------------------------------------------------
(***************************************************************************)
(* Routing by bytes is routing by fields.                                  *)
(***************************************************************************)

\* Every bit of an id is one of the version or of a field.
LEMMA LayoutCovers ==
  ASSUME NEW n \in 0..127
  PROVE  n \in 0..5 \/ \E f \in Fields : n \in Start(f)..Last(f)
BY DEF Start, Last, Width, Fields

\* A bit belongs to a single field.
LEMMA LayoutOnce ==
  ASSUME NEW f \in Fields, NEW g \in Fields, NEW n \in Start(f)..Last(f),
         n \in Start(g)..Last(g)
  PROVE  f = g
BY DEF Start, Last, Width, Fields

\* The bits of an id, in terms of what it holds
LEMMA HeldBits ==
  ASSUME NEW b, NEW ve, NEW num, Holds(b, ve, num)
  PROVE  /\ \A n \in 0..5 : At(b, n) <=> 5 - n \in ve
         /\ \A f \in Fields : \A n \in Start(f)..Last(f) :
              At(b, n) <=> Last(f) - n \in num[f]
<1>1. ASSUME NEW start \in Nat, NEW width \in Nat,
             NEW n \in start..(start + width - 1)
      PROVE  At(b, n) <=> start + width - 1 - n \in Laid(b, start, width)
  <2>1. start + width - 1 - n \in 0..(width - 1)
    BY <1>1
  <2>2. start + width - 1 - (start + width - 1 - n) = n
    BY <1>1
  <2> QED
    BY <2>1, <2>2 DEF Laid, At
<1>2. ASSUME NEW n \in 0..5 PROVE At(b, n) <=> 5 - n \in ve
  <2>1. At(b, n) <=> 0 + 6 - 1 - n \in Laid(b, 0, 6)
    BY <1>1
  <2> QED
    BY <2>1 DEF Holds
<1>3. ASSUME NEW f \in Fields, NEW n \in Start(f)..Last(f)
      PROVE  At(b, n) <=> Last(f) - n \in num[f]
  <2>1. Start(f) \in Nat /\ Width(f) \in Nat /\ Last(f) = Start(f) + Width(f) - 1
    BY Layout
  <2>2. At(b, n) <=> Last(f) - n \in Laid(b, Start(f), Width(f))
    BY <1>1, <2>1
  <2> QED
    BY <2>2 DEF Holds
<1> QED
  BY <1>2, <1>3

\* The bytes of the masks cover exactly the bits of their fields.
LEMMA MaskBits ==
  ASSUME NEW f \in Fields, NEW k \in 0..15
  PROVE  /\ MaskByte(f, k) \in SUBSET (0..7)
         /\ \A j \in 0..7 : j \in MaskByte(f, k) <=> 8 * k + 7 - j \in Start(f)..Last(f)
<1>1. CASE f = "fwd_dst"
  <2>1. Start(f) = 6 /\ Last(f) = 12
    BY <1>1 DEF Start, Last, Width
  <2>2. MaskByte(f, k) = CASE k = 0 -> 0..1 [] k = 1 -> 3..7 [] OTHER -> {}
    BY <1>1 DEF MaskByte
  <2> QED
    BY <2>1, <2>2
<1>2. CASE f = "device_id"
  <2>1. Start(f) = 13 /\ Last(f) = 19
    BY <1>2 DEF Start, Last, Width
  <2>2. MaskByte(f, k) = CASE k = 1 -> 0..2 [] k = 2 -> 4..7 [] OTHER -> {}
    BY <1>2 DEF MaskByte
  <2> QED
    BY <2>1, <2>2
<1>3. CASE f = "stream_path"
  <2>1. Start(f) = 20 /\ Last(f) = 73
    BY <1>3 DEF Start, Last, Width
  <2>2. MaskByte(f, k) = CASE k = 2 -> 0..3 [] k \in 3..8 -> 0..7 [] k = 9 -> 6..7
                           [] OTHER -> {}
    BY <1>3 DEF MaskByte
  <2> QED
    BY <2>1, <2>2
<1>4. CASE f = "stream_name"
  <2>1. Start(f) = 74 /\ Last(f) = 127
    BY <1>4 DEF Start, Last, Width
  <2>2. MaskByte(f, k) = CASE k = 9 -> 0..5 [] k \in 10..15 -> 0..7 [] OTHER -> {}
    BY <1>4 DEF MaskByte
  <2> QED
    BY <2>1, <2>2
<1> QED
  BY <1>1, <1>2, <1>3, <1>4 DEF Fields

\* Id r is id b with the bits of the fields in m set.
Masked(r, b, m) ==
  \A n \in 0..127 : At(r, n) <=> At(b, n) \/ \E f \in m : n \in Start(f)..Last(f)

\* Or-ing the bytes of the masks sets the bits of their fields.
LEMMA MaskedBytes ==
  ASSUME NEW b \in Bytes, NEW r \in Bytes, NEW m \in SUBSET Fields
  PROVE  (\A k \in 0..15 : r[k] = b[k] \cup UNION {MaskByte(f, k) : f \in m})
           <=> Masked(r, b, m)
<1> DEFINE Or(k) == b[k] \cup UNION {MaskByte(f, k) : f \in m}
<1>1. ASSUME NEW k \in 0..15, NEW j \in 0..7
      PROVE  j \in Or(k) <=>
               At(b, 8 * k + 7 - j) \/ \E f \in m : 8 * k + 7 - j \in Start(f)..Last(f)
  <2>1. At(b, 8 * k + 7 - j) <=> j \in b[k]
    BY BitsOfByte DEF At
  <2>2. \A f \in m : j \in MaskByte(f, k) <=> 8 * k + 7 - j \in Start(f)..Last(f)
    BY MaskBits
  <2> QED
    BY <2>1, <2>2
<1>2. ASSUME NEW k \in 0..15, NEW j \in 0..7
      PROVE  At(r, 8 * k + 7 - j) <=> j \in r[k]
  BY BitsOfByte DEF At
<1>3. \A k \in 0..15 : r[k] \subseteq 0..7 /\ Or(k) \subseteq 0..7
  <2>1. \A k \in 0..15 : \A f \in m : MaskByte(f, k) \subseteq 0..7
    BY MaskBits
  <2>2. \A k \in 0..15 : b[k] \subseteq 0..7 /\ r[k] \subseteq 0..7
    BY DEF Bytes
  <2> QED
    BY <2>1, <2>2
<1> HIDE DEF Or
<1>4. ASSUME \A k \in 0..15 : r[k] = Or(k), NEW n \in 0..127
      PROVE  At(r, n) <=> At(b, n) \/ \E f \in m : n \in Start(f)..Last(f)
  <2>1. PICK k \in 0..15, j \in 0..7 : n = 8 * k + 7 - j
    BY Places
  <2>2. At(r, 8 * k + 7 - j) <=> j \in Or(k)
    BY <1>2, <1>4
  <2>3. At(r, 8 * k + 7 - j) <=>
          At(b, 8 * k + 7 - j) \/ \E f \in m : 8 * k + 7 - j \in Start(f)..Last(f)
    BY <1>1, <2>2
  <2> QED
    BY <2>1, <2>3, Zenon
<1>5. ASSUME Masked(r, b, m), NEW k \in 0..15
      PROVE  r[k] = Or(k)
  <2>1. ASSUME NEW j \in 0..7
        PROVE  j \in r[k] <=> j \in Or(k)
    <3>1. 8 * k + 7 - j \in 0..127
      BY BitsOfByte
    <3>2. At(r, 8 * k + 7 - j) <=>
            At(b, 8 * k + 7 - j) \/ \E f \in m : 8 * k + 7 - j \in Start(f)..Last(f)
      BY <1>5, <3>1, Zenon DEF Masked
    <3> QED
      BY <1>1, <1>2, <3>2
  <2> QED
    BY <1>3, <2>1
<1>6. (\A k \in 0..15 : r[k] = Or(k)) <=> Masked(r, b, m)
  BY <1>4, <1>5 DEF Masked
<1> QED
  BY <1>6 DEF Or

\* Bit x of the number of a field is bit Last(f) - x of the id.
LEMMA FieldBit ==
  ASSUME NEW f \in Fields, NEW x \in 0..(Width(f) - 1)
  PROVE  /\ Last(f) - x \in Start(f)..Last(f)
         /\ Last(f) - x \in 0..127
         /\ Last(f) - (Last(f) - x) = x
<1> DEFINE s == Start(f)
           w == Width(f)
           l == Last(f)
<1>1. s \in 6..127 /\ w \in 1..54 /\ l \in 6..127 /\ l = s + w - 1
  BY Layout
<1>2. x \in 0..(w - 1)
  OBVIOUS
<1> HIDE DEF s, w, l
<1>3. l - x \in s..l /\ l - x \in 0..127 /\ l - (l - x) = x
  BY <1>1, <1>2
<1> QED
  BY <1>3 DEF s, w, l

\* The bits of a field are bits of an id, past the version.
LEMMA FieldRange ==
  ASSUME NEW f \in Fields, NEW n \in Start(f)..Last(f)
  PROVE  n \in 6..127 /\ n \in 0..127 /\ Last(f) - n \in 0..(Width(f) - 1)
<1> DEFINE s == Start(f)
           w == Width(f)
           l == Last(f)
<1>1. s \in 6..127 /\ w \in 1..54 /\ l \in 6..127 /\ l = s + w - 1
  BY Layout
<1>2. n \in s..l
  OBVIOUS
<1> HIDE DEF s, w, l
<1>3. n \in 6..127 /\ n \in 0..127 /\ l - n \in 0..(w - 1)
  BY <1>1, <1>2
<1> QED
  BY <1>3 DEF s, w, l

\* The numbers of the fields fit in their widths.
Fit(num) == \A f \in Fields : num[f] \in SUBSET (0..(Width(f) - 1))

\* The numbers rnum are num with the fields of m replaced by their wildcards.
MaskedNum(rnum, num, m) ==
  \A f \in Fields :
    rnum[f] = num[f] \cup (IF f \in m THEN 0..(Width(f) - 1) ELSE {})

\* An id is another one, masked, exactly if its numbers are.
LEMMA MaskedNumbers ==
  ASSUME NEW b, NEW r, NEW ve \in SUBSET (0..5), NEW num, NEW rnum,
         Holds(b, {}, num), Holds(r, ve, rnum), Fit(num), Fit(rnum),
         NEW m \in SUBSET Fields
  PROVE  Masked(r, b, m) <=> ve = {} /\ MaskedNum(rnum, num, m)
<1>b. /\ \A n \in 0..5 : ~At(b, n)
      /\ \A f \in Fields : \A n \in Start(f)..Last(f) :
           At(b, n) <=> Last(f) - n \in num[f]
  BY HeldBits
<1>r. /\ \A n \in 0..5 : At(r, n) <=> 5 - n \in ve
      /\ \A f \in Fields : \A n \in Start(f)..Last(f) :
           At(r, n) <=> Last(f) - n \in rnum[f]
  BY HeldBits
<1>1. ASSUME Masked(r, b, m) PROVE ve = {}
  <2> SUFFICES ASSUME NEW x \in ve PROVE FALSE
    OBVIOUS
  <2>1. 5 - x \in 0..5 /\ 5 - x \in 0..127 /\ 5 - (5 - x) = x
    OBVIOUS
  <2>2. \A f \in m : 5 - x \notin Start(f)..Last(f)
    BY <2>1, FieldRange
  <2>3. ~At(r, 5 - x)
    BY <1>1, <1>b, <2>1, <2>2, Zenon DEF Masked
  <2> QED
    BY <1>r, <2>1, <2>3
<1>2. ASSUME Masked(r, b, m), NEW f \in Fields
      PROVE  rnum[f] = num[f] \cup (IF f \in m THEN 0..(Width(f) - 1) ELSE {})
  <2>1. ASSUME NEW x \in 0..(Width(f) - 1)
        PROVE  x \in rnum[f] <=> x \in num[f] \/ f \in m
    <3> DEFINE n == Last(f) - x
    <3>1. n \in Start(f)..Last(f) /\ n \in 0..127 /\ Last(f) - n = x
      BY FieldBit
    <3> HIDE DEF n
    <3>2. At(b, n) <=> x \in num[f]
      BY <1>b, <3>1, Zenon
    <3>3. At(r, n) <=> x \in rnum[f]
      BY <1>r, <3>1, Zenon
    <3>4. (\E g \in m : n \in Start(g)..Last(g)) <=> f \in m
      BY <3>1, LayoutOnce, Zenon
    <3> QED
      BY <1>2, <3>1, <3>2, <3>3, <3>4, Zenon DEF Masked
  <2>2. num[f] \subseteq 0..(Width(f) - 1) /\ rnum[f] \subseteq 0..(Width(f) - 1)
    BY DEF Fit
  <2>3. CASE f \in m
    BY <2>1, <2>2, <2>3, Zenon
  <2>4. CASE f \notin m
    BY <2>1, <2>2, <2>4, Zenon
  <2> QED
    BY <2>3, <2>4
<1>3. ASSUME ve = {}, NEW n \in 0..127,
             \A f \in Fields :
               rnum[f] = num[f] \cup (IF f \in m THEN 0..(Width(f) - 1) ELSE {})
      PROVE  At(r, n) <=> At(b, n) \/ \E f \in m : n \in Start(f)..Last(f)
  <2>1. CASE n \in 0..5
    <3>1. \A f \in m : n \notin Start(f)..Last(f)
      BY <2>1, FieldRange
    <3> QED
      BY <1>3, <1>b, <1>r, <2>1, <3>1, Zenon
  <2>2. ASSUME NEW f \in Fields, n \in Start(f)..Last(f)
        PROVE  At(r, n) <=> At(b, n) \/ \E g \in m : n \in Start(g)..Last(g)
    <3>1. Last(f) - n \in 0..(Width(f) - 1)
      BY <2>2, FieldRange
    <3>2. Last(f) - n \in rnum[f] <=> Last(f) - n \in num[f] \/ f \in m
      <4>1. CASE f \in m
        BY <1>3, <3>1, <4>1, Zenon
      <4>2. CASE f \notin m
        BY <1>3, <3>1, <4>2, Zenon
      <4> QED
        BY <4>1, <4>2
    <3>3. (\E g \in m : n \in Start(g)..Last(g)) <=> f \in m
      BY <2>2, LayoutOnce, Zenon
    <3>4. (At(b, n) <=> Last(f) - n \in num[f]) /\ (At(r, n) <=> Last(f) - n \in rnum[f])
      BY <1>b, <1>r, <2>2, Zenon
    <3> QED
      BY <3>2, <3>3, <3>4, Zenon
  <2> QED
    BY <2>1, <2>2, LayoutCovers
<1> QED
  BY <1>1, <1>2, <1>3, Zenon DEF Masked, MaskedNum

\* A field is in another exactly if its number is in that of the other: the
\* number loses no bit of the field.
LEMMA NumberOrder ==
  ASSUME NEW f \in Fields, NEW u \in FieldValue, NEW v \in FieldValue
  PROVE  Number(f, u) \subseteq Number(f, v) <=> u \subseteq v
<1>1. ASSUME Number(f, u) \subseteq Number(f, v), NEW x \in u
      PROVE  x \in v
  <2>1. PICK k \in 0..6 : Block(k) = x
    BY BlockAssumption DEF FieldValue
  <2>2. k \in 0..(Width(f) - 1)
    BY DEF Width
  <2> QED
    BY <1>1, <2>1, <2>2 DEF Number
<1> QED
  BY <1>1 DEF Number

\* A wildcard is all the bits of its number.
LEMMA NumberAny ==
  ASSUME NEW f \in Fields
  PROVE  Number(f, ANY) = 0..(Width(f) - 1)
<1>1. \A k \in 0..(Width(f) - 1) : k \in 0..53
  BY DEF Width
<1> QED
  BY <1>1, BlockAssumption DEF Number, ANY

\* The router finds the request under one of the 16 masked keys exactly if the
\* versions are equal and the fields of the request are those of a key.
LEMMA FoundByFields ==
  ASSUME PackInv
  PROVE  FoundBytes(bytes, id) <=> ver = {} /\ req \in Lookups(sid)
<1>0. /\ sid \in StreamIds /\ req \in StreamIds /\ ver \in SUBSET (0..5)
      /\ Holds(id, ver, NumbersOf(req)) /\ Holds(bytes, {}, NumbersOf(sid))
      /\ id \in Bytes /\ bytes \in Bytes
  BY DEF PackInv, IdsInv, Holds
<1>1. Fit(NumbersOf(req)) /\ Fit(NumbersOf(sid))
  BY NumberFits DEF Fit
<1>2. ASSUME NEW m \in SUBSET Fields, NEW f \in Fields
      PROVE  NumbersOf(req)[f] =
               NumbersOf(sid)[f] \cup (IF f \in m THEN 0..(Width(f) - 1) ELSE {})
               <=> req[f] = ApplyMask(sid, m)[f]
  <2> DEFINE x == sid[f] \cup (IF f \in m THEN ANY ELSE {})
  <2>1. x \in FieldValue /\ req[f] \in FieldValue
    BY <1>0 DEF StreamIds, FieldValue, ANY
  <2>2. Number(f, x) = Number(f, sid[f]) \cup (IF f \in m THEN 0..(Width(f) - 1) ELSE {})
    <3>1. CASE f \in m
      <4>1. Number(f, x) = Number(f, sid[f]) \cup Number(f, ANY)
        BY <3>1 DEF Number
      <4> QED
        BY <3>1, <4>1, NumberAny, Zenon
    <3>2. CASE f \notin m
      <4>1. x = sid[f]
        BY <3>2
      <4> QED
        BY <3>2, <4>1
    <3> QED
      BY <3>1, <3>2, Zenon
  <2>3. ApplyMask(sid, m)[f] = x
    BY DEF ApplyMask
  <2> HIDE DEF x
  <2>4. Number(f, req[f]) = Number(f, x) <=> req[f] = x
    BY <2>1, NumberOrder
  <2> QED
    BY <2>2, <2>3, <2>4, NumberFits
<1>3. ASSUME NEW m \in SUBSET Fields
      PROVE  Masked(id, bytes, m) <=> ver = {} /\ req = ApplyMask(sid, m)
  <2>1. (\A f \in Fields : req[f] = ApplyMask(sid, m)[f]) <=> req = ApplyMask(sid, m)
    BY <1>0 DEF ApplyMask, StreamIds
  <2>2. Masked(id, bytes, m) <=> ver = {} /\ MaskedNum(NumbersOf(req), NumbersOf(sid), m)
    <3>1. /\ ver \in SUBSET (0..5) /\ m \in SUBSET Fields
          /\ Holds(bytes, {}, NumbersOf(sid)) /\ Holds(id, ver, NumbersOf(req))
          /\ Fit(NumbersOf(sid)) /\ Fit(NumbersOf(req))
      BY <1>0, <1>1, Zenon
    <3> QED
      BY <3>1, MaskedNumbers, Zenon
  <2> QED
    BY <1>2, <2>1, <2>2, Zenon DEF MaskedNum
<1>4. ASSUME NEW i \in 1..NumReqLookups
      PROVE  /\ LookupMask[i] \in SUBSET Fields
             /\ (\A k \in 0..15 :
                   id[k] = bytes[k] \cup UNION {MaskByte(f, k) : f \in LookupMask[i]})
                <=> ver = {} /\ req = LookupKey(sid, i)
  <2>1. LookupMask[i] \in SUBSET Fields
    BY DEF LookupMask, NumReqLookups, Fields
  <2> DEFINE m == LookupMask[i]
  <2> HIDE DEF m
  <2>2. (\A k \in 0..15 : id[k] = bytes[k] \cup UNION {MaskByte(f, k) : f \in m})
           <=> Masked(id, bytes, m)
    BY <1>0, <2>1, MaskedBytes DEF m
  <2>3. Masked(id, bytes, m) <=> ver = {} /\ req = ApplyMask(sid, m)
    BY <1>3, <2>1 DEF m
  <2> QED
    BY <2>1, <2>2, <2>3, Zenon DEF m, LookupKey
<1> QED
  BY <1>4, Zenon DEF FoundBytes, Lookups

\* The bytes of an id are in those of another exactly if the bits are.
LEMMA MatchedBits ==
  ASSUME NEW b \in Bytes, NEW r \in Bytes
  PROVE  BytesMatch(b, r) <=> \A n \in 0..127 : At(b, n) => At(r, n)
<1>1. ASSUME BytesMatch(b, r), NEW n \in 0..127, At(b, n)
      PROVE  At(r, n)
  <2>1. PICK k \in 0..15, j \in 0..7 : n \div 8 = k /\ 7 - (n % 8) = j
    BY Places
  <2>2. j \in b[k]
    BY <1>1, <2>1, Zenon DEF At
  <2>3. j \in r[k]
    BY <1>1, <2>2, Zenon DEF BytesMatch
  <2> QED
    BY <2>1, <2>3, Zenon DEF At
<1>2. ASSUME \A n \in 0..127 : At(b, n) => At(r, n), NEW k \in 0..15
      PROVE  b[k] \cap r[k] = b[k]
  <2>1. b[k] \subseteq 0..7
    BY DEF Bytes
  <2>2. ASSUME NEW j \in b[k] PROVE j \in r[k]
    <3>0. j \in 0..7
      BY <2>1
    <3>1. 8 * k + 7 - j \in 0..127
      BY <3>0, BitsOfByte
    <3>2. At(b, 8 * k + 7 - j) /\ (At(r, 8 * k + 7 - j) <=> j \in r[k])
      BY <3>0, BitsOfByte DEF At
    <3> QED
      BY <1>2, <3>1, <3>2, Zenon
  <2> QED
    BY <2>2
<1> QED
  BY <1>1, <1>2, Zenon DEF BytesMatch

\* The bits of an id are in those of another exactly if its numbers are in the
\* numbers of the other.
LEMMA MatchedNumbers ==
  ASSUME NEW b, NEW r, NEW ve, NEW num, NEW rnum,
         Holds(b, {}, num), Holds(r, ve, rnum), Fit(num)
  PROVE  (\A n \in 0..127 : At(b, n) => At(r, n))
           <=> \A f \in Fields : num[f] \subseteq rnum[f]
<1>b. /\ \A n \in 0..5 : ~At(b, n)
      /\ \A f \in Fields : \A n \in Start(f)..Last(f) :
           At(b, n) <=> Last(f) - n \in num[f]
  BY HeldBits
<1>r. \A f \in Fields : \A n \in Start(f)..Last(f) :
        At(r, n) <=> Last(f) - n \in rnum[f]
  BY HeldBits
<1>1. ASSUME \A n \in 0..127 : At(b, n) => At(r, n), NEW f \in Fields, NEW x \in num[f]
      PROVE  x \in rnum[f]
  <2>0. x \in 0..(Width(f) - 1)
    BY DEF Fit
  <2> DEFINE n == Last(f) - x
  <2>1. n \in Start(f)..Last(f) /\ n \in 0..127 /\ Last(f) - n = x
    BY <2>0, FieldBit
  <2> HIDE DEF n
  <2>2. At(b, n)
    BY <1>b, <2>1, Zenon
  <2>3. At(r, n)
    BY <1>1, <2>1, <2>2, Zenon
  <2> QED
    BY <1>r, <2>1, <2>3, Zenon
<1>2. ASSUME \A f \in Fields : num[f] \subseteq rnum[f], NEW n \in 0..127, At(b, n)
      PROVE  At(r, n)
  <2>1. PICK f \in Fields : n \in Start(f)..Last(f)
    BY <1>b, <1>2, LayoutCovers, Zenon
  <2>2. Last(f) - n \in num[f]
    BY <1>b, <1>2, <2>1, Zenon
  <2>3. Last(f) - n \in rnum[f]
    BY <1>2, <2>2, Zenon
  <2> QED
    BY <1>r, <2>1, <2>3, Zenon
<1> QED
  BY <1>1, <1>2, Zenon

\* jrtc_router_stream_id_matches_req compares whole bytes, and answers as the
\* comparison of the fields does.
LEMMA MatchedByFields ==
  ASSUME PackInv
  PROVE  BytesMatch(bytes, id) <=> MatchesReq(sid, req)
<1>0. /\ sid \in StreamIds /\ req \in StreamIds
      /\ Holds(id, ver, NumbersOf(req)) /\ Holds(bytes, {}, NumbersOf(sid))
      /\ id \in Bytes /\ bytes \in Bytes
  BY DEF PackInv, IdsInv, Holds
<1>1. Fit(NumbersOf(sid))
  BY NumberFits DEF Fit
<1>2. BytesMatch(bytes, id) <=> \A n \in 0..127 : At(bytes, n) => At(id, n)
  BY <1>0, MatchedBits
<1>3. (\A n \in 0..127 : At(bytes, n) => At(id, n))
        <=> \A f \in Fields : NumbersOf(sid)[f] \subseteq NumbersOf(req)[f]
  BY <1>0, <1>1, MatchedNumbers, Zenon
<1>4. ASSUME NEW f \in Fields
      PROVE  NumbersOf(sid)[f] \subseteq NumbersOf(req)[f] <=> sid[f] \cap req[f] = sid[f]
  <2>1. sid[f] \in FieldValue /\ req[f] \in FieldValue
    BY <1>0 DEF StreamIds
  <2>2. Number(f, sid[f]) \subseteq Number(f, req[f]) <=> sid[f] \subseteq req[f]
    BY <2>1, NumberOrder
  <2>3. NumbersOf(sid)[f] = Number(f, sid[f]) /\ NumbersOf(req)[f] = Number(f, req[f])
    BY NumberFits
  <2> QED
    BY <2>2, <2>3
<1> QED
  BY <1>2, <1>3, <1>4, Zenon DEF MatchesReq

\* What the router decides on the bytes of two ids, the 16 lookups under masked
\* keys and the comparison of the dispatcher, is what the fields they were made
\* from decide, for fields of any width and setters in any order: a request is
\* found exactly if its version is 0 and each field is equal or the wildcard.
THEOREM BytesRouteFields == PackSpec => []BytesRoute
<1>1. PackInv => BytesRoute
  <2> SUFFICES ASSUME PackInv PROVE BytesRoute
    OBVIOUS
  <2>1. req \in Lookups(sid) <=> \A f \in Fields : req[f] \in {sid[f], ANY}
    BY LookupsAreExactOrAny, Zenon DEF PackInv, IdsInv
  <2> QED
    BY <2>1, FoundByFields, MatchedByFields, Zenon DEF BytesRoute
<1> QED
  BY <1>1, PackInvariant, PTL

\* The fields of any two ids, every value of their 128 bits included, decide
\* what the router and the dispatcher do with them: one of the 16 lookups finds
\* the request exactly if each field of it is that of the id or the wildcard,
\* and the comparison of the bytes is that of the fields.
THEOREM BytesDecide ==
  ASSUME NEW b \in Bytes, NEW r \in Bytes, Laid(b, 0, 6) = {}
  PROVE  /\ FoundBytes(b, r) <=>
              /\ Laid(r, 0, 6) = {}
              /\ \A f \in Fields : Laid(r, Start(f), Width(f))
                                     \in {Laid(b, Start(f), Width(f)), 0..(Width(f) - 1)}
         /\ BytesMatch(b, r) <=>
              \A f \in Fields :
                Laid(b, Start(f), Width(f)) \subseteq Laid(r, Start(f), Width(f))
<1> DEFINE num == [f \in Fields |-> Laid(b, Start(f), Width(f))]
           rnum == [f \in Fields |-> Laid(r, Start(f), Width(f))]
           ve == Laid(r, 0, 6)
<1>1. ve \in SUBSET (0..5)
  BY DEF Laid
<1>2. Holds(b, {}, num) /\ Holds(r, ve, rnum)
  BY DEF Holds
<1>3. Fit(num) /\ Fit(rnum)
  BY DEF Fit, Laid
<1>4. \A f \in Fields : /\ num[f] = Laid(b, Start(f), Width(f))
                        /\ rnum[f] = Laid(r, Start(f), Width(f))
  OBVIOUS
<1> HIDE DEF num, rnum, ve
<1>5. ASSUME NEW m \in SUBSET Fields
      PROVE  (\A k \in 0..15 : r[k] = b[k] \cup UNION {MaskByte(f, k) : f \in m})
               <=> ve = {} /\ MaskedNum(rnum, num, m)
  <2>1. Masked(r, b, m) <=> ve = {} /\ MaskedNum(rnum, num, m)
    BY <1>1, <1>2, <1>3, MaskedNumbers, Zenon
  <2> QED
    BY <2>1, MaskedBytes
<1>6. FoundBytes(b, r) <=> ve = {} /\ \A f \in Fields : rnum[f] \in {num[f], 0..(Width(f) - 1)}
  <2>1. ASSUME FoundBytes(b, r), NEW f \in Fields
        PROVE  ve = {} /\ rnum[f] \in {num[f], 0..(Width(f) - 1)}
    <3>1. PICK i \in 1..NumReqLookups : \A k \in 0..15 :
            r[k] = b[k] \cup UNION {MaskByte(g, k) : g \in LookupMask[i]}
      BY <2>1, Zenon DEF FoundBytes
    <3> DEFINE m == LookupMask[i]
    <3>2. m \in SUBSET Fields
      BY DEF LookupMask, NumReqLookups, Fields
    <3> HIDE DEF m
    <3>3. ve = {} /\ MaskedNum(rnum, num, m)
      BY <1>5, <3>1, <3>2, Zenon DEF m
    <3>4. num[f] \subseteq 0..(Width(f) - 1)
      BY <1>3 DEF Fit
    <3>5. rnum[f] = num[f] \cup (IF f \in m THEN 0..(Width(f) - 1) ELSE {})
      BY <3>3, Zenon DEF MaskedNum
    <3>6. rnum[f] \in {num[f], 0..(Width(f) - 1)}
      <4>1. CASE f \in m
        BY <3>4, <3>5, <4>1, Zenon
      <4>2. CASE f \notin m
        BY <3>5, <4>2, Zenon
      <4> QED
        BY <4>1, <4>2
    <3> QED
      BY <3>3, <3>6
  <2>2. ASSUME ve = {}, \A f \in Fields : rnum[f] \in {num[f], 0..(Width(f) - 1)}
        PROVE  FoundBytes(b, r)
    <3> DEFINE m == {f \in Fields : rnum[f] # num[f]}
    <3>1. PICK i \in 1..NumReqLookups : LookupMask[i] = m
      BY MasksCover, Zenon
    <3>2. ASSUME NEW f \in Fields
          PROVE  rnum[f] = num[f] \cup (IF f \in m THEN 0..(Width(f) - 1) ELSE {})
      <4>0. num[f] \subseteq 0..(Width(f) - 1)
        BY <1>3 DEF Fit
      <4>1. CASE f \in m
        BY <2>2, <4>0, <4>1, Zenon
      <4>2. CASE f \notin m
        BY <4>2, Zenon
      <4> QED
        BY <4>1, <4>2
    <3>3. m \in SUBSET Fields
      OBVIOUS
    <3> HIDE DEF m
    <3>4. \A k \in 0..15 : r[k] = b[k] \cup UNION {MaskByte(f, k) : f \in m}
      BY <1>5, <2>2, <3>2, <3>3, Zenon DEF MaskedNum
    <3> QED
      BY <3>1, <3>4, Zenon DEF FoundBytes
  <2>3. \E f \in Fields : TRUE
    BY DEF Fields
  <2> QED
    BY <2>1, <2>2, <2>3, Zenon
<1>7. BytesMatch(b, r) <=> \A f \in Fields : num[f] \subseteq rnum[f]
  <2>1. (\A n \in 0..127 : At(b, n) => At(r, n)) <=> \A f \in Fields : num[f] \subseteq rnum[f]
    BY <1>2, <1>3, MatchedNumbers, Zenon
  <2> QED
    BY <2>1, MatchedBits
<1> QED
  BY <1>4, <1>6, <1>7, Zenon DEF ve
=============================================================================

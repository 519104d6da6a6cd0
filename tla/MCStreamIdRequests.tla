------------------------- MODULE MCStreamIdRequests -------------------------
(***************************************************************************)
(* Two bits per field: each field has zero, two exact values and ANY.      *)
(* With three bits the or of two destinations is not ANY.                  *)
(***************************************************************************)
EXTENDS StreamIdPacking

MCBit == {0, 1}
MCBlock(k) == ((k * k) \div 7) % 2
MCHashFn == {1}

MCThreeBits == {0, 1, 2}
MCThreeBlock(k) == k % 3
=============================================================================

------------------------------- MODULE BigInt -------------------------------
(***************************************************************************)
(* common/bigint: the helper that bounds a range of block heights.  Heights *)
(* are big integers, the size of a range is a machine word.                 *)
(***************************************************************************)
EXTENDS Integers

CONSTANT WordSize  \* values of a uint64: 2^64 in the code, a small word in the runs

ASSUME WordAssumption == WordSize \in Nat \ {0} /\ WordSize % 2 = 0

(* big.Int.Uint64: the low word of the absolute value. *)
Uint64(x) == (IF x < 0 THEN -x ELSE x) % WordSize

(* The conversion int64(u) of a word u, two's complement. *)
Int64(u) == IF 2 * u >= WordSize THEN u - WordSize ELSE u

(* The last height of the range that starts at `start`, ends at `end` at the
   latest and holds at most `size` heights. *)
Clamp(start, end, size) ==
  LET count == (Uint64(end - start) + 1) % WordSize
  IN  IF count <= size THEN end ELSE start + Int64((size - 1) % WordSize)
=============================================================================

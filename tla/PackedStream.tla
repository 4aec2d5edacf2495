----------------------------- MODULE PackedStream ------------------------------
(***************************************************************************)
(* Elements of `width` bits packed into bytes without gaps, lowest bit     *)
(* first: the format that src/src/ser.rs and both backends' ser.rs read    *)
(* and write.  Bit k of element i is bit i * width + k of the stream, and  *)
(* bit k of byte n is bit 8 * n + k.                                       *)
(***************************************************************************)
EXTENDS BitWords

CONSTANTS N,       \* elements
          Widths   \* bits per element, the BITS_PER_ELEM in use

ASSUME WidthAssumption ==
  /\ N \in Nat
  /\ Widths \subseteq 1..13
  /\ \A w \in Widths : (w * N) % 8 = 0

VARIABLE width     \* BITS_PER_ELEM

NumBytes(w) == (w * N) \div 8

\* bytes[n]: eight consecutive stream bits; outside the slice there are none.
Byte(n) ==
  [k \in 0..7 |-> IF n \in 0..(NumBytes(width) - 1) THEN 8 * n + k ELSE Clash]
=============================================================================

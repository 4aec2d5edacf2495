--------------------------------- MODULE MCCbd --------------------------------
(***************************************************************************)
(* Every width that the deserializers' plan tables cover, by itself; and,  *)
(* for the samplers, ring elements of full size, in enough buffers that    *)
(* each position of a byte group takes every value of its field, next to   *)
(* neighbours of other values.                                             *)
(***************************************************************************)
EXTENDS Cbd

\* Buffer s of mu bits per field: position c % 4 runs through N \div 4
\* consecutive values, each position from another place.
FieldOf(m, s, c) == (s * (N \div 4) + c \div 4 + (c % 4) * 85) % 2^m

BufferOf(m, s) ==
  [j \in 0..((N * m) \div 8 - 1) |->
     LET bit(k) == LET p == 8 * j + k
                   IN  ((FieldOf(m, s, p \div m) \div 2^(p % m)) % 2) * 2^k
     IN  bit(0) + bit(1) + bit(2) + bit(3) + bit(4) + bit(5) + bit(6) + bit(7)]

MCInputs ==
  UNION {{[mu |-> m, bytes |-> BufferOf(m, s)] : s \in 0..(2^m \div (N \div 4) - 1)} :
           m \in {6, 8, 10}}
=============================================================================

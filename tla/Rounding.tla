------------------------------- MODULE Rounding -------------------------------
(***************************************************************************)
(* The coefficient-wise roundings of Kopis, on wrapping 16-bit words: q is *)
(* 2^13, p is 2^10, a ciphertext coefficient has T bits.  Used by modules  *)
(* InnerProduct and Pke.  src/src/pke.rs, with the word operations of      *)
(* src/src/arithmetic/plain_arith.rs.                                      *)
(***************************************************************************)
EXTENDS Integers

U16(x) == x % 65536

\* Coefficients of 13 and of 10 bits.
Bits13 == 0..8191
Bits10 == 0..1023

\* 2^T for the three parameter sets, and the weight 2^(10-T) of one unit of a
\* T-bit coefficient.
Ts == {3, 4, 6}
Levels(T) == CASE T = 3 -> 8 [] T = 4 -> 16 [] T = 6 -> 64
Weight(T) == CASE T = 3 -> 128 [] T = 4 -> 64 [] T = 6 -> 16

H1 == 4

\* Mutant of H2: the rounding of the ciphertext is not compensated.
H2Uncompensated(T) == 256 + 4

H2(T) == 256 - (Weight(T) \div 2) + 4

\* Serialisation at 10 bits masks what shift_right left above the tenth bit.
Pack10(x) == x % 1024

\* wrapping_add_to_all(H1), shift_right(13 - 10): 13 bits may remain.
Compress(x) == U16(x + H1) \div 8

\* Mutant of EncodeCoeff: serialised without the mask.
EncodeUnmasked(T, v, m) == U16(v - 512 * m + H1) \div Weight(T)

\* One coefficient of the ciphertext's second part, from v' and a message bit.
EncodeCoeff(T, v, m) == (U16(v - 512 * m + H1) \div Weight(T)) % Levels(T)

\* The message bit decryption reads from v and a ciphertext coefficient.
DecodeCoeff(T, v, c) == (U16(v - U16(c * Weight(T)) + H2(T)) \div 512) % 2

\* The largest |v - v'| that decryption tolerates whatever is rounded away.
Margin(T) == 256 - (Weight(T) \div 2)
=============================================================================

----------------------------- MODULE InnerProduct -----------------------------
(***************************************************************************)
(* One coefficient of the inner product v' = b . s' that encryption        *)
(* computes (src/src/pke.rs:237), for the two forms in which a public key  *)
(* holds b: the key's owner transforms the shifted but unmasked product,   *)
(* up to 13 bits (pke.rs:159-167), everybody else the 10 bits that were    *)
(* serialised (pke.rs:69-70).                                              *)
(*                                                                         *)
(* The code works modulo two primes and lifts the pair of residues to the  *)
(* integer in the centred range (arithmetic/ntt_crt.rs:394-427).  Here     *)
(* each step adds one term of the sum to the residues; that the transforms *)
(* are ring isomorphisms, so that residues of a coefficient are residues   *)
(* of its sum of products, is this module's abstraction.  The last step    *)
(* lifts them as the code does, next to the coefficients that share their  *)
(* vector.                                                                 *)
(***************************************************************************)
EXTENDS Rounding, Lanes

CONSTANTS Terms,   \* products per coefficient: the rank l times the degree 256
          MaxSecret,  \* mu/2, the largest magnitude of a secret coefficient
          Inputs   \* the operand lists considered: terms <<b, s>>

Q1InvModQ2 == 5380     \* CRT_Q1_INV_MONT out of Montgomery form

Operands == Bits13 \X (-MaxSecret..MaxSecret)

ASSUME InputsAssumption ==
  /\ Terms \in Nat
  /\ MaxSecret \in Nat
  /\ Inputs \subseteq [1..Terms -> Operands]

\* The compile-time assertion of impls.rs:31-35: of the instance checked, and of
\* the three parameter sets, so that what is proved here holds for each of them.
ASSUME ExactnessAssumption == Terms * (8191 * MaxSecret) <= CrtQHalf

Variants == {[l |-> 2, mu |-> 10, T |-> 3], [l |-> 3, mu |-> 8, T |-> 4], [l |-> 4, mu |-> 6, T |-> 6]}

ASSUME VariantsAssumption ==
  /\ \A v \in Variants : v.l * 256 * (8191 * (v.mu \div 2)) <= CrtQHalf
  /\ Ts = {v.T : v \in Variants}

VARIABLES input,           \* the operands, fixed when the product starts
          done,            \* terms accumulated so far
          wide1, wide2,    \* residues for the owner's form of b
          narrow1, narrow2,\* residues for the imported form of b
          wideSum,         \* history: the integer sum for the owner's form,
          narrowSum,       \* and for the imported form
          out,             \* the vector of words of one lift
          lane             \* the lane of it that holds the owner's form

residues == <<wide1, wide2, narrow1, narrow2>>
productVars == <<input, done, residues, wideSum, narrowSum, out, lane>>
-----------------------------------------------------------------------------
\* Mutant of Centre: residues taken in [0, Q1*Q2).
CentreNone(x) == x

\* The representative in the centred range of a residue modulo Q1*Q2.
Centre(x) == IF x > CrtQHalf THEN x - CrtQ ELSE x

\* The integer in [0, Q1*Q2) with the given residues.
Garner(a1, a2) == a1 + Q1 * (((a2 - a1) * Q1InvModQ2) % Q2)

\* The wrapping 16-bit coefficient that reduce_invntt returns.
Lift(a1, a2) == U16(Centre(Garner(a1, a2)))

Owner(t) == t[1] * t[2]

Imported(t) == Pack10(t[1]) * t[2]
-----------------------------------------------------------------------------
ProductInit ==
  /\ input \in Inputs
  /\ done = 0
  /\ wide1 = 0 /\ wide2 = 0
  /\ narrow1 = 0 /\ narrow2 = 0
  /\ wideSum = 0 /\ narrowSum = 0
  /\ out = <<>>
  /\ lane = 0

\* One more product is added to both residues, for either form of b.
Accumulate ==
  /\ done < Terms
  /\ done' = done + 1
  /\ wide1' = (wide1 + Owner(input[done'])) % Q1
  /\ wide2' = (wide2 + Owner(input[done'])) % Q2
  /\ narrow1' = (narrow1 + Imported(input[done'])) % Q1
  /\ narrow2' = (narrow2 + Imported(input[done'])) % Q2
  /\ wideSum' = wideSum + Owner(input[done'])
  /\ narrowSum' = narrowSum + Imported(input[done'])
  /\ UNCHANGED <<input, out, lane>>

\* How many coefficients a backend lifts at once, and the lift.
Width(backend) == CASE backend = "portable" -> 1 [] backend = "avx2" -> 16 [] backend = "neon" -> 8
Crt(backend, r1, r2) ==
  CASE backend = "portable" -> [k \in {0} |-> PortableCrt(r1[k], r2[k])]
    [] backend = "avx2" -> Avx2Crt(r1, r2)
    [] backend = "neon" -> NeonCrt(r1, r2)

\* What a transform back may leave for a residue (NttProofs, CanonicalHolds).
Representatives(a, q) == {r \in {a, a - q} : -q < r}

\* The lift of a vector: the owner's form of the coefficient in one lane, the
\* imported form in the others.
Reduce ==
  /\ done = Terms
  /\ out = <<>>
  /\ \E backend \in {"portable", "avx2", "neon"} :
       \E l \in 0..(Width(backend) - 1) :
         \E w1 \in Representatives(wide1, Q1), w2 \in Representatives(wide2, Q2),
            n1 \in Representatives(narrow1, Q1), n2 \in Representatives(narrow2, Q2) :
           LET vector(w, n) == [k \in 0..(Width(backend) - 1) |-> IF k = l THEN w ELSE n]
           IN  /\ lane' = l
               /\ out' = Crt(backend, vector(w1, n1), vector(w2, n2))
  /\ UNCHANGED <<input, done, residues, wideSum, narrowSum>>

ProductNext == Accumulate \/ Reduce

ProductSpec == ProductInit /\ [][ProductNext]_productVars
-----------------------------------------------------------------------------
ProductTypeOK ==
  /\ input \in Inputs
  /\ done \in 0..Terms
  /\ wide1 \in 0..(Q1 - 1) /\ narrow1 \in 0..(Q1 - 1)
  /\ wide2 \in 0..(Q2 - 1) /\ narrow2 \in 0..(Q2 - 1)
  /\ wideSum \in Int /\ narrowSum \in Int

\* Each residue is that of the integer sum, which stays within what the terms
\* so far allow; the two sums differ by a multiple of 2^10.
Congruent ==
  /\ wideSum % Q1 = wide1 /\ wideSum % Q2 = wide2
  /\ narrowSum % Q1 = narrow1 /\ narrowSum % Q2 = narrow2

Within(x) == -(done * (8191 * MaxSecret)) <= x /\ x <= done * (8191 * MaxSecret)

ProductIInv ==
  /\ ProductTypeOK
  /\ Congruent
  /\ Within(wideSum) /\ Within(narrowSum)
  /\ (wideSum - narrowSum) % 1024 = 0
  /\ out # <<>> => done = Terms

\* The word reduce_invntt returns is the integer sum modulo 2^16: the two
\* primes never wrap it, for either form (arithmetic/ntt_arith.rs:8-21).
Exact ==
  /\ Lift(wide1, wide2) = U16(wideSum)
  /\ Lift(narrow1, narrow2) = U16(narrowSum)

\* Each backend's lift returns that word, in every lane, whichever of its two
\* representatives the transform back left for a residue and whatever the other
\* lanes of the vector hold.
Lifted ==
  \A l \in DOMAIN out : out[l] = U16(IF l = lane THEN wideSum ELSE narrowSum)

\* The ciphertext coefficient does not depend on which form of the public key
\* encryption used, though the inner products differ: what decapsulation
\* compares its re-encryption with was made from the other form (kem.rs:161-170).
FormsAgree ==
  \A T \in Ts, m \in {0, 1} :
    EncodeCoeff(T, Lift(wide1, wide2), m) = EncodeCoeff(T, Lift(narrow1, narrow2), m)
=============================================================================

------------------------------- MODULE PkeProofs -------------------------------
(***************************************************************************)
(* The arithmetic of the scheme, for every size of its parameters.         *)
(*                                                                         *)
(* First module InnerProduct: the inner product is exact, every backend    *)
(* lifts it alike, and encryption is blind to the form of the public key,  *)
(* for every rank, secret magnitude and operand list that the compile-time *)
(* assertion of impls.rs admits.                                           *)
(*                                                                         *)
(* Then module Pke: what separates the two parties' inner products is the  *)
(* noise their roundings make; where that is tolerable decryption returns  *)
(* what was encrypted, and re-encryption repeats it.  For every degree,    *)
(* rank, matrix and secrets, the code's among them.                        *)
(* Sums and ring products are recursive functions, and what is proved of   *)
(* them is proved by induction over the numbers up to their length.        *)
(***************************************************************************)
EXTENDS InnerProduct, Pke, ArithmeticProofs

\* Q1 and Q2 are coprime: Q1 * Q1InvModQ2 = 1 + 3843 * Q2.
LEMMA Coprime ==
  ASSUME NEW x \in Int, x % Q1 = 0, x % Q2 = 0
  PROVE  x % CrtQ = 0
<1>1. PICK a \in Int : x = 7681 * a
  <2>1. x = 7681 * (x \div 7681) /\ x \div 7681 \in Int
    BY SMT DEF Q1
  <2>2. QED  BY <2>1
<1>2. PICK b \in Int : x = 10753 * b
  <2>1. x = 10753 * (x \div 10753) /\ x \div 10753 \in Int
    BY SMT DEF Q2
  <2>2. QED  BY <2>1
<1> DEFINE k == 5380 * b - 3843 * a
<1>3. k \in Int /\ a = 10753 * k
  BY <1>1, <1>2, SMT
<1>4. x = 82593793 * k
  BY <1>1, <1>3, SMT
<1> HIDE DEF k
<1>5. QED
  BY <1>3, <1>4, SMT DEF CrtQ

\* Garner's number has the two residues it was built from.
LEMMA GarnerResidues ==
  ASSUME NEW a1 \in 0..(Q1 - 1), NEW a2 \in 0..(Q2 - 1)
  PROVE  /\ Garner(a1, a2) \in Int
         /\ 0 <= Garner(a1, a2) /\ Garner(a1, a2) < CrtQ
         /\ Garner(a1, a2) % Q1 = a1
         /\ Garner(a1, a2) % Q2 = a2
<1> DEFINE d == a2 - a1
           t == (d * 5380) % 10753
           n == (d * 5380) \div 10753
           e == 3843 * d - 7681 * n
<1>1. a1 \in Int /\ 0 <= a1 /\ a1 < 7681 /\ a2 \in Int /\ 0 <= a2 /\ a2 < 10753
  BY DEF Q1, Q2
<1>2. d \in Int /\ d = a2 - a1
  BY <1>1
<1>3. Garner(a1, a2) = a1 + 7681 * t
  BY DEF Garner, Q1, Q2, Q1InvModQ2
<1> HIDE DEF d
<1>4. t \in Int /\ 0 <= t /\ t <= 10752 /\ n \in Int
  BY <1>2, SMT
<1>5. d * 5380 = 10753 * n + t
  BY <1>2, SMT
<1> HIDE DEF t, n
<1>6. a1 + 7681 * t \in Int /\ 0 <= a1 + 7681 * t /\ a1 + 7681 * t < CrtQ
  BY <1>1, <1>4, SMT DEF CrtQ
<1>7. (a1 + 7681 * t) % 7681 = a1
  BY <1>1, <1>4, SMT
\* 7681 * 5380 = 1 + 3843 * 10753.
<1>8. a1 + 7681 * t = a2 + 10753 * e /\ e \in Int
  BY <1>1, <1>2, <1>4, <1>5, SMT
<1> HIDE DEF e
<1>9. (a2 + 10753 * e) % 10753 = a2
  BY <1>1, <1>8, SMT
<1>10. QED
  BY <1>3, <1>6, <1>7, <1>8, <1>9, SMT DEF Q1, Q2

\* A sum inside the centred range is recovered from its residues.
LEMMA LiftExact ==
  ASSUME NEW s \in Int, -CrtQHalf <= s, s <= CrtQHalf,
         NEW a1 \in 0..(Q1 - 1), NEW a2 \in 0..(Q2 - 1),
         s % Q1 = a1, s % Q2 = a2
  PROVE  Lift(a1, a2) = U16(s)
<1> DEFINE g == Garner(a1, a2)
<1>1. g \in Int /\ 0 <= g /\ g < CrtQ /\ g % Q1 = a1 /\ g % Q2 = a2
  BY GarnerResidues
<1> HIDE DEF g
<1>2. (g - s) % Q1 = 0
  BY <1>1, SMT DEF Q1
<1>3. (g - s) % Q2 = 0
  BY <1>1, SMT DEF Q2
<1>4. g - s \in Int /\ (g - s) % CrtQ = 0
  BY <1>1, <1>2, <1>3, Coprime
<1>5. CASE s >= 0
  <2>1. g - s < CrtQ /\ -CrtQ < g - s
    BY <1>1, <1>5, SMT DEF CrtQ, CrtQHalf
  <2>2. g = s
    BY <1>1, <1>4, <2>1, SMT DEF CrtQ
  <2>3. Centre(g) = s
    BY <1>1, <2>2, SMT DEF Centre, CrtQHalf
  <2>4. QED
    BY <2>3 DEF Lift, g
<1>6. CASE s < 0
  <2>1. 0 < g - s /\ g - s < 2 * CrtQ
    BY <1>1, <1>6, SMT DEF CrtQ, CrtQHalf
  <2>2. g = s + CrtQ
    BY <1>1, <1>4, <2>1, SMT DEF CrtQ
  <2>3. Centre(g) = s
    BY <1>1, <1>6, <2>2, SMT DEF Centre, CrtQ, CrtQHalf
  <2>4. QED
    BY <2>3 DEF Lift, g
<1>7. QED
  BY <1>5, <1>6, SMT
-----------------------------------------------------------------------------
\* The largest product of a 13-bit word and a secret of magnitude at most h.
LEMMA ProductRange ==
  ASSUME NEW h \in Int, NEW n \in Int, NEW s \in Int,
         0 <= h, 0 <= n, n <= 8191, -h <= s, s <= h
  PROVE  n * s \in Int /\ -(8191 * h) <= n * s /\ n * s <= 8191 * h
<1> DEFINE nh == n * h
           ns == n * s
<1>1. n \in Nat /\ 8191 - n \in Nat /\ h - s \in Nat /\ h + s \in Nat /\ s \in Int
  BY SMT
<1>2. \A x, y \in Nat : x * y \in Nat
  BY SMT
<1>3. n * (h - s) \in Nat /\ n * (h + s) \in Nat /\ (8191 - n) * h \in Nat
  BY <1>1, <1>2
<1>4. n * (h - s) = nh - ns /\ n * (h + s) = nh + ns
      /\ (8191 - n) * h = 8191 * h - nh
  BY <1>1, SMT
<1>5. nh \in Int /\ ns \in Int
  BY <1>1, SMT
<1> HIDE DEF nh, ns
<1>6. nh - ns \in Nat /\ nh + ns \in Nat /\ 8191 * h - nh \in Nat
  BY <1>3, <1>4
<1>7. ns \in Int /\ -(8191 * h) <= ns /\ ns <= 8191 * h
  BY <1>5, <1>6, SMT
<1>8. QED
  BY <1>7 DEF ns

\* What one product adds: bounded, and equal for both forms modulo 2^10.
LEMMA ProductBounds ==
  ASSUME NEW t \in Operands, MaxSecret \in Nat
  PROVE  /\ Owner(t) \in Int /\ Imported(t) \in Int
         /\ -(8191 * MaxSecret) <= Owner(t) /\ Owner(t) <= 8191 * MaxSecret
         /\ -(8191 * MaxSecret) <= Imported(t) /\ Imported(t) <= 8191 * MaxSecret
         /\ (Owner(t) - Imported(t)) % 1024 = 0
<1> DEFINE b == t[1]
           s == t[2]
           r == b % 1024
<1>1. b \in Bits13 /\ s \in (-MaxSecret)..MaxSecret
  BY Zenon DEF Operands
<1>2. Owner(t) = b * s /\ Imported(t) = r * s
  BY DEF Owner, Imported, Pack10
<1> HIDE DEF b, s
<1>3. /\ b \in Int /\ 0 <= b /\ b <= 8191 /\ s \in Int
      /\ -MaxSecret <= s /\ s <= MaxSecret /\ MaxSecret \in Int /\ 0 <= MaxSecret
  BY <1>1 DEF Bits13
<1> DEFINE k == b \div 1024
           ks == k * s
<1>4. r \in Int /\ 0 <= r /\ r <= 8191 /\ k \in Int /\ b = 1024 * k + r
  BY <1>3, SMT
<1> HIDE DEF r, k
<1>5. (b * s - r * s) % 1024 = 0
  <2>1. b * s - r * s = 1024 * ks /\ ks \in Int
    BY <1>3, <1>4, SMT
  <2> HIDE DEF ks
  <2>2. (1024 * ks) % 1024 = 0
    BY <2>1, SMT
  <2>3. QED
    BY <2>1, <2>2
<1>6. b * s \in Int /\ -(8191 * MaxSecret) <= b * s /\ b * s <= 8191 * MaxSecret
  BY <1>3, ProductRange
<1>7. r * s \in Int /\ -(8191 * MaxSecret) <= r * s /\ r * s <= 8191 * MaxSecret
  BY <1>3, <1>4, ProductRange
<1>8. QED
  BY <1>2, <1>5, <1>6, <1>7

\* Multiples of 2^10 add up.
LEMMA SumOfMultiples ==
  ASSUME NEW x \in Int, NEW y \in Int, x % 1024 = 0, y % 1024 = 0
  PROVE  (x + y) % 1024 = 0
BY SMT

\* Both sums stay within half of the modulus q1 * q2.
LEMMA SumsInRange ==
  ASSUME ProductIInv
  PROVE  /\ -CrtQHalf <= wideSum /\ wideSum <= CrtQHalf
         /\ -CrtQHalf <= narrowSum /\ narrowSum <= CrtQHalf
<1> DEFINE B == 8191 * MaxSecret
<1>1. B \in Nat /\ Terms \in Nat /\ done \in 0..Terms /\ Terms * B <= CrtQHalf
  BY InputsAssumption, ExactnessAssumption DEF ProductIInv, ProductTypeOK
<1>2. wideSum \in Int /\ narrowSum \in Int
      /\ -(done * B) <= wideSum /\ wideSum <= done * B
      /\ -(done * B) <= narrowSum /\ narrowSum <= done * B
  BY DEF ProductIInv, ProductTypeOK, Within
<1> HIDE DEF B
<1>3. done * B <= Terms * B
  BY <1>1, SMT
<1>4. done * B \in Int /\ Terms * B \in Int
  BY <1>1, SMT
<1>5. QED
  BY <1>1, <1>2, <1>3, <1>4, SMT DEF CrtQHalf
-----------------------------------------------------------------------------
\* The invariant holds of the initial states.
LEMMA ProductInitInv == ProductInit => ProductIInv
<1> SUFFICES ASSUME ProductInit PROVE ProductIInv
  OBVIOUS
<1> USE InputsAssumption DEF ProductInit
<1>1. ProductTypeOK
  BY SMT DEF ProductTypeOK, Q1, Q2
<1>2. Congruent
  BY SMT DEF Congruent, Q1, Q2
<1>3. Within(wideSum) /\ Within(narrowSum)
  BY SMT DEF Within
<1>4. (wideSum - narrowSum) % 1024 = 0
  BY SMT
<1>5. out = <<>>
  OBVIOUS
<1>6. QED
  BY <1>1, <1>2, <1>3, <1>4, <1>5 DEF ProductIInv

\* A residue follows the sum it is the residue of.
LEMMA ResidueStep ==
  ASSUME NEW sum \in Int, NEW x \in Int
  PROVE  /\ (sum + x) % Q1 = ((sum % Q1) + x) % Q1
         /\ (sum + x) % Q2 = ((sum % Q2) + x) % Q2
<1>1. (sum + x) % Q1 = ((sum % Q1) + x) % Q1
  BY SMT DEF Q1
<1>2. (sum + x) % Q2 = ((sum % Q2) + x) % Q2
  BY SMT DEF Q2
<1>3. QED
  BY <1>1, <1>2

\* Residues lie below their primes.
LEMMA ResidueRange ==
  ASSUME NEW x \in Int
  PROVE  x % Q1 \in 0..(Q1 - 1) /\ x % Q2 \in 0..(Q2 - 1)
BY SMT DEF Q1, Q2

\* Every step keeps the invariant.
LEMMA ProductStepInv == ProductIInv /\ [ProductNext]_productVars => ProductIInv'
<1> SUFFICES ASSUME ProductIInv, [ProductNext]_productVars PROVE ProductIInv'
  OBVIOUS
<1>1. CASE Accumulate
  <2> DEFINE t == input[done + 1]
             B == 8191 * MaxSecret
  <2>1. done \in 0..Terms /\ done < Terms /\ done' = done + 1 /\ Terms \in Nat
        /\ MaxSecret \in Nat /\ wideSum \in Int /\ narrowSum \in Int
    BY <1>1, InputsAssumption DEF Accumulate, ProductIInv, ProductTypeOK
  <2>2. t \in Operands
    <3>1. input \in [1..Terms -> Operands]
      BY InputsAssumption DEF ProductIInv, ProductTypeOK
    <3>2. done + 1 \in 1..Terms
      BY <2>1, SMT
    <3>3. QED  BY <3>1, <3>2
  <2>3. /\ Owner(t) \in Int /\ Imported(t) \in Int
        /\ -B <= Owner(t) /\ Owner(t) <= B
        /\ -B <= Imported(t) /\ Imported(t) <= B
        /\ (Owner(t) - Imported(t)) % 1024 = 0
    BY <2>1, <2>2, ProductBounds
  <2>4. /\ wide1' = (wide1 + Owner(t)) % Q1 /\ wide2' = (wide2 + Owner(t)) % Q2
        /\ narrow1' = (narrow1 + Imported(t)) % Q1
        /\ narrow2' = (narrow2 + Imported(t)) % Q2
        /\ wideSum' = wideSum + Owner(t) /\ narrowSum' = narrowSum + Imported(t)
        /\ input' = input
    BY <1>1 DEF Accumulate
  <2> HIDE DEF t
  <2>5. Congruent'
    <3>1. /\ wideSum % Q1 = wide1 /\ wideSum % Q2 = wide2
          /\ narrowSum % Q1 = narrow1 /\ narrowSum % Q2 = narrow2
      BY DEF ProductIInv, Congruent
    <3>2. wideSum \in Int /\ narrowSum \in Int /\ Owner(t) \in Int /\ Imported(t) \in Int
      BY <2>1, <2>3
    <3>3. /\ (wideSum + Owner(t)) % Q1 = ((wideSum % Q1) + Owner(t)) % Q1
          /\ (wideSum + Owner(t)) % Q2 = ((wideSum % Q2) + Owner(t)) % Q2
      BY <3>2, ResidueStep, Zenon
    <3>4. /\ (narrowSum + Imported(t)) % Q1 = ((narrowSum % Q1) + Imported(t)) % Q1
          /\ (narrowSum + Imported(t)) % Q2 = ((narrowSum % Q2) + Imported(t)) % Q2
      BY <3>2, ResidueStep, Zenon
    <3>5. QED
      BY <3>1, <3>3, <3>4, <2>4 DEF Congruent
  <2>6. ProductTypeOK'
    <3>1. done' \in 0..Terms
      BY <2>1, SMT
    <3>2. wideSum' \in Int /\ narrowSum' \in Int
      BY <2>1, <2>3, <2>4
    <3>3. /\ wideSum' % Q1 \in 0..(Q1 - 1) /\ wideSum' % Q2 \in 0..(Q2 - 1)
          /\ narrowSum' % Q1 \in 0..(Q1 - 1) /\ narrowSum' % Q2 \in 0..(Q2 - 1)
      BY <3>2, ResidueRange, Zenon
    <3>4. QED
      BY <3>1, <3>2, <3>3, <2>4, <2>5 DEF ProductIInv, ProductTypeOK, Congruent
  <2>7. Within(wideSum)' /\ Within(narrowSum)'
    <3>1. B \in Nat
      BY <2>1
    <3>2. /\ -(done * B) <= wideSum /\ wideSum <= done * B
          /\ -(done * B) <= narrowSum /\ narrowSum <= done * B
      BY DEF ProductIInv, Within
    <3>3. /\ -((done + 1) * B) <= wideSum + Owner(t)
          /\ wideSum + Owner(t) <= (done + 1) * B
          /\ -((done + 1) * B) <= narrowSum + Imported(t)
          /\ narrowSum + Imported(t) <= (done + 1) * B
      <4> HIDE DEF B
      <4>1. done * B \in Int /\ (done + 1) * B = done * B + B
        BY <2>1, <3>1, SMT
      <4>2. QED
        BY <4>1, <3>1, <3>2, <2>1, <2>3, SMT
    <3>4. QED
      BY <3>3, <2>1, <2>4 DEF Within
  <2>8. (wideSum' - narrowSum') % 1024 = 0
    <3>1. (wideSum - narrowSum) % 1024 = 0
      BY DEF ProductIInv
    <3>2. wideSum' - narrowSum' = (wideSum - narrowSum) + (Owner(t) - Imported(t))
      BY <2>1, <2>3, <2>4, SMT
    <3> DEFINE x == wideSum - narrowSum
               y == Owner(t) - Imported(t)
    <3>3. x \in Int /\ y \in Int /\ x % 1024 = 0 /\ y % 1024 = 0
          /\ wideSum' - narrowSum' = x + y
      BY <2>1, <2>3, <3>1, <3>2
    <3> HIDE DEF x, y
    <3>4. (x + y) % 1024 = 0
      BY <3>3, SumOfMultiples
    <3>5. QED
      BY <3>3, <3>4
  <2>9. out' = <<>>
    <3>1. out # <<>> => done = Terms
      BY DEF ProductIInv
    <3>2. QED  BY <1>1, <2>1, <3>1, SMT DEF Accumulate
  <2>10. QED
    BY <2>5, <2>6, <2>7, <2>8, <2>9 DEF ProductIInv
<1>2. CASE Reduce
  BY <1>2 DEF Reduce, residues, ProductIInv, ProductTypeOK, Congruent, Within
<1>3. CASE UNCHANGED productVars
  BY <1>3 DEF productVars, residues, ProductIInv, ProductTypeOK, Congruent, Within
<1>4. QED
  BY <1>1, <1>2, <1>3 DEF ProductNext

\* The inductive invariant: residues, sums and their bound.
THEOREM ProductInvariance == ProductSpec => []ProductIInv
BY ProductInitInv, ProductStepInv, PTL DEF ProductSpec

\* The invariant gives the exactness property.
LEMMA InvExact == ProductIInv => Exact
BY SumsInRange, LiftExact DEF ProductIInv, ProductTypeOK, Congruent, Exact

\* The invariant gives equal ciphertext coefficients from both forms of the key.
LEMMA InvFormsAgree == ProductIInv => FormsAgree
<1> SUFFICES ASSUME ProductIInv, NEW bits \in Ts, NEW m \in {0, 1}
             PROVE  EncodeCoeff(bits, Lift(wide1, wide2), m)
                      = EncodeCoeff(bits, Lift(narrow1, narrow2), m)
  BY DEF FormsAgree
<1>1. Lift(wide1, wide2) = U16(wideSum) /\ Lift(narrow1, narrow2) = U16(narrowSum)
  BY InvExact DEF Exact
<1>2. wideSum \in Int /\ narrowSum \in Int /\ (wideSum - narrowSum) % 1024 = 0
  BY DEF ProductIInv, ProductTypeOK
<1>3. \A x \in Int : U16(x) \in Int /\ U16(x) % 1024 = x % 1024
  BY SMT DEF U16
<1>4. wideSum % 1024 = narrowSum % 1024
  BY <1>2, SMT
<1>5. QED
  BY <1>1, <1>2, <1>3, <1>4, EncodeIgnoresHighBits

\* reduce_invntt returns the exact product modulo 2^16, for every operand list
\* the compile-time assertion of impls.rs:32-35 admits.
THEOREM ExactHolds == ProductSpec => []Exact
BY ProductInvariance, InvExact, PTL

\* Encryption under the owner's form of a public key and under the imported
\* form give the same ciphertext coefficient, for every input.
THEOREM FormsAgreeHolds == ProductSpec => []FormsAgree
BY ProductInvariance, InvFormsAgree, PTL
-----------------------------------------------------------------------------
\* A representative is a signed residue.
LEMMA RepresentativeSigned ==
  ASSUME NEW q \in Primes, NEW a \in 0..(q - 1), NEW r \in Representatives(a, q)
  PROVE  Signed(r, q) /\ r % q = a
<1>1. /\ a \in Int /\ 0 <= a /\ a < q /\ q \in Int
      /\ r = a \/ r = a - q
      /\ -q < r
  BY SMT DEF Representatives, Primes
<1>2. Signed(r, q)
  BY <1>1, SMT DEF Signed
<1>3. a % q = a /\ (a - q) % q = a
  BY <1>1, SMT DEF Primes
<1>4. QED  BY <1>1, <1>2, <1>3

\* The CRT step lifts the representatives as Garner's formula lifts the residues.
LEMMA PortableCrtIs ==
  ASSUME NEW a1 \in 0..(Q1 - 1), NEW a2 \in 0..(Q2 - 1),
         NEW r1 \in Representatives(a1, Q1), NEW r2 \in Representatives(a2, Q2)
  PROVE  PortableCrt(r1, r2) = Lift(a1, a2) /\ Signed(r1, Q1) /\ Signed(r2, Q2)
<1> DEFINE b1 == Nonnegative(r1, Q1)
           t  == Quotient(b1, Nonnegative(r2, Q2))
           x  == b1 + t * Q1
<1>1. Q1 \in Primes /\ Q2 \in Primes
  BY DEF Q1, Q2, Primes
<1>2. Signed(r1, Q1) /\ r1 % Q1 = a1 /\ Signed(r2, Q2) /\ r2 % Q2 = a2
  BY <1>1, RepresentativeSigned
<1>3. b1 = a1 /\ t = ((a2 - a1) * 5380) % Q2 /\ Below(b1, Q1) /\ Below(t, Q2)
  BY <1>2, CrtOperands
<1>4. PortableCrt(r1, r2) = Centred32(x) % 65536
  BY DEF PortableCrt
<1> HIDE DEF b1, t
<1>5. x = Garner(a1, a2) /\ x \in Int
  <2>1. Garner(a1, a2) = a1 + Q1 * t
    BY <1>3 DEF Garner, Q1InvModQ2
  <2>2. a1 + Q1 * t = a1 + t * Q1 /\ a1 + t * Q1 \in Int
    BY <1>3, SMT DEF Below, Q1
  <2>3. QED  BY <1>3, <2>1, <2>2
<1> HIDE DEF x
<1>6. Centred32(x) = Centre(x)
  BY <1>5, SMT DEF Centred32, Centre, CrtQ, CrtQHalf
<1>7. Lift(a1, a2) = Centre(x) % 65536
  BY <1>5 DEF Lift, U16
<1>8. QED  BY <1>2, <1>4, <1>6, <1>7

\* So does every backend, in every lane of its vectors.
LEMMA CrtLanes ==
  ASSUME NEW backend \in {"portable", "avx2", "neon"}, NEW r1, NEW r2,
         NEW i \in 0..(Width(backend) - 1), Signed(r1[i], Q1), Signed(r2[i], Q2)
  PROVE  Crt(backend, r1, r2)[i] = PortableCrt(r1[i], r2[i])
<1>1. CASE backend = "portable"
  <2>1. i \in {0}
    BY <1>1, SMT DEF Width
  <2>2. Crt(backend, r1, r2) = [k \in {0} |-> PortableCrt(r1[k], r2[k])]
    BY <1>1 DEF Crt
  <2>3. QED  BY <2>1, <2>2
<1>2. CASE backend = "avx2"
  <2>1. i \in 0..15
    BY <1>2, SMT DEF Width
  <2>2. Crt(backend, r1, r2) = Avx2Crt(r1, r2)
    BY <1>2 DEF Crt
  <2>3. QED  BY <2>1, <2>2, Avx2CrtLane
<1>3. CASE backend = "neon"
  <2>1. i \in 0..7
    BY <1>3, SMT DEF Width
  <2>2. Crt(backend, r1, r2) = NeonCrt(r1, r2)
    BY <1>3 DEF Crt
  <2>3. QED  BY <2>1, <2>2, NeonCrtLane
<1>4. QED  BY <1>1, <1>2, <1>3

\* A vector of words has the width of its backend.
LEMMA CrtDomain ==
  ASSUME NEW backend \in {"portable", "avx2", "neon"}, NEW r1, NEW r2
  PROVE  DOMAIN Crt(backend, r1, r2) = 0..(Width(backend) - 1)
<1>1. CASE backend = "portable"
  <2>1. 0..(Width(backend) - 1) = {0}
    BY <1>1, SMT DEF Width
  <2>2. QED  BY <1>1, <2>1 DEF Crt
<1>2. CASE backend = "avx2"
  <2>1. 0..(Width(backend) - 1) = 0..15
    BY <1>2, SMT DEF Width
  <2>2. Crt(backend, r1, r2) = Avx2Crt(r1, r2)
    BY <1>2 DEF Crt
  <2>3. DOMAIN Avx2Crt(r1, r2) = 0..15
    BY DEF Avx2Crt, permute4x64_D8
  <2>4. QED  BY <2>1, <2>2, <2>3
<1>3. CASE backend = "neon"
  <2>1. 0..(Width(backend) - 1) = 0..7
    BY <1>3, SMT DEF Width
  <2>2. Crt(backend, r1, r2) = NeonCrt(r1, r2)
    BY <1>3 DEF Crt
  <2>3. DOMAIN NeonCrt(r1, r2) = 0..7
    BY DEF NeonCrt
  <2>4. QED  BY <2>1, <2>2, <2>3
<1>4. QED  BY <1>1, <1>2, <1>3

\* The lift of a state that satisfies the invariant is right in every lane.
LEMMA ReduceLifts ==
  ASSUME ProductIInv, Reduce
  PROVE  Lifted'
<1>1. PICK backend \in {"portable", "avx2", "neon"} :
        \E l \in 0..(Width(backend) - 1) :
          \E w1 \in Representatives(wide1, Q1), w2 \in Representatives(wide2, Q2),
             n1 \in Representatives(narrow1, Q1), n2 \in Representatives(narrow2, Q2) :
            /\ lane' = l
            /\ out' = Crt(backend, [k \in 0..(Width(backend) - 1) |-> IF k = l THEN w1 ELSE n1],
                                   [k \in 0..(Width(backend) - 1) |-> IF k = l THEN w2 ELSE n2])
  BY DEF Reduce
<1> DEFINE D == 0..(Width(backend) - 1)
<1>2. PICK l \in D :
          \E w1 \in Representatives(wide1, Q1), w2 \in Representatives(wide2, Q2),
             n1 \in Representatives(narrow1, Q1), n2 \in Representatives(narrow2, Q2) :
            /\ lane' = l
            /\ out' = Crt(backend, [k \in D |-> IF k = l THEN w1 ELSE n1],
                                   [k \in D |-> IF k = l THEN w2 ELSE n2])
  BY <1>1
<1>3. PICK w1 \in Representatives(wide1, Q1), w2 \in Representatives(wide2, Q2),
           n1 \in Representatives(narrow1, Q1), n2 \in Representatives(narrow2, Q2) :
            /\ lane' = l
            /\ out' = Crt(backend, [k \in D |-> IF k = l THEN w1 ELSE n1],
                                   [k \in D |-> IF k = l THEN w2 ELSE n2])
  BY <1>2
<1> DEFINE r1 == [k \in D |-> IF k = l THEN w1 ELSE n1]
           r2 == [k \in D |-> IF k = l THEN w2 ELSE n2]
<1>4. UNCHANGED <<wideSum, narrowSum>>
  BY DEF Reduce
<1>5. /\ wide1 \in 0..(Q1 - 1) /\ narrow1 \in 0..(Q1 - 1)
      /\ wide2 \in 0..(Q2 - 1) /\ narrow2 \in 0..(Q2 - 1)
  BY DEF ProductIInv, ProductTypeOK
<1>6. Lift(wide1, wide2) = U16(wideSum) /\ Lift(narrow1, narrow2) = U16(narrowSum)
  BY InvExact DEF Exact
<1>7. DOMAIN out' = D
  BY <1>3, CrtDomain
<1>8. ASSUME NEW k \in D
      PROVE  out'[k] = U16(IF k = l THEN wideSum ELSE narrowSum)
  <2>1. CASE k = l
    <3>1. r1[k] = w1 /\ r2[k] = w2
      BY <2>1
    <3> HIDE DEF r1, r2
    <3>2. PortableCrt(w1, w2) = Lift(wide1, wide2) /\ Signed(w1, Q1) /\ Signed(w2, Q2)
      BY <1>5, PortableCrtIs
    <3>3. Crt(backend, r1, r2)[k] = PortableCrt(w1, w2)
      BY <3>1, <3>2, CrtLanes
    <3>4. out' = Crt(backend, r1, r2)
      BY <1>3 DEF r1, r2
    <3>5. QED  BY <1>6, <2>1, <3>2, <3>3, <3>4
  <2>2. CASE k # l
    <3>1. r1[k] = n1 /\ r2[k] = n2
      BY <2>2
    <3> HIDE DEF r1, r2
    <3>2. PortableCrt(n1, n2) = Lift(narrow1, narrow2) /\ Signed(n1, Q1) /\ Signed(n2, Q2)
      BY <1>5, PortableCrtIs
    <3>3. Crt(backend, r1, r2)[k] = PortableCrt(n1, n2)
      BY <3>1, <3>2, CrtLanes
    <3>4. out' = Crt(backend, r1, r2)
      BY <1>3 DEF r1, r2
    <3>5. QED  BY <1>6, <2>2, <3>2, <3>3, <3>4
  <2>3. QED  BY <2>1, <2>2
<1> HIDE DEF D
<1>9. lane' = l
  BY <1>3
<1>10. QED  BY <1>4, <1>7, <1>8, <1>9 DEF Lifted

\* Every backend's lift is the exact product modulo 2^16 in every lane, for every
\* operand list, whichever signed representatives of the residues it is given.
THEOREM LiftedHolds == ProductSpec => []Lifted
<1>1. ProductInit => Lifted
  <2>1. DOMAIN <<>> = {}
    BY SMT
  <2>2. QED  BY <2>1 DEF ProductInit, Lifted
<1>2. ProductIInv /\ Lifted /\ [ProductNext]_productVars => Lifted'
  <2> SUFFICES ASSUME ProductIInv, Lifted, [ProductNext]_productVars PROVE Lifted'
    OBVIOUS
  <2>1. CASE Accumulate
    <3>1. out = <<>>
      <4>1. (out # <<>> => done = Terms) /\ Terms \in Nat /\ done \in 0..Terms /\ done < Terms
        BY <2>1, InputsAssumption DEF ProductIInv, ProductTypeOK, Accumulate
      <4>2. QED  BY <4>1, SMT
    <3>2. out' = <<>> /\ DOMAIN <<>> = {}
      <4>1. DOMAIN <<>> = {}
        BY SMT
      <4>2. QED  BY <2>1, <3>1, <4>1 DEF Accumulate
    <3>3. QED  BY <3>2 DEF Lifted
  <2>2. CASE Reduce
    BY <2>2, ReduceLifts
  <2>3. CASE UNCHANGED productVars
    BY <2>3 DEF productVars, Lifted
  <2>4. QED  BY <2>1, <2>2, <2>3 DEF ProductNext
<1>3. QED  BY ProductInvariance, <1>1, <1>2, PTL DEF ProductSpec
-----------------------------------------------------------------------------
\* A sum of linear combinations (the one that rounding is).
LEMMA SumLinear ==
  ASSUME NEW n \in Nat, NEW f, NEW p, NEW q, NEW w,
         Ints(f, n), Ints(p, n), Ints(q, n), Ints(w, n),
         \A j \in 0..(n - 1) : 8 * f[j] = p[j] + q[j] + 8192 * w[j]
  PROVE  8 * SumTo(f, n) = SumTo(p, n) + SumTo(q, n) + 8192 * SumTo(w, n)
<1> DEFINE S == {m \in Nat : m <= n => 8 * SumTo(f, m) = SumTo(p, m) + SumTo(q, m) + 8192 * SumTo(w, m)}
<1>1. 0 \in S
  BY SumZero
<1>2. ASSUME NEW m \in Nat, m \in S PROVE m + 1 \in S
  <2> SUFFICES ASSUME m + 1 <= n
               PROVE  8 * SumTo(f, m + 1) = SumTo(p, m + 1) + SumTo(q, m + 1) + 8192 * SumTo(w, m + 1)
    OBVIOUS
  <2>1. Ints(f, m + 1) /\ Ints(p, m + 1) /\ Ints(q, m + 1) /\ Ints(w, m + 1) /\ m \in 0..(n - 1)
    BY DEF Ints
  <2>2. /\ SumTo(f, m + 1) = SumTo(f, m) + f[m] /\ SumTo(p, m + 1) = SumTo(p, m) + p[m]
        /\ SumTo(q, m + 1) = SumTo(q, m) + q[m] /\ SumTo(w, m + 1) = SumTo(w, m) + w[m]
        /\ SumTo(f, m) \in Int /\ SumTo(p, m) \in Int /\ SumTo(q, m) \in Int /\ SumTo(w, m) \in Int
        /\ f[m] \in Int /\ p[m] \in Int /\ q[m] \in Int /\ w[m] \in Int
    BY <2>1, SumStep
  <2>3. QED  BY <1>2, <2>1, <2>2
<1> HIDE DEF S
<1>3. n \in S
  BY <1>1, <1>2, SetInduction
<1>4. QED  BY <1>3 DEF S

\* A sum of sums.
LEMMA SumAdd ==
  ASSUME NEW n \in Nat, NEW f, NEW p, NEW q, Ints(p, n), Ints(q, n),
         \A j \in 0..(n - 1) : f[j] = p[j] + q[j]
  PROVE  SumTo(f, n) = SumTo(p, n) + SumTo(q, n)
<1> DEFINE S == {m \in Nat : m <= n => SumTo(f, m) = SumTo(p, m) + SumTo(q, m)}
<1>1. 0 \in S
  BY SumZero
<1>2. ASSUME NEW m \in Nat, m \in S PROVE m + 1 \in S
  <2> SUFFICES ASSUME m + 1 <= n
               PROVE  SumTo(f, m + 1) = SumTo(p, m + 1) + SumTo(q, m + 1)
    OBVIOUS
  <2>1. Ints(f, m + 1) /\ Ints(p, m + 1) /\ Ints(q, m + 1) /\ m \in 0..(n - 1)
    BY DEF Ints
  <2>2. /\ SumTo(f, m + 1) = SumTo(f, m) + f[m] /\ SumTo(p, m + 1) = SumTo(p, m) + p[m]
        /\ SumTo(q, m + 1) = SumTo(q, m) + q[m]
        /\ SumTo(p, m) \in Int /\ SumTo(q, m) \in Int
        /\ p[m] \in Int /\ q[m] \in Int
    BY <2>1, SumStep
  <2>3. QED  BY <1>2, <2>1, <2>2
<1> HIDE DEF S
<1>3. n \in S
  BY <1>1, <1>2, SetInduction
<1>4. QED  BY <1>3 DEF S

LEMMA Distribute ==
  \A a, b, c \in Int : /\ a * (b + c) = a * b + a * c /\ (b + c) * a = b * a + c * a
                       /\ a * b \in Int /\ a * b = b * a /\ (a * b) * c = a * (b * c)
BY SMT

\* A sum of multiples.
LEMMA SumScale ==
  ASSUME NEW n \in Nat, NEW f, NEW g, NEW c \in Int, Ints(f, n),
         \A j \in 0..(n - 1) : g[j] = c * f[j]
  PROVE  SumTo(g, n) = c * SumTo(f, n)
<1> DEFINE S == {m \in Nat : m <= n => SumTo(g, m) = c * SumTo(f, m)}
<1>1. 0 \in S
  BY SumZero
<1>2. ASSUME NEW m \in Nat, m \in S PROVE m + 1 \in S
  <2> SUFFICES ASSUME m + 1 <= n
               PROVE  SumTo(g, m + 1) = c * SumTo(f, m + 1)
    OBVIOUS
  <2>1. Ints(f, m + 1) /\ m \in 0..(n - 1)
    BY DEF Ints
  <2>2. Ints(g, m + 1)
    <3>1. \A j \in 0..m : f[j] \in Int /\ g[j] = c * f[j]
      BY DEF Ints
    <3>2. \A j \in 0..m : g[j] \in Int
      BY <3>1, Distribute
    <3>3. QED  BY <3>2 DEF Ints
  <2>3. /\ SumTo(f, m + 1) = SumTo(f, m) + f[m] /\ SumTo(g, m + 1) = SumTo(g, m) + g[m]
        /\ SumTo(f, m) \in Int /\ f[m] \in Int
    BY <2>1, <2>2, SumStep
  <2>4. c * (SumTo(f, m) + f[m]) = c * SumTo(f, m) + c * f[m]
    BY <2>3, Distribute
  <2>5. QED  BY <1>2, <2>1, <2>3, <2>4
<1> HIDE DEF S
<1>3. n \in S
  BY <1>1, <1>2, SetInduction
<1>4. QED  BY <1>3 DEF S

\* Of n terms of at most b each.
LEMMA SumBound ==
  ASSUME NEW n \in Nat, NEW f, NEW b \in Int, Ints(f, n),
         \A j \in 0..(n - 1) : -b <= f[j] /\ f[j] <= b
  PROVE  -(n * b) <= SumTo(f, n) /\ SumTo(f, n) <= n * b
<1> DEFINE S == {m \in Nat : m <= n => -(m * b) <= SumTo(f, m) /\ SumTo(f, m) <= m * b}
<1>1. 0 \in S
  BY SumZero
<1>2. ASSUME NEW m \in Nat, m \in S PROVE m + 1 \in S
  <2> SUFFICES ASSUME m + 1 <= n
               PROVE  -((m + 1) * b) <= SumTo(f, m + 1) /\ SumTo(f, m + 1) <= (m + 1) * b
    OBVIOUS
  <2>1. Ints(f, m + 1) /\ m \in 0..(n - 1)
    BY DEF Ints
  <2>2. /\ SumTo(f, m + 1) = SumTo(f, m) + f[m]
        /\ SumTo(f, m) \in Int /\ f[m] \in Int
    BY <2>1, SumStep
  <2>3. (m + 1) * b = m * b + b /\ m * b \in Int
    BY Distribute
  <2>4. QED  BY <1>2, <2>1, <2>2, <2>3
<1> HIDE DEF S
<1>3. n \in S
  BY <1>1, <1>2, SetInduction
<1>4. QED  BY <1>3 DEF S

\* A sum taken in two parts.
LEMMA SumSplit ==
  ASSUME NEW a \in Nat, NEW b \in Nat, NEW f, NEW h, Ints(f, a + b),
         \A i \in 0..(b - 1) : h[i] = f[a + i]
  PROVE  SumTo(f, a + b) = SumTo(f, a) + SumTo(h, b)
<1> DEFINE S == {m \in Nat : m <= b => SumTo(f, a + m) = SumTo(f, a) + SumTo(h, m)}
<1>0. SumTo(f, a) \in Int
  <2>1. Ints(f, a)
    BY DEF Ints
  <2>2. QED  BY <2>1, SumInt
<1>1. 0 \in S
  BY <1>0, SumZero
<1>2. ASSUME NEW m \in Nat, m \in S PROVE m + 1 \in S
  <2> SUFFICES ASSUME m + 1 <= b
               PROVE  SumTo(f, a + (m + 1)) = SumTo(f, a) + SumTo(h, m + 1)
    OBVIOUS
  <2> DEFINE am == a + m
  <2>1. Ints(f, am + 1) /\ Ints(h, m + 1) /\ am \in Nat /\ h[m] = f[am]
    <3>1. Ints(f, am + 1) /\ am \in Nat /\ h[m] = f[am]
      BY DEF Ints
    <3>2. \A i \in 0..m : h[i] = f[a + i] /\ a + i \in 0..(a + b - 1)
      OBVIOUS
    <3>3. \A i \in 0..m : h[i] \in Int
      BY <3>2 DEF Ints
    <3>4. QED  BY <3>1, <3>3 DEF Ints
  <2> HIDE DEF am
  <2>2. SumTo(f, am + 1) = SumTo(f, am) + f[am] /\ SumTo(f, am) \in Int /\ f[am] \in Int
    BY <2>1, SumStep
  <2>3. SumTo(h, m + 1) = SumTo(h, m) + h[m] /\ SumTo(h, m) \in Int /\ h[m] \in Int
    BY <2>1, SumStep
  <2>4. am = a + m /\ am + 1 = a + (m + 1)
    BY DEF am
  <2>5. QED  BY <1>0, <1>2, <2>1, <2>2, <2>3, <2>4
<1> HIDE DEF S
<1>3. b \in S
  BY <1>1, <1>2, SetInduction
<1>4. QED  BY <1>3 DEF S

\* A sum taken backwards.
LEMMA SumReverse ==
  ASSUME NEW n \in Nat, NEW f, NEW g, Ints(f, n), \A i \in 0..(n - 1) : g[i] = f[(n - 1) - i]
  PROVE  SumTo(g, n) = SumTo(f, n)
<1> DEFINE S == {m \in Nat : m <= n => SumTo(g, m) + SumTo(f, n - m) = SumTo(f, n)}
<1>0. SumTo(f, n) \in Int
  BY SumInt
<1>1. 0 \in S
  BY <1>0, SumZero
<1>2. ASSUME NEW m \in Nat, m \in S PROVE m + 1 \in S
  <2> SUFFICES ASSUME m + 1 <= n
               PROVE  SumTo(g, m + 1) + SumTo(f, n - (m + 1)) = SumTo(f, n)
    OBVIOUS
  <2> DEFINE r == n - (m + 1)
  <2>1. Ints(f, r + 1) /\ Ints(g, m + 1) /\ r \in Nat /\ g[m] = f[r]
    <3>1. Ints(f, r + 1) /\ r \in Nat /\ g[m] = f[r]
      BY DEF Ints
    <3>2. \A i \in 0..m : g[i] = f[(n - 1) - i] /\ (n - 1) - i \in 0..(n - 1)
      OBVIOUS
    <3>3. \A i \in 0..m : g[i] \in Int
      BY <3>2 DEF Ints
    <3>4. QED  BY <3>1, <3>3 DEF Ints
  <2>2. r + 1 = n - m
    OBVIOUS
  <2> HIDE DEF r
  <2>3. SumTo(f, r + 1) = SumTo(f, r) + f[r] /\ SumTo(f, r) \in Int /\ f[r] \in Int
    BY <2>1, SumStep
  <2>4. SumTo(g, m + 1) = SumTo(g, m) + g[m] /\ SumTo(g, m) \in Int /\ g[m] \in Int
    BY <2>1, SumStep
  <2>5. SumTo(g, m) + SumTo(f, r + 1) = SumTo(f, n)
    BY <1>2, <2>2
  <2>6. SumTo(g, m + 1) + SumTo(f, r) = SumTo(f, n)
    BY <1>0, <2>1, <2>3, <2>4, <2>5
  <2>7. QED  BY <2>6 DEF r
<1> HIDE DEF S
<1>3. n \in S
  BY <1>1, <1>2, SetInduction
<1>4. SumTo(g, n) + SumTo(f, n - n) = SumTo(f, n)
  BY <1>3 DEF S
<1>5. SumTo(g, n) \in Int
  <2>1. \A i \in 0..(n - 1) : g[i] = f[(n - 1) - i] /\ (n - 1) - i \in 0..(n - 1)
    OBVIOUS
  <2>2. Ints(g, n)
    BY <2>1 DEF Ints
  <2>3. QED  BY <2>2, SumInt
<1>6. QED  BY <1>4, <1>5, SumZero

RowOf(F, i, m) == [j \in 0..(m - 1) |-> F[i][j]]
ColumnOf(F, j, n) == [i \in 0..(n - 1) |-> F[i][j]]

\* The sums of the first k entries of each column.
ColumnSums(F, k, n, m) == [j \in 0..(m - 1) |-> SumTo(ColumnOf(F, j, n), k)]

\* The sums of the rows and of the columns of F.
Totals(F, n, m, rows, cols) ==
  /\ \A i \in 0..(n - 1), j \in 0..(m - 1) : F[i][j] \in Int
  /\ \A i \in 0..(n - 1) : rows[i] = SumTo(RowOf(F, i, m), m)
  /\ \A j \in 0..(m - 1) : cols[j] = SumTo(ColumnOf(F, j, n), n)

\* A double sum taken in the other order.
LEMMA SumExchange ==
  ASSUME NEW n \in Nat, NEW m \in Nat, NEW F, NEW rows, NEW cols, Totals(F, n, m, rows, cols)
  PROVE  SumTo(rows, n) = SumTo(cols, m)
<1> DEFINE S == {k \in Nat : k <= n => SumTo(rows, k) = SumTo(ColumnSums(F, k, n, m), m)}
<1>0. /\ \A i \in 0..(n - 1), j \in 0..(m - 1) : F[i][j] \in Int
      /\ \A i \in 0..(n - 1) : rows[i] = SumTo(RowOf(F, i, m), m)
      /\ \A j \in 0..(m - 1) : cols[j] = SumTo(ColumnOf(F, j, n), n)
  BY DEF Totals
<1>1. \A i \in 0..(n - 1) : Ints(RowOf(F, i, m), m)
  BY <1>0 DEF Ints, RowOf
<1>2. \A j \in 0..(m - 1), k \in 0..n : Ints(ColumnOf(F, j, n), k)
  BY <1>0 DEF Ints, ColumnOf
<1>3. \A i \in 0..(n - 1) : rows[i] \in Int
  BY <1>0, <1>1, SumInt
<1>4. \A k \in 0..n : Ints(rows, k)
  BY <1>3 DEF Ints
<1>5. \A k \in 0..n, j \in 0..(m - 1) : SumTo(ColumnOf(F, j, n), k) \in Int
  BY <1>2, SumInt
<1>6. \A k \in 0..n : Ints(ColumnSums(F, k, n, m), m)
  BY <1>5 DEF Ints, ColumnSums
<1>7. 0 \in S
  <2> DEFINE u == ColumnSums(F, 0, n, m)
  <2>1. \A j \in 0..(m - 1) : u[j] = 0
    BY SumZero DEF ColumnSums
  <2>2. Ints(u, m)
    BY <1>6
  <2> HIDE DEF u
  <2>3. \A j \in 0..(m - 1) : u[j] = u[j] + u[j]
    BY <2>1
  <2>4. SumTo(u, m) = SumTo(u, m) + SumTo(u, m)
    BY <2>2, <2>3, SumAdd
  <2>5. SumTo(u, m) \in Int
    BY <2>2, SumInt
  <2>6. SumTo(u, m) = 0
    BY <2>4, <2>5, SMTT(20)
  <2>7. QED  BY <2>6, SumZero DEF u
<1>8. ASSUME NEW k \in Nat, k \in S PROVE k + 1 \in S
  <2> SUFFICES ASSUME k + 1 <= n
               PROVE  SumTo(rows, k + 1) = SumTo(ColumnSums(F, k + 1, n, m), m)
    OBVIOUS
  <2> DEFINE u == ColumnSums(F, k, n, m)
             v == ColumnSums(F, k + 1, n, m)
             r == RowOf(F, k, m)
  <2>0. k \in 0..n /\ k + 1 \in 0..n /\ k \in 0..(n - 1)
    OBVIOUS
  <2>1. SumTo(rows, k + 1) = SumTo(rows, k) + rows[k]
    BY <1>4, <2>0, SumStep
  <2>2. ASSUME NEW j \in 0..(m - 1) PROVE v[j] = u[j] + r[j]
    <3> DEFINE c == ColumnOf(F, j, n)
    <3>1. Ints(c, k + 1)
      BY <1>2, <2>0
    <3>2. c[k] = r[j]
      BY <2>0 DEF ColumnOf, RowOf
    <3>3. v[j] = SumTo(c, k + 1) /\ u[j] = SumTo(c, k)
      BY DEF ColumnSums
    <3> HIDE DEF c, u, v, r
    <3>4. SumTo(c, k + 1) = SumTo(c, k) + c[k]
      BY <3>1, SumStep
    <3>5. QED  BY <3>2, <3>3, <3>4
  <2>3. Ints(u, m) /\ Ints(r, m)
    BY <1>1, <1>6, <2>0
  <2>4. rows[k] = SumTo(r, m)
    BY <1>0, <2>0
  <2>5. SumTo(rows, k) = SumTo(u, m)
    BY <1>8, <2>0
  <2> HIDE DEF u, v, r
  <2>6. SumTo(v, m) = SumTo(u, m) + SumTo(r, m)
    BY <2>2, <2>3, SumAdd
  <2>7. QED  BY <2>1, <2>4, <2>5, <2>6 DEF v
<1>9. n \in S
  <2> HIDE DEF S
  <2>1. QED  BY <1>7, <1>8, SetInduction
<1> DEFINE u == ColumnSums(F, n, n, m)
<1>10. SumTo(rows, n) = SumTo(u, m)
  BY <1>9
<1>11. \A j \in 0..(m - 1) : cols[j] = u[j]
  BY <1>0 DEF ColumnSums
<1>12. Ints(u, m)
  BY <1>6
<1> HIDE DEF u
<1>13. SumTo(cols, m) = SumTo(u, m)
  BY <1>11, <1>12, SumSame
<1>14. QED  BY <1>10, <1>13

-----------------------------------------------------------------------------
IsElem(x) == \A k \in Degrees : x[k] \in Int

\* The terms of coefficient k of a product.
Products(x, y, k) == [j \in Degrees |-> x[j] * Turned(y, k - j)]

LEMMA Sizes == N \in Nat /\ L \in Nat /\ N > 0 /\ L > 0 /\ Degrees = 0..(N - 1) /\ Ranks = 0..(L - 1)
  BY RingAssumption DEF Degrees, Ranks

LEMMA TurnedInt ==
  ASSUME NEW y, IsElem(y), NEW m \in Int, -N < m, m < N
  PROVE  Turned(y, m) \in Int
<1>1. CASE m >= 0
  <2>1. m \in Degrees
    BY <1>1, Sizes
  <2>2. QED  BY <1>1, <2>1 DEF IsElem, Turned
<1>2. CASE ~(m >= 0)
  <2>1. N + m \in Degrees
    BY <1>2, Sizes
  <2>2. y[N + m] \in Int
    BY <2>1 DEF IsElem
  <2>3. QED  BY <1>2, <2>2 DEF Turned
<1>3. QED  BY <1>1, <1>2

LEMMA TurnedBack ==
  ASSUME NEW y, IsElem(y), NEW k \in Degrees, NEW j \in Degrees
  PROVE  Turned(y, k - j) \in Int
<1>1. k - j \in Int /\ -N < k - j /\ k - j < N
  BY Sizes
<1>2. QED  BY <1>1, TurnedInt

LEMMA ProductsInt ==
  ASSUME NEW x, NEW y, IsElem(x), IsElem(y), NEW k \in Degrees
  PROVE  Ints(Products(x, y, k), N) /\ \A j \in Degrees : Products(x, y, k)[j] \in Int
<1>1. \A j \in Degrees : x[j] \in Int /\ Turned(y, k - j) \in Int
  BY TurnedBack DEF IsElem
<1>2. \A j \in Degrees : x[j] * Turned(y, k - j) \in Int
  BY <1>1, Distribute
<1>3. QED  BY <1>2, Sizes DEF Products, Ints

LEMMA MulIs ==
  ASSUME NEW x, NEW y, IsElem(x), IsElem(y)
  PROVE  /\ \A k \in Degrees : RingMul(x, y)[k] = SumTo(Products(x, y, k), N)
         /\ IsElem(RingMul(x, y))
<1>1. \A k \in Degrees : RingMul(x, y)[k] = SumTo(Products(x, y, k), N)
  BY DEF RingMul, Products
<1>2. \A k \in Degrees : SumTo(Products(x, y, k), N) \in Int
  BY ProductsInt, SumInt, Sizes
<1>3. QED  BY <1>1, <1>2 DEF IsElem

\* Elements that agree have the same products.
LEMMA MulSame ==
  ASSUME NEW x, NEW z, NEW y, \A j \in Degrees : x[j] = z[j]
  PROVE  RingMul(x, y) = RingMul(z, y)
<1>1. ASSUME NEW k \in Degrees
      PROVE  SumTo([j \in Degrees |-> x[j] * Turned(y, k - j)], N)
               = SumTo([j \in Degrees |-> z[j] * Turned(y, k - j)], N)
  <2>1. [j \in Degrees |-> x[j] * Turned(y, k - j)] = [j \in Degrees |-> z[j] * Turned(y, k - j)]
    OBVIOUS
  <2>2. QED  BY <2>1, Zenon
<1>2. QED  BY <1>1 DEF RingMul

LEMMA DistributeThree ==
  \A a, b, c, d, t \in Int :
    8 * a = b + c + 8192 * d => 8 * (a * t) = b * t + c * t + 8192 * (d * t)
<1> SUFFICES ASSUME NEW a \in Int, NEW b \in Int, NEW c \in Int, NEW d \in Int, NEW t \in Int,
                    8 * a = b + c + 8192 * d
             PROVE  8 * (a * t) = b * t + c * t + 8192 * (d * t)
  OBVIOUS
<1>1. (b + (c + 8192 * d)) * t = b * t + (c + 8192 * d) * t
  BY Distribute
<1>2. (c + 8192 * d) * t = c * t + (8192 * d) * t
  BY Distribute
<1>3. (8192 * d) * t = 8192 * (d * t) /\ (8 * a) * t = 8 * (a * t)
  BY Distribute
<1>4. 8 * a = b + (c + 8192 * d)
  OBVIOUS
<1>5. (8 * a) * t = b * t + (c + 8192 * d) * t
  BY <1>1, <1>4
<1>6. a * t \in Int /\ b * t \in Int /\ c * t \in Int /\ d * t \in Int
  BY Distribute
<1>7. QED  BY <1>2, <1>3, <1>5, <1>6

\* Products are linear in the first factor.
LEMMA MulLinear ==
  ASSUME NEW x, NEW p, NEW q, NEW w, NEW y,
         IsElem(x), IsElem(p), IsElem(q), IsElem(w), IsElem(y),
         \A j \in Degrees : 8 * x[j] = p[j] + q[j] + 8192 * w[j],
         NEW k \in Degrees
  PROVE  8 * RingMul(x, y)[k] = RingMul(p, y)[k] + RingMul(q, y)[k] + 8192 * RingMul(w, y)[k]
<1> DEFINE X == Products(x, y, k)
           P == Products(p, y, k)
           Q == Products(q, y, k)
           W == Products(w, y, k)
<1>1. Ints(X, N) /\ Ints(P, N) /\ Ints(Q, N) /\ Ints(W, N)
  BY ProductsInt
<1>2. \A j \in Degrees :
        X[j] = x[j] * Turned(y, k - j) /\ P[j] = p[j] * Turned(y, k - j)
        /\ Q[j] = q[j] * Turned(y, k - j) /\ W[j] = w[j] * Turned(y, k - j)
  BY DEF Products
<1>3. RingMul(x, y)[k] = SumTo(X, N) /\ RingMul(p, y)[k] = SumTo(P, N)
      /\ RingMul(q, y)[k] = SumTo(Q, N) /\ RingMul(w, y)[k] = SumTo(W, N)
  BY MulIs
<1> HIDE DEF X, P, Q, W
<1>4. ASSUME NEW j \in Degrees PROVE 8 * X[j] = P[j] + Q[j] + 8192 * W[j]
  <2> DEFINE t == Turned(y, k - j)
  <2>1. t \in Int /\ x[j] \in Int /\ p[j] \in Int /\ q[j] \in Int /\ w[j] \in Int
    BY TurnedBack DEF IsElem
  <2>2. X[j] = x[j] * t /\ P[j] = p[j] * t /\ Q[j] = q[j] * t /\ W[j] = w[j] * t
    BY <1>2
  <2> DEFINE a == x[j]
             b == p[j]
             c == q[j]
             d == w[j]
  <2>3. t \in Int /\ a \in Int /\ b \in Int /\ c \in Int /\ d \in Int /\ 8 * a = b + c + 8192 * d
    BY <2>1
  <2> HIDE DEF t, a, b, c, d
  <2>4. 8 * (a * t) = b * t + c * t + 8192 * (d * t)
    BY <2>3, DistributeThree
  <2>5. X[j] = a * t /\ P[j] = b * t /\ Q[j] = c * t /\ W[j] = d * t
    BY <2>2 DEF a, b, c, d
  <2>6. QED  BY <2>4, <2>5
<1>5. 8 * SumTo(X, N) = SumTo(P, N) + SumTo(Q, N) + 8192 * SumTo(W, N)
  BY <1>1, <1>4, Sizes, SumLinear
<1>6. QED  BY <1>3, <1>5

LEMMA AtInt ==
  ASSUME NEW X, \A i \in Ranks : IsElem(X[i]), NEW j \in Degrees
  PROVE  Ints(At(X, j), L) /\ SumTo(At(X, j), L) \in Int
<1>1. \A i \in Ranks : X[i][j] \in Int
  BY DEF IsElem
<1>2. Ints(At(X, j), L)
  BY <1>1, Sizes DEF Ints, At
<1>3. QED  BY <1>2, Sizes, SumInt

\* A product with a sum is the sum of the products.
LEMMA MulSum ==
  ASSUME NEW X, \A i \in Ranks : IsElem(X[i]), NEW y, IsElem(y),
         NEW sum, \A j \in Degrees : sum[j] = SumTo(At(X, j), L),
         NEW k \in Degrees
  PROVE  RingMul(sum, y)[k] = SumTo([i \in Ranks |-> RingMul(X[i], y)[k]], L)
<1> DEFINE F == [j \in Degrees |-> [i \in Ranks |-> X[i][j] * Turned(y, k - j)]]
           rows == Products(sum, y, k)
           cols == [i \in Ranks |-> RingMul(X[i], y)[k]]
<1>1. \A j \in Degrees, i \in Ranks : X[i][j] \in Int /\ Turned(y, k - j) \in Int
  BY TurnedBack DEF IsElem
<1>2. \A j \in Degrees, i \in Ranks : F[j][i] = X[i][j] * Turned(y, k - j) /\ F[j][i] \in Int
  BY <1>1, Distribute
<1>3. IsElem(sum)
  BY AtInt DEF IsElem
<1>4. ASSUME NEW j \in Degrees PROVE rows[j] = SumTo(RowOf(F, j, L), L)
  <2> DEFINE f == At(X, j)
             g == RowOf(F, j, L)
             t == Turned(y, k - j)
  <2>1. Ints(f, L) /\ t \in Int
    BY AtInt, TurnedBack
  <2>2. \A i \in 0..(L - 1) : g[i] = f[i] * t /\ f[i] \in Int
    BY <1>1, <1>2, Sizes DEF RowOf, At
  <2>3. rows[j] = sum[j] * t /\ sum[j] = SumTo(f, L) /\ sum[j] \in Int
    BY <1>3 DEF Products, IsElem
  <2> HIDE DEF f, g, t, F, rows
  <2>4. \A i \in 0..(L - 1) : g[i] = t * f[i]
    BY <2>1, <2>2, Distribute
  <2>5. SumTo(g, L) = t * SumTo(f, L)
    BY <2>1, <2>4, Sizes, SumScale
  <2>6. QED  BY <2>1, <2>3, <2>5, Distribute DEF g
<1>5. ASSUME NEW i \in Ranks PROVE cols[i] = SumTo(ColumnOf(F, i, N), N)
  <2>1. cols[i] = SumTo(Products(X[i], y, k), N)
    BY MulIs
  <2>2. Products(X[i], y, k) = ColumnOf(F, i, N)
    BY Sizes DEF Products, ColumnOf
  <2>3. QED  BY <2>1, <2>2
<1>6. RingMul(sum, y)[k] = SumTo(rows, N)
  BY <1>3, MulIs
<1> HIDE DEF F, rows, cols
<1>7. Totals(F, N, L, rows, cols)
  BY <1>2, <1>4, <1>5, Sizes DEF Totals
<1>8. SumTo(rows, N) = SumTo(cols, L)
  BY <1>7, Sizes, SumExchange
<1>9. QED  BY <1>6, <1>8 DEF cols

\* A sum taken in two parts, each backwards.
LEMMA TwoReversed ==
  ASSUME NEW n \in Nat, NEW a \in 0..n, NEW f, NEW g, Ints(g, n),
         \A m \in 0..(a - 1) : f[m] = g[(a - 1) - m],
         \A i \in 0..((n - a) - 1) : f[a + i] = g[(n - 1) - i]
  PROVE  SumTo(f, n) = SumTo(g, n)
<1> DEFINE b == n - a
           f2 == [i \in 0..(b - 1) |-> f[a + i]]
           g2 == [i \in 0..(b - 1) |-> g[a + i]]
<1>1. a \in Nat /\ b \in Nat /\ a + b = n
  OBVIOUS
<1>2. Ints(g, a) /\ Ints(g2, b)
  BY DEF Ints
<1>3. Ints(f, n)
  <2>1. ASSUME NEW m \in 0..(n - 1) PROVE f[m] \in Int
    <3>1. CASE m < a
      BY <3>1 DEF Ints
    <3>2. CASE ~(m < a)
      <4>1. m - a \in 0..((n - a) - 1) /\ m = a + (m - a) /\ (n - 1) - (m - a) \in 0..(n - 1)
        BY <3>2
      <4>2. f[m] = g[(n - 1) - (m - a)]
        BY <4>1
      <4>3. QED  BY <4>1, <4>2 DEF Ints
    <3>3. QED  BY <3>1, <3>2
  <2>2. QED  BY <2>1 DEF Ints
<1>4. \A i \in 0..(b - 1) : f2[i] = g2[(b - 1) - i]
  OBVIOUS
<1>5. (\A i \in 0..(b - 1) : f2[i] = f[a + i]) /\ (\A i \in 0..(b - 1) : g2[i] = g[a + i])
  OBVIOUS
<1> HIDE DEF b, f2, g2
<1>6. SumTo(f, a) = SumTo(g, a)
  BY <1>1, <1>2, SumReverse
<1>7. SumTo(f2, b) = SumTo(g2, b)
  BY <1>1, <1>2, <1>4, SumReverse
<1>8. SumTo(f, a + b) = SumTo(f, a) + SumTo(f2, b)
  BY <1>1, <1>3, <1>5, SumSplit
<1>9. SumTo(g, a + b) = SumTo(g, a) + SumTo(g2, b)
  BY <1>1, <1>5, SumSplit
<1>10. QED  BY <1>1, <1>6, <1>7, <1>8, <1>9

\* N places on, the sign changes.
LEMMA TurnedOver ==
  ASSUME NEW y, IsElem(y), NEW e \in Int, -N < e, e < 0
  PROVE  Turned(y, e + N) \in Int /\ Turned(y, e) = -Turned(y, e + N)
<1>1. e + N >= 0 /\ ~(e >= 0) /\ e + N = N + e /\ -N < e + N /\ e + N < N /\ e + N \in Int
  BY Sizes
<1>2. Turned(y, e + N) \in Int
  BY <1>1, TurnedInt
<1>3. Turned(y, e + N) = y[N + e] /\ Turned(y, e) = -y[N + e]
  BY <1>1 DEF Turned
<1>4. QED  BY <1>2, <1>3

LEMMA NegNeg == \A a, b \in Int : (-a) * b = -(a * b) /\ a * (-b) = -(a * b) /\ a * b = b * a /\ a * b \in Int
BY SMT

\* What an element y and an element z contribute to a product, through the
\* coefficients whose places add up to k - j.
Pairs(y, z, j, k) == [m \in Degrees |-> Turned(y, m - j) * Turned(z, k - m)]

LEMMA PairsMirror ==
  ASSUME NEW y, NEW z, IsElem(y), IsElem(z), NEW j \in Degrees, NEW k \in Degrees,
         NEW m \in Degrees, NEW r \in Degrees,
         \/ m + r = j + k
         \/ m + r = j + k + N /\ m > j + k
         \/ m + r + N = j + k /\ m + N <= j + k
  PROVE  Pairs(y, z, j, k)[m] = Pairs(z, y, j, k)[r] /\ Pairs(z, y, j, k)[r] \in Int
<1> DEFINE a == Turned(y, m - j)
           b == Turned(z, k - m)
           c == Turned(z, r - j)
           d == Turned(y, k - r)
<1>1. a \in Int /\ b \in Int /\ c \in Int /\ d \in Int
  BY TurnedBack
<1>2. Pairs(y, z, j, k)[m] = a * b /\ Pairs(z, y, j, k)[r] = c * d
  BY DEF Pairs
<1>3. CASE m + r = j + k
  <2>1. r - j = k - m /\ k - r = m - j
    BY <1>3, Sizes
  <2>2. a = d /\ b = c
    BY <2>1
  <2> HIDE DEF a, b, c, d
  <2>3. QED  BY <1>1, <1>2, <2>2, NegNeg
<1>4. CASE m + r = j + k + N /\ m > j + k
  <2> DEFINE e == k - m
             h == k - r
  <2>1. e \in Int /\ -N < e /\ e < 0 /\ e + N = r - j /\ h \in Int /\ -N < h /\ h < 0 /\ h + N = m - j
    BY <1>4, Sizes
  <2> HIDE DEF e, h
  <2>2. Turned(z, e) = -Turned(z, e + N) /\ Turned(y, h) = -Turned(y, h + N)
    BY <2>1, TurnedOver
  <2>3. b = -c /\ d = -a
    BY <2>1, <2>2 DEF e, h
  <2> HIDE DEF a, b, c, d
  <2>4. QED  BY <1>1, <1>2, <2>3, NegNeg
<1>5. CASE m + r + N = j + k /\ m + N <= j + k
  <2> DEFINE e == r - j
             h == m - j
  <2>1. e \in Int /\ -N < e /\ e < 0 /\ e + N = k - m /\ h \in Int /\ -N < h /\ h < 0 /\ h + N = k - r
    BY <1>5, Sizes
  <2> HIDE DEF e, h
  <2>2. Turned(z, e) = -Turned(z, e + N) /\ Turned(y, h) = -Turned(y, h + N)
    BY <2>1, TurnedOver
  <2>3. c = -b /\ a = -d
    BY <2>1, <2>2 DEF e, h
  <2> HIDE DEF a, b, c, d
  <2>4. QED  BY <1>1, <1>2, <2>3, NegNeg
<1>6. QED  BY <1>3, <1>4, <1>5

LEMMA PairsSwap ==
  ASSUME NEW y, NEW z, IsElem(y), IsElem(z), NEW j \in Degrees, NEW k \in Degrees
  PROVE  SumTo(Pairs(y, z, j, k), N) = SumTo(Pairs(z, y, j, k), N)
<1> DEFINE f == Pairs(y, z, j, k)
           g == Pairs(z, y, j, k)
           t == j + k
           a == IF t < N THEN t + 1 ELSE (t - N) + 1
<1>1. a \in 0..N /\ N \in Nat
  BY Sizes
<1>2. Ints(g, N)
  <2>1. \A m \in Degrees : Turned(z, m - j) \in Int /\ Turned(y, k - m) \in Int
    BY TurnedBack
  <2>2. \A m \in Degrees : g[m] \in Int
    BY <2>1, NegNeg DEF Pairs
  <2>3. QED  BY <2>2, Sizes DEF Ints
<1>3. ASSUME NEW m \in 0..(a - 1) PROVE f[m] = g[(a - 1) - m]
  <2> DEFINE r == (a - 1) - m
  <2>1. /\ m \in Degrees /\ r \in Degrees
        /\ \/ m + r = j + k
           \/ m + r + N = j + k /\ m + N <= j + k
    BY Sizes
  <2> HIDE DEF r, a
  <2>2. f[m] = g[r]
    BY <2>1, PairsMirror
  <2>3. QED  BY <2>2 DEF r
<1>4. ASSUME NEW i \in 0..((N - a) - 1) PROVE f[a + i] = g[(N - 1) - i]
  <2> DEFINE m == a + i
             r == (N - 1) - i
  <2>1. /\ m \in Degrees /\ r \in Degrees
        /\ \/ m + r = j + k
           \/ m + r = j + k + N /\ m > j + k
    BY Sizes
  <2> HIDE DEF m, r, a
  <2>2. QED  BY <2>1, PairsMirror DEF m, r
<1> HIDE DEF f, g, t, a
<1>5. SumTo(f, N) = SumTo(g, N)
  BY <1>1, <1>2, <1>3, <1>4, TwoReversed
<1>6. QED  BY <1>5 DEF f, g

\* Coefficient k of (x * y) * z, as a sum over the coefficients of x.
LEMMA MulTwice ==
  ASSUME NEW x, NEW y, NEW z, IsElem(x), IsElem(y), IsElem(z), NEW k \in Degrees
  PROVE  RingMul(RingMul(x, y), z)[k]
           = SumTo([j \in Degrees |-> x[j] * SumTo(Pairs(y, z, j, k), N)], N)
<1> DEFINE xy == RingMul(x, y)
           F == [m \in Degrees |-> [j \in Degrees |-> (x[j] * Turned(y, m - j)) * Turned(z, k - m)]]
           rows == Products(xy, z, k)
           cols == [j \in Degrees |-> x[j] * SumTo(Pairs(y, z, j, k), N)]
<1>1. \A m \in Degrees, j \in Degrees :
        x[j] \in Int /\ Turned(y, m - j) \in Int /\ Turned(z, k - m) \in Int
  BY TurnedBack DEF IsElem
<1>2. IsElem(xy)
  BY MulIs
<1>3. \A m \in Degrees, j \in Degrees :
        F[m][j] = (x[j] * Turned(y, m - j)) * Turned(z, k - m) /\ F[m][j] \in Int
  BY <1>1, Distribute
<1>4. ASSUME NEW m \in Degrees PROVE rows[m] = SumTo(RowOf(F, m, N), N)
  <2> DEFINE f == Products(x, y, m)
             g == RowOf(F, m, N)
             t == Turned(z, k - m)
  <2>1. Ints(f, N) /\ t \in Int /\ \A j \in 0..(N - 1) : f[j] \in Int
    BY ProductsInt, TurnedBack, Sizes
  <2>2. \A j \in 0..(N - 1) : g[j] = f[j] * t
    BY <1>3, Sizes DEF RowOf, Products
  <2>3. rows[m] = xy[m] * t /\ xy[m] = SumTo(f, N) /\ xy[m] \in Int
    BY <1>2, MulIs DEF Products, IsElem
  <2> HIDE DEF f, g, t, F, rows, xy
  <2>4. \A j \in 0..(N - 1) : g[j] = t * f[j]
    BY <2>1, <2>2, Distribute
  <2>5. SumTo(g, N) = t * SumTo(f, N)
    BY <2>1, <2>4, Sizes, SumScale
  <2>6. QED  BY <2>1, <2>3, <2>5, Distribute DEF g
<1>5. ASSUME NEW j \in Degrees PROVE cols[j] = SumTo(ColumnOf(F, j, N), N)
  <2> DEFINE f == Pairs(y, z, j, k)
             g == ColumnOf(F, j, N)
             c == x[j]
  <2>1. c \in Int /\ \A m \in Degrees : f[m] \in Int
    BY <1>1, Distribute DEF Pairs
  <2>2. Ints(f, N)
    BY <2>1, Sizes DEF Ints
  <2>3. \A m \in 0..(N - 1) : g[m] = (c * Turned(y, m - j)) * Turned(z, k - m)
    BY <1>3, Sizes DEF ColumnOf
  <2>4. \A m \in 0..(N - 1) : f[m] = Turned(y, m - j) * Turned(z, k - m)
    BY Sizes DEF Pairs
  <2>5. cols[j] = c * SumTo(f, N)
    OBVIOUS
  <2> HIDE DEF f, g, c, F, cols
  <2>6. ASSUME NEW m \in 0..(N - 1) PROVE g[m] = c * f[m]
    <3> DEFINE a == Turned(y, m - j)
               b == Turned(z, k - m)
    <3>1. a \in Int /\ b \in Int
      BY <1>1, Sizes
    <3>2. g[m] = (c * a) * b /\ f[m] = a * b
      BY <2>3, <2>4
    <3> HIDE DEF a, b
    <3>3. QED  BY <2>1, <3>1, <3>2, Distribute
  <2>7. SumTo(g, N) = c * SumTo(f, N)
    BY <2>1, <2>2, <2>6, Sizes, SumScale
  <2>8. QED  BY <2>5, <2>7 DEF g
<1>6. RingMul(xy, z)[k] = SumTo(rows, N)
  BY <1>2, MulIs
<1> HIDE DEF F, rows, cols, xy
<1>7. Totals(F, N, N, rows, cols)
  BY <1>3, <1>4, <1>5, Sizes DEF Totals
<1>8. SumTo(rows, N) = SumTo(cols, N)
  BY <1>7, Sizes, SumExchange
<1>9. QED  BY <1>6, <1>8 DEF cols, xy

\* Factors may be exchanged: what a product is multiplied by first and what next.
LEMMA MulExchange ==
  ASSUME NEW x, NEW y, NEW z, IsElem(x), IsElem(y), IsElem(z), NEW k \in Degrees
  PROVE  RingMul(RingMul(x, y), z)[k] = RingMul(RingMul(x, z), y)[k]
<1>1. \A j \in Degrees : SumTo(Pairs(y, z, j, k), N) = SumTo(Pairs(z, y, j, k), N)
  BY PairsSwap
<1> DEFINE f == [j \in Degrees |-> x[j] * SumTo(Pairs(y, z, j, k), N)]
           g == [j \in Degrees |-> x[j] * SumTo(Pairs(z, y, j, k), N)]
<1>2. f = g
  BY <1>1
<1>3. RingMul(RingMul(x, y), z)[k] = SumTo(f, N)
  BY MulTwice
<1>4. RingMul(RingMul(x, z), y)[k] = SumTo(g, N)
  BY MulTwice
<1>5. QED  BY <1>2, <1>3, <1>4, Zenon

-----------------------------------------------------------------------------
IsVector(x) == \A i \in Ranks : IsElem(x[i])

LEMMA WholeInt ==
  ASSUME NEW x, NEW y, IsVector(x), IsVector(y)
  PROVE  /\ IsVector(RankProducts(x, y))
         /\ IsElem(Whole(x, y))
         /\ \A k \in Degrees : Inner(x, y)[k] = U16(Whole(x, y)[k])
<1>1. \A i \in Ranks : IsElem(RingMul(x[i], y[i]))
  BY MulIs DEF IsVector
<1>2. IsVector(RankProducts(x, y))
  BY <1>1 DEF IsVector, RankProducts
<1>3. \A k \in Degrees : SumTo(At(RankProducts(x, y), k), L) \in Int
  BY <1>2, AtInt DEF IsVector
<1>4. IsElem(Whole(x, y))
  BY <1>3 DEF IsElem, Whole
<1>5. Inner(x, y) = [k \in Degrees |-> U16(Whole(x, y)[k])]
  BY DEF Inner
<1>6. ASSUME NEW k \in Degrees PROVE Inner(x, y)[k] = U16(Whole(x, y)[k])
  BY <1>5
<1>7. QED  BY <1>2, <1>4, <1>6

\* Vectors that agree have the same inner products.
LEMMA WholeSame ==
  ASSUME NEW x, NEW z, NEW y, \A i \in Ranks, j \in Degrees : x[i][j] = z[i][j]
  PROVE  Whole(x, y) = Whole(z, y)
<1>1. \A i \in Ranks : RingMul(x[i], y[i]) = RingMul(z[i], y[i])
  BY MulSame
<1>2. RankProducts(x, y) = RankProducts(z, y)
  BY <1>1 DEF RankProducts
<1>3. QED  BY <1>2, Zenon DEF Whole

Combine(x, p, q, w) ==
  \A i \in Ranks, j \in Degrees : 8 * x[i][j] = p[i][j] + q[i][j] + 8192 * w[i][j]

\* Inner products are linear in the first factor.
LEMMA WholeLinear ==
  ASSUME NEW x, NEW p, NEW q, NEW w, NEW y,
         IsVector(x), IsVector(p), IsVector(q), IsVector(w), IsVector(y),
         Combine(x, p, q, w),
         NEW k \in Degrees
  PROVE  8 * Whole(x, y)[k] = Whole(p, y)[k] + Whole(q, y)[k] + 8192 * Whole(w, y)[k]
<1> DEFINE X == At(RankProducts(x, y), k)
           P == At(RankProducts(p, y), k)
           Q == At(RankProducts(q, y), k)
           W == At(RankProducts(w, y), k)
<1>1. Ints(X, L) /\ Ints(P, L) /\ Ints(Q, L) /\ Ints(W, L)
  BY WholeInt, AtInt DEF IsVector
<1>2. Whole(x, y)[k] = SumTo(X, L) /\ Whole(p, y)[k] = SumTo(P, L)
      /\ Whole(q, y)[k] = SumTo(Q, L) /\ Whole(w, y)[k] = SumTo(W, L)
  BY DEF Whole
<1>3. ASSUME NEW i \in Ranks PROVE 8 * X[i] = P[i] + Q[i] + 8192 * W[i]
  <2> DEFINE a == x[i]
             b == p[i]
             c == q[i]
             d == w[i]
             e == y[i]
  <2>1. IsElem(a) /\ IsElem(b) /\ IsElem(c) /\ IsElem(d) /\ IsElem(e)
        /\ \A j \in Degrees : 8 * a[j] = b[j] + c[j] + 8192 * d[j]
    BY DEF IsVector, Combine
  <2>2. X[i] = RingMul(a, e)[k] /\ P[i] = RingMul(b, e)[k]
        /\ Q[i] = RingMul(c, e)[k] /\ W[i] = RingMul(d, e)[k]
    BY DEF At, RankProducts
  <2> HIDE DEF a, b, c, d, e, X, P, Q, W
  <2>3. 8 * RingMul(a, e)[k] = RingMul(b, e)[k] + RingMul(c, e)[k] + 8192 * RingMul(d, e)[k]
    BY <2>1, MulLinear
  <2>4. QED  BY <2>2, <2>3
<1> HIDE DEF X, P, Q, W
<1>4. 8 * SumTo(X, L) = SumTo(P, L) + SumTo(Q, L) + 8192 * SumTo(W, L)
  BY <1>1, <1>3, Sizes, SumLinear
<1>5. QED  BY <1>2, <1>4

ColumnVector(A, j) == [i \in Ranks |-> A[i][j]]
ByRows(A, t)    == [i \in Ranks |-> Whole(A[i], t)]
ByColumns(A, s) == [j \in Ranks |-> Whole(ColumnVector(A, j), s)]

\* (A t) . s = (A^T s) . t: what the two parties' inner products have in common.
LEMMA Bilinear ==
  ASSUME NEW A, \A i \in Ranks : IsVector(A[i]), NEW s, NEW t, IsVector(s), IsVector(t),
         NEW k \in Degrees
  PROVE  Whole(ByRows(A, t), s)[k] = Whole(ByColumns(A, s), t)[k]
<1> DEFINE F == [i \in Ranks |-> [j \in Ranks |-> RingMul(RingMul(A[i][j], t[j]), s[i])[k]]]
           rows == At(RankProducts(ByRows(A, t), s), k)
           cols == At(RankProducts(ByColumns(A, s), t), k)
<1>1. \A i \in Ranks, j \in Ranks : IsElem(A[i][j]) /\ IsElem(t[j]) /\ IsElem(s[i])
  BY DEF IsVector
<1>2. \A i \in Ranks, j \in Ranks :
        /\ IsElem(RingMul(A[i][j], t[j])) /\ IsElem(RingMul(A[i][j], s[i]))
        /\ IsElem(RingMul(RingMul(A[i][j], t[j]), s[i]))
  BY <1>1, MulIs
<1>3. \A i \in Ranks, j \in Ranks : F[i][j] \in Int
  BY <1>2 DEF IsElem
<1>4. \A j \in Ranks : IsVector(ColumnVector(A, j))
  BY <1>1 DEF IsVector, ColumnVector
<1>5. ASSUME NEW i \in Ranks PROVE rows[i] = SumTo(RowOf(F, i, L), L)
  <2> DEFINE X == RankProducts(A[i], t)
             y == s[i]
             sum == Whole(A[i], t)
             g == RowOf(F, i, L)
  <2>1. (\A j \in Ranks : IsElem(X[j])) /\ IsElem(y)
    BY WholeInt DEF IsVector
  <2>2. \A j \in Degrees : sum[j] = SumTo(At(X, j), L)
    BY DEF Whole
  <2>3. rows[i] = RingMul(sum, y)[k]
    BY DEF At, RankProducts, ByRows
  <2>4. [j \in Ranks |-> RingMul(X[j], y)[k]] = g
    BY Sizes DEF RankProducts, RowOf
  <2> HIDE DEF X, y, sum, g, rows, F
  <2>5. RingMul(sum, y)[k] = SumTo([j \in Ranks |-> RingMul(X[j], y)[k]], L)
    BY <2>1, <2>2, MulSum
  <2>6. QED  BY <2>3, <2>4, <2>5 DEF g
<1>6. ASSUME NEW j \in Ranks PROVE cols[j] = SumTo(ColumnOf(F, j, L), L)
  <2> DEFINE X == RankProducts(ColumnVector(A, j), s)
             y == t[j]
             sum == Whole(ColumnVector(A, j), s)
             g == ColumnOf(F, j, L)
  <2>1. (\A i \in Ranks : IsElem(X[i])) /\ IsElem(y)
    BY <1>4, WholeInt DEF IsVector
  <2>2. \A i \in Degrees : sum[i] = SumTo(At(X, i), L)
    BY DEF Whole
  <2>3. cols[j] = RingMul(sum, y)[k]
    BY DEF At, RankProducts, ByColumns
  <2>4. \A i \in Ranks : RingMul(X[i], y)[k] = F[i][j]
    <3> SUFFICES ASSUME NEW i \in Ranks PROVE RingMul(X[i], y)[k] = F[i][j]
      OBVIOUS
    <3>1. X[i] = RingMul(A[i][j], s[i])
      BY DEF RankProducts, ColumnVector
    <3>2. F[i][j] = RingMul(RingMul(A[i][j], t[j]), s[i])[k]
      OBVIOUS
    <3> HIDE DEF X, F
    <3>3. QED  BY <1>1, <3>1, <3>2, MulExchange
  <2>5. [i \in Ranks |-> RingMul(X[i], y)[k]] = g
    BY <2>4, Sizes DEF ColumnOf
  <2> HIDE DEF X, y, sum, g, cols, F
  <2>6. RingMul(sum, y)[k] = SumTo([i \in Ranks |-> RingMul(X[i], y)[k]], L)
    BY <2>1, <2>2, MulSum
  <2>7. QED  BY <2>3, <2>5, <2>6 DEF g
<1>7. Whole(ByRows(A, t), s)[k] = SumTo(rows, L) /\ Whole(ByColumns(A, s), t)[k] = SumTo(cols, L)
  BY DEF Whole
<1> HIDE DEF F, rows, cols
<1>8. Totals(F, L, L, rows, cols)
  BY <1>3, <1>5, <1>6, Sizes DEF Totals
<1>9. SumTo(rows, L) = SumTo(cols, L)
  BY <1>8, Sizes, SumExchange
<1>10. QED  BY <1>7, <1>9

\* Rounding errors are small, and so is what secrets make of them.
LEMMA SmallProduct ==
  ASSUME NEW a \in (-4)..4, NEW h \in Nat, NEW b \in Int, -h <= b, b <= h
  PROVE  -(4 * h) <= a * b /\ a * b <= 4 * h /\ a * b \in Int
<1>1. a = -4 \/ a = -3 \/ a = -2 \/ a = -1 \/ a = 0 \/ a = 1 \/ a = 2 \/ a = 3 \/ a = 4
  OBVIOUS
<1>2. QED  BY <1>1

Small(y, h) == \A i \in Ranks, j \in Degrees : y[i][j] \in Int /\ -h <= y[i][j] /\ y[i][j] <= h

LEMMA TurnedBound ==
  ASSUME NEW y, NEW h \in Nat, \A j \in Degrees : y[j] \in Int /\ -h <= y[j] /\ y[j] <= h,
         NEW k \in Degrees, NEW j \in Degrees
  PROVE  Turned(y, k - j) \in Int /\ -h <= Turned(y, k - j) /\ Turned(y, k - j) <= h
<1>1. CASE k - j >= 0
  <2>1. k - j \in Degrees
    BY <1>1, Sizes
  <2>2. QED  BY <1>1, <2>1 DEF Turned
<1>2. CASE ~(k - j >= 0)
  <2>1. N + (k - j) \in Degrees
    BY <1>2, Sizes
  <2>2. QED  BY <1>2, <2>1 DEF Turned
<1>3. QED  BY <1>1, <1>2

LEMMA WholeBound ==
  ASSUME NEW q, NEW y, NEW h \in Nat, Small(q, 4), Small(y, h), NEW k \in Degrees
  PROVE  -(L * (N * (4 * h))) <= Whole(q, y)[k] /\ Whole(q, y)[k] <= L * (N * (4 * h))
<1> DEFINE b == 4 * h
           c == N * b
           f == At(RankProducts(q, y), k)
<1>1. b \in Int /\ c \in Int
  BY Sizes, Distribute
<1>2. IsVector(q) /\ IsVector(y)
  BY DEF IsVector, IsElem, Small
<1>3. ASSUME NEW i \in Ranks PROVE -c <= f[i] /\ f[i] <= c
  <2> DEFINE x == q[i]
             z == y[i]
             g == Products(x, z, k)
  <2>1. IsElem(x) /\ IsElem(z)
    BY <1>2 DEF IsVector
  <2>2. Ints(g, N)
    BY <2>1, ProductsInt
  <2>3. f[i] = SumTo(g, N)
    BY <2>1, MulIs DEF At, RankProducts
  <2>4. ASSUME NEW j \in Degrees PROVE -b <= g[j] /\ g[j] <= b
    <3> DEFINE u == x[j]
               v == Turned(z, k - j)
    <3>1. g[j] = u * v
      BY DEF Products
    <3>2. u \in (-4)..4
      BY DEF Small
    <3>3. v \in Int /\ -h <= v /\ v <= h
      BY TurnedBound DEF Small
    <3> HIDE DEF u, v, g, x, z
    <3>4. QED  BY <3>1, <3>2, <3>3, SmallProduct
  <2> HIDE DEF b, x, z, g, f
  <2>5. -(N * b) <= SumTo(g, N) /\ SumTo(g, N) <= N * b
    BY <1>1, <2>2, <2>4, Sizes, SumBound
  <2>6. QED  BY <2>3, <2>5
<1>4. Ints(f, L)
  BY <1>2, WholeInt, AtInt DEF IsVector
<1>5. Whole(q, y)[k] = SumTo(f, L)
  BY DEF Whole
<1> HIDE DEF b, c, f
<1>6. -(L * c) <= SumTo(f, L) /\ SumTo(f, L) <= L * c
  BY <1>1, <1>3, <1>4, Sizes, SumBound
<1>7. QED  BY <1>5, <1>6 DEF b, c

-----------------------------------------------------------------------------
\* What wrapping and masking drop from a rounding.
Carry(c, x) == (8 * c - x - Rest(x)) \div 8192

Cut(x, a, b, r) == /\ x \in Int /\ a \in Int /\ b \in 0..8191 /\ r \in 0..7
                   /\ x + 4 = 65536 * a + 8 * b + r

\* Wrapping before and after the rounding constant is added wraps once.
LEMMA WrapTwice ==
  ASSUME NEW x, NEW a, NEW b, NEW r, Cut(x, a, b, r)
  PROVE  U16(U16(x) + 4) = 8 * b + r
<1>1. U16(x) + 4 \in Int /\ (U16(x) + 4) % 65536 = (x + 4) % 65536
  BY DEF U16, Cut
<1>2. (x + 4) % 65536 = 8 * b + r
  BY DEF Cut
<1>3. QED  BY <1>1, <1>2 DEF U16

\* A rounding adds at most 4 to eight times its result, modulo 2^13.
LEMMA Rounded ==
  ASSUME NEW x \in Int, NEW c, c = Compress(U16(x)) \/ c = Pack10(Compress(U16(x)))
  PROVE  /\ c \in Int /\ Rest(x) \in (-4)..4 /\ Carry(c, x) \in Int
         /\ 8 * c = x + Rest(x) + 8192 * Carry(c, x)
<1> DEFINE r == (x + 4) % 8
           e == (x + 4) \div 8
<1>1. x + 4 = 8 * e + r /\ r \in 0..7 /\ e \in Int
  OBVIOUS
<1>2. Compress(U16(x)) = e % 8192
  <2> DEFINE a == e \div 8192
             b == e % 8192
  <2>1. e = 8192 * a + b /\ a \in Int /\ b \in 0..8191
    BY <1>1
  <2> HIDE DEF a, b, r, e
  <2>2. x + 4 = 65536 * a + 8 * b + r
    BY <1>1, <2>1
  <2>3. U16(U16(x) + 4) = 8 * b + r
    <3>1. Cut(x, a, b, r)
      BY <1>1, <2>1, <2>2 DEF Cut
    <3>2. QED  BY <3>1, WrapTwice
  <2>4. (8 * b + r) \div 8 = b
    BY <1>1, <2>1
  <2>5. QED  BY <2>3, <2>4 DEF Compress, H1, b
<1> HIDE DEF e, r
<1>3. PICK w \in Int : c = e + 1024 * w
  <2>1. e % 8192 = e + 1024 * (-8 * (e \div 8192)) /\ -8 * (e \div 8192) \in Int
    BY <1>1
  <2>2. (e % 8192) % 1024 = e + 1024 * (-(e \div 1024)) /\ -(e \div 1024) \in Int
    BY <1>1
  <2>3. CASE c = Compress(U16(x))
    BY <1>2, <2>1, <2>3
  <2>4. CASE c = Pack10(Compress(U16(x)))
    BY <1>2, <2>2, <2>4 DEF Pack10
  <2>5. QED  BY <2>3, <2>4
<1>4. Rest(x) = 4 - r /\ Rest(x) \in (-4)..4
  BY <1>1 DEF Rest, r
<1>5. 8 * c - x - Rest(x) = 8192 * w /\ c \in Int
  BY <1>1, <1>3, <1>4
<1>6. Carry(c, x) = w
  <2>1. (8192 * w) \div 8192 = w
    OBVIOUS
  <2>2. QED  BY <1>5, <2>1 DEF Carry
<1>7. QED  BY <1>3, <1>4, <1>5, <1>6
-----------------------------------------------------------------------------
Carries(x, p) == [i \in Ranks |-> [j \in Degrees |-> Carry(x[i][j], p[i][j])]]

\* x holds the roundings of p, masked to 10 bits or not.
Rounds(x, p) ==
  \A i \in Ranks, j \in Degrees :
    x[i][j] = Compress(U16(p[i][j])) \/ x[i][j] = Pack10(Compress(U16(p[i][j])))

\* So an inner product with a rounded vector splits into three.
LEMMA RoundedVector ==
  ASSUME NEW x, NEW p, IsVector(p), Rounds(x, p), NEW y, IsVector(y), NEW k \in Degrees
  PROVE  /\ IsVector(x) /\ IsVector(Rests(p)) /\ Small(Rests(p), 4) /\ IsVector(Carries(x, p))
         /\ 8 * Whole(x, y)[k] = Whole(p, y)[k] + Whole(Rests(p), y)[k]
                                 + 8192 * Whole(Carries(x, p), y)[k]
<1> DEFINE q == Rests(p)
           w == Carries(x, p)
<1>1. ASSUME NEW i \in Ranks, NEW j \in Degrees
      PROVE  /\ x[i][j] \in Int /\ q[i][j] \in (-4)..4 /\ w[i][j] \in Int
             /\ 8 * x[i][j] = p[i][j] + q[i][j] + 8192 * w[i][j]
  <2> DEFINE a == x[i][j]
             b == p[i][j]
  <2>1. b \in Int
    BY DEF IsVector, IsElem
  <2>2. a = Compress(U16(b)) \/ a = Pack10(Compress(U16(b)))
    BY DEF Rounds
  <2>3. q[i][j] = Rest(b) /\ w[i][j] = Carry(a, b)
    BY DEF Rests, Carries
  <2> HIDE DEF a, b, q, w
  <2>4. QED  BY <2>1, <2>2, <2>3, Rounded DEF a, b
<1>2. IsVector(x) /\ IsVector(q) /\ IsVector(w)
  <2> HIDE DEF q, w
  <2>1. QED  BY <1>1 DEF IsVector, IsElem
<1>3. Small(q, 4)
  <2> HIDE DEF q, w
  <2>1. QED  BY <1>1 DEF Small
<1> HIDE DEF q, w
<1>4. Combine(x, p, q, w)
  BY <1>1 DEF Combine
<1>5. 8 * Whole(x, y)[k] = Whole(p, y)[k] + Whole(q, y)[k] + 8192 * Whole(w, y)[k]
  BY <1>2, <1>4, WholeLinear
<1>6. QED  BY <1>2, <1>3, <1>5 DEF q, w

\* Two numbers and what they differ by, modulo 2^10, in eighths.
Apart(a, b, n) == a \in Int /\ b \in Int /\ n \in Int /\ (8 * (a - b) - n) % 8192 = 0

\* What the roundings of A t and of A^T s contribute to the two inner products.
Spread(A, s, t, k) ==
  Whole(Rests(ByRows(A, t)), s)[k] - Whole(Rests(ByColumns(A, s)), t)[k]

\* They differ by exactly that.
LEMMA RoundingNoise ==
  ASSUME NEW A, \A i \in Ranks : IsVector(A[i]), NEW h \in Nat,
         NEW s, NEW t, IsVector(s), IsVector(t), Small(s, h), Small(t, h),
         NEW x, Rounds(x, ByRows(A, t)), NEW z, Rounds(z, ByColumns(A, s)), NEW k \in Degrees
  PROVE  /\ Apart(Inner(x, s)[k], Inner(z, t)[k], Spread(A, s, t, k))
         /\ Spread(A, s, t, k) \in (-(8 * (L * (N * h))))..(8 * (L * (N * h)))
<1> DEFINE p == ByRows(A, t)
           q == ByColumns(A, s)
           E == Whole(Rests(p), s)[k]
           F == Whole(Rests(q), t)[k]
           V == Whole(Carries(x, p), s)[k]
           W == Whole(Carries(z, q), t)[k]
           P == Whole(p, s)[k]
           b == L * (N * (4 * h))
           c == L * (N * h)
           X == Whole(x, s)[k]
           Z == Whole(z, t)[k]
<1>1. IsVector(p) /\ IsVector(q)
  <2>1. \A j \in Ranks : IsVector(ColumnVector(A, j))
    BY DEF IsVector, ColumnVector
  <2>2. \A i \in Ranks : IsElem(Whole(A[i], t)) /\ IsElem(Whole(ColumnVector(A, i), s))
    BY <2>1, WholeInt
  <2>3. QED  BY <2>2 DEF IsVector, ByRows, ByColumns
<1>2. Whole(q, t)[k] = P
  BY Bilinear
<1>3. /\ IsVector(x) /\ IsVector(Rests(p)) /\ Small(Rests(p), 4) /\ IsVector(Carries(x, p))
      /\ 8 * X = P + E + 8192 * V
  <2> HIDE DEF p
  <2>1. QED  BY <1>1, RoundedVector DEF p
<1>4. /\ IsVector(z) /\ IsVector(Rests(q)) /\ Small(Rests(q), 4) /\ IsVector(Carries(z, q))
      /\ 8 * Z = P + F + 8192 * W
  <2> HIDE DEF q, P
  <2>1. QED  BY <1>1, <1>2, RoundedVector DEF q
<1>5. -b <= E /\ E <= b /\ -b <= F /\ F <= b
  <2> HIDE DEF p, q
  <2>1. QED  BY <1>3, <1>4, WholeBound
<1>6. X \in Int /\ Z \in Int /\ P \in Int /\ E \in Int /\ F \in Int /\ V \in Int /\ W \in Int
  <2> HIDE DEF p, q
  <2>1. QED  BY <1>1, <1>3, <1>4, WholeInt DEF IsElem
<1>7. b \in Int /\ c \in Int /\ b = 4 * c
  <2>1. L * (N * (4 * h)) = 4 * (L * (N * h))
    BY Sizes
  <2>2. L * (N * h) \in Int
    BY Sizes
  <2>3. QED  BY <2>1, <2>2
<1>8. Inner(x, s)[k] = U16(X) /\ Inner(z, t)[k] = U16(Z)
  BY <1>3, <1>4, WholeInt
<1> HIDE DEF p, q, E, F, V, W, P, b, c, X, Z
<1>9. E - F \in (-(8 * c))..(8 * c)
  BY <1>5, <1>6, <1>7
<1>10. Apart(U16(X), U16(Z), E - F)
  <2> DEFINE e == X \div 65536
             f == Z \div 65536
             m == V - W - 64 * e + 64 * f
  <2>1. U16(X) = X - 65536 * e /\ e \in Int
    BY <1>6 DEF U16
  <2>2. U16(Z) = Z - 65536 * f /\ f \in Int
    BY <1>6 DEF U16
  <2> HIDE DEF e, f
  <2>3. 8 * (U16(X) - U16(Z)) - (E - F) = 8192 * m /\ m \in Int
    BY <1>3, <1>4, <1>6, <2>1, <2>2
  <2> HIDE DEF m
  <2>4. (8192 * m) % 8192 = 0
    BY <2>3
  <2>5. QED  BY <1>6, <2>1, <2>2, <2>3, <2>4 DEF Apart
<1>11. Spread(A, s, t, k) = E - F
  BY DEF Spread, p, q, E, F
<1>12. QED  BY <1>8, <1>9, <1>10, <1>11 DEF c

-----------------------------------------------------------------------------
LEMMA Multiples ==
  ASSUME NEW a \in Int, NEW n \in Int, n > 0
  PROVE  /\ a * n \in Int
         /\ a >= 1 => a * n >= n
         /\ a <= -1 => a * n <= -n
<1>1. \A x, y \in Nat : x * y \in Nat
  BY SMT
<1>2. CASE a >= 1
  <2>1. (a - 1) * n >= 0 /\ a * n = (a - 1) * n + n /\ a * n \in Int
    BY <1>1, <1>2
  <2>2. QED  BY <1>2, <2>1
<1>3. CASE a <= -1
  <2>1. (-1 - a) * n >= 0 /\ a * n = -((-1 - a) * n) - n /\ a * n \in Int
    BY <1>1, <1>3
  <2>2. QED  BY <1>3, <2>1
<1>4. CASE a = 0
  BY <1>4
<1>5. QED  BY <1>2, <1>3, <1>4

\* Quotient and remainder by n are the ones with a remainder below n.
LEMMA Division ==
  ASSUME NEW i \in Nat, NEW n \in Int, n > 0, NEW k \in Int, 0 <= k, k < n
  PROVE  (i * n + k) \div n = i /\ (i * n + k) % n = k
<1> DEFINE p == i * n + k
           q == p \div n
           r == p % n
<1>1. p \in Int
  OBVIOUS
<1>2. q \in Int /\ r \in Int /\ 0 <= r /\ r < n
  <2> HIDE DEF p
  <2>1. QED  BY <1>1
<1>3. p = n * q + r
  <2> HIDE DEF p
  <2>1. QED  BY <1>1
<1> HIDE DEF q, r
<1>4. (i - q) * n = r - k
  BY <1>2, <1>3, Distribute DEF p
<1>5. i - q = 0
  <2> DEFINE a == i - q
  <2>1. a \in Int /\ a * n = r - k
    BY <1>2, <1>4
  <2> HIDE DEF a
  <2>2. ~ (a >= 1) /\ ~ (a <= -1)
    BY <1>2, <2>1, Multiples
  <2>3. QED  BY <2>1, <2>2 DEF a
<1>6. q = i /\ r = k
  BY <1>2, <1>4, <1>5
<1>7. QED  BY <1>6 DEF q, r

\* The cell that holds coefficient k of element i.
LEMMA Cell ==
  ASSUME NEW i \in Ranks, NEW k \in Degrees
  PROVE  /\ i * N + k \in 0..(L * N - 1)
         /\ (i * N + k) \div N = i /\ (i * N + k) % N = k
<1>1. (i * N + k) \div N = i /\ (i * N + k) % N = k
  BY Sizes, Division
<1>2. (L - i) * N >= N /\ (L - i) * N = L * N - i * N /\ i * N \in Nat /\ L * N \in Nat
  BY Sizes, Multiples
<1>3. QED  BY <1>1, <1>2, Sizes

LEMMA CellOf ==
  ASSUME NEW p \in 0..(L * N - 1)
  PROVE  p \div N \in Ranks /\ p % N \in Degrees
<1> DEFINE q == p \div N
           r == p % N
           ln == L * N
<1>1. ln \in Int
  BY Sizes
<1>2. p \in Int /\ 0 <= p /\ p < ln
  BY <1>1 DEF ln
<1>3. q \in Int /\ r \in Int /\ 0 <= r /\ r < N /\ p = N * q + r
  BY <1>2, Sizes
<1> HIDE DEF q, r
<1>4. ~ (q <= -1)
  <2>1. q <= -1 => q * N <= -N
    BY <1>3, Sizes, Multiples
  <2>2. QED  BY <1>2, <1>3, <2>1, Sizes
<1>5. ~ (q >= L)
  <2> DEFINE a == q - L
  <2>1. a \in Int /\ (a >= 1 => a * N >= N) /\ a * N = q * N - ln /\ a * N \in Int
    BY <1>3, Sizes, Multiples
  <2>2. a >= 1 => p >= ln
    BY <1>1, <1>2, <1>3, <2>1, Sizes
  <2>3. a = 0 => p >= ln
    BY <1>1, <1>2, <1>3, <2>1, Sizes
  <2>4. QED  BY <1>2, <1>3, <2>1, <2>2, <2>3, Sizes
<1>6. q \in Ranks /\ r \in Degrees
  BY <1>3, <1>4, <1>5, Sizes
<1>7. QED  BY <1>6 DEF q, r
-----------------------------------------------------------------------------
\* Buffers.
LEMMA SplitIs == Split = L * N /\ Split \in Nat /\ CiphertextLen = Split + N /\ CiphertextLen \in Nat
  BY Sizes DEF Split, ChunkLen, CiphertextLen

\* Reading back a vector keeps the low ten bits of its coefficients.
LEMMA ReadBack ==
  ASSUME NEW v, NEW cells, \A p \in 0..(Split - 1) : cells[p] = Serialize10(v)[p],
         NEW i \in Ranks, NEW k \in Degrees
  PROVE  Deserialize10(cells)[i][k] = Pack10(v[i][k])
<1> DEFINE p == i * N + k
<1>1. p \in 0..(L * N - 1) /\ p \div N = i /\ p % N = k
  BY Cell
<1>2. Deserialize10(cells)[i][k] = cells[p]
  BY DEF Deserialize10, ChunkLen
<1> HIDE DEF p
<1>3. Serialize10(v)[p] = Pack10(v[i][k])
  BY <1>1 DEF Serialize10, ChunkLen
<1>4. QED  BY <1>1, <1>2, <1>3, SplitIs

\* Inner products see the low ten bits of a vector in their own low ten bits.
LEMMA WholeCongruent ==
  ASSUME NEW x, NEW z, NEW y, IsVector(x), IsVector(z), IsVector(y),
         \A i \in Ranks, j \in Degrees : x[i][j] % 1024 = z[i][j] % 1024,
         NEW k \in Degrees
  PROVE  Whole(x, y)[k] % 1024 = Whole(z, y)[k] % 1024
<1> DEFINE p == [i \in Ranks |-> [j \in Degrees |-> 4 * z[i][j]]]
           o == [i \in Ranks |-> [j \in Degrees |-> 0]]
           w == [i \in Ranks |-> [j \in Degrees |-> (x[i][j] - z[i][j]) \div 1024]]
<1>1. \A i \in Ranks, j \in Degrees : x[i][j] \in Int /\ z[i][j] \in Int
  BY DEF IsVector, IsElem
<1>2. ASSUME NEW i \in Ranks, NEW j \in Degrees
      PROVE  /\ p[i][j] \in Int /\ o[i][j] \in Int /\ w[i][j] \in Int
             /\ 8 * x[i][j] = p[i][j] + p[i][j] + 8192 * w[i][j]
             /\ 8 * z[i][j] = p[i][j] + p[i][j] + 8192 * o[i][j]
             /\ 8 * o[i][j] = o[i][j] + o[i][j] + 8192 * o[i][j]
  <2> DEFINE a == x[i][j]
             b == z[i][j]
             c == (a - b) \div 1024
  <2>1. a \in Int /\ b \in Int /\ a % 1024 = b % 1024
    BY <1>1
  <2>2. p[i][j] = 4 * b /\ o[i][j] = 0 /\ w[i][j] = c
    OBVIOUS
  <2> HIDE DEF p, o, w
  <2>3. c \in Int /\ a - b = 1024 * c
    <3> HIDE DEF a, b
    <3>1. QED  BY <2>1 DEF c
  <2> DEFINE pp == p[i][j]
             oo == o[i][j]
             ww == w[i][j]
  <2>4. pp = 4 * b /\ oo = 0 /\ ww = c
    BY <2>2
  <2> HIDE DEF a, b, c, pp, oo, ww
  <2>5. /\ pp \in Int /\ oo \in Int /\ ww \in Int
        /\ 8 * a = pp + pp + 8192 * ww
        /\ 8 * b = pp + pp + 8192 * oo
        /\ 8 * oo = oo + oo + 8192 * oo
    BY <2>1, <2>3, <2>4
  <2>6. QED  BY <2>5 DEF a, b, pp, oo, ww
<1> HIDE DEF p, o, w
<1>3. IsVector(p) /\ IsVector(o) /\ IsVector(w)
  <2>1. \A i \in Ranks, j \in Degrees : p[i][j] \in Int /\ o[i][j] \in Int /\ w[i][j] \in Int
    BY <1>2
  <2>2. QED  BY <2>1 DEF IsVector, IsElem
<1> DEFINE X == Whole(x, y)[k]
           Z == Whole(z, y)[k]
           P == Whole(p, y)[k]
           O == Whole(o, y)[k]
           W == Whole(w, y)[k]
<1>4. X \in Int /\ Z \in Int /\ P \in Int /\ O \in Int /\ W \in Int
  BY <1>3, WholeInt DEF IsElem
<1>5. 8 * X = P + P + 8192 * W
  <2>1. Combine(x, p, p, w)
    BY <1>2 DEF Combine
  <2>2. QED  BY <1>3, <2>1, WholeLinear
<1>6. 8 * Z = P + P + 8192 * O
  <2>1. Combine(z, p, p, o)
    BY <1>2 DEF Combine
  <2>2. QED  BY <1>3, <2>1, WholeLinear
<1>7. 8 * O = O + O + 8192 * O
  <2>1. Combine(o, o, o, o)
    BY <1>2 DEF Combine
  <2>2. QED  BY <1>3, <2>1, WholeLinear
<1> HIDE DEF X, Z, P, O, W
<1>8. X = Z + 1024 * W
  BY <1>4, <1>5, <1>6, <1>7
<1>9. X % 1024 = Z % 1024
  BY <1>4, <1>8
<1>10. QED  BY <1>9 DEF X, Z
-----------------------------------------------------------------------------
IsMatrix(A) == \A i \in Ranks : IsVector(A[i])

\* The products of the scheme are those of the ring, wrapped.
LEMMA WrappedProducts ==
  ASSUME NEW A, IsMatrix(A), NEW s, IsVector(s), NEW i \in Ranks, NEW k \in Degrees
  PROVE  /\ MatMul(A, s)[i][k] = U16(ByRows(A, s)[i][k])
         /\ MatMulTranspose(A, s)[i][k] = U16(ByColumns(A, s)[i][k])
<1>1. MatMul(A, s)[i][k] = Inner(A[i], s)[k]
  BY DEF MatMul
<1>2. Inner(A[i], s)[k] = U16(ByRows(A, s)[i][k])
  BY WholeInt DEF ByRows, IsMatrix
<1>3. MatMulTranspose(A, s)[i][k] = Inner(ColumnVector(A, i), s)[k]
  BY DEF MatMulTranspose, ColumnVector
<1>4. IsVector(ColumnVector(A, i))
  BY DEF IsVector, ColumnVector, IsMatrix
<1>5. Inner(ColumnVector(A, i), s)[k] = U16(ByColumns(A, s)[i][k])
  BY <1>4, WholeInt DEF ByColumns
<1>6. QED  BY <1>1, <1>2, <1>3, <1>5

\* And then rounded.
LEMMA ProductsAre ==
  ASSUME NEW A, IsMatrix(A), NEW s, IsVector(s), NEW i \in Ranks, NEW k \in Degrees
  PROVE  /\ CompressVector(MatMul(A, s))[i][k] = Compress(U16(ByRows(A, s)[i][k]))
         /\ CompressVector(MatMulTranspose(A, s))[i][k] = Compress(U16(ByColumns(A, s)[i][k]))
<1>1. CompressVector(MatMul(A, s))[i][k] = Compress(MatMul(A, s)[i][k])
  BY DEF CompressVector
<1>2. CompressVector(MatMulTranspose(A, s))[i][k] = Compress(MatMulTranspose(A, s)[i][k])
  BY DEF CompressVector
<1>3. QED  BY <1>1, <1>2, WrappedProducts

\* A rounded coefficient has at most 13 bits.
LEMMA CompressRange ==
  ASSUME NEW x \in Int
  PROVE  /\ Compress(U16(x)) \in Bits13
         /\ Pack10(Compress(U16(x))) \in Bits10
<1> DEFINE u == U16(U16(x) + H1)
           c == u \div 8
<1>1. u \in Int /\ 0 <= u /\ u <= 65535
  <2>1. U16(x) + H1 \in Int
    BY DEF U16, H1
  <2>2. QED  BY <2>1 DEF U16
<1> HIDE DEF u
<1>2. c \in Int /\ 0 <= c /\ c <= 8191
  BY <1>1
<1> HIDE DEF c
<1>3. c \in Bits13 /\ c % 1024 \in Bits10
  BY <1>2 DEF Bits13, Bits10
<1>4. Compress(U16(x)) = c /\ Pack10(c) = c % 1024
  BY DEF Compress, Pack10, c, u
<1>5. QED  BY <1>3, <1>4
-----------------------------------------------------------------------------
\* What a secret key expands to.
LEMMA KeyParts ==
  ASSUME NEW A, NEW s
  PROVE  /\ ExpandSecretKey(A, s).s = s
         /\ ExpandSecretKey(A, s).pk.A = A
         /\ ExpandSecretKey(A, s).pk.vec = CompressVector(MatMulTranspose(A, s))
         /\ ExpandSecretKey(A, s).pk.bytes = Serialize10(ExpandSecretKey(A, s).pk.vec)
         /\ FromBytes(ExpandSecretKey(A, s).pk).A = A
         /\ FromBytes(ExpandSecretKey(A, s).pk).vec = Deserialize10(ExpandSecretKey(A, s).pk.bytes)
BY Zenon DEF ExpandSecretKey, FromBytes

\* The cells of a ciphertext.
LEMMA CiphertextCells ==
  ASSUME NEW pk, NEW msg, NEW t, NEW c, c = EncryptDeterministic(pk, msg, t)
  PROVE  /\ DOMAIN c = 0..(CiphertextLen - 1)
         /\ \A p \in 0..(Split - 1) : c[p] = Serialize10(CompressVector(MatMul(pk.A, t)))[p]
         /\ \A k \in Degrees : c[Split + k] = EncodeCoeff(T, Inner(pk.vec, t)[k], msg[k])
<1> DEFINE v == Inner(pk.vec, t)
           b == Serialize10(CompressVector(MatMul(pk.A, t)))
<1>1. c = [p \in 0..(CiphertextLen - 1) |->
             IF p < Split THEN b[p] ELSE EncodeCoeff(T, v[p - Split], msg[p - Split])]
  BY DEF EncryptDeterministic
<1> HIDE DEF v, b
<1>2. ASSUME NEW p \in 0..(Split - 1) PROVE c[p] = b[p]
  <2>1. p \in 0..(CiphertextLen - 1) /\ p < Split
    BY SplitIs, Sizes
  <2>2. QED  BY <1>1, <2>1
<1>3. ASSUME NEW k \in Degrees PROVE c[Split + k] = EncodeCoeff(T, v[k], msg[k])
  <2>1. Split + k \in 0..(CiphertextLen - 1) /\ ~ (Split + k < Split) /\ (Split + k) - Split = k
    BY SplitIs, Sizes
  <2>2. QED  BY <1>1, <2>1
<1>4. DOMAIN c = 0..(CiphertextLen - 1)
  BY <1>1
<1>5. QED  BY <1>2, <1>3, <1>4 DEF b, v

-----------------------------------------------------------------------------
\* The matrices and secrets considered are such.
LEMMA EntriesIn ==
  ASSUME NEW S, NEW A
  PROVE  /\ A \in MatrixOver(S) => \A i \in Ranks, j \in Ranks, k \in Degrees : A[i][j][k] \in S
         /\ A \in VectorOver(S) => \A i \in Ranks, k \in Degrees : A[i][k] \in S
BY DEF MatrixOver, VectorOver, Elem

LEMMA MatrixIs == ASSUME NEW A \in Matrices PROVE IsMatrix(A)
<1>1. A \in MatrixOver(Bits13)
  BY RingAssumption
<1>2. Bits13 \subseteq Int
  BY DEF Bits13
<1>3. \A i \in Ranks, j \in Ranks, k \in Degrees : A[i][j][k] \in Bits13
  BY <1>1, EntriesIn
<1>4. QED  BY <1>2, <1>3 DEF IsMatrix, IsVector, IsElem

LEMMA SecretIs == ASSUME NEW s \in Secrets PROVE IsVector(s) /\ Small(s, HalfMu)
<1>1. s \in VectorOver((-HalfMu)..HalfMu) /\ HalfMu \in Nat
  BY RingAssumption
<1>2. \A i \in Ranks, k \in Degrees : s[i][k] \in (-HalfMu)..HalfMu
  BY <1>1, EntriesIn
<1>3. \A i \in Ranks, k \in Degrees : s[i][k] \in Int /\ -HalfMu <= s[i][k] /\ s[i][k] <= HalfMu
  BY <1>1, <1>2
<1>4. QED  BY <1>3 DEF IsVector, IsElem, Small

LEMMA ProductVectors ==
  ASSUME NEW A, IsMatrix(A), NEW s, IsVector(s)
  PROVE  IsVector(ByRows(A, s)) /\ IsVector(ByColumns(A, s))
<1>1. \A j \in Ranks : IsVector(ColumnVector(A, j))
  BY DEF IsVector, ColumnVector, IsMatrix
<1>2. \A i \in Ranks : IsElem(Whole(A[i], s)) /\ IsElem(Whole(ColumnVector(A, i), s))
  BY <1>1, WholeInt DEF IsMatrix
<1>3. QED  BY <1>2 DEF IsVector, ByRows, ByColumns

LEMMA InnerInt ==
  ASSUME NEW x, NEW y, IsVector(x), IsVector(y), NEW k \in Degrees
  PROVE  Inner(x, y)[k] \in Int
<1>1. Inner(x, y)[k] = U16(Whole(x, y)[k]) /\ Whole(x, y)[k] \in Int
  BY WholeInt DEF IsElem
<1>2. QED  BY <1>1 DEF U16

\* What the owner's key and a ciphertext made for it round.
LEMMA RoundsBoth ==
  ASSUME NEW A \in Matrices, NEW s \in Secrets, NEW t \in Secrets, NEW msg
  PROVE  LET pk == ExpandSecretKey(A, s).pk
         IN  /\ Rounds(pk.vec, ByColumns(A, s))
             /\ Rounds(Deserialize10(EncryptDeterministic(pk, msg, t)), ByRows(A, t))
<1> DEFINE pk == ExpandSecretKey(A, s).pk
           c == EncryptDeterministic(pk, msg, t)
           v == CompressVector(MatMul(A, t))
<1>1. IsMatrix(A) /\ IsVector(s) /\ IsVector(t)
  BY MatrixIs, SecretIs
<1>2. pk.vec = CompressVector(MatMulTranspose(A, s)) /\ pk.A = A
  BY KeyParts
<1>3. Rounds(pk.vec, ByColumns(A, s))
  BY <1>1, <1>2, ProductsAre DEF Rounds
<1>4. \A p \in 0..(Split - 1) : c[p] = Serialize10(CompressVector(MatMul(pk.A, t)))[p]
  BY CiphertextCells
<1>5. \A p \in 0..(Split - 1) : c[p] = Serialize10(v)[p]
  BY <1>2, <1>4
<1> HIDE DEF c, v
<1>6. ASSUME NEW i \in Ranks, NEW k \in Degrees
      PROVE  Deserialize10(c)[i][k] = Pack10(Compress(U16(ByRows(A, t)[i][k])))
  <2>1. Deserialize10(c)[i][k] = Pack10(v[i][k])
    BY <1>5, ReadBack
  <2>2. v[i][k] = Compress(U16(ByRows(A, t)[i][k]))
    BY <1>1, ProductsAre DEF v
  <2>3. QED  BY <2>1, <2>2
<1>7. Rounds(Deserialize10(c), ByRows(A, t))
  BY <1>6 DEF Rounds
<1>8. QED  BY <1>3, <1>7 DEF c

\* Wrapping does not change what is rounded away.
LEMMA RestWrapped ==
  ASSUME NEW x \in Int
  PROVE  Rest(U16(x)) = Rest(x)
<1> DEFINE q == x \div 65536
<1>1. U16(x) = x - 65536 * q /\ q \in Int
  BY DEF U16
<1> HIDE DEF q
<1>2. (x - 65536 * q + 4) % 8 = (x + 4) % 8
  BY <1>1
<1>3. QED  BY <1>1, <1>2 DEF Rest

LEMMA RestsAre ==
  ASSUME NEW A, IsMatrix(A), NEW s, IsVector(s)
  PROVE  /\ Rests(MatMul(A, s)) = Rests(ByRows(A, s))
         /\ Rests(MatMulTranspose(A, s)) = Rests(ByColumns(A, s))
<1>1. ASSUME NEW i \in Ranks, NEW j \in Degrees
      PROVE  /\ Rest(MatMul(A, s)[i][j]) = Rest(ByRows(A, s)[i][j])
             /\ Rest(MatMulTranspose(A, s)[i][j]) = Rest(ByColumns(A, s)[i][j])
  <2>1. ByRows(A, s)[i][j] \in Int /\ ByColumns(A, s)[i][j] \in Int
    BY ProductVectors DEF IsVector, IsElem
  <2>2. /\ MatMul(A, s)[i][j] = U16(ByRows(A, s)[i][j])
        /\ MatMulTranspose(A, s)[i][j] = U16(ByColumns(A, s)[i][j])
    BY WrappedProducts
  <2>3. QED  BY <2>1, <2>2, RestWrapped
<1>2. QED  BY <1>1 DEF Rests

\* The noise of a ciphertext made for the owner's key.
LEMMA NoiseOf ==
  ASSUME NEW A \in Matrices, NEW s \in Secrets, NEW t \in Secrets, NEW msg, NEW k \in Degrees,
         NEW pk, pk = ExpandSecretKey(A, s).pk, NEW c, c = EncryptDeterministic(pk, msg, t)
  PROVE  /\ Apart(Inner(Deserialize10(c), s)[k], Inner(pk.vec, t)[k], Spread(A, s, t, k))
         /\ Spread(A, s, t, k) \in (-(8 * (L * (N * HalfMu))))..(8 * (L * (N * HalfMu)))
<1> DEFINE x == Deserialize10(c)
           z == pk.vec
<1>1. Rounds(x, ByRows(A, t)) /\ Rounds(z, ByColumns(A, s))
  BY RoundsBoth
<1>2. IsMatrix(A) /\ IsVector(s) /\ IsVector(t) /\ Small(s, HalfMu) /\ Small(t, HalfMu) /\ HalfMu \in Nat
  BY MatrixIs, SecretIs, RingAssumption
<1> HIDE DEF x, z
<1>3. /\ Apart(Inner(x, s)[k], Inner(z, t)[k], Spread(A, s, t, k))
      /\ Spread(A, s, t, k) \in (-(8 * (L * (N * HalfMu))))..(8 * (L * (N * HalfMu)))
  BY <1>1, <1>2, RoundingNoise DEF IsMatrix
<1>4. QED  BY <1>3 DEF x, z

\* In whole steps of 2^-10, the difference is an eighth of the noise.
LEMMA Eighth ==
  ASSUME NEW a, NEW b, NEW n, Apart(a, b, n), NEW m \in Nat, n \in (-(8 * m))..(8 * m)
  PROVE  \E d \in (-m)..m : (a - b - d) % 1024 = 0
<1> DEFINE e == 8 * (a - b) - n
           q == e \div 8192
           d == a - b - 1024 * q
<1>1. a \in Int /\ b \in Int /\ n \in Int /\ e \in Int /\ e % 8192 = 0
  BY DEF Apart
<1>2. e = 8192 * q /\ q \in Int
  <2> HIDE DEF e
  <2>1. QED  BY <1>1
<1> HIDE DEF q
<1>3. 8 * d = n /\ d \in Int
  BY <1>1, <1>2
<1>4. d \in (-m)..m
  BY <1>1, <1>3
<1>5. (a - b - d) % 1024 = 0
  <2>1. a - b - d = 1024 * q
    BY <1>1, <1>2
  <2>2. (1024 * q) % 1024 = 0
    BY <1>2
  <2>3. QED  BY <2>1, <2>2
<1>6. QED  BY <1>4, <1>5

\* Decryption of a ciphertext made for the owner's key, when the noise is tolerable.
LEMMA Decrypted ==
  ASSUME NEW A \in Matrices, NEW s \in Secrets, NEW t \in Secrets, NEW msg \in Elem({0, 1}),
         \A k \in Degrees : Spread(A, s, t, k) \in (-(8 * Margin(T)))..(8 * Margin(T))
  PROVE  DecryptWith(s, EncryptDeterministic(ExpandSecretKey(A, s).pk, msg, t)) = msg
<1> DEFINE pk == ExpandSecretKey(A, s).pk
           c == EncryptDeterministic(pk, msg, t)
           v == Inner(Deserialize10(c), s)
           w == Inner(pk.vec, t)
<1>1. DecryptWith(s, c) = [k \in Degrees |-> DecodeCoeff(T, v[k], c[Split + k])]
  BY DEF DecryptWith
<1>2. \A k \in Degrees : c[Split + k] = EncodeCoeff(T, w[k], msg[k])
  BY CiphertextCells
<1>3. ASSUME NEW k \in Degrees PROVE DecodeCoeff(T, v[k], c[Split + k]) = msg[k]
  <2> DEFINE n == Spread(A, s, t, k)
             m == Margin(T)
  <2>0. pk = ExpandSecretKey(A, s).pk /\ c = EncryptDeterministic(pk, msg, t)
    OBVIOUS
  <2> HIDE DEF c, pk
  <2>1. Apart(v[k], w[k], n)
    BY <2>0, NoiseOf
  <2> HIDE DEF v, w
  <2>2. v[k] \in Int /\ w[k] \in Int
    BY <2>1 DEF Apart
  <2>3. m \in Nat /\ n \in (-(8 * m))..(8 * m)
    <3>1. m \in Nat
      BY RingAssumption DEF Ts, Margin, Weight
    <3> HIDE DEF n
    <3>2. QED  BY <3>1 DEF n
  <2> HIDE DEF n, m
  <2>4. \E d \in (-m)..m : (v[k] - w[k] - d) % 1024 = 0
    BY <2>1, <2>3, Eighth
  <2>5. PICK d \in (-Margin(T))..Margin(T) : (v[k] - w[k] - d) % 1024 = 0
    BY <2>4 DEF m
  <2>6. msg[k] \in {0, 1} /\ T \in Ts
    BY RingAssumption DEF Elem
  <2>7. DecodeCoeff(T, v[k], EncodeCoeff(T, w[k], msg[k])) = msg[k]
    BY <2>2, <2>5, <2>6, DecodeCorrect
  <2>8. QED  BY <1>2, <2>7
<1>4. msg = [k \in Degrees |-> msg[k]]
  BY DEF Elem
<1> HIDE DEF v, w, c, pk
<1>5. QED  BY <1>1, <1>3, <1>4 DEF c, pk

\* Encryption under the public key read from its bytes gives the same ciphertext.
LEMMA FormsSame ==
  ASSUME NEW A \in Matrices, NEW s \in Secrets, NEW t \in Secrets, NEW msg \in Elem({0, 1})
  PROVE  LET pk == ExpandSecretKey(A, s).pk
         IN  EncryptDeterministic(FromBytes(pk), msg, t) = EncryptDeterministic(pk, msg, t)
<1> DEFINE pk == ExpandSecretKey(A, s).pk
           im == FromBytes(pk)
           x == pk.vec
           z == im.vec
           v == Inner(x, t)
           w == Inner(z, t)
           b == Serialize10(CompressVector(MatMul(A, t)))
<1>1. pk.A = A /\ im.A = A /\ pk.bytes = Serialize10(x) /\ z = Deserialize10(pk.bytes)
  BY KeyParts
<1>2. IsMatrix(A) /\ IsVector(s) /\ IsVector(t)
  BY MatrixIs, SecretIs
<1>3. IsVector(x)
  <2>1. Rounds(x, ByColumns(A, s)) /\ IsVector(ByColumns(A, s))
    BY <1>2, RoundsBoth, ProductVectors
  <2>2. 0 \in Degrees
    BY Sizes
  <2> HIDE DEF x
  <2>3. QED  BY <1>2, <2>1, <2>2, RoundedVector
<1>4. \A i \in Ranks, j \in Degrees : z[i][j] = Pack10(x[i][j])
  BY <1>1, ReadBack
<1>5. EncryptDeterministic(pk, msg, t)
        = [p \in 0..(CiphertextLen - 1) |->
             IF p < Split THEN b[p] ELSE EncodeCoeff(T, v[p - Split], msg[p - Split])]
  BY <1>1 DEF EncryptDeterministic
<1>6. EncryptDeterministic(im, msg, t)
        = [p \in 0..(CiphertextLen - 1) |->
             IF p < Split THEN b[p] ELSE EncodeCoeff(T, w[p - Split], msg[p - Split])]
  BY <1>1 DEF EncryptDeterministic
<1> HIDE DEF x, z, b, pk, im
<1>7. IsVector(z) /\ \A i \in Ranks, j \in Degrees : x[i][j] % 1024 = z[i][j] % 1024
  <2>1. ASSUME NEW i \in Ranks, NEW j \in Degrees
        PROVE  z[i][j] \in Int /\ x[i][j] % 1024 = z[i][j] % 1024
    <3> DEFINE a == x[i][j]
    <3>1. a \in Int /\ z[i][j] = a % 1024
      BY <1>3, <1>4 DEF IsVector, IsElem, Pack10
    <3> HIDE DEF a
    <3>2. a % 1024 \in Int /\ (a % 1024) % 1024 = a % 1024
      BY <3>1
    <3>3. QED  BY <3>1, <3>2 DEF a
  <2>2. QED  BY <2>1 DEF IsVector, IsElem
<1>8. ASSUME NEW k \in Degrees
      PROVE  EncodeCoeff(T, v[k], msg[k]) = EncodeCoeff(T, w[k], msg[k])
  <2>1. v[k] = U16(Whole(x, t)[k]) /\ w[k] = U16(Whole(z, t)[k])
        /\ Whole(x, t)[k] \in Int /\ Whole(z, t)[k] \in Int
    BY <1>2, <1>3, <1>7, WholeInt DEF IsElem
  <2>2. Whole(x, t)[k] % 1024 = Whole(z, t)[k] % 1024
    BY <1>2, <1>3, <1>7, WholeCongruent
  <2> HIDE DEF v, w
  <2>3. v[k] \in Int /\ w[k] \in Int /\ v[k] % 1024 = w[k] % 1024
    <3> DEFINE a == Whole(x, t)[k]
               c == Whole(z, t)[k]
    <3>1. a \in Int /\ c \in Int /\ a % 1024 = c % 1024 /\ v[k] = U16(a) /\ w[k] = U16(c)
      BY <2>1, <2>2
    <3> HIDE DEF a, c
    <3>2. (a % 65536) % 1024 = a % 1024 /\ (c % 65536) % 1024 = c % 1024
          /\ a % 65536 \in Int /\ c % 65536 \in Int
      BY <3>1
    <3>3. QED  BY <3>1, <3>2 DEF U16
  <2>4. msg[k] \in {0, 1} /\ T \in Ts
    BY RingAssumption DEF Elem
  <2>5. QED  BY <2>3, <2>4, EncodeIgnoresHighBits
<1> HIDE DEF v, w
<1>9. \A p \in 0..(CiphertextLen - 1) :
        ~ (p < Split) =>
           EncodeCoeff(T, v[p - Split], msg[p - Split]) = EncodeCoeff(T, w[p - Split], msg[p - Split])
  <2> SUFFICES ASSUME NEW p \in 0..(CiphertextLen - 1), ~ (p < Split) PROVE p - Split \in Degrees
    BY <1>8
  <2>1. QED  BY SplitIs, Sizes
<1>10. EncryptDeterministic(im, msg, t) = EncryptDeterministic(pk, msg, t)
  BY <1>5, <1>6, <1>9
<1>11. QED  BY <1>10 DEF im, pk

-----------------------------------------------------------------------------
\* Whichever form a sender holds, the ciphertext is the one the owner's form gives.
LEMMA EncryptedIs ==
  ASSUME KeyIs, ImportedIs, NEW pk \in PublicKeys, NEW msg \in Elem({0, 1}), NEW t \in Secrets
  PROVE  /\ key # None
         /\ EncryptDeterministic(pk, msg, t) = EncryptDeterministic(key.pk, msg, t)
<1>1. key # None /\ (pk = key.pk \/ pk = FromBytes(key.pk))
  BY DEF PublicKeys, ImportedIs
<1>2. key.pk.A \in Matrices /\ key.s \in Secrets /\ key = ExpandSecretKey(key.pk.A, key.s)
  BY <1>1 DEF KeyIs
<1> DEFINE A == key.pk.A
           s == key.s
<1>3. ExpandSecretKey(A, s).pk = key.pk
  BY <1>2
<1> HIDE DEF A, s
<1>4. A \in Matrices /\ s \in Secrets
  BY <1>2 DEF A, s
<1>5. EncryptDeterministic(FromBytes(key.pk), msg, t) = EncryptDeterministic(key.pk, msg, t)
  BY <1>3, <1>4, FormsSame
<1>6. QED  BY <1>1, <1>5

\* What the roundings contribute is the noise of the execution.
LEMMA NoiseIs ==
  ASSUME KeyIs, CtIs, ct # None, NEW k \in Degrees
  PROVE  Noise[k] = Spread(key.pk.A, key.s, sent.sprime, k)
<1> DEFINE A == key.pk.A
           s == key.s
           t == sent.sprime
<1>1. Noise[k] = Whole(Rests(MatMul(A, t)), s)[k] - Whole(Rests(MatMulTranspose(A, s)), t)[k]
  BY DEF Noise
<1>2. A \in Matrices /\ s \in Secrets /\ t \in Secrets
  BY DEF KeyIs, CtIs
<1> HIDE DEF A, s, t
<1>3. IsMatrix(A) /\ IsVector(s) /\ IsVector(t)
  BY <1>2, MatrixIs, SecretIs
<1>4. Rests(MatMul(A, t)) = Rests(ByRows(A, t))
      /\ Rests(MatMulTranspose(A, s)) = Rests(ByColumns(A, s))
  BY <1>3, RestsAre
<1>5. Noise[k] = Spread(A, s, t, k)
  BY <1>1, <1>4 DEF Spread
<1>6. QED  BY <1>5 DEF A, s, t

\* Decrypting it gives the message when that is tolerable.
LEMMA DecryptedIs ==
  ASSUME KeyIs, CtIs, ct # None, Tolerable
  PROVE  DecryptWith(key.s, ct) = sent.msg
<1>1. /\ key.pk.A \in Matrices /\ key.s \in Secrets /\ key = ExpandSecretKey(key.pk.A, key.s)
      /\ sent.msg \in Elem({0, 1}) /\ sent.sprime \in Secrets
      /\ ct = EncryptDeterministic(key.pk, sent.msg, sent.sprime)
  BY DEF KeyIs, CtIs
<1> DEFINE A == key.pk.A
           s == key.s
           t == sent.sprime
           msg == sent.msg
<1>2. ct = EncryptDeterministic(ExpandSecretKey(A, s).pk, msg, t)
  BY <1>1
<1>3. \A k \in Degrees : Noise[k] \in (-(8 * Margin(T)))..(8 * Margin(T))
  BY Zenon DEF Tolerable
<1>4. \A k \in Degrees : Noise[k] = Spread(A, s, t, k)
  BY NoiseIs
<1> HIDE DEF A, s, t, msg
<1>5. A \in Matrices /\ s \in Secrets /\ t \in Secrets /\ msg \in Elem({0, 1})
  BY <1>1 DEF A, s, t, msg
<1>6. \A k \in Degrees : Spread(A, s, t, k) \in (-(8 * Margin(T)))..(8 * Margin(T))
  BY <1>3, <1>4
<1>7. DecryptWith(s, ct) = msg
  BY <1>2, <1>5, <1>6, Decrypted
<1>8. QED  BY <1>7 DEF s, msg

LEMMA InitInv == Init => IInv
BY DEF Init, IInv, KeyIs, ImportedIs, CtIs, PlainIs, AgainIs

LEMMA StepInv == IInv /\ [Next]_vars => IInv'
<1> SUFFICES ASSUME IInv, [Next]_vars PROVE IInv'
  OBVIOUS
<1> USE DEF IInv
<1>1. CASE Generate
  <2>1. PICK A \in Matrices, s \in Secrets : key' = ExpandSecretKey(A, s)
    BY <1>1 DEF Generate
  <2>2. key = None /\ UNCHANGED <<imported, sent, ct, plain, again>>
    BY <1>1 DEF Generate
  <2>3. key'.pk.A = A /\ key'.s = s
    BY <2>1, KeyParts
  <2>4. KeyIs'
    BY <2>1, <2>3, Zenon DEF KeyIs
  <2>5. imported = None /\ ct = None /\ plain = None /\ again = None
    BY <2>2, Zenon DEF ImportedIs, CtIs, PlainIs, AgainIs
  <2>6. ImportedIs' /\ CtIs' /\ PlainIs' /\ AgainIs'
    BY <2>2, <2>5, Zenon DEF ImportedIs, CtIs, PlainIs, AgainIs
  <2>7. QED  BY <2>4, <2>6
<1>2. CASE Import
  <2>1. key # None /\ imported' = FromBytes(key.pk) /\ UNCHANGED <<key, sent, ct, plain, again>>
    BY <1>2 DEF Import
  <2>2. KeyIs' /\ CtIs' /\ PlainIs' /\ AgainIs'
    BY <2>1, Zenon DEF KeyIs, CtIs, PlainIs, AgainIs
  <2>3. ImportedIs'
    BY <2>1, Zenon DEF ImportedIs
  <2>4. QED  BY <2>2, <2>3
<1>3. CASE Encrypt
  <2>1. ct = None /\ UNCHANGED <<key, imported, plain, again>>
    BY <1>3 DEF Encrypt
  <2>2. PICK pk \in PublicKeys, msg \in Elem({0, 1}), sprime \in Secrets :
          /\ sent' = [msg |-> msg, sprime |-> sprime]
          /\ ct' = EncryptDeterministic(pk, msg, sprime)
    BY <1>3 DEF Encrypt
  <2>3. key # None /\ ct' = EncryptDeterministic(key.pk, msg, sprime)
    BY <2>2, EncryptedIs
  <2>4. sent'.msg = msg /\ sent'.sprime = sprime
    BY <2>2
  <2>5. CtIs'
    BY <2>1, <2>2, <2>3, <2>4, Zenon DEF CtIs
  <2>6. KeyIs' /\ ImportedIs'
    BY <2>1, Zenon DEF KeyIs, ImportedIs
  <2>7. plain = None /\ again = None
    BY <2>1, Zenon DEF PlainIs, AgainIs
  <2>8. PlainIs' /\ AgainIs'
    BY <2>1, <2>7, Zenon DEF PlainIs, AgainIs
  <2>9. QED  BY <2>5, <2>6, <2>8
<1>4. CASE Decrypt
  <2>1. /\ ct # None /\ plain = None /\ plain' = DecryptWith(key.s, ct)
        /\ UNCHANGED <<key, imported, sent, ct, again>>
    BY <1>4 DEF Decrypt
  <2>2. KeyIs' /\ ImportedIs' /\ CtIs'
    BY <2>1, Zenon DEF KeyIs, ImportedIs, CtIs
  <2>3. PlainIs'
    BY <2>1, Zenon DEF PlainIs
  <2>4. AgainIs'
    BY <2>1, Zenon DEF AgainIs
  <2>5. QED  BY <2>2, <2>3, <2>4
<1>5. CASE Reencrypt
  <2>1. plain # None /\ UNCHANGED <<key, imported, sent, ct, plain>>
    BY <1>5 DEF Reencrypt
  <2>2. PICK sprime \in Secrets :
          /\ plain = sent.msg => sprime = sent.sprime
          /\ again' = EncryptDeterministic(key.pk, plain, sprime)
    BY <1>5 DEF Reencrypt
  <2>3. ct # None
    BY <2>1 DEF PlainIs
  <2>4. ct = EncryptDeterministic(key.pk, sent.msg, sent.sprime)
    BY <2>3, Zenon DEF CtIs
  <2>5. AgainIs'
    BY <2>1, <2>2, <2>3, <2>4, Zenon DEF AgainIs
  <2>6. KeyIs' /\ ImportedIs' /\ CtIs' /\ PlainIs'
    BY <2>1, Zenon DEF KeyIs, ImportedIs, CtIs, PlainIs
  <2>7. QED  BY <2>5, <2>6
<1>6. CASE UNCHANGED vars
  <2>1. UNCHANGED <<key, imported, sent, ct, plain, again>>
    BY <1>6 DEF vars
  <2>2. QED  BY <2>1, Zenon DEF KeyIs, ImportedIs, CtIs, PlainIs, AgainIs
<1>7. QED  BY <1>1, <1>2, <1>3, <1>4, <1>5, <1>6 DEF Next

\* In every state the owner's key, the ciphertext and what is read from it are
\* what the protocol says, whatever the noise.
THEOREM Invariance == Spec => []IInv
BY InitInv, StepInv, PTL DEF Spec

LEMMA InvDecrypts == IInv => Decrypts /\ Reencrypts
<1>1. KeyIs /\ CtIs /\ PlainIs => Decrypts
  BY DecryptedIs, Zenon DEF PlainIs, Decrypts
<1>2. AgainIs => Reencrypts
  BY Zenon DEF AgainIs, Reencrypts
<1>3. QED  BY <1>1, <1>2 DEF IInv

LEMMA InvNoise == IInv => NoiseBound
<1> SUFFICES ASSUME IInv, ct # None
    PROVE  Explained(Inner(Deserialize10(ct), key.s), Inner(key.pk.vec, sent.sprime), Noise)
  BY Zenon DEF NoiseBound
<1>1. /\ key.pk.A \in Matrices /\ key.s \in Secrets /\ key = ExpandSecretKey(key.pk.A, key.s)
      /\ sent.msg \in Elem({0, 1}) /\ sent.sprime \in Secrets
      /\ ct = EncryptDeterministic(key.pk, sent.msg, sent.sprime)
  BY DEF IInv, KeyIs, CtIs
<1> DEFINE A == key.pk.A
           s == key.s
           t == sent.sprime
           msg == sent.msg
           pk == key.pk
           v == Inner(Deserialize10(ct), s)
           w == Inner(pk.vec, t)
<1>2. pk = ExpandSecretKey(A, s).pk /\ ct = EncryptDeterministic(pk, msg, t)
  BY <1>1
<1>3. A \in Matrices /\ s \in Secrets /\ t \in Secrets
  BY <1>1
<1> SUFFICES Explained(v, w, Noise)
  BY DEF v, w, s, pk, t
<1>4. ASSUME NEW k \in Degrees  PROVE Noise[k] = Spread(A, s, t, k)
  BY NoiseIs DEF IInv
<1> HIDE DEF A, s, t, msg, pk
<1>5. ASSUME NEW k \in Degrees
      PROVE  /\ Apart(v[k], w[k], Spread(A, s, t, k))
             /\ Spread(A, s, t, k) \in (-Worst)..Worst
  BY <1>2, <1>3, NoiseOf DEF Worst
<1> HIDE DEF v, w
<1>6. ASSUME NEW k \in Degrees
      PROVE  /\ (8 * (v[k] - w[k]) - Noise[k]) % 8192 = 0
             /\ Noise[k] \in (-Worst)..Worst
  BY <1>4, <1>5 DEF Apart
<1>7. QED  BY <1>6 DEF Explained

\* What a key's vector and its bytes range over.
LEMMA KeyTypes ==
  ASSUME NEW A \in Matrices, NEW s \in Secrets,
         NEW pk, pk = ExpandSecretKey(A, s).pk, NEW im, im = FromBytes(pk)
  PROVE  /\ pk.vec \in VectorOver(Bits13)
         /\ pk.bytes \in [0..(Split - 1) -> Bits10]
         /\ im.vec \in VectorOver(Bits10)
<1> DEFINE b == ByColumns(A, s)
           x == CompressVector(MatMulTranspose(A, s))
           z == im.vec
<1>1. IsMatrix(A) /\ IsVector(s)
  BY MatrixIs, SecretIs
<1>2. IsVector(b)
  BY <1>1, ProductVectors
<1>3. pk.vec = x /\ pk.bytes = Serialize10(x) /\ z = Deserialize10(pk.bytes)
  BY KeyParts
<1>4. ASSUME NEW i \in Ranks, NEW k \in Degrees
      PROVE  x[i][k] \in Bits13 /\ Pack10(x[i][k]) \in Bits10
  <2>1. x[i][k] = Compress(U16(b[i][k]))
    BY <1>1, ProductsAre
  <2>2. b[i][k] \in Int
    BY <1>2 DEF IsVector, IsElem
  <2> HIDE DEF x, b
  <2>3. Compress(U16(b[i][k])) \in Bits13 /\ Pack10(Compress(U16(b[i][k]))) \in Bits10
    BY <2>2, CompressRange
  <2>4. QED  BY <2>1, <2>3 
<1>5. x \in VectorOver(Bits13)
  <2>1. x = [i \in Ranks |-> [k \in Degrees |-> x[i][k]]]
    BY Zenon DEF CompressVector
  <2> HIDE DEF x
  <2>2. QED  BY <1>4, <2>1 DEF VectorOver, Elem
<1>6. Serialize10(x) \in [0..(Split - 1) -> Bits10]
  <2>1. Serialize10(x) = [p \in 0..(L * N - 1) |-> Pack10(x[p \div N][p % N])]
    BY DEF Serialize10, ChunkLen
  <2> HIDE DEF x
  <2>2. ASSUME NEW p \in 0..(L * N - 1) PROVE Pack10(x[p \div N][p % N]) \in Bits10
    BY <1>4, CellOf
  <2>3. QED  BY <2>1, <2>2, SplitIs
<1>7. ASSUME NEW i \in Ranks, NEW k \in Degrees PROVE z[i][k] \in Bits10
  <2>1. \A p \in 0..(Split - 1) : pk.bytes[p] = Serialize10(x)[p]
    BY <1>3
  <2> HIDE DEF x, z
  <2>2. z[i][k] = Pack10(x[i][k])
    BY <1>3, <2>1, ReadBack
  <2>3. QED  BY <1>4, <2>2
<1>8. z \in VectorOver(Bits10)
  <2>1. z = [i \in Ranks |-> [k \in Degrees |-> z[i][k]]]
    BY <1>3, Zenon DEF Deserialize10
  <2> HIDE DEF z
  <2>2. QED  BY <1>7, <2>1 DEF VectorOver, Elem
<1> HIDE DEF x
<1>9. QED  BY <1>3, <1>5, <1>6, <1>8

\* A word of a ciphertext's second part, cut down to T bits.
LEMMA EncodeRange ==
  ASSUME NEW v \in Int, NEW m \in {0, 1}
  PROVE  EncodeCoeff(T, v, m) \in 0..(Levels(T) - 1)
<1> DEFINE u == U16(v - 512 * m + H1)
           c == u \div Weight(T)
<1>1. T \in Ts
  BY RingAssumption
<1>2. Levels(T) \in {8, 16, 64} /\ Weight(T) \in {128, 64, 16}
  BY <1>1 DEF Levels, Weight, Ts
<1>3. u \in Int
  BY DEF U16, H1
<1> HIDE DEF u
<1>4. c \in Int
  BY <1>2, <1>3
<1> HIDE DEF c
<1>5. c % Levels(T) \in 0..(Levels(T) - 1)
  BY <1>2, <1>4
<1>6. QED  BY <1>5 DEF EncodeCoeff, c, u

\* What a ciphertext's cells range over.
LEMMA CiphertextTypes ==
  ASSUME NEW A \in Matrices, NEW s \in Secrets, NEW t \in Secrets, NEW msg \in Elem({0, 1}),
         NEW pk, pk = ExpandSecretKey(A, s).pk, NEW c, c = EncryptDeterministic(pk, msg, t)
  PROVE  /\ DOMAIN c = 0..(CiphertextLen - 1)
         /\ \A p \in DOMAIN c : c[p] \in CellRange(p)
<1> DEFINE v == CompressVector(MatMul(A, t))
<1>1. IsMatrix(A) /\ IsVector(s) /\ IsVector(t)
  BY MatrixIs, SecretIs
<1>2. IsVector(ByRows(A, t))
  BY <1>1, ProductVectors
<1>3. pk.A = A
  BY KeyParts
<1>4. /\ DOMAIN c = 0..(CiphertextLen - 1)
      /\ \A p \in 0..(Split - 1) : c[p] = Serialize10(CompressVector(MatMul(pk.A, t)))[p]
      /\ \A k \in Degrees : c[Split + k] = EncodeCoeff(T, Inner(pk.vec, t)[k], msg[k])
  BY CiphertextCells
<1>5. ASSUME NEW i \in Ranks, NEW k \in Degrees PROVE Pack10(v[i][k]) \in Bits10
  <2>1. v[i][k] = Compress(U16(ByRows(A, t)[i][k]))
    BY <1>1, ProductsAre
  <2>2. ByRows(A, t)[i][k] \in Int
    BY <1>2 DEF IsVector, IsElem
  <2> HIDE DEF v
  <2>3. QED  BY <2>1, <2>2, CompressRange
<1>6. ASSUME NEW p \in 0..(Split - 1) PROVE c[p] \in Bits10
  <2>1. c[p] = Serialize10(v)[p]
    BY <1>3, <1>4
  <2>2. Serialize10(v)[p] = Pack10(v[p \div N][p % N])
    BY SplitIs DEF Serialize10, ChunkLen
  <2> HIDE DEF v
  <2>3. p \div N \in Ranks /\ p % N \in Degrees
    BY SplitIs, CellOf
  <2>4. QED  BY <1>5, <2>1, <2>2, <2>3
<1>7. ASSUME NEW k \in Degrees PROVE c[Split + k] \in 0..(Levels(T) - 1)
  <2>1. Inner(pk.vec, t)[k] \in Int
    BY NoiseOf DEF Apart
  <2> DEFINE w == Inner(pk.vec, t)[k]
             e == EncodeCoeff(T, w, msg[k])
  <2>2. c[Split + k] = e
    BY <1>4
  <2> HIDE DEF w
  <2>3. e \in 0..(Levels(T) - 1)
    <3>1. msg[k] \in {0, 1}
      BY DEF Elem
    <3>2. QED  BY <2>1, <3>1, EncodeRange DEF w
  <2>4. QED  BY <2>2, <2>3
<1>8. ASSUME NEW p \in DOMAIN c
      PROVE  c[p] \in CellRange(p)
  <2>1. p \in 0..(CiphertextLen - 1)
    BY <1>4
  <2>2. CASE p < Split
    <3>1. p \in 0..(Split - 1)
      BY <2>1, <2>2, SplitIs
    <3>2. QED  BY <1>6, <2>2, <3>1 DEF CellRange
  <2>3. CASE ~ (p < Split)
    <3>1. p - Split \in Degrees /\ Split + (p - Split) = p
      BY <2>1, <2>3, SplitIs, Sizes
    <3>2. c[p] \in 0..(Levels(T) - 1)
      BY <1>7, <3>1
    <3>3. QED  BY <2>3, <3>2 DEF CellRange
  <2>4. QED  BY <2>2, <2>3
<1>9. QED  BY <1>4, <1>8

\* What is read from words is a bit, right or wrong.
LEMMA DecodedBit ==
  ASSUME NEW v \in Int, NEW c \in Int
  PROVE  DecodeCoeff(T, v, c) \in {0, 1}
<1> DEFINE e == v - U16(c * Weight(T)) + H2(T)
           u == U16(e)
<1>1. T \in Ts
  BY RingAssumption
<1>2. Weight(T) \in {128, 64, 16} /\ H2(T) \in {196, 228, 252}
  BY <1>1 DEF Weight, H2, Ts
<1>3. U16(c * Weight(T)) \in Int
  BY <1>2 DEF U16
<1>4. e \in Int
  BY <1>2, <1>3
<1> HIDE DEF e
<1>5. u \in Int
  BY <1>4 DEF U16
<1> HIDE DEF u
<1>6. (u \div 512) % 2 \in {0, 1}
  BY <1>5
<1>7. QED  BY <1>6 DEF DecodeCoeff, u, e

\* Whatever the noise, decryption returns bits.
LEMMA DecryptedBits ==
  ASSUME NEW A \in Matrices, NEW s \in Secrets, NEW t \in Secrets, NEW msg \in Elem({0, 1}),
         NEW pk, pk = ExpandSecretKey(A, s).pk, NEW c, c = EncryptDeterministic(pk, msg, t)
  PROVE  DecryptWith(s, c) \in Elem({0, 1})
<1> DEFINE v == Inner(Deserialize10(c), s)
<1>1. DecryptWith(s, c) = [k \in Degrees |-> DecodeCoeff(T, v[k], c[Split + k])]
  BY DEF DecryptWith
<1>2. ASSUME NEW k \in Degrees PROVE DecodeCoeff(T, v[k], c[Split + k]) \in {0, 1}
  <2>1. v[k] \in Int
    BY NoiseOf DEF Apart
  <2>2. Split + k \in 0..(CiphertextLen - 1) /\ ~ (Split + k < Split)
    BY SplitIs, Sizes
  <2>3. c[Split + k] \in CellRange(Split + k)
    BY <2>2, CiphertextTypes
  <2>4. c[Split + k] \in 0..(Levels(T) - 1)
    BY <2>2, <2>3 DEF CellRange
  <2> HIDE DEF v
  <2>5. c[Split + k] \in Int
    BY <2>4
  <2>6. QED  BY <2>1, <2>5, DecodedBit
<1> HIDE DEF v
<1>3. QED  BY <1>1, <1>2 DEF Elem

LEMMA InvTypeOK == IInv => TypeOK
<1> SUFFICES ASSUME IInv PROVE TypeOK
  OBVIOUS
<1>1. ASSUME key # None
      PROVE  /\ key.pk.vec \in VectorOver(Bits13)
             /\ key.pk.bytes \in [0..(Split - 1) -> Bits10]
             /\ FromBytes(key.pk).vec \in VectorOver(Bits10)
  <2>1. key.pk.A \in Matrices /\ key.s \in Secrets /\ key = ExpandSecretKey(key.pk.A, key.s)
    BY <1>1 DEF IInv, KeyIs
  <2> DEFINE pk == key.pk
             im == FromBytes(pk)
  <2>2. pk = ExpandSecretKey(key.pk.A, key.s).pk /\ im = FromBytes(pk)
    BY <2>1
  <2> HIDE DEF pk, im
  <2>3. pk.vec \in VectorOver(Bits13) /\ pk.bytes \in [0..(Split - 1) -> Bits10] /\ im.vec \in VectorOver(Bits10)
    BY <2>1, <2>2, KeyTypes
  <2>4. QED  BY <2>3, Zenon DEF pk, im
<1>2. ASSUME imported # None PROVE imported.vec \in VectorOver(Bits10)
  <2>1. key # None /\ imported = FromBytes(key.pk)
    BY <1>2 DEF IInv, ImportedIs
  <2>2. QED  BY <1>1, <2>1, Zenon
<1>3. ASSUME ct # None
      PROVE  /\ DOMAIN ct = 0..(CiphertextLen - 1)
             /\ \A p \in DOMAIN ct : ct[p] \in CellRange(p)
  <2>1. /\ key.pk.A \in Matrices /\ key.s \in Secrets /\ key = ExpandSecretKey(key.pk.A, key.s)
        /\ sent.msg \in Elem({0, 1}) /\ sent.sprime \in Secrets
        /\ ct = EncryptDeterministic(key.pk, sent.msg, sent.sprime)
    BY <1>3 DEF IInv, KeyIs, CtIs
  <2> DEFINE pk == key.pk
             A == key.pk.A
             s == key.s
             t == sent.sprime
             msg == sent.msg
  <2>2. pk = ExpandSecretKey(A, s).pk /\ ct = EncryptDeterministic(pk, msg, t)
        /\ A \in Matrices /\ s \in Secrets /\ t \in Secrets /\ msg \in Elem({0, 1})
    BY <2>1
  <2> HIDE DEF pk, A, s, t, msg
  <2>3. QED  BY <2>2, CiphertextTypes
<1>4. ASSUME plain # None PROVE plain \in Elem({0, 1})
  <2>1. ct # None /\ key # None /\ plain = DecryptWith(key.s, ct)
    BY <1>4 DEF IInv, PlainIs, CtIs
  <2>2. /\ key.pk.A \in Matrices /\ key.s \in Secrets /\ key = ExpandSecretKey(key.pk.A, key.s)
        /\ sent.msg \in Elem({0, 1}) /\ sent.sprime \in Secrets
        /\ ct = EncryptDeterministic(key.pk, sent.msg, sent.sprime)
    BY <2>1 DEF IInv, KeyIs, CtIs
  <2> DEFINE pk == key.pk
             A == key.pk.A
             s == key.s
             t == sent.sprime
             msg == sent.msg
  <2>3. pk = ExpandSecretKey(A, s).pk /\ ct = EncryptDeterministic(pk, msg, t)
        /\ A \in Matrices /\ s \in Secrets /\ t \in Secrets /\ msg \in Elem({0, 1})
    BY <2>2
  <2> HIDE DEF pk, A, s, t, msg
  <2>4. DecryptWith(s, ct) \in Elem({0, 1})
    BY <2>3, DecryptedBits
  <2>5. QED  BY <2>1, <2>4 DEF s
<1>5. QED  BY <1>1, <1>2, <1>3, <1>4, Zenon DEF TypeOK
-----------------------------------------------------------------------------
\* Key, ciphertext and plaintext have the ranges their buffers allow: 13 bits in
\* the owner's key, 10 in what is serialised, T in a ciphertext's second part.
THEOREM TypeCorrect == Spec => []TypeOK
BY Invariance, InvTypeOK, PTL

\* Decryption returns the encrypted message (pke.rs:185-213), for every degree,
\* rank, matrix and secrets, in every execution whose noise is tolerable.
THEOREM DecryptsHolds == Spec => []Decrypts
BY Invariance, InvDecrypts, PTL

\* Once the message is recovered, re-encryption repeats the received ciphertext,
\* whichever form of the public key its sender held (kem.rs:161-176).
THEOREM ReencryptsHolds == Spec => []Reencrypts
BY Invariance, InvDecrypts, PTL

\* The two parties' inner products differ modulo 2^10 by what the roundings of b
\* and b' contribute, and that is at most l*N*mu/2 in every coefficient.
THEOREM NoiseBoundHolds == Spec => []NoiseBound
BY Invariance, InvNoise, PTL
-----------------------------------------------------------------------------
\* The terms of coefficient k of x . y, in the order of the ranks.
TermsOf(x, y, k) ==
  [n \in 1..Terms |-> <<x[(n - 1) \div N][(n - 1) % N],
                        Turned(y[(n - 1) \div N], k - ((n - 1) % N))>>]

\* What the inner product computes when it is started on them.
Computes ==
  \A x, y \in VectorOver(Int), k \in Degrees :
    done = Terms /\ Terms = L * N /\ input = TermsOf(x, y, k) =>
      /\ Lift(wide1, wide2) = Inner(x, y)[k]
      /\ lane \in DOMAIN out => out[lane] = Inner(x, y)[k]

\* The sums taken one vector element after another.
Sections(f, F) == \A i \in Ranks : Ints(F[i], N) /\ \A j \in Degrees : f[i * N + j] = F[i][j]

LEMMA SumSections ==
  ASSUME NEW f, NEW F, Ints(f, L * N), Sections(f, F), NEW g, \A i \in Ranks : g[i] = SumTo(F[i], N)
  PROVE  SumTo(f, L * N) = SumTo(g, L)
<1> DEFINE S == {m \in Nat : m <= L => SumTo(f, m * N) = SumTo(g, m)}
<1>0. Ints(g, L)
  <2>1. \A i \in Ranks : g[i] \in Int
    BY SumInt, Sizes DEF Sections
  <2>2. QED  BY <2>1, Sizes DEF Ints
<1>1. 0 \in S
  <2>1. 0 * N = 0
    BY Sizes
  <2>2. QED  BY <2>1, SumZero
<1>2. ASSUME NEW m \in Nat, m \in S PROVE m + 1 \in S
  <2> SUFFICES ASSUME m + 1 <= L PROVE SumTo(f, (m + 1) * N) = SumTo(g, m + 1)
    OBVIOUS
  <2> DEFINE a == m * N
  <2>1. m \in Ranks /\ a \in Nat /\ (m + 1) * N = a + N
    BY Sizes
  <2>2. a + N <= L * N /\ L * N \in Int
    <3>1. CASE m + 1 = L
      BY <2>1, <3>1, Sizes
    <3>2. CASE m + 1 < L
      <4>1. L - (m + 1) \in Int /\ L - (m + 1) >= 1
        BY <3>2, Sizes
      <4>2. (L - (m + 1)) * N >= N
        BY <4>1, Sizes, Multiples
      <4>3. (L - (m + 1)) * N = L * N - (m + 1) * N /\ L * N \in Int
        BY Sizes
      <4>4. QED  BY <2>1, <4>2, <4>3, Sizes
    <3>3. QED  BY <3>1, <3>2, Sizes
  <2>3. Ints(f, a + N)
    <3> HIDE DEF a
    <3>1. QED  BY <2>1, <2>2, Sizes DEF Ints
  <2>4. \A j \in 0..(N - 1) : F[m][j] = f[a + j]
    BY <2>1, Sizes DEF Sections
  <2> HIDE DEF a
  <2>5. SumTo(f, a + N) = SumTo(f, a) + SumTo(F[m], N)
    BY <2>1, <2>3, <2>4, Sizes, SumSplit
  <2>6. SumTo(f, a) = SumTo(g, m)
    BY <1>2, Sizes DEF a
  <2>7. Ints(g, m + 1)
    BY <1>0, <2>1, Sizes DEF Ints
  <2>8. SumTo(g, m + 1) = SumTo(g, m) + g[m] /\ g[m] = SumTo(F[m], N)
    BY <2>1, <2>7, SumStep
  <2>9. QED  BY <2>1, <2>5, <2>6, <2>8
<1> HIDE DEF S
<1>3. L \in S
  BY <1>1, <1>2, SetInduction, Sizes
<1>4. QED  BY <1>3, Sizes DEF S

OwnerTerms == [j \in 0..(Terms - 1) |-> Owner(input[j + 1])]
WideIs == wideSum = SumTo(OwnerTerms, done)

LEMMA OwnerInts ==
  ASSUME ProductIInv
  PROVE  Terms \in Nat /\ done \in 0..Terms /\ Ints(OwnerTerms, Terms)
<1>1. Terms \in Nat /\ MaxSecret \in Nat /\ input \in [1..Terms -> Operands] /\ done \in 0..Terms
  BY InputsAssumption DEF ProductIInv, ProductTypeOK
<1>2. ASSUME NEW j \in 0..(Terms - 1) PROVE Owner(input[j + 1]) \in Int
  <2>1. input[j + 1] \in Operands
    BY <1>1
  <2>2. QED  BY <1>1, <2>1, ProductBounds
<1>3. QED  BY <1>1, <1>2 DEF Ints, OwnerTerms

LEMMA WideInv == ProductSpec => [](ProductIInv /\ WideIs)
<1>1. ProductInit => WideIs
  BY SumZero DEF ProductInit, WideIs
<1>2. ProductIInv /\ WideIs /\ [ProductNext]_productVars => WideIs'
  <2> SUFFICES ASSUME ProductIInv, WideIs, [ProductNext]_productVars PROVE WideIs'
    OBVIOUS
  <2>1. Terms \in Nat /\ done \in 0..Terms /\ Ints(OwnerTerms, Terms)
    BY OwnerInts
  <2>2. CASE Accumulate
    <3>1. done < Terms /\ done' = done + 1 /\ input' = input /\ wideSum' = wideSum + Owner(input[done + 1])
      BY <2>2 DEF Accumulate
    <3>2. OwnerTerms' = OwnerTerms
      BY <3>1, Zenon DEF OwnerTerms
    <3>3. OwnerTerms[done] = Owner(input[done + 1])
      BY <2>1, <3>1 DEF OwnerTerms
    <3>4. Ints(OwnerTerms, done + 1) /\ done \in Nat
      BY <2>1, <3>1 DEF Ints
    <3>5. SumTo(OwnerTerms, done + 1) = SumTo(OwnerTerms, done) + OwnerTerms[done]
      BY <3>4, SumStep
    <3>6. wideSum' = SumTo(OwnerTerms, done + 1)
      BY <3>1, <3>3, <3>5 DEF WideIs
    <3>7. QED  BY <3>1, <3>2, <3>6 DEF WideIs
  <2>3. CASE UNCHANGED <<wideSum, input, done>>
    <3>1. OwnerTerms' = OwnerTerms
      BY <2>3, Zenon DEF OwnerTerms
    <3>2. QED  BY <2>3, <3>1 DEF WideIs
  <2>4. CASE Reduce
    BY <2>3, <2>4 DEF Reduce
  <2>5. CASE UNCHANGED productVars
    BY <2>3, <2>5 DEF productVars
  <2>6. QED  BY <2>2, <2>4, <2>5 DEF ProductNext
<1>3. QED  BY ProductInvariance, <1>1, <1>2, PTL DEF ProductSpec

LEMMA InvComputes == ProductIInv /\ WideIs /\ Lifted => Computes
<1> SUFFICES ASSUME ProductIInv, WideIs, Lifted, NEW x \in VectorOver(Int), NEW y \in VectorOver(Int),
                    NEW k \in Degrees, done = Terms, Terms = L * N, input = TermsOf(x, y, k)
             PROVE  /\ Lift(wide1, wide2) = Inner(x, y)[k]
                    /\ lane \in DOMAIN out => out[lane] = Inner(x, y)[k]
  BY Zenon DEF Computes
<1> DEFINE F == [i \in Ranks |-> Products(x[i], y[i], k)]
           f == OwnerTerms
           g == At(RankProducts(x, y), k)
<1>1. IsVector(x) /\ IsVector(y)
  BY EntriesIn DEF IsVector, IsElem
<1>2. Ints(f, L * N)
  BY OwnerInts
<1>3. ASSUME NEW i \in Ranks PROVE Ints(F[i], N) /\ g[i] = SumTo(F[i], N)
  <2>1. IsElem(x[i]) /\ IsElem(y[i]) /\ F[i] = Products(x[i], y[i], k)
    BY <1>1 DEF IsVector
  <2>2. g[i] = RingMul(x[i], y[i])[k]
    BY DEF At, RankProducts
  <2> HIDE DEF F, g
  <2>3. QED  BY <2>1, <2>2, ProductsInt, MulIs
<1>4. ASSUME NEW i \in Ranks, NEW j \in Degrees PROVE f[i * N + j] = F[i][j]
  <2> DEFINE p == i * N + j
  <2>1. p \in 0..(L * N - 1) /\ p \div N = i /\ p % N = j
    BY Cell
  <2>2. F[i][j] = x[i][j] * Turned(y[i], k - j)
    BY DEF Products
  <2> HIDE DEF p, F
  <2>3. f[p] = Owner(input[p + 1]) /\ p + 1 \in 1..Terms /\ (p + 1) - 1 = p
    BY <2>1, OwnerInts DEF OwnerTerms
  <2>4. input[p + 1] = <<x[i][j], Turned(y[i], k - j)>>
    BY <2>1, <2>3 DEF TermsOf
  <2>5. f[p] = x[i][j] * Turned(y[i], k - j)
    BY <2>3, <2>4 DEF Owner
  <2>6. QED  BY <2>2, <2>5 DEF p
<1> HIDE DEF F, f, g
<1>5. Sections(f, F)
  BY <1>3, <1>4 DEF Sections
<1>6. SumTo(f, L * N) = SumTo(g, L)
  BY <1>2, <1>3, <1>5, SumSections
<1>7. Whole(x, y)[k] = SumTo(g, L)
  BY DEF Whole, g
<1>8. Inner(x, y)[k] = U16(wideSum)
  <2>1. Inner(x, y)[k] = U16(Whole(x, y)[k])
    BY <1>1, WholeInt
  <2>2. QED  BY <1>6, <1>7, <2>1 DEF WideIs, f
<1>9. Lift(wide1, wide2) = U16(wideSum)
  BY InvExact DEF Exact
<1>10. lane \in DOMAIN out => out[lane] = U16(wideSum)
  BY DEF Lifted
<1>11. QED  BY <1>8, <1>9, <1>10

\* The products of module Pke are those the code's residues compute: the word
\* that reduce_invntt returns, on every backend, is the coefficient of the inner
\* product over the ring of integers, for all operands within the assertion of
\* impls.rs.
THEOREM ComputesHolds == ProductSpec => []Computes
BY WideInv, LiftedHolds, InvComputes, PTL
=============================================================================

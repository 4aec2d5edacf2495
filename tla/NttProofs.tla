------------------------------- MODULE NttProofs -------------------------------
(***************************************************************************)
(* The passes of the transforms, for every operand.  First for whatever    *)
(* schedule: if the bounds that it propagates fit, no lane leaves them,    *)
(* the argument of src/src/arithmetic/ntt_crt.rs:28-53 made into an        *)
(* invariant, and the passes are those of exact arithmetic modulo the      *)
(* prime; if every pass also fits what the lanes stand for, they hold the  *)
(* values of the operands at the roots of X^256 + 1, and at the end the    *)
(* coefficients of the sum of their products.  Then for the schedules of   *)
(* the code, on every backend and at every rank, whose bounds and passes   *)
(* are shown to fit from what module Transforms says of each transform.    *)
(***************************************************************************)
EXTENDS NttValues, Transforms, ArithmeticProofs

\* What the passes use of a lane, on whichever backend.
LEMMA MulBound ==
  ASSUME TypeOK, NEW a, NEW z, NEW m \in Nat, NEW w \in Nat,
         Bounds(m, a), LaneFits(m), Bounds(w, z), w <= Half
  PROVE  Bounds(MontBound(m, w, prime), Mul(a, z))
<1>1. prime \in Primes /\ w <= prime \div 2
  BY DEF TypeOK, Half
<1>2. Bounds(MontBound(m, w, prime), MontMul(a, z, prime))
  BY <1>1, MontMulBound
<1>3. a \in Int /\ IsI16(a)
  BY SMT DEF Bounds, IsI16, LaneFits
<1>4. NeonMontMul(a, z, prime) = MontMul(a, z, prime)
  BY <1>1, <1>3, NeonMontMulSame
<1>5. QED  BY <1>2, <1>4 DEF Mul

\* Either Barrett reduction centres a lane.
LEMMA RecentreBound ==
  ASSUME TypeOK, NEW x, IsI16(x)
  PROVE  Bounds(Half, Recentre(x))
<1>1. prime \in Primes
  BY DEF TypeOK
<1>2. Bounds(Half, Barrett(x, prime)) /\ NeonBarrett(x, prime) = Barrett(x, prime)
  BY <1>1, BarrettCentres, NeonBarrettSame DEF Half
<1>3. QED  BY <1>2 DEF Recentre

\* The accumulated products are those of the lanes.
LEMMA ProductIs ==
  ASSUME TypeOK, NEW j \in Block
  PROVE  Product(j) = kept[j] * block[j]
<1>1. kept[j] \in Int /\ block[j] \in Int
  BY DEF TypeOK
<1>2. CASE backend = "portable"
  BY <1>2 DEF Product
<1>3. CASE backend = "avx2"
  <2> DEFINE l == Vector(16, kept, j)
             r == Vector(16, block, j)
             i == j % 16
             x == kept[j] * block[j]
  <2>1. i \in 0..15 /\ l[i] = kept[j] /\ r[i] = block[j]
    BY VectorLane
  <2>2. Product(j) = Avx2Products(l, r)[i]
    BY <1>3 DEF Product
  <2> HIDE DEF l, r, i
  <2>3. Product(j) = Join(I16(x), x \div 65536)
    BY <2>1, <2>2, Avx2ProductsLane DEF MulLo, MulHi
  <2>4. x \in Int
    BY <1>1, SMT
  <2> HIDE DEF x
  <2>5. QED  BY <2>3, <2>4, JoinHalves DEF x
<1>4. CASE backend = "neon"
  <2> DEFINE l == Vector(8, kept, j)
             r == Vector(8, block, j)
             i == j % 8
  <2>1. i \in 0..7 /\ l[i] = kept[j] /\ r[i] = block[j]
    BY VectorLane
  <2>2. Product(j) = NeonProducts(l, r)[i]
    BY <1>4 DEF Product
  <2> HIDE DEF l, r, i
  <2>3. \/ i < 4 /\ i \in 0..3
        \/ ~(i < 4) /\ i - 4 \in 0..3 /\ (i - 4) + 4 = i
    BY <2>1, SMT
  <2>4. NeonProducts(l, r)[i] = l[i] * r[i]
    BY <2>1, <2>3 DEF NeonProducts
  <2>5. QED  BY <2>1, <2>2, <2>4
<1>5. QED  BY <1>2, <1>3, <1>4 DEF TypeOK

\* The reduced lanes are those of the portable reduction.
LEMMA ReducedLaneIs ==
  ASSUME TypeOK, NEW j \in Block, NEW m \in Nat, Bounds(m, acc[j]), Reducible(m, prime)
  PROVE  ReducedLane(j) = MontReduce(acc[j], prime)
<1>1. prime \in Primes
  BY DEF TypeOK
<1>2. CASE backend = "portable"
  BY <1>2 DEF ReducedLane
<1>3. CASE backend = "avx2"
  <2> DEFINE v == Vector(16, acc, j)
             i == j % 16
  <2>1. i \in 0..15 /\ v[i] = acc[j]
    BY VectorLane
  <2>2. ReducedLane(j) = Avx2Reduce(v, prime)[i]
    BY <1>3 DEF ReducedLane
  <2> HIDE DEF v, i
  <2>3. QED  BY <1>1, <2>1, <2>2, Avx2ReduceLane
<1>4. CASE backend = "neon"
  <2> DEFINE v == Vector(8, acc, j)
             i == j % 8
  <2>1. i \in 0..7 /\ v[i] = acc[j]
    BY VectorLane
  <2>2. ReducedLane(j) = NeonReduce(v, prime)[i]
    BY <1>4 DEF ReducedLane
  <2> HIDE DEF v, i
  <2>3. QED  BY <1>1, <2>1, <2>2, NeonReduceLane
<1>5. QED  BY <1>2, <1>3, <1>4 DEF TypeOK

\* A sum or difference of bounded lanes that the bounds allow does not wrap.
LEMMA LaneSum ==
  ASSUME NEW a, NEW b, NEW m \in Nat, NEW n \in Nat,
         Bounds(m, a), Bounds(n, b), LaneFits(m + n)
  PROVE  /\ Bounds(m + n, I16(a + b)) /\ Bounds(m + n, I16(a - b))
         /\ I16(a + b) = a + b /\ I16(a - b) = a - b
<1>1. a \in Int /\ b \in Int /\ Bounds(m + n, a + b) /\ Bounds(m + n, a - b)
  BY SMT DEF Bounds
<1>2. IsI16(a + b) /\ IsI16(a - b)
  BY <1>1, SMT DEF Bounds, IsI16, LaneFits
<1>3. I16(a + b) = a + b /\ I16(a - b) = a - b
  BY <1>1, <1>2, Wrap
<1>4. QED  BY <1>1, <1>3

\* Bounds are natural numbers.
LEMMA BoundTypes ==
  ASSUME NEW q \in Primes, NEW m \in Nat, NEW w \in Nat
  PROVE  ReduceBound(m, q) \in Nat /\ MontBound(m, w, q) \in Nat /\ q \div 2 \in Nat
<1>1. \A n \in Nat : ReduceBound(n, q) \in Nat
  BY SMT DEF ReduceBound, Primes
<1>2. m * w \in Nat /\ q \div 2 \in Nat
  BY SMT DEF Primes
<1>3. QED  BY <1>1, <1>2 DEF MontBound
-----------------------------------------------------------------------------
IInv == TypeOK /\ Bounded

\* The invariant, at one position.
LEMMA BoundedLanes ==
  ASSUME IInv, NEW i \in Block
  PROVE  /\ Bounds(mag[i], block[i]) /\ mag[i] \in Nat
         /\ Bounds(keptMag[i], kept[i]) /\ keptMag[i] \in Nat
         /\ Bounds(accMag[i], acc[i]) /\ accMag[i] \in Nat
<1>1. /\ block[i] \in Within(mag[i]) /\ mag[i] \in Nat
      /\ kept[i] \in Within(keptMag[i]) /\ keptMag[i] \in Nat
      /\ acc[i] \in Within(accMag[i]) /\ accMag[i] \in Nat
  BY DEF IInv, TypeOK, Bounded
<1>2. ASSUME NEW m \in Nat, NEW x \in Within(m) PROVE Bounds(m, x)
  BY <1>2, SMT DEF Within, Bounds
<1>3. QED  BY <1>1, <1>2

\* The pass about to run is well formed.
LEMMA PassHere ==
  ASSUME IInv, NEW kinds, Run(kinds)
  PROVE  /\ PassOK(program[pc], prime) /\ program[pc].do \in kinds
         /\ pc' \in Nat \ {0} /\ UNCHANGED fixed
<1>1. PICK s \in Plans : prime = s.prime /\ program = s.passes
  BY DEF IInv, TypeOK
<1>2. /\ pc \in Nat \ {0} /\ Len(program) \in Nat
      /\ \A n \in 1..Len(program) : PassOK(program[n], prime)
  BY <1>1, PlansAssumption DEF IInv, TypeOK
<1>3. pc \in 1..Len(program)
  BY <1>1, <1>2, SMT DEF Run
<1>4. QED  BY <1>1, <1>2, <1>3, SMT DEF Run

\* A pass that changes only the block leaves it bounded if every lane is.
LEMMA BlockPass ==
  ASSUME IInv, NEW kinds, Run(kinds), UNCHANGED <<kept, acc, keptMag, accMag>>,
         block' = [i \in Block |-> block'[i]], mag' = [i \in Block |-> mag'[i]],
         \A i \in Block : mag'[i] \in Nat /\ Bounds(mag'[i], block'[i])
  PROVE  IInv'
<1>1. block' \in [Block -> Int] /\ mag' \in [Block -> Nat]
  BY DEF Bounds
<1>2. \A i \in Block : block'[i] \in Within(mag'[i])
  <2>1. ASSUME NEW m \in Nat, NEW x, Bounds(m, x) PROVE x \in Within(m)
    BY <2>1, SMT DEF Within, Bounds
  <2>2. QED  BY <2>1
<1>3. pc' \in Nat \ {0} /\ UNCHANGED fixed
  BY PassHere
<1>4. TypeOK'
  BY <1>1, <1>3 DEF IInv, TypeOK, fixed
<1>5. Bounded'
  BY <1>2 DEF IInv, Bounded
<1>6. QED  BY <1>4, <1>5 DEF IInv

\* Bounds that fit, at one position.
LEMMA FitsHere ==
  ASSUME IInv, Fits, NEW i \in Block
  PROVE  LaneFits(mag[i]) /\ IsI16(block[i]) /\ Reducible(accMag[i], prime)
<1>1. /\ Bounds(mag[i], block[i]) /\ mag[i] \in Nat /\ accMag[i] \in Nat
  BY BoundedLanes
<1>2. mag[i] <= 32767 /\ accMag[i] < 32768 * prime /\ prime \in Primes
  BY DEF Fits, IInv, TypeOK
<1>3. QED  BY <1>1, <1>2, SMT DEF LaneFits, IsI16, Bounds, Reducible, Primes
-----------------------------------------------------------------------------
\* The invariant holds of the initial states.
LEMMA InitInv == Init => IInv
<1> SUFFICES ASSUME Init PROVE IInv
  OBVIOUS
<1>1. prime \in Primes /\ backend \in {"portable", "avx2", "neon"}
  BY PlansAssumption DEF Init
<1>2. TypeOK
  BY <1>1, SMT DEF Init, TypeOK
<1>3. Bounded
  BY SMT DEF Init, Bounded, Within
<1>4. QED  BY <1>2, <1>3 DEF IInv

\* Loading and centring an operand keeps the invariant.
LEMMA SplitStep ==
  ASSUME IInv, Split
  PROVE  IInv'
<1> DEFINE p == program[pc]
           x == input[p.side][p.pair]
<1>1. /\ p.do = "split" /\ p.side \in {"public", "secret"} /\ p.pair \in 1..Rank
      /\ Run({"split"})
  BY PassHere, SMT DEF Split, PassOK
<1>2. input \in [public : [1..Rank -> [Block -> Coefficients]],
                 secret : [1..Rank -> [Block -> Secrets]]]
  <2>1. input \in Inputs
    BY DEF IInv, TypeOK
  <2>2. QED  BY <2>1, InputsAssumption
<1>3. Half \in Nat
  BY BoundTypes DEF IInv, TypeOK, Half
<1>4. CASE p.side = "public"
  <2>1. x \in [Block -> Coefficients]
    <3>1. input.public[p.pair] \in [Block -> Coefficients]
      BY <1>1, <1>2
    <3>2. QED  BY <1>4, <3>1
  <2> HIDE DEF x
  <2>2. \A i \in Block : IsI16(x[i])
    <3>1. \A i \in Block : x[i] \in Coefficients
      BY <2>1
    <3>2. \A n \in Coefficients : IsI16(n)
      BY SMT DEF IsI16, Coefficients
    <3>3. QED  BY <3>1, <3>2
  <2>3. block' = [i \in Block |-> Recentre(x[i])] /\ mag' = [i \in Block |-> Half]
    BY <1>4 DEF Split, x
  <2>4. \A i \in Block : mag'[i] \in Nat /\ Bounds(mag'[i], block'[i])
    BY <1>3, <2>2, <2>3, RecentreBound DEF IInv
  <2>5. block' = [i \in Block |-> block'[i]] /\ mag' = [i \in Block |-> mag'[i]]
    BY <2>3
  <2>6. QED  BY <1>1, <2>4, <2>5, BlockPass DEF Split
<1>5. CASE p.side = "secret"
  <2>1. x \in [Block -> Secrets]
    <3>1. input.secret[p.pair] \in [Block -> Secrets]
      BY <1>1, <1>2
    <3>2. QED  BY <1>5, <3>1
  <2>2. block' = x /\ mag' = [i \in Block |-> WidestSecret]
    BY <1>5 DEF Split
  <2> HIDE DEF x
  <2>3. \A i \in Block : mag'[i] \in Nat /\ Bounds(mag'[i], block'[i])
    <3>1. \A n \in Secrets : Bounds(WidestSecret, n)
      BY SMT DEF Secrets, Within, WidestSecret, Bounds
    <3>2. WidestSecret \in Nat
      BY DEF WidestSecret
    <3>3. QED  BY <2>1, <2>2, <3>1, <3>2
  <2>4. block' = [i \in Block |-> block'[i]] /\ mag' = [i \in Block |-> mag'[i]]
    BY <2>1, <2>2
  <2>5. QED  BY <1>1, <2>3, <2>4, BlockPass DEF Split
<1>6. QED  BY <1>1, <1>4, <1>5

\* What the bounds are after each kind of pass.
LEMMA BoundsAfterIs ==
  ASSUME NEW p, NEW m, NEW q
  PROVE  /\ p.do = "ct" =>
              BoundsAfter(p, m, q) = [i \in Block |->
                CASE i \in p.low         -> m[i] + MontBound(m[i + p.gap], q \div 2, q)
                  [] i - p.gap \in p.low -> m[i - p.gap] + MontBound(m[(i - p.gap) + p.gap], q \div 2, q)
                  [] OTHER               -> m[i]]
         /\ p.do = "gs" =>
              BoundsAfter(p, m, q) = [i \in Block |->
                CASE i \in p.low         -> m[i] + m[i + p.gap]
                  [] i - p.gap \in p.low -> MontBound(m[i - p.gap] + m[i], q \div 2, q)
                  [] OTHER               -> m[i]]
         /\ p.do = "barrett" => BoundsAfter(p, m, q) = [i \in Block |-> IF i \in p.at THEN q \div 2 ELSE m[i]]
         /\ p.do = "move" => BoundsAfter(p, m, q) = [i \in Block |-> m[p.from[i]]]
         /\ p.do \notin {"ct", "gs", "barrett", "move"} => BoundsAfter(p, m, q) = m
BY DEF BoundsAfter

\* A lane of a butterfly: its partner, its root, and their bounds.
LEMMA Partner ==
  ASSUME IInv, NEW p, ButterflyOK(p, prime), NEW i \in p.low
  PROVE  /\ i \in Block /\ i + p.gap \in Block /\ i + p.gap \notin p.low
         /\ Half \in Nat /\ Bounds(Half, p.zeta[i])
<1>1. i \in Block /\ i + p.gap \in Block \ p.low /\ p.zeta[i] \in Within(prime \div 2)
  BY DEF ButterflyOK
<1>2. prime \div 2 \in Nat
  BY BoundTypes DEF IInv, TypeOK
<1>3. QED  BY <1>1, <1>2, SMT DEF Within, Bounds, Half

\* No lane is the low and the high one of two butterflies of a pass.
LEMMA HighNotLow ==
  ASSUME NEW p, NEW q, ButterflyOK(p, q), NEW i \in Block, i - p.gap \in p.low
  PROVE  i \notin p.low
<1> DEFINE g == p.gap
           j == i - g
<1>1. g \in Block /\ j + g \notin p.low
  BY DEF ButterflyOK
<1> HIDE DEF g
<1>2. j + g = i
  BY <1>1, SMT DEF Block
<1>3. QED  BY <1>1, <1>2

\* A forward level keeps the invariant.
LEMMA CtStep ==
  ASSUME IInv, Fits, Fits', CtLevel
  PROVE  IInv'
<1> DEFINE p == program[pc]
           t(i) == Mul(block[i + p.gap], p.zeta[i])
           m(i) == mag[i] + MontBound(mag[i + p.gap], Half, prime)
<1>1. ButterflyOK(p, prime) /\ Run({"ct"})
  BY PassHere, SMT DEF CtLevel, PassOK
<1>2. /\ block' = [i \in Block |->
              CASE i \in p.low         -> I16(block[i] + t(i))
                [] i - p.gap \in p.low -> I16(block[i - p.gap] - t(i - p.gap))
                [] OTHER               -> block[i]]
      /\ mag' = [i \in Block |->
              CASE i \in p.low         -> m(i)
                [] i - p.gap \in p.low -> m(i - p.gap)
                [] OTHER               -> mag[i]]
  <2>1. program[pc].do = "ct" /\ mag' = BoundsAfter(p, mag, prime)
    BY DEF CtLevel, Run
  <2>2. QED  BY <2>1, BoundsAfterIs DEF CtLevel, Half
<1>3. \A i \in Block : LaneFits(mag'[i])
  BY DEF Fits, LaneFits
<1> HIDE DEF t, m
<1>4. ASSUME NEW i \in p.low, LaneFits(m(i))
      PROVE  /\ m(i) \in Nat
             /\ Bounds(m(i), I16(block[i] + t(i)))
             /\ Bounds(m(i), I16(block[i] - t(i)))
  <2> DEFINE j == i + p.gap
             n == MontBound(mag[j], Half, prime)
  <2>1. i \in Block /\ j \in Block /\ Half \in Nat /\ Bounds(Half, p.zeta[i])
    BY <1>1, Partner
  <2>2. /\ mag[i] \in Nat /\ mag[j] \in Nat /\ Bounds(mag[i], block[i])
        /\ Bounds(mag[j], block[j]) /\ LaneFits(mag[j])
    BY <2>1, BoundedLanes, FitsHere
  <2>3. Half <= Half
    BY <2>1, SMT
  <2>4. Bounds(n, t(i))
    BY <2>1, <2>2, <2>3, MulBound DEF IInv, t
  <2>5. n \in Nat
    BY <2>1, <2>2, BoundTypes DEF IInv, TypeOK
  <2>6. m(i) = mag[i] + n
    BY DEF m
  <2> HIDE DEF n
  <2>7. Bounds(mag[i] + n, I16(block[i] + t(i))) /\ Bounds(mag[i] + n, I16(block[i] - t(i)))
    BY <1>4, <2>2, <2>4, <2>5, <2>6, LaneSum
  <2>8. QED  BY <2>2, <2>5, <2>6, <2>7, SMT
<1>5. ASSUME NEW i \in Block
      PROVE  mag'[i] \in Nat /\ Bounds(mag'[i], block'[i])
  <2>0. i - p.gap \in p.low => i \notin p.low
    BY <1>1, HighNotLow
  <2>1. CASE i \in p.low
    <3>1. mag'[i] = m(i) /\ block'[i] = I16(block[i] + t(i))
      BY <1>2, <2>0, <2>1
    <3>2. QED  BY <1>3, <1>4, <2>1, <3>1
  <2>2. CASE i \notin p.low /\ i - p.gap \in p.low
    <3>1. mag'[i] = m(i - p.gap) /\ block'[i] = I16(block[i - p.gap] - t(i - p.gap))
      BY <1>2, <2>2
    <3>2. QED  BY <1>3, <1>4, <2>2, <3>1
  <2>3. CASE i \notin p.low /\ i - p.gap \notin p.low
    <3>1. mag'[i] = mag[i] /\ block'[i] = block[i]
      BY <1>2, <2>3
    <3>2. QED  BY <3>1, BoundedLanes
  <2>4. QED  BY <2>1, <2>2, <2>3
<1>6. block' = [i \in Block |-> block'[i]] /\ mag' = [i \in Block |-> mag'[i]]
  BY <1>2
<1>7. QED  BY <1>1, <1>5, <1>6, BlockPass DEF CtLevel

\* An inverse level keeps the invariant.
LEMMA GsStep ==
  ASSUME IInv, Fits, Fits', GsLevel
  PROVE  IInv'
<1> DEFINE p == program[pc]
           s(i) == I16(block[i] + block[i + p.gap])
           d(i) == I16(block[i] - block[i + p.gap])
           u(i) == mag[i] + mag[i + p.gap]
           t(i) == Mul(d(i), p.zeta[i])
           m(i) == MontBound(u(i), Half, prime)
<1>1. ButterflyOK(p, prime) /\ Run({"gs"})
  BY PassHere, SMT DEF GsLevel, PassOK
<1>2. \A i \in Block : i - p.gap \in p.low => (i - p.gap) + p.gap = i
  <2>1. p.gap \in Block
    BY <1>1 DEF ButterflyOK
  <2>2. \A g \in Block : \A i \in Block : (i - g) + g = i
    BY SMT DEF Block
  <2>3. QED  BY <2>1, <2>2
<1>3. /\ block' = [i \in Block |->
              CASE i \in p.low         -> s(i)
                [] i - p.gap \in p.low -> Mul(I16(block[i - p.gap] - block[i]), p.zeta[i - p.gap])
                [] OTHER               -> block[i]]
      /\ mag' = [i \in Block |->
              CASE i \in p.low         -> u(i)
                [] i - p.gap \in p.low -> MontBound(mag[i - p.gap] + mag[i], Half, prime)
                [] OTHER               -> mag[i]]
  <2>1. program[pc].do = "gs" /\ mag' = BoundsAfter(p, mag, prime)
    BY DEF GsLevel, Run
  <2>2. QED  BY <2>1, BoundsAfterIs DEF GsLevel, Half
<1>4. \A i \in Block : LaneFits(mag'[i])
  BY DEF Fits, LaneFits
<1> HIDE DEF s, u, m, t
<1>5. ASSUME NEW i \in p.low
      PROVE  /\ u(i) \in Nat /\ m(i) \in Nat
             /\ Bounds(u(i), s(i)) /\ Bounds(m(i), t(i))
  <2> DEFINE j == i + p.gap
  <2>1. i \in Block /\ j \in Block /\ Half \in Nat /\ Bounds(Half, p.zeta[i])
    BY <1>1, Partner
  <2>2. /\ mag[i] \in Nat /\ mag[j] \in Nat /\ Bounds(mag[i], block[i])
        /\ Bounds(mag[j], block[j])
    BY <2>1, BoundedLanes
  <2>3. LaneFits(u(i))
    <3>1. mag'[i] = u(i)
      BY <1>3, <2>1, <1>1, HighNotLow
    <3>2. QED  BY <1>4, <2>1, <3>1
  <2>4. u(i) = mag[i] + mag[j] /\ u(i) \in Nat
    BY <2>2, SMT DEF u
  <2>5. Bounds(u(i), s(i)) /\ Bounds(u(i), d(i))
    <3>1. LaneFits(mag[i] + mag[j])
      BY <2>3, <2>4
    <3>2. /\ Bounds(mag[i] + mag[j], I16(block[i] + block[j]))
          /\ Bounds(mag[i] + mag[j], I16(block[i] - block[j]))
      BY <2>2, <3>1, LaneSum
    <3>3. QED  BY <2>4, <3>2 DEF s
  <2> HIDE DEF d
  <2>6. Half <= Half
    BY <2>1, SMT
  <2>7. Bounds(m(i), t(i))
    BY <2>1, <2>3, <2>4, <2>5, <2>6, MulBound DEF IInv, t, m
  <2>8. m(i) \in Nat
    BY <2>1, <2>4, BoundTypes DEF IInv, TypeOK, m
  <2>9. QED  BY <2>4, <2>5, <2>7, <2>8
<1>6. ASSUME NEW i \in Block
      PROVE  mag'[i] \in Nat /\ Bounds(mag'[i], block'[i])
  <2>1. i - p.gap \in p.low => i \notin p.low
    BY <1>1, HighNotLow
  <2>2. CASE i \in p.low
    <3>1. mag'[i] = u(i) /\ block'[i] = s(i)
      BY <1>3, <2>1, <2>2
    <3>2. QED  BY <1>5, <2>2, <3>1
  <2>3. CASE i \notin p.low /\ i - p.gap \in p.low
    <3>1. mag'[i] = MontBound(mag[i - p.gap] + mag[i], Half, prime)
          /\ block'[i] = Mul(I16(block[i - p.gap] - block[i]), p.zeta[i - p.gap])
      BY <1>3, <2>3
    <3>2. mag'[i] = m(i - p.gap) /\ block'[i] = t(i - p.gap)
      BY <1>2, <2>3, <3>1 DEF m, t, u
    <3>3. QED  BY <1>5, <2>3, <3>2
  <2>4. CASE i \notin p.low /\ i - p.gap \notin p.low
    <3>1. mag'[i] = mag[i] /\ block'[i] = block[i]
      BY <1>3, <2>4
    <3>2. QED  BY <3>1, BoundedLanes
  <2>5. QED  BY <2>2, <2>3, <2>4
<1>7. block' = [i \in Block |-> block'[i]] /\ mag' = [i \in Block |-> mag'[i]]
  BY <1>3
<1>8. QED  BY <1>1, <1>6, <1>7, BlockPass DEF GsLevel

\* A Barrett pass keeps the invariant.
LEMMA BarrettStep ==
  ASSUME IInv, Fits, BarrettBlock
  PROVE  IInv'
<1> DEFINE p == program[pc]
<1>1. Run({"barrett"}) /\ Half \in Nat
  BY BoundTypes DEF BarrettBlock, IInv, TypeOK, Half
<1>2. /\ block' = [i \in Block |-> IF i \in p.at THEN Recentre(block[i]) ELSE block[i]]
      /\ mag' = [i \in Block |-> IF i \in p.at THEN Half ELSE mag[i]]
  <2>1. program[pc].do = "barrett" /\ mag' = BoundsAfter(p, mag, prime)
    BY DEF BarrettBlock, Run
  <2>2. QED  BY <2>1, BoundsAfterIs DEF BarrettBlock, Half
<1>3. ASSUME NEW i \in Block
      PROVE  mag'[i] \in Nat /\ Bounds(mag'[i], block'[i])
  <2>1. IsI16(block[i]) /\ mag[i] \in Nat /\ Bounds(mag[i], block[i])
    BY FitsHere, BoundedLanes
  <2>2. Bounds(Half, Recentre(block[i]))
    BY <2>1, RecentreBound DEF IInv
  <2>3. QED  BY <1>1, <1>2, <2>1, <2>2
<1>4. block' = [i \in Block |-> block'[i]] /\ mag' = [i \in Block |-> mag'[i]]
  BY <1>2
<1>5. QED  BY <1>1, <1>3, <1>4, BlockPass DEF BarrettBlock

\* A transposition keeps the invariant.
LEMMA TransposeStep ==
  ASSUME IInv, Transpose
  PROVE  IInv'
<1> DEFINE p == program[pc]
<1>1. p.from \in [Block -> Block] /\ Run({"move"})
  BY PassHere, SMT DEF Transpose, PassOK
<1>2. block' = [i \in Block |-> block[p.from[i]]] /\ mag' = [i \in Block |-> mag[p.from[i]]]
  <2>1. program[pc].do = "move" /\ mag' = BoundsAfter(p, mag, prime)
    BY DEF Transpose, Run
  <2>2. QED  BY <2>1, BoundsAfterIs DEF Transpose
<1>3. \A i \in Block : mag'[i] \in Nat /\ Bounds(mag'[i], block'[i])
  BY <1>1, <1>2, BoundedLanes
<1>4. block' = [i \in Block |-> block'[i]] /\ mag' = [i \in Block |-> mag'[i]]
  BY <1>2
<1>5. QED  BY <1>1, <1>3, <1>4, BlockPass DEF Transpose

\* Storing a transform keeps the invariant.
LEMMA KeepStep ==
  ASSUME IInv, Keep
  PROVE  IInv'
<1>1. pc' \in Nat \ {0} /\ UNCHANGED fixed
  BY PassHere DEF Keep
<1>2. QED  BY <1>1 DEF Keep, IInv, TypeOK, Bounded, fixed

\* Accumulating a pair's products keeps the invariant.
LEMMA PointwiseStep ==
  ASSUME IInv, PointwiseMulAcc
  PROVE  IInv'
<1>1. pc' \in Nat \ {0} /\ UNCHANGED fixed
  BY PassHere DEF PointwiseMulAcc
<1>2. /\ acc' = [i \in Block |-> acc[i] + Product(i)]
      /\ accMag' = [i \in Block |-> accMag[i] + keptMag[i] * mag[i]]
  BY DEF PointwiseMulAcc
<1>3. ASSUME NEW i \in Block
      PROVE  accMag'[i] \in Nat /\ acc'[i] \in Int /\ acc'[i] \in Within(accMag'[i])
  <2> DEFINE n == keptMag[i] * mag[i]
             x == kept[i] * block[i]
  <2>1. /\ Bounds(mag[i], block[i]) /\ mag[i] \in Nat
        /\ Bounds(keptMag[i], kept[i]) /\ keptMag[i] \in Nat
        /\ Bounds(accMag[i], acc[i]) /\ accMag[i] \in Nat
    BY BoundedLanes
  <2>2. Bounds(n, x) /\ n \in Nat
    <3>1. Bounds(n, x)
      BY <2>1, ProductBound
    <3>2. n \in Nat
      BY <2>1, SMT
    <3>3. QED  BY <3>1, <3>2
  <2>3. acc'[i] = acc[i] + x /\ accMag'[i] = accMag[i] + n
    BY <1>2, ProductIs DEF IInv
  <2> HIDE DEF n, x
  <2>4. QED  BY <2>1, <2>2, <2>3, SMT DEF Bounds, Within
<1>4. acc' \in [Block -> Int] /\ accMag' \in [Block -> Nat]
  BY <1>2, <1>3
<1>5. QED  BY <1>1, <1>3, <1>4 DEF PointwiseMulAcc, IInv, TypeOK, Bounded, fixed

\* Reducing the accumulators keeps the invariant.
LEMMA ReduceStep ==
  ASSUME IInv, Fits, ReduceBlock
  PROVE  IInv'
<1>1. Run({"reduce"}) /\ prime \in Primes
  BY DEF ReduceBlock, IInv, TypeOK
<1>2. /\ block' = [i \in Block |-> ReducedLane(i)]
      /\ mag' = [i \in Block |-> ReduceBound(accMag[i], prime)]
  BY DEF ReduceBlock
<1>3. ASSUME NEW i \in Block
      PROVE  mag'[i] \in Nat /\ Bounds(mag'[i], block'[i])
  <2>1. Bounds(accMag[i], acc[i]) /\ accMag[i] \in Nat /\ Reducible(accMag[i], prime)
    BY FitsHere, BoundedLanes
  <2>2. Bounds(ReduceBound(accMag[i], prime), MontReduce(acc[i], prime))
    BY <1>1, <2>1, MontReduceBound
  <2>3. 0 \in Nat /\ ReduceBound(accMag[i], prime) \in Nat
    BY <1>1, <2>1, BoundTypes
  <2>4. ReducedLane(i) = MontReduce(acc[i], prime)
    BY <2>1, ReducedLaneIs DEF IInv
  <2>5. QED  BY <1>2, <2>2, <2>3, <2>4
<1>4. block' = [i \in Block |-> block'[i]] /\ mag' = [i \in Block |-> mag'[i]]
  BY <1>2
<1>5. QED  BY <1>1, <1>3, <1>4, BlockPass DEF ReduceBlock

\* The last scaling keeps the invariant.
LEMMA ScaleStep ==
  ASSUME IInv, Fits, ScaleBlock
  PROVE  IInv'
<1> DEFINE c == InvNttScale(prime)
<1>1. Run({"scale"}) /\ prime \in Primes
  BY DEF ScaleBlock, IInv, TypeOK
<1>2. c \in Nat /\ c <= Half /\ Bounds(c, c)
  BY <1>1, SMT DEF InvNttScale, Half, Primes, Bounds
<1>3. /\ block' = [i \in Block |-> Mul(block[i], c)]
      /\ mag' = [i \in Block |-> MontBound(mag[i], c, prime)]
  BY DEF ScaleBlock
<1> HIDE DEF c
<1>4. ASSUME NEW i \in Block
      PROVE  mag'[i] \in Nat /\ Bounds(mag'[i], block'[i])
  <2>1. Bounds(mag[i], block[i]) /\ mag[i] \in Nat /\ LaneFits(mag[i])
    BY FitsHere, BoundedLanes
  <2>2. Bounds(MontBound(mag[i], c, prime), Mul(block[i], c))
    BY <1>2, <2>1, MulBound DEF IInv
  <2>3. MontBound(mag[i], c, prime) \in Nat
    BY <1>1, <1>2, <2>1, BoundTypes
  <2>4. QED  BY <1>3, <2>2, <2>3
<1>5. block' = [i \in Block |-> block'[i]] /\ mag' = [i \in Block |-> mag'[i]]
  BY <1>3
<1>6. QED  BY <1>1, <1>4, <1>5, BlockPass DEF ScaleBlock

\* Every step between states whose bounds fit keeps the invariant.
LEMMA StepInv == IInv /\ Fits /\ Fits' /\ [Next]_vars => IInv'
<1> SUFFICES ASSUME IInv, Fits, Fits', [Next]_vars PROVE IInv'
  OBVIOUS
<1>1. CASE Split            BY <1>1, SplitStep
<1>2. CASE CtLevel          BY <1>2, CtStep
<1>3. CASE GsLevel          BY <1>3, GsStep
<1>4. CASE BarrettBlock     BY <1>4, BarrettStep
<1>5. CASE Transpose        BY <1>5, TransposeStep
<1>6. CASE Keep             BY <1>6, KeepStep
<1>7. CASE PointwiseMulAcc  BY <1>7, PointwiseStep
<1>8. CASE ReduceBlock      BY <1>8, ReduceStep
<1>9. CASE ScaleBlock       BY <1>9, ScaleStep
<1>10. CASE UNCHANGED vars
  BY <1>10 DEF vars, fixed, IInv, TypeOK, Bounded
<1>11. QED
  BY <1>1, <1>2, <1>3, <1>4, <1>5, <1>6, <1>7, <1>8, <1>9, <1>10 DEF Next

\* For all operands, ranks and schedules: if the bounds the schedule propagates
\* fit, which no operand influences, then no lane or accumulator leaves them.
THEOREM BoundedHolds == Spec /\ []Fits => []Bounded
<1>1. IInv => Bounded
  BY DEF IInv
<1>2. QED  BY InitInv, StepInv, <1>1, PTL DEF Spec

\* The result of the transform back is less than one prime in magnitude, so that
\* adding the prime to a negative lane makes it a residue (ntt_crt.rs:412-414).
Canonical == Finished => \A i \in Block : -prime < block[i] /\ block[i] < prime

\* If the propagated bounds fit, the residues handed to the CRT step are canonical
\* after one conditional addition, for all operands, ranks and schedules.
THEOREM CanonicalHolds == Spec /\ []Fits => []Canonical
<1>1. IInv /\ Fits => Canonical
  <2> SUFFICES ASSUME IInv, Fits, Finished, NEW i \in Block
               PROVE  -prime < block[i] /\ block[i] < prime
    BY DEF Canonical
  <2>1. Bounds(mag[i], block[i]) /\ mag[i] \in Nat /\ mag[i] < prime /\ prime \in Primes
    BY BoundedLanes DEF Fits, IInv, TypeOK
  <2>2. QED  BY <2>1, SMT DEF Bounds, Primes
<1>2. QED  BY InitInv, StepInv, <1>1, PTL DEF Spec
-----------------------------------------------------------------------------
\* Residues of what the passes use of a lane.
LEMMA RadixIs ==
  ASSUME TypeOK
  PROVE  /\ Exactly!Radix(prime) \in Int /\ (65536 * Exactly!Radix(prime)) % prime = 1
         /\ prime \in Primes
BY SMT DEF Exactly!Radix, TypeOK, Primes

LEMMA MulResidue ==
  ASSUME TypeOK, NEW a, NEW z, NEW m \in Nat, NEW w \in Nat,
         Bounds(m, a), LaneFits(m), Bounds(w, z), w <= Half
  PROVE  Mul(a, z) % prime = ((a % prime) * Exactly!Unscaled(z)) % prime
<1> DEFINE r == Exactly!Radix(prime)
           y == MontMul(a, z, prime)
           zr == z * r
<1>1. prime \in Primes /\ w <= prime \div 2 /\ r \in Int /\ (65536 * r) % prime = 1
  BY RadixIs DEF Half
<1>2. /\ Bounds(MontBound(m, w, prime), y)
      /\ \E t \in Int : 65536 * y = a * z - t * prime
  BY <1>1, MontMulBound
<1>3. a \in Int /\ z \in Int /\ IsI16(a) /\ y \in Int
  BY <1>2, SMT DEF Bounds, IsI16, LaneFits
<1>4. NeonMontMul(a, z, prime) = y
  BY <1>1, <1>3, NeonMontMulSame
<1>5. Mul(a, z) = y
  BY <1>4 DEF Mul
<1> HIDE DEF r, y
<1>6. a * z \in Int /\ zr \in Int /\ (a * z) * r = a * zr
  BY <1>1, <1>3, SMT
<1>7. y % prime = ((a * z) * r) % prime
  BY <1>1, <1>2, <1>3, <1>6, Unscaling
<1> HIDE DEF zr
<1>8. (a * zr) % prime = ((a % prime) * (zr % prime)) % prime
  BY <1>1, <1>3, <1>6, ProductResidue
<1>9. QED  BY <1>5, <1>6, <1>7, <1>8 DEF zr, r, Exactly!Unscaled

LEMMA RecentreResidue ==
  ASSUME TypeOK, NEW x, IsI16(x)
  PROVE  Recentre(x) % prime = x % prime
<1>1. prime \in Primes
  BY DEF TypeOK
<1>2. Barrett(x, prime) % prime = x % prime /\ NeonBarrett(x, prime) = Barrett(x, prime)
  BY <1>1, BarrettResidue, NeonBarrettSame
<1>3. QED  BY <1>2 DEF Recentre
-----------------------------------------------------------------------------
\* The residues that the passes without butterflies leave.
LEMMA SplitResidues ==
  ASSUME IInv, Split, NEW p, p = program[pc], NEW x, x = input[p.side][p.pair]
  PROVE  /\ x \in [Block -> Coefficients] \/ x \in [Block -> Secrets]
         /\ \A i \in Block : block'[i] % prime = x[i] % prime
<1>1. /\ p.do = "split" /\ p.side \in {"public", "secret"} /\ p.pair \in 1..Rank
  BY PassHere, SMT DEF Split, PassOK
<1>2. input \in [public : [1..Rank -> [Block -> Coefficients]],
                 secret : [1..Rank -> [Block -> Secrets]]]
  <2>1. input \in Inputs
    BY DEF IInv, TypeOK
  <2>2. QED  BY <2>1, InputsAssumption
<1>3. CASE p.side = "public"
  <2>1. x \in [Block -> Coefficients]
    <3>1. input.public[p.pair] \in [Block -> Coefficients]
      BY <1>1, <1>2
    <3>2. QED  BY <1>3, <3>1
  <2>2. \A i \in Block : IsI16(x[i])
    <3>1. \A i \in Block : x[i] \in Coefficients
      BY <2>1
    <3>2. \A n \in Coefficients : IsI16(n)
      BY SMT DEF IsI16, Coefficients
    <3>3. QED  BY <3>1, <3>2
  <2>3. block' = [i \in Block |-> Recentre(x[i])]
    BY <1>3 DEF Split
  <2>4. QED  BY <2>1, <2>2, <2>3, RecentreResidue DEF IInv
<1>4. CASE p.side = "secret"
  <2>1. x \in [Block -> Secrets]
    <3>1. input.secret[p.pair] \in [Block -> Secrets]
      BY <1>1, <1>2
    <3>2. QED  BY <1>4, <3>1
  <2>2. block' = x
    BY <1>4 DEF Split
  <2>3. QED  BY <2>1, <2>2
<1>5. QED  BY <1>1, <1>3, <1>4

LEMMA BarrettResidues ==
  ASSUME IInv, Fits, BarrettBlock, NEW i \in Block
  PROVE  block'[i] % prime = block[i] % prime
<1>1. IsI16(block[i])
  BY FitsHere
<1>2. Recentre(block[i]) % prime = block[i] % prime
  BY <1>1, RecentreResidue DEF IInv
<1>3. QED  BY <1>2 DEF BarrettBlock

LEMMA ReduceResidues ==
  ASSUME IInv, Fits, ReduceBlock, NEW i \in Block
  PROVE  block'[i] % prime = (acc[i] * Exactly!Radix(prime)) % prime
<1> DEFINE r == Exactly!Radix(prime)
           x == acc[i]
           y == MontReduce(x, prime)
<1>1. Bounds(accMag[i], x) /\ accMag[i] \in Nat /\ Reducible(accMag[i], prime)
  BY FitsHere, BoundedLanes
<1>2. /\ prime \in Primes /\ r \in Int /\ (65536 * r) % prime = 1 /\ x \in Int
  BY <1>1, RadixIs DEF Bounds, IInv
<1>3. /\ Bounds(ReduceBound(accMag[i], prime), y)
      /\ \E t \in Int : 65536 * y = x - t * prime
  BY <1>1, <1>2, MontReduceBound
<1>4. block'[i] = y
  BY <1>1, ReducedLaneIs DEF IInv, ReduceBlock
<1>5. y \in Int
  BY <1>3 DEF Bounds
<1> HIDE DEF r, x, y
<1>6. y % prime = (x * r) % prime
  BY <1>2, <1>3, <1>5, Unscaling
<1>7. QED  BY <1>4, <1>6 DEF x, r

LEMMA ScaleResidues ==
  ASSUME IInv, Fits, ScaleBlock, NEW i \in Block
  PROVE  block'[i] % prime = ((block[i] % prime) * Exactly!Unscaled(InvNttScale(prime))) % prime
<1> DEFINE c == InvNttScale(prime)
<1>1. prime \in Primes
  BY DEF IInv, TypeOK
<1>2. c \in Nat /\ c <= Half /\ Bounds(c, c)
  BY <1>1, SMT DEF InvNttScale, Half, Primes, Bounds
<1>3. block'[i] = Mul(block[i], c)
  BY DEF ScaleBlock
<1> HIDE DEF c
<1>4. Bounds(mag[i], block[i]) /\ mag[i] \in Nat /\ LaneFits(mag[i])
  BY FitsHere, BoundedLanes
<1>5. Mul(block[i], c) % prime = ((block[i] % prime) * Exactly!Unscaled(c)) % prime
  BY <1>2, <1>4, MulResidue DEF IInv
<1>6. QED  BY <1>3, <1>5 DEF c
-----------------------------------------------------------------------------
\* A pass on the block is the abstract one if every lane is.
LEMMA SplitExact ==
  ASSUME IInv, Split
  PROVE  Exactly!Next
<1> DEFINE p == program[pc]
           x == input[p.side][p.pair]
<1>1. /\ p.do = "split" /\ p.side \in {"public", "secret"} /\ p.pair \in 1..Rank
      /\ Run({"split"}) /\ UNCHANGED fixed
  BY PassHere, SMT DEF Split, PassOK
<1>2. \A i \in Block : block'[i] % prime = x[i] % prime
  BY SplitResidues
<1>3. Exactly!Pass("split", Exactly!Operand)
  <2>1. [i \in Block |-> block'[i] % prime'] = [i \in Block |-> x[i] % prime]
    BY <1>1, <1>2 DEF fixed
  <2>2. QED  BY <1>1, <2>1 DEF Exactly!Pass, Exactly!Operand, Exactly!Block, Block, Split, fixed
<1>4. QED  BY <1>1, <1>3 DEF Exactly!Next, Run, fixed

LEMMA GapBack ==
  ASSUME NEW g \in Block, NEW k \in Block
  PROVE  (k + g) - g = k /\ (k - g) + g = k
BY SMT DEF Block

\* The residues that a forward butterfly leaves.
TwistedResidue(x, zeta) == ((x % prime) * Exactly!Unscaled(zeta)) % prime

LEMMA CtResidues ==
  ASSUME IInv, Fits, Fits', CtLevel, NEW i \in program[pc].low, NEW j, j = i + program[pc].gap
  PROVE  /\ i \in Block /\ j \in Block
         /\ block'[i] % prime =
              ((block[i] % prime) + TwistedResidue(block[j], program[pc].zeta[i])) % prime
         /\ block'[j] % prime =
              ((block[i] % prime) - TwistedResidue(block[j], program[pc].zeta[i])) % prime
<1> DEFINE p == program[pc]
           t(k) == Mul(block[k + p.gap], p.zeta[k])
           m(k) == mag[k] + MontBound(mag[k + p.gap], Half, prime)
           n == MontBound(mag[j], Half, prime)
           T == TwistedResidue(block[j], p.zeta[i])
<1>1. ButterflyOK(p, prime)
  BY PassHere, SMT DEF CtLevel, PassOK
<1>2. /\ block' = [k \in Block |->
              CASE k \in p.low         -> I16(block[k] + t(k))
                [] k - p.gap \in p.low -> I16(block[k - p.gap] - t(k - p.gap))
                [] OTHER               -> block[k]]
      /\ mag' = [k \in Block |->
              CASE k \in p.low         -> m(k)
                [] k - p.gap \in p.low -> m(k - p.gap)
                [] OTHER               -> mag[k]]
  <2>1. program[pc].do = "ct" /\ mag' = BoundsAfter(p, mag, prime)
    BY DEF CtLevel, Run
  <2>2. QED  BY <2>1, BoundsAfterIs DEF CtLevel, Half
<1>3. \A k \in Block : LaneFits(mag'[k])
  BY DEF Fits, LaneFits
<1> HIDE DEF t, m, T
<1>4. i \in Block /\ j \in Block /\ j \notin p.low /\ Half \in Nat /\ Bounds(Half, p.zeta[i])
  BY <1>1, Partner
<1>5. j - p.gap = i
  <2>1. p.gap \in Block
    BY <1>1 DEF ButterflyOK
  <2>2. QED  BY <1>4, <2>1, GapBack
<1>6. /\ mag[i] \in Nat /\ mag[j] \in Nat /\ Bounds(mag[i], block[i])
      /\ Bounds(mag[j], block[j]) /\ LaneFits(mag[j])
  BY <1>4, BoundedLanes, FitsHere
<1>7. /\ Bounds(n, t(i))
      /\ t(i) % prime = T
  <2>1. Half <= Half
    BY <1>4, SMT
  <2>2. Bounds(n, t(i))
    BY <1>4, <1>6, <2>1, MulBound DEF IInv, t
  <2>3. t(i) % prime = ((block[j] % prime) * Exactly!Unscaled(p.zeta[i])) % prime
    BY <1>4, <1>6, <2>1, MulResidue DEF IInv, t
  <2>4. QED  BY <2>2, <2>3 DEF T, TwistedResidue
<1>8. /\ mag'[i] = mag[i] + n /\ block'[i] = I16(block[i] + t(i))
      /\ block'[j] = I16(block[i] - t(i))
  <2>1. ~(i - p.gap \in p.low)
    BY <1>1, <1>4, HighNotLow
  <2>2. mag'[i] = mag[i] + n
    BY <1>2, <1>4, <2>1 DEF m
  <2>3. block'[i] = I16(block[i] + t(i))
    BY <1>2, <1>4, <2>1
  <2>4. block'[j] = I16(block[i] - t(i))
    BY <1>2, <1>4, <1>5
  <2>5. QED  BY <2>2, <2>3, <2>4
<1>9. n \in Nat /\ LaneFits(mag[i] + n)
  <2>1. n \in Nat
    BY <1>4, <1>6, BoundTypes DEF IInv, TypeOK
  <2>2. QED  BY <1>3, <1>4, <1>8, <2>1
<1> HIDE DEF n
<1>10. I16(block[i] + t(i)) = block[i] + t(i) /\ I16(block[i] - t(i)) = block[i] - t(i)
  BY <1>6, <1>7, <1>9, LaneSum
<1>11. block[i] \in Int /\ t(i) \in Int /\ prime \in Primes
  BY <1>6, <1>7 DEF Bounds, IInv, TypeOK
<1>12. /\ (block[i] + t(i)) % prime = ((block[i] % prime) + (t(i) % prime)) % prime
       /\ (block[i] - t(i)) % prime = ((block[i] % prime) - (t(i) % prime)) % prime
  BY <1>11, SumResidue
<1>13. /\ block'[i] % prime = ((block[i] % prime) + T) % prime
       /\ block'[j] % prime = ((block[i] % prime) - T) % prime
  BY <1>7, <1>8, <1>10, <1>12
<1>14. QED  BY <1>4, <1>13 DEF T

LEMMA CtOthers ==
  ASSUME CtLevel, NEW i \in Block, i \notin program[pc].low, i - program[pc].gap \notin program[pc].low
  PROVE  block'[i] = block[i]
BY DEF CtLevel

LEMMA CtExact ==
  ASSUME IInv, Fits, Fits', CtLevel
  PROVE  Exactly!Next
<1> DEFINE p == program[pc]
           B == [i \in Block |-> block[i] % prime]
           T(i) == (B[i + p.gap] * Exactly!Unscaled(p.zeta[i])) % prime
<1>1. ButterflyOK(p, prime) /\ Run({"ct"}) /\ p.do = "ct" /\ UNCHANGED fixed
  BY PassHere, SMT DEF CtLevel, PassOK
<1> HIDE DEF B, T
<1>2. ASSUME NEW i \in p.low
      PROVE  /\ block'[i] % prime = (B[i] + T(i)) % prime
             /\ block'[i + p.gap] % prime = (B[i] - T(i)) % prime
  <2> DEFINE j == i + p.gap
             b == block[i] % prime
             t == TwistedResidue(block[j], p.zeta[i])
  <2>1. i \in Block /\ j \in Block
    BY CtResidues
  <2>2. block'[i] % prime = (b + t) % prime /\ block'[j] % prime = (b - t) % prime
    BY CtResidues
  <2>3. B[i] = b /\ B[j] = block[j] % prime
    BY <2>1 DEF B
  <2>4. T(i) = t
    BY <2>3 DEF T, TwistedResidue
  <2> HIDE DEF b, t
  <2>5. QED  BY <2>2, <2>3, <2>4
<1>3. \A i \in Block : i - p.gap \in p.low => (i - p.gap) + p.gap = i
  <2>1. p.gap \in Block
    BY <1>1 DEF ButterflyOK
  <2>2. \A g \in Block : \A i \in Block : (i - g) + g = i
    BY SMT DEF Block
  <2>3. QED  BY <2>1, <2>2
<1>5. ASSUME NEW i \in Block
      PROVE  block'[i] % prime =
               CASE i \in p.low         -> (B[i] + T(i)) % prime
                 [] i - p.gap \in p.low -> (B[i - p.gap] - T(i - p.gap)) % prime
                 [] OTHER               -> B[i]
  <2>1. i - p.gap \in p.low => i \notin p.low
    BY <1>1, HighNotLow
  <2>2. CASE i \in p.low
    BY <1>2, <2>1, <2>2
  <2>3. CASE i \notin p.low /\ i - p.gap \in p.low
    <3>1. block'[(i - p.gap) + p.gap] % prime = (B[i - p.gap] - T(i - p.gap)) % prime
      BY <1>2, <2>3
    <3>2. block'[i] % prime = (B[i - p.gap] - T(i - p.gap)) % prime
      BY <1>3, <2>3, <3>1
    <3>3. QED  BY <2>3, <3>2
  <2>4. CASE i \notin p.low /\ i - p.gap \notin p.low
    BY <2>4, CtOthers DEF B
  <2>5. QED  BY <2>2, <2>3, <2>4
<1>6. Exactly!Pass("ct", Exactly!Forward)
  <2>1. [i \in Block |-> block'[i] % prime'] =
          [i \in Block |->
             CASE i \in p.low         -> (B[i] + T(i)) % prime
               [] i - p.gap \in p.low -> (B[i - p.gap] - T(i - p.gap)) % prime
               [] OTHER               -> B[i]]
    BY <1>1, <1>5 DEF fixed
  <2>2. kept' = kept /\ acc' = acc /\ prime' = prime
    BY <1>1 DEF CtLevel, fixed
  <2>3. QED  BY <1>1, <2>1, <2>2 DEF Exactly!Pass, Exactly!Forward, Exactly!Twiddled, Exactly!Block, Block, B, T
<1>7. QED  BY <1>1, <1>6 DEF Exactly!Next, Run, fixed

\* The residues that an inverse butterfly leaves.
DifferenceResidue(x, y, zeta) == (((x % prime) - (y % prime)) * Exactly!Unscaled(zeta)) % prime

LEMMA GsResidues ==
  ASSUME IInv, Fits, Fits', GsLevel, NEW i \in program[pc].low, NEW j, j = i + program[pc].gap
  PROVE  /\ i \in Block /\ j \in Block
         /\ block'[i] % prime = ((block[i] % prime) + (block[j] % prime)) % prime
         /\ block'[j] % prime = DifferenceResidue(block[i], block[j], program[pc].zeta[i])
<1> DEFINE p == program[pc]
           b == block[i]
           c == block[j]
           z == p.zeta[i]
           e == Exactly!Unscaled(z)
           d == b - c
           n == mag[i] + mag[j]
<1>1. ButterflyOK(p, prime)
  BY PassHere, SMT DEF GsLevel, PassOK
<1>2. i \in Block /\ j \in Block /\ Half \in Nat /\ Bounds(Half, z) /\ j \notin p.low
  BY <1>1, Partner
<1>3. j - p.gap = i /\ ~(i - p.gap \in p.low)
  <2>1. p.gap \in Block
    BY <1>1 DEF ButterflyOK
  <2>2. j - p.gap = i
    BY <1>2, <2>1, GapBack
  <2>3. QED  BY <1>1, <1>2, <2>2, HighNotLow
<1>4. mag'[i] = n /\ block'[i] = I16(b + c) /\ block'[j] = Mul(I16(d), z)
  <2>1. mag'[i] = n
    <3>1. program[pc].do = "gs" /\ mag' = BoundsAfter(p, mag, prime)
      BY DEF GsLevel, Run
    <3>2. QED  BY <1>2, <1>3, <3>1, BoundsAfterIs
  <2>2. block'[i] = I16(b + c)
    BY <1>2, <1>3 DEF GsLevel
  <2>3. block'[j] = Mul(I16(d), z)
    BY <1>2, <1>3 DEF GsLevel
  <2>4. QED  BY <2>1, <2>2, <2>3
<1>5. /\ mag[i] \in Nat /\ mag[j] \in Nat /\ Bounds(mag[i], b) /\ Bounds(mag[j], c)
  BY <1>2, BoundedLanes
<1>6. n \in Nat /\ LaneFits(n)
  <2>1. LaneFits(mag'[i])
    BY <1>2 DEF Fits, LaneFits
  <2>2. n \in Nat
    BY <1>5, SMT
  <2>3. QED  BY <1>4, <2>1, <2>2
<1>7. prime \in Primes /\ b \in Int /\ c \in Int
  BY <1>5 DEF Bounds, IInv, TypeOK
<1> HIDE DEF b, c, z, e
<1>8. I16(b + c) = b + c /\ I16(d) = d /\ Bounds(n, d)
  <2>1. /\ I16(b + c) = b + c /\ I16(b - c) = b - c
        /\ Bounds(mag[i] + mag[j], I16(b - c))
    BY <1>5, <1>6, LaneSum
  <2>2. QED  BY <2>1
<1>9. (b + c) % prime = ((b % prime) + (c % prime)) % prime
  BY <1>7, SumResidue
<1> DEFINE y == (b % prime) - (c % prime)
<1>10. d % prime = y % prime /\ d \in Int /\ y \in Int
  <2>1. d % prime = y % prime
    BY <1>7, SumResidue
  <2>2. b % prime \in Int /\ c % prime \in Int
    BY <1>7, ResidueOf
  <2>3. QED  BY <1>7, <2>1, <2>2, SMT
<1> HIDE DEF d, n, y
<1>11. Mul(d, z) % prime = ((d % prime) * Exactly!Unscaled(z)) % prime
  <2>1. Half <= Half
    BY <1>2, SMT
  <2>2. QED  BY <1>2, <1>6, <1>8, <2>1, MulResidue DEF IInv
<1>12. e \in Int
  <2>1. z \in Int /\ Exactly!Radix(prime) \in Int
    BY <1>2, RadixIs DEF Bounds, IInv
  <2>2. z * Exactly!Radix(prime) \in Int
    BY <2>1, SMT
  <2>3. QED  BY <1>7, <2>2, ResidueOf DEF e, Exactly!Unscaled
<1>13. ((d % prime) * e) % prime = (y * e) % prime
  <2>1. d % prime \in Int /\ (d % prime) % prime = y % prime
    BY <1>7, <1>10, ResidueOf, ResidueTwice
  <2> DEFINE x == d % prime
  <2> HIDE DEF x
  <2>2. x \in Int /\ x % prime = y % prime
    BY <2>1 DEF x
  <2>3. (x * e) % prime = (y * e) % prime
    BY <1>7, <1>10, <1>12, <2>2, CongruentProduct
  <2>4. QED  BY <2>3 DEF x
<1>14. block'[j] % prime = (y * e) % prime
  BY <1>4, <1>8, <1>11, <1>13 DEF e
<1>15. (y * e) % prime = DifferenceResidue(b, c, z)
  BY DEF DifferenceResidue, y, e
<1>16. QED  BY <1>2, <1>4, <1>8, <1>9, <1>14, <1>15 DEF b, c, z

LEMMA GsOthers ==
  ASSUME GsLevel, NEW i \in Block, i \notin program[pc].low, i - program[pc].gap \notin program[pc].low
  PROVE  block'[i] = block[i]
BY DEF GsLevel

LEMMA GsExact ==
  ASSUME IInv, Fits, Fits', GsLevel
  PROVE  Exactly!Next
<1> DEFINE p == program[pc]
           B == [i \in Block |-> block[i] % prime]
           T(i) == ((B[i] - B[i + p.gap]) * Exactly!Unscaled(p.zeta[i])) % prime
<1>1. ButterflyOK(p, prime) /\ Run({"gs"}) /\ p.do = "gs" /\ UNCHANGED fixed
  BY PassHere, SMT DEF GsLevel, PassOK
<1> HIDE DEF B, T
<1>2. \A i \in Block : i - p.gap \in p.low => (i - p.gap) + p.gap = i
  <2>1. p.gap \in Block
    BY <1>1 DEF ButterflyOK
  <2>2. QED  BY <2>1, GapBack
<1>5. ASSUME NEW i \in p.low
      PROVE  /\ block'[i] % prime = (B[i] + B[i + p.gap]) % prime
             /\ block'[i + p.gap] % prime = T(i)
  <2> DEFINE j == i + p.gap
             t == DifferenceResidue(block[i], block[j], p.zeta[i])
             b == block[i] % prime
             c == block[j] % prime
  <2>1. i \in Block /\ j \in Block
    BY GsResidues
  <2>2. block'[i] % prime = (b + c) % prime /\ block'[j] % prime = t
    BY GsResidues
  <2>3. B[i] = b /\ B[j] = c
    BY <2>1 DEF B
  <2>4. T(i) = t
    BY <2>3 DEF T, DifferenceResidue
  <2> HIDE DEF b, c, t
  <2>5. QED  BY <2>2, <2>3, <2>4
<1>6. ASSUME NEW i \in Block
      PROVE  block'[i] % prime =
               CASE i \in p.low         -> (B[i] + B[i + p.gap]) % prime
                 [] i - p.gap \in p.low ->
                      ((B[i - p.gap] - B[i]) * Exactly!Unscaled(p.zeta[i - p.gap])) % prime
                 [] OTHER               -> B[i]
  <2>1. i - p.gap \in p.low => i \notin p.low
    BY <1>1, HighNotLow
  <2>2. CASE i \in p.low
    BY <1>5, <2>1, <2>2
  <2>3. CASE i \notin p.low /\ i - p.gap \in p.low
    <3>1. block'[(i - p.gap) + p.gap] % prime = T(i - p.gap)
      BY <1>5, <2>3
    <3>2. block'[i] % prime = T(i - p.gap)
      BY <1>2, <2>3, <3>1
    <3>3. T(i - p.gap) = ((B[i - p.gap] - B[i]) * Exactly!Unscaled(p.zeta[i - p.gap])) % prime
      BY <1>2, <2>3 DEF T
    <3>4. QED  BY <2>3, <3>2, <3>3
  <2>4. CASE i \notin p.low /\ i - p.gap \notin p.low
    BY <2>4, GsOthers DEF B
  <2>5. QED  BY <2>2, <2>3, <2>4
<1>7. Exactly!Pass("gs", Exactly!Inverse)
  <2>1. [i \in Block |-> block'[i] % prime'] =
          [i \in Block |->
             CASE i \in p.low         -> (B[i] + B[i + p.gap]) % prime
               [] i - p.gap \in p.low ->
                    ((B[i - p.gap] - B[i]) * Exactly!Unscaled(p.zeta[i - p.gap])) % prime
               [] OTHER               -> B[i]]
    BY <1>1, <1>6 DEF fixed
  <2>2. kept' = kept /\ acc' = acc /\ prime' = prime
    BY <1>1 DEF GsLevel, fixed
  <2>3. QED  BY <1>1, <2>1, <2>2 DEF Exactly!Pass, Exactly!Inverse, Exactly!Block, Block, B
<1>8. QED  BY <1>1, <1>7 DEF Exactly!Next, Run, fixed

LEMMA BarrettExact ==
  ASSUME IInv, Fits, BarrettBlock
  PROVE  Exactly!Next
<1>1. Run({"barrett"}) /\ program[pc].do = "barrett" /\ UNCHANGED fixed
  BY PassHere, SMT DEF BarrettBlock
<1>2. \A i \in Block : block'[i] % prime = block[i] % prime
  BY BarrettResidues
<1>3. Exactly!Pass("barrett", Exactly!Same)
  <2>1. [i \in Block |-> block'[i] % prime'] = [i \in Block |-> block[i] % prime]
    BY <1>1, <1>2 DEF fixed
  <2>2. QED
    BY <1>1, <2>1 DEF Exactly!Pass, Exactly!Same, Exactly!Block, Block, BarrettBlock, fixed
<1>4. QED  BY <1>1, <1>3 DEF Exactly!Next, Run, fixed

LEMMA TransposeExact ==
  ASSUME IInv, Transpose
  PROVE  Exactly!Next
<1>1. /\ program[pc].from \in [Block -> Block] /\ Run({"move"})
      /\ program[pc].do = "move" /\ UNCHANGED fixed
  BY PassHere, SMT DEF Transpose, PassOK
<1>2. Exactly!Pass("move", Exactly!Moved)
  <2>1. [i \in Block |-> block'[i] % prime'] = [i \in Block |-> block[program[pc].from[i]] % prime]
    BY <1>1 DEF Transpose, fixed
  <2>2. QED
    BY <1>1, <2>1, ZenonT(30) DEF Exactly!Pass, Exactly!Moved, Exactly!Block, Block, Transpose, fixed
<1>3. QED  BY <1>1, <1>2 DEF Exactly!Next, Run, fixed

\* So are the passes on the other two blocks.
LEMMA KeepExact ==
  ASSUME IInv, Keep
  PROVE  Exactly!Next
<1>1. Run({"keep"}) /\ program[pc].do = "keep" /\ UNCHANGED fixed
  BY PassHere, SMT DEF Keep
<1>2. Exactly!Keep
  BY <1>1 DEF Exactly!Keep, Keep, fixed
<1>3. QED  BY <1>1, <1>2 DEF Exactly!Next, Run, fixed

LEMMA PointwiseExact ==
  ASSUME IInv, PointwiseMulAcc
  PROVE  Exactly!Next
<1>1. Run({"pointwise"}) /\ program[pc].do = "pointwise" /\ UNCHANGED fixed
  BY PassHere, SMT DEF PointwiseMulAcc
<1>2. ASSUME NEW i \in Block
      PROVE  acc'[i] % prime =
               ((acc[i] % prime) + (kept[i] % prime) * (block[i] % prime)) % prime
  <2> DEFINE x == kept[i] * block[i]
             a == acc[i] % prime
             y == (kept[i] % prime) * (block[i] % prime)
  <2>1. prime \in Primes /\ acc[i] \in Int /\ kept[i] \in Int /\ block[i] \in Int
    BY DEF IInv, TypeOK
  <2>2. acc'[i] = acc[i] + x
    BY ProductIs DEF PointwiseMulAcc, IInv
  <2>3. x \in Int /\ a \in Int /\ y \in Int /\ x % prime = y % prime
    <3>1. kept[i] % prime \in Int /\ block[i] % prime \in Int /\ a \in Int
      BY <2>1, ResidueOf
    <3>2. x \in Int /\ y \in Int
      BY <2>1, <3>1, SMT
    <3>3. x % prime = y % prime
      BY <2>1, ProductResidue
    <3>4. QED  BY <3>1, <3>2, <3>3
  <2>4. a % prime = a
    BY <2>1, ResidueTwice
  <2> HIDE DEF x, y
  <2>5. (acc[i] + x) % prime = (a + (x % prime)) % prime
    BY <2>1, <2>3, SumResidue
  <2> HIDE DEF a
  <2>6. (a + y) % prime = ((a % prime) + (y % prime)) % prime
    BY <2>1, <2>3, SumResidue
  <2>7. acc'[i] % prime = (a + y) % prime
    BY <2>2, <2>3, <2>4, <2>5, <2>6
  <2>8. QED  BY <2>7 DEF a, y
<1>3. Exactly!Accumulate
  <2>1. [i \in Block |-> acc'[i] % prime'] =
          [i \in Block |-> ((acc[i] % prime) + (kept[i] % prime) * (block[i] % prime)) % prime]
    BY <1>1, <1>2 DEF fixed
  <2>2. QED
    BY <1>1, <2>1 DEF Exactly!Accumulate, Exactly!Block, Block, PointwiseMulAcc, fixed
<1>4. QED  BY <1>1, <1>3 DEF Exactly!Next, Run, fixed

LEMMA ReduceExact ==
  ASSUME IInv, Fits, ReduceBlock
  PROVE  Exactly!Next
<1>1. Run({"reduce"}) /\ program[pc].do = "reduce" /\ UNCHANGED fixed
  BY PassHere, SMT DEF ReduceBlock
<1>2. ASSUME NEW i \in Block
      PROVE  block'[i] % prime = Exactly!Unscaled(acc[i] % prime)
  <2> DEFINE r == Exactly!Radix(prime)
             x == acc[i]
             y == x % prime
  <2>1. prime \in Primes /\ r \in Int /\ x \in Int
    BY RadixIs DEF IInv, TypeOK
  <2>2. block'[i] % prime = (x * r) % prime
    BY ReduceResidues
  <2>3. y \in Int /\ y % prime = x % prime
    BY <2>1, ResidueOf, ResidueTwice
  <2> HIDE DEF r, x, y
  <2>4. (y * r) % prime = (x * r) % prime
    BY <2>1, <2>3, CongruentProduct
  <2>5. QED  BY <2>2, <2>4 DEF x, y, r, Exactly!Unscaled
<1>3. Exactly!Pass("reduce", Exactly!Sum)
  <2>1. [i \in Block |-> block'[i] % prime'] = [i \in Block |-> Exactly!Unscaled(acc[i] % prime)]
    BY <1>1, <1>2 DEF fixed
  <2>2. QED
    BY <1>1, <2>1 DEF Exactly!Pass, Exactly!Sum, Exactly!Block, Block, ReduceBlock, fixed
<1>4. QED  BY <1>1, <1>3 DEF Exactly!Next, Run, fixed

LEMMA ScaleExact ==
  ASSUME IInv, Fits, ScaleBlock
  PROVE  Exactly!Next
<1> DEFINE c == InvNttScale(prime)
<1>1. Run({"scale"}) /\ program[pc].do = "scale" /\ UNCHANGED fixed /\ prime \in Primes
  BY PassHere, SMT DEF ScaleBlock, IInv, TypeOK
<1>4. c = Exactly!InvNttScale(prime)
  BY DEF InvNttScale, Exactly!InvNttScale
<1>5. ASSUME NEW i \in Block
      PROVE  block'[i] % prime = ((block[i] % prime) * Exactly!Unscaled(c)) % prime
  BY ScaleResidues
<1> HIDE DEF c
<1>6. Exactly!Pass("scale", Exactly!Final)
  <2>1. [i \in Block |-> block'[i] % prime'] =
          [i \in Block |-> ((block[i] % prime) * Exactly!Unscaled(c)) % prime]
    BY <1>1, <1>5 DEF fixed
  <2>2. QED
    BY <1>1, <1>4, <2>1 DEF Exactly!Pass, Exactly!Final, Exactly!Block, Block, ScaleBlock, fixed
<1>7. QED  BY <1>1, <1>6 DEF Exactly!Next, Run, fixed
-----------------------------------------------------------------------------
LEMMA InitExact == Init => Exactly!Init
<1> SUFFICES ASSUME Init PROVE Exactly!Init
  OBVIOUS
<1>1. prime \in Primes
  BY PlansAssumption DEF Init
<1>2. 0 % prime = 0
  BY <1>1, SMT DEF Primes
<1>3. /\ [i \in Block |-> block[i] % prime] = [i \in Block |-> 0]
      /\ [i \in Block |-> kept[i] % prime] = [i \in Block |-> 0]
      /\ [i \in Block |-> acc[i] % prime] = [i \in Block |-> 0]
  BY <1>2 DEF Init
<1>4. QED  BY <1>3 DEF Init, Exactly!Init, Exactly!Block, Block

LEMMA StepExact == IInv /\ Fits /\ Fits' /\ [Next]_vars => [Exactly!Next]_Exactly!vars
<1> SUFFICES ASSUME IInv, Fits, Fits', [Next]_vars PROVE [Exactly!Next]_Exactly!vars
  OBVIOUS
<1>1. CASE Split            BY <1>1, SplitExact
<1>2. CASE CtLevel          BY <1>2, CtExact
<1>3. CASE GsLevel          BY <1>3, GsExact
<1>4. CASE BarrettBlock     BY <1>4, BarrettExact
<1>5. CASE Transpose        BY <1>5, TransposeExact
<1>6. CASE Keep             BY <1>6, KeepExact
<1>7. CASE PointwiseMulAcc  BY <1>7, PointwiseExact
<1>8. CASE ReduceBlock      BY <1>8, ReduceExact
<1>9. CASE ScaleBlock       BY <1>9, ScaleExact
<1>10. CASE UNCHANGED vars
  BY <1>10 DEF vars, fixed, Exactly!vars
<1>11. QED
  BY <1>1, <1>2, <1>3, <1>4, <1>5, <1>6, <1>7, <1>8, <1>9, <1>10 DEF Next

\* If the propagated bounds fit, the passes of every backend are, residue by
\* residue, those of exact arithmetic modulo the prime: for all operands, ranks
\* and schedules.
THEOREM Refinement == Spec /\ []Fits => ComputesResidues
<1>1. QED  BY InitInv, StepInv, InitExact, StepExact, PTL DEF Spec, Exactly!Spec, ComputesResidues
-----------------------------------------------------------------------------
\* The polynomial that the lanes are parts of, and the factor they carry.
Poly(of, pair) ==
  IF of \in {"public", "secret"} THEN input[of][pair]
  ELSE ProductSums(input.public, input.secret, Rank, prime)
Factor(of, len) == IF of = "sum" THEN len * Exactly!Radix(prime) ELSE 1

\* What a lane holds is what the history says of it.
LaneValue(of, pair, x, part) ==
  Stands(prime, Poly(of, pair), Factor(of, part.len), x, part.off, part.len, part.root)

\* The value of a polynomial at the root of position i.
Whole(c, i) == Horner(c, RootPowers(PowerTable(prime), i)[1], prime, 256)

BlockValues ==
  view.of # "none" =>
    /\ Ints(Poly(view.of, view.pair), 256)
    /\ \A i \in Block : LaneValue(view.of, view.pair, block[i], view.at[i])

KeptValues ==
  keptPair # 0 =>
    /\ Ints(input.public[keptPair], 256)
    /\ \A i \in Block : Alike(prime, kept[i], Whole(input.public[keptPair], i))

AccValues ==
  /\ pairs \in Nat
  /\ \A r \in 1..pairs : Ints(input.public[r], 256) /\ Ints(input.secret[r], 256)
  /\ \A i \in Block :
       Alike(prime, acc[i], Whole(ProductSums(input.public, input.secret, pairs, prime), i))

ValuesInv == BlockValues /\ KeptValues /\ AccValues

LEMMA RootHere ==
  ASSUME IInv, NEW i \in Block
  PROVE  /\ IsRoot(RootPowers(PowerTable(prime), i), prime)
         /\ RootPowers(PowerTable(prime), i)[1] \in Int
         /\ prime \in Primes
<1>1. prime \in Primes
  BY DEF IInv, TypeOK
<1>2. AllRoots(prime)
  BY <1>1, RootsAssumption
<1>3. IsRoot(RootPowers(PowerTable(prime), i), prime)
  BY <1>2, Zenon DEF AllRoots
<1>4. QED  BY <1>1, <1>3, RootIs

LEMMA InitValues == ValuesInit => ValuesInv
<1> SUFFICES ASSUME ValuesInit PROVE ValuesInv
  OBVIOUS
<1>1. Init /\ view.of = "none" /\ keptPair = 0 /\ pairs = 0
  BY DEF ValuesInit
<1>2. IInv
  BY <1>1, InitInv
<1>3. BlockValues /\ KeptValues
  BY <1>1 DEF BlockValues, KeptValues
<1>4. AccValues
  <2>1. ASSUME NEW i \in Block
        PROVE  Alike(prime, acc[i], Whole(ProductSums(input.public, input.secret, 0, prime), i))
    <3> DEFINE r == RootPowers(PowerTable(prime), i)[1]
               x == Horner(ProductSums(input.public, input.secret, 0, prime), r, prime, 256)
    <3>1. r \in Int /\ prime \in Primes
      BY <1>2, RootHere
    <3> HIDE DEF r
    <3>2. x = 0
      BY <3>1, ProductSumsNone
    <3>3. acc[i] = 0
      BY <1>1 DEF Init
    <3>4. Alike(prime, 0, 0)
      BY <3>1, AlikeSelf
    <3>5. QED  BY <3>2, <3>3, <3>4 DEF Whole, r
  <2>2. pairs \in Nat /\ \A r \in 1..pairs : Ints(input.public[r], 256) /\ Ints(input.secret[r], 256)
    BY <1>1, SMT
  <2>3. QED  BY <1>1, <2>1, <2>2 DEF AccValues
<1>5. QED  BY <1>3, <1>4 DEF ValuesInv

\* A pass that runs fits.
LEMMA PassFitsHere ==
  ASSUME IInv, Fitting, NEW kinds, Run(kinds)
  PROVE  PassFits(program[pc])
<1>1. pc \in Nat /\ Len(program) \in Nat
  BY PlansAssumption DEF IInv, TypeOK
<1>2. ~Finished
  BY <1>1, SMT DEF Finished, Run
<1>3. QED  BY <1>2 DEF Fitting

\* What the history becomes.
LEMMA HistoryStep ==
  ASSUME ValuesNext
  PROVE  /\ view'.of = SourceAfter(program[pc])
         /\ view'.pair = IF program[pc].do = "split" THEN program[pc].pair ELSE view.pair
         /\ view'.at = PartsAfter(program[pc], view.at, prime)
         /\ keptPair' = IF program[pc].do = "keep" THEN program[pc].pair ELSE keptPair
         /\ pairs' = IF program[pc].do = "pointwise" THEN pairs + 1 ELSE pairs
<1> DEFINE p == program[pc]
           s == SourceAfter(p)
           t == PartsAfter(p, view.at, prime)
           n == IF p.do = "split" THEN p.pair ELSE view.pair
<1>1. /\ view' = [of |-> s, pair |-> n, at |-> t]
      /\ keptPair' = IF p.do = "keep" THEN p.pair ELSE keptPair
      /\ pairs' = IF p.do = "pointwise" THEN pairs + 1 ELSE pairs
  BY DEF ValuesNext
<1> HIDE DEF s, t, n
<1>2. view'.of = s /\ view'.pair = n /\ view'.at = t
  BY <1>1
<1>3. QED  BY <1>1, <1>2 DEF s, t, n

\* A pass on the block leaves the other two blocks what they are.
LEMMA OthersKeep ==
  ASSUME IInv, ValuesInv, ValuesNext, UNCHANGED fixed, UNCHANGED <<kept, acc>>,
         program[pc].do \notin {"keep", "pointwise"}
  PROVE  KeptValues' /\ AccValues'
<1>1. keptPair' = keptPair /\ pairs' = pairs
  BY HistoryStep
<1>2. prime' = prime /\ input' = input /\ kept' = kept /\ acc' = acc
  BY DEF fixed
<1>3. KeptValues'
  BY <1>1, <1>2, Zenon DEF ValuesInv, KeptValues, Whole
<1>4. AccValues'
  BY <1>1, <1>2, Zenon DEF ValuesInv, AccValues, Whole
<1>5. QED  BY <1>3, <1>4

\* The root of a butterfly is what its table entry stands for.
LEMMA TwiddleIs ==
  ASSUME NEW p, NEW i
  PROVE  Twiddle(p, prime, i) = Exactly!Unscaled(p.zeta[i])
BY DEF Twiddle, Radix, Exactly!Unscaled, Exactly!Radix

\* It leaves the block what the history says if every lane is.
LEMMA LanesKeep ==
  ASSUME NEW of, NEW pair, UNCHANGED fixed, view'.of = of, view'.pair = pair,
         Ints(Poly(of, pair), 256),
         \A i \in Block : LaneValue(of, pair, block'[i], view'.at[i])
  PROVE  BlockValues'
<1>1. prime' = prime /\ input' = input
  BY DEF fixed
<1>2. Poly(view.of, view.pair)' = Poly(of, pair)
  BY <1>1, Zenon DEF Poly
<1>3. ASSUME NEW i \in Block
      PROVE  LaneValue(view.of, view.pair, block[i], view.at[i])'
  <2>1. Factor(view.of, view.at[i].len)' = Factor(of, view'.at[i].len)
    <3>1. Exactly!Radix(prime)' = Exactly!Radix(prime)
      BY <1>1, SMT DEF Exactly!Radix
    <3>2. QED  BY <3>1, Zenon DEF Factor
  <2>2. LaneValue(of, pair, block'[i], view'.at[i])
    OBVIOUS
  <2>3. QED  BY <1>1, <1>2, <2>1, <2>2, Zenon DEF LaneValue
<1>4. QED  BY <1>2, <1>3, Zenon DEF BlockValues
-----------------------------------------------------------------------------
\* The residue that stands for a number in Montgomery form.
LEMMA UnscaledIs ==
  ASSUME IInv, NEW z \in Int
  PROVE  Exactly!Unscaled(z) \in Int
<1> DEFINE w == z * Exactly!Radix(prime)
<1>1. Exactly!Radix(prime) \in Int /\ prime \in Primes
  BY RadixIs DEF IInv
<1>2. w \in Int
  BY <1>1, SMT
<1> HIDE DEF w
<1>3. w % prime \in Int
  BY <1>1, <1>2, ResidueOf
<1>4. QED  BY <1>3 DEF Exactly!Unscaled, w

LEMMA TwistAlike ==
  ASSUME IInv, NEW y \in Int, NEW zeta \in Int, NEW z, z = Exactly!Unscaled(zeta)
  PROVE  z \in Int /\ Alike(prime, TwistedResidue(y, zeta), z * y)
<1>1. z \in Int /\ prime \in Primes
  BY UnscaledIs DEF IInv, TypeOK
<1> DEFINE r == y % prime
<1>2. r \in Int /\ Alike(prime, r, y)
  BY <1>1, AlikeSelf, ResidueOf
<1>3. TwistedResidue(y, zeta) = (r * z) % prime
  BY DEF TwistedResidue
<1> HIDE DEF r
<1>4. QED  BY <1>1, <1>2, <1>3, FactorAlike

\* What a lane holds, by the history.
LEMMA LaneHere ==
  ASSUME IInv, ValuesInv, view.of # "none", NEW i \in Block,
         NEW c, c = Poly(view.of, view.pair), NEW off, NEW len, NEW root, view.at[i] = Part(off, len, root)
  PROVE  /\ Ints(c, 256)
         /\ Stands(prime, c, Factor(view.of, len), block[i], off, len, root)
<1>1. Part(off, len, root).off = off /\ Part(off, len, root).len = len /\ Part(off, len, root).root = root
  BY DEF Part
<1>2. Ints(c, 256) /\ LaneValue(view.of, view.pair, block[i], view.at[i])
  BY Zenon DEF ValuesInv, BlockValues
<1>3. QED  BY <1>1, <1>2, Zenon DEF LaneValue

\* The parts that a butterfly leaves.
LEMMA CtParts ==
  ASSUME NEW p, p.do = "ct", ButterflyOK(p, prime), NEW i \in p.low, NEW j, j = i + p.gap
  PROVE  PartsAfter(p, view.at, prime)[i] = CtLow(p, view.at, prime, i) /\ PartsAfter(p, view.at, prime)[j] = CtHigh(p, view.at, prime, i)
<1>1. i \in Block /\ j \in Block /\ j \notin p.low /\ p.gap \in Block
  BY DEF ButterflyOK
<1>2. j - p.gap = i
  BY <1>1, GapBack
<1>3. i - p.gap \notin p.low
  BY <1>1, HighNotLow
<1>4. QED  BY <1>1, <1>2, <1>3 DEF PartsAfter

LEMMA GsParts ==
  ASSUME NEW p, p.do = "gs", ButterflyOK(p, prime), NEW i \in p.low, NEW j, j = i + p.gap
  PROVE  PartsAfter(p, view.at, prime)[i] = GsLow(view.at, prime, i) /\ PartsAfter(p, view.at, prime)[j] = GsHigh(view.at, prime, i)
<1>1. i \in Block /\ j \in Block /\ j \notin p.low /\ p.gap \in Block
  BY DEF ButterflyOK
<1>2. j - p.gap = i
  BY <1>1, GapBack
<1>3. i - p.gap \notin p.low
  BY <1>1, HighNotLow
<1>4. QED  BY <1>1, <1>2, <1>3 DEF PartsAfter

LEMMA OtherParts ==
  ASSUME NEW p, p.do \in {"ct", "gs"}, NEW i \in Block, i \notin p.low, i - p.gap \notin p.low
  PROVE  PartsAfter(p, view.at, prime)[i] = view.at[i]
BY DEF PartsAfter

\* Bounded lanes are integers, before and after a step.
LEMMA LanesInts ==
  ASSUME IInv
  PROVE  /\ \A i \in Block : block[i] \in Int /\ kept[i] \in Int /\ acc[i] \in Int
         /\ prime \in Primes
BY DEF IInv, TypeOK

LEMMA LanesAfter ==
  ASSUME IInv'
  PROVE  \A i \in Block : block'[i] \in Int
BY DEF IInv, TypeOK

\* A forward level: two parts at a square become one part at each of its roots.
LEMMA CtPair ==
  ASSUME IInv, ValuesInv, Fits, Fits', CtLevel, PassFits(program[pc]), NEW i \in program[pc].low, NEW j,
         j = i + program[pc].gap, NEW c, c = Poly(view.of, view.pair)
  PROVE  /\ LaneValue(view.of, view.pair, block'[i], CtLow(program[pc], view.at, prime, i))
         /\ LaneValue(view.of, view.pair, block'[j], CtHigh(program[pc], view.at, prime, i))
<1> DEFINE p == program[pc]
           off == view.at[i].off
           len == view.at[i].len
           root == view.at[i].root
           half == len \div 2
           z == Exactly!Unscaled(p.zeta[i])
           n == (-z) % prime
           x == block[i]
           y == block[j]
<1>1. ButterflyOK(p, prime) /\ p.do = "ct"
  BY PassHere, SMT DEF CtLevel, PassOK
<1>2. view.of \in {"public", "secret"} /\ Splits(p, view.at, prime, i)
  BY <1>1 DEF PassFits
<1>3. len > 1 /\ view.at[j] = Part(off + half, len, root) /\ (z * z) % prime = root
  BY <1>2, TwiddleIs DEF Splits
<1>4. /\ i \in Block /\ j \in Block
      /\ block'[i] % prime = ((x % prime) + TwistedResidue(y, p.zeta[i])) % prime
      /\ block'[j] % prime = ((x % prime) - TwistedResidue(y, p.zeta[i])) % prime
  BY CtResidues
<1>5. view.of # "none" /\ Factor(view.of, len) = 1 /\ Factor(view.of, half) = 1
  BY <1>2 DEF Factor
<1>6. Ints(c, 256) /\ Stands(prime, c, 1, x, off, len, root)
  <2>1. LaneValue(view.of, view.pair, x, view.at[i])
    BY <1>4, <1>5, Zenon DEF ValuesInv, BlockValues
  <2>2. Ints(c, 256)
    BY <1>5, Zenon DEF ValuesInv, BlockValues
  <2>3. QED  BY <1>5, <2>1, <2>2, Zenon DEF LaneValue
<1>7. Stands(prime, c, 1, y, off + half, len, root)
  BY <1>3, <1>4, <1>5, LaneHere
<1>8. x \in Int /\ y \in Int /\ prime \in Primes /\ block'[i] \in Int /\ block'[j] \in Int
  <2>1. IInv'
    BY CtStep
  <2>2. QED  BY <1>4, <2>1, LanesInts, LanesAfter
<1>9. p.zeta[i] \in Int
  <2>1. Bounds(Half, p.zeta[i])
    BY <1>1, Partner
  <2>2. QED  BY <2>1 DEF Bounds
<1>10. z \in Int /\ Alike(prime, TwistedResidue(y, p.zeta[i]), z * y)
  BY <1>8, <1>9, TwistAlike
<1> DEFINE zy == z * y
           t == TwistedResidue(y, p.zeta[i])
           u == block'[i]
           v == block'[j]
<1>11. Alike(prime, u, x + z * y) /\ Alike(prime, v, x - z * y)
  <2>1. Alike(prime, t, zy) /\ u % prime = ((x % prime) + t) % prime /\ v % prime = ((x % prime) - t) % prime
    BY <1>4, <1>10
  <2>2. u \in Int /\ v \in Int
    BY <1>8
  <2> HIDE DEF zy, t, u, v, x
  <2>3. Alike(prime, u, x + zy) /\ Alike(prime, v, x - zy)
    BY <1>8, <2>1, <2>2, SumAlike
  <2>4. QED  BY <2>3 DEF zy
<1> HIDE DEF off, len, root, z, x, y, u, v
<1>12. /\ Stands(prime, c, 1, u, off, len \div 2, z)
       /\ Stands(prime, c, 1, v, off, len \div 2, (-z) % prime)
  <2>1. 1 \in Int
    OBVIOUS
  <2>2. QED  BY <1>3, <1>6, <1>7, <1>8, <1>10, <1>11, <2>1, StandsSplit
<1>13. /\ CtLow(p, view.at, prime, i) = Part(off, half, z)
       /\ CtHigh(p, view.at, prime, i) = Part(off, half, n)
  BY TwiddleIs DEF CtLow, CtHigh, off, len, z
<1>14. /\ LaneValue(view.of, view.pair, u, Part(off, half, z))
       /\ LaneValue(view.of, view.pair, v, Part(off, half, n))
  <2> HIDE DEF half, n
  <2>1. ASSUME NEW m
        PROVE  Part(off, half, m).off = off /\ Part(off, half, m).len = half /\ Part(off, half, m).root = m
    BY DEF Part
  <2>2. Stands(prime, c, 1, u, off, half, z) /\ Stands(prime, c, 1, v, off, half, n)
    BY <1>12 DEF half, n
  <2>3. QED  BY <1>5, <2>1, <2>2, ZenonT(30) DEF LaneValue
<1>15. QED  BY <1>13, <1>14 DEF u, v

\* A lane that a pass leaves alone, as well as the part it stands for.
LEMMA CtValues ==
  ASSUME IInv, ValuesInv, Fits, Fits', Fitting, ValuesNext, CtLevel
  PROVE  ValuesInv'
<1> DEFINE p == program[pc]
           c == Poly(view.of, view.pair)
<1>1. ButterflyOK(p, prime) /\ p.do = "ct" /\ Run({"ct"}) /\ UNCHANGED fixed
  BY PassHere, SMT DEF CtLevel, PassOK
<1>2. PassFits(p)
  BY <1>1, PassFitsHere
<1>3. view.of \in {"public", "secret"}
  BY <1>1, <1>2 DEF PassFits
<1>4. view'.of = view.of /\ view'.pair = view.pair /\ view'.at = PartsAfter(p, view.at, prime)
  BY <1>1, HistoryStep DEF SourceAfter
<1>5. Ints(c, 256) /\ \A i \in Block : LaneValue(view.of, view.pair, block[i], view.at[i])
  <2>1. view.of # "none"
    BY <1>3
  <2>2. QED  BY <2>1, Zenon DEF ValuesInv, BlockValues
<1>6. ASSUME NEW i \in Block
      PROVE  LaneValue(view.of, view.pair, block'[i], view'.at[i])
  <2>1. CASE i \in p.low
    <3>1. LaneValue(view.of, view.pair, block'[i], CtLow(p, view.at, prime, i))
      BY <1>2, <2>1, CtPair
    <3>2. view'.at[i] = CtLow(p, view.at, prime, i)
      BY <1>1, <1>4, <2>1, CtParts
    <3>3. QED  BY <3>1, <3>2
  <2>2. CASE i \notin p.low /\ i - p.gap \in p.low
    <3> DEFINE k == i - p.gap
    <3>1. k + p.gap = i
      <4>1. p.gap \in Block
        BY <1>1 DEF ButterflyOK
      <4>2. QED  BY <4>1, GapBack
    <3> HIDE DEF k
    <3>2. k \in p.low
      BY <2>2 DEF k
    <3>3. LaneValue(view.of, view.pair, block'[i], CtHigh(p, view.at, prime, k))
      BY <1>2, <3>1, <3>2, CtPair
    <3>4. view'.at[i] = CtHigh(p, view.at, prime, k)
      BY <1>1, <1>4, <3>1, <3>2, CtParts
    <3>5. QED  BY <3>3, <3>4
  <2>3. CASE i \notin p.low /\ i - p.gap \notin p.low
    <3>1. block'[i] = block[i]
      BY <2>3, CtOthers
    <3>2. view'.at[i] = view.at[i]
      BY <1>1, <1>4, <2>3, OtherParts
    <3>3. QED  BY <1>5, <3>1, <3>2
  <2>4. QED  BY <2>1, <2>2, <2>3
<1>7. BlockValues'
  BY <1>1, <1>4, <1>5, <1>6, LanesKeep
<1>8. KeptValues' /\ AccValues'
  <2>1. UNCHANGED <<kept, acc>> /\ p.do \notin {"keep", "pointwise"}
    BY <1>1 DEF CtLevel
  <2>2. QED  BY <1>1, <2>1, OthersKeep
<1>9. QED  BY <1>7, <1>8, Zenon DEF ValuesInv

LEMMA DifferenceAlike ==
  ASSUME IInv, NEW x \in Int, NEW y \in Int, NEW zeta \in Int, NEW z, z = Exactly!Unscaled(zeta)
  PROVE  z \in Int /\ Alike(prime, DifferenceResidue(x, y, zeta), (x - y) * z)
<1>1. z \in Int /\ prime \in Primes
  BY UnscaledIs DEF IInv, TypeOK
<1> DEFINE d == (x % prime) - (y % prime)
           e == x - y
<1>2. d \in Int /\ e \in Int /\ Alike(prime, d, e)
  <2>1. x % prime \in Int /\ y % prime \in Int
    BY <1>1, ResidueOf
  <2>2. d \in Int /\ e \in Int
    BY <2>1, SMT
  <2>3. e % prime = d % prime
    BY <1>1, SumResidue
  <2>4. QED  BY <2>2, <2>3 DEF Alike
<1>3. DifferenceResidue(x, y, zeta) = (d * z) % prime
  BY DEF DifferenceResidue
<1> HIDE DEF d, e
<1>4. Alike(prime, (d * z) % prime, e * z)
  BY <1>1, <1>2, FactorAlike
<1>5. QED  BY <1>1, <1>3, <1>4 DEF e

\* An inverse level: the parts at both roots of a square become two parts at it.
LEMMA GsPair ==
  ASSUME IInv, ValuesInv, Fits, Fits', GsLevel, PassFits(program[pc]), NEW i \in program[pc].low, NEW j,
         j = i + program[pc].gap, NEW c, c = Poly(view.of, view.pair)
  PROVE  /\ LaneValue(view.of, view.pair, block'[i], GsLow(view.at, prime, i))
         /\ LaneValue(view.of, view.pair, block'[j], GsHigh(view.at, prime, i))
<1> DEFINE p == program[pc]
           k == Exactly!Radix(prime)
           off == view.at[i].off
           len == view.at[i].len
           root == view.at[i].root
           two == 2 * len
           high == off + len
           n == (-root) % prime
           r == (root * root) % prime
           z == Exactly!Unscaled(p.zeta[i])
           x == block[i]
           y == block[j]
           u == block'[i]
           v == block'[j]
<1>1. ButterflyOK(p, prime) /\ p.do = "gs"
  BY PassHere, SMT DEF GsLevel, PassOK
<1>2. view.of = "sum" /\ Joins(p, view.at, prime, i)
  BY <1>1 DEF PassFits
<1>3. len < 256 /\ view.at[j] = Part(off, len, n) /\ (z * root) % prime = 1
  BY <1>2, TwiddleIs DEF Joins
<1>4. /\ i \in Block /\ j \in Block
      /\ u % prime = ((x % prime) + (y % prime)) % prime
      /\ v % prime = DifferenceResidue(x, y, p.zeta[i])
  BY GsResidues
<1>5. view.of # "none" /\ \A l : Factor(view.of, l) = l * k
  BY <1>2 DEF Factor
<1>6. Ints(c, 256) /\ Stands(prime, c, len * k, x, off, len, root)
  <2>1. LaneValue(view.of, view.pair, x, view.at[i])
    BY <1>4, <1>5, Zenon DEF ValuesInv, BlockValues
  <2>2. Ints(c, 256)
    BY <1>5, Zenon DEF ValuesInv, BlockValues
  <2>3. Factor(view.of, len) = len * k
    BY <1>5
  <2>4. QED  BY <2>1, <2>2, <2>3, Zenon DEF LaneValue
<1>7. Stands(prime, c, len * k, y, off, len, n)
  <2>1. Factor(view.of, len) = len * k
    BY <1>5
  <2>2. Stands(prime, c, Factor(view.of, len), y, off, len, n)
    BY <1>3, <1>4, <1>5, LaneHere
  <2>3. QED  BY <2>1, <2>2
<1>8. x \in Int /\ y \in Int /\ prime \in Primes /\ u \in Int /\ v \in Int
  <2>1. IInv'
    BY GsStep
  <2>2. QED  BY <1>4, <2>1, LanesInts, LanesAfter
<1>9. p.zeta[i] \in Int /\ k \in Int
  <2>1. Bounds(Half, p.zeta[i])
    BY <1>1, Partner
  <2>2. QED  BY <2>1, RadixIs DEF Bounds, IInv
<1>10. z \in Int /\ Alike(prime, DifferenceResidue(x, y, p.zeta[i]), (x - y) * z)
  BY <1>8, <1>9, DifferenceAlike
<1> DEFINE d == DifferenceResidue(x, y, p.zeta[i])
           xyz == (x - y) * z
<1>11. Alike(prime, u, x + y) /\ Alike(prime, v, (x - y) * z)
  <2>1. Alike(prime, v, xyz)
    <3>1. v % prime = d /\ Alike(prime, d, xyz)
      BY <1>4, <1>10
    <3> HIDE DEF v, d, xyz
    <3>2. v % prime \in Int /\ (v % prime) % prime = v % prime
      BY <1>8, ResidueOf, ResidueTwice
    <3>3. QED  BY <1>8, <3>1, <3>2 DEF Alike
  <2>2. Alike(prime, u, x + y)
    <3> HIDE DEF x, y, u
    <3> DEFINE t == y % prime
    <3>1. Alike(prime, t, y)
      BY <1>8, AlikeSelf
    <3>2. u % prime = ((x % prime) + t) % prime
      BY <1>4
    <3> HIDE DEF t
    <3>3. QED  BY <1>8, <3>1, <3>2, SumAlike
  <2>3. QED  BY <2>1, <2>2
<1> HIDE DEF k, off, len, root, z, x, y, u, v
<1>12. /\ Stands(prime, c, (2 * len) * k, u, off, 2 * len, (root * root) % prime)
       /\ Stands(prime, c, (2 * len) * k, v, off + len, 2 * len, (root * root) % prime)
  BY <1>3, <1>6, <1>7, <1>8, <1>9, <1>10, <1>11, StandsJoin
<1>13. GsLow(view.at, prime, i) = Part(off, two, r) /\ GsHigh(view.at, prime, i) = Part(high, two, r)
  BY DEF GsLow, GsHigh, off, len, root
<1>14. /\ LaneValue(view.of, view.pair, u, Part(off, two, r))
       /\ LaneValue(view.of, view.pair, v, Part(high, two, r))
  <2>1. Stands(prime, c, two * k, u, off, two, r) /\ Stands(prime, c, two * k, v, high, two, r)
    BY <1>12
  <2> HIDE DEF two, high, r
  <2>2. ASSUME NEW o
        PROVE  Part(o, two, r).off = o /\ Part(o, two, r).len = two /\ Part(o, two, r).root = r
    BY DEF Part
  <2>3. Factor(view.of, two) = two * k
    BY <1>5 DEF k
  <2>4. QED  BY <2>1, <2>2, <2>3, Zenon DEF LaneValue
<1>15. QED  BY <1>13, <1>14 DEF u, v

LEMMA GsValues ==
  ASSUME IInv, ValuesInv, Fits, Fits', Fitting, ValuesNext, GsLevel
  PROVE  ValuesInv'
<1> DEFINE p == program[pc]
           c == Poly(view.of, view.pair)
<1>1. ButterflyOK(p, prime) /\ p.do = "gs" /\ Run({"gs"}) /\ UNCHANGED fixed
  BY PassHere, SMT DEF GsLevel, PassOK
<1>2. PassFits(p)
  BY <1>1, PassFitsHere
<1>3. view.of = "sum"
  BY <1>1, <1>2 DEF PassFits
<1>4. view'.of = view.of /\ view'.pair = view.pair /\ view'.at = PartsAfter(p, view.at, prime)
  BY <1>1, HistoryStep DEF SourceAfter
<1>5. Ints(c, 256) /\ \A i \in Block : LaneValue(view.of, view.pair, block[i], view.at[i])
  <2>1. view.of # "none"
    BY <1>3
  <2>2. QED  BY <2>1, Zenon DEF ValuesInv, BlockValues
<1>6. ASSUME NEW i \in Block
      PROVE  LaneValue(view.of, view.pair, block'[i], view'.at[i])
  <2>1. CASE i \in p.low
    <3>1. LaneValue(view.of, view.pair, block'[i], GsLow(view.at, prime, i))
      BY <1>2, <2>1, GsPair
    <3>2. view'.at[i] = GsLow(view.at, prime, i)
      BY <1>1, <1>4, <2>1, GsParts
    <3>3. QED  BY <3>1, <3>2
  <2>2. CASE i \notin p.low /\ i - p.gap \in p.low
    <3> DEFINE k == i - p.gap
    <3>1. k + p.gap = i
      <4>1. p.gap \in Block
        BY <1>1 DEF ButterflyOK
      <4>2. QED  BY <4>1, GapBack
    <3> HIDE DEF k
    <3>2. k \in p.low
      BY <2>2 DEF k
    <3>3. LaneValue(view.of, view.pair, block'[i], GsHigh(view.at, prime, k))
      BY <1>2, <3>1, <3>2, GsPair
    <3>4. view'.at[i] = GsHigh(view.at, prime, k)
      BY <1>1, <1>4, <3>1, <3>2, GsParts
    <3>5. QED  BY <3>3, <3>4
  <2>3. CASE i \notin p.low /\ i - p.gap \notin p.low
    <3>1. block'[i] = block[i]
      BY <2>3, GsOthers
    <3>2. view'.at[i] = view.at[i]
      BY <1>1, <1>4, <2>3, OtherParts
    <3>3. QED  BY <1>5, <3>1, <3>2
  <2>4. QED  BY <2>1, <2>2, <2>3
<1>7. BlockValues'
  BY <1>1, <1>4, <1>5, <1>6, LanesKeep
<1>8. KeptValues' /\ AccValues'
  <2>1. UNCHANGED <<kept, acc>> /\ p.do \notin {"keep", "pointwise"}
    BY <1>1 DEF GsLevel
  <2>2. QED  BY <1>1, <2>1, OthersKeep
<1>9. QED  BY <1>7, <1>8, Zenon DEF ValuesInv

\* A lane whose residue stays stands for what it stood for.
LEMMA SameLane ==
  ASSUME NEW of, NEW pair, NEW x, NEW part, LaneValue(of, pair, x, part),
         NEW y \in Int, y % prime = x % prime
  PROVE  LaneValue(of, pair, y, part)
<1> DEFINE c == Poly(of, pair)
           g == Factor(of, part.len)
           off == part.off
           len == part.len
           root == part.root
<1>1. Stands(prime, c, g, x, off, len, root)
  BY Zenon DEF LaneValue
<1> HIDE DEF c, g, off, len, root
<1>2. Stands(prime, c, g, y, off, len, root)
  BY <1>1, StandsSame
<1>3. QED  BY <1>2, Zenon DEF LaneValue, c, g, off, len, root

LEMMA BarrettValues ==
  ASSUME IInv, ValuesInv, Fits, Fitting, ValuesNext, BarrettBlock
  PROVE  ValuesInv'
<1> DEFINE p == program[pc]
           c == Poly(view.of, view.pair)
<1>1. p.do = "barrett" /\ UNCHANGED fixed
  BY PassHere, SMT DEF BarrettBlock
<1>2. view'.of = view.of /\ view'.pair = view.pair /\ view'.at = view.at
  BY <1>1, HistoryStep DEF SourceAfter, PartsAfter
<1>3. KeptValues' /\ AccValues'
  <2>1. UNCHANGED <<kept, acc>> /\ p.do \notin {"keep", "pointwise"}
    BY <1>1 DEF BarrettBlock
  <2>2. QED  BY <1>1, <2>1, OthersKeep
<1>4. CASE view.of = "none"
  <2>1. BlockValues'
    BY <1>2, <1>4, Zenon DEF BlockValues
  <2>2. QED  BY <1>3, <2>1, Zenon DEF ValuesInv
<1>5. CASE view.of # "none"
  <2>1. Ints(c, 256) /\ \A i \in Block : LaneValue(view.of, view.pair, block[i], view.at[i])
    BY <1>5, Zenon DEF ValuesInv, BlockValues
  <2>2. ASSUME NEW i \in Block
        PROVE  LaneValue(view.of, view.pair, block'[i], view'.at[i])
    <3>1. block'[i] \in Int
      BY BarrettStep, LanesAfter
    <3>2. block'[i] % prime = block[i] % prime
      BY BarrettResidues
    <3>3. QED  BY <1>2, <2>1, <3>1, <3>2, SameLane
  <2>3. BlockValues'
    BY <1>1, <1>2, <2>1, <2>2, LanesKeep
  <2>4. QED  BY <1>3, <2>3, Zenon DEF ValuesInv
<1>6. QED  BY <1>4, <1>5

LEMMA TransposeValues ==
  ASSUME IInv, ValuesInv, Fitting, ValuesNext, Transpose
  PROVE  ValuesInv'
<1> DEFINE p == program[pc]
           c == Poly(view.of, view.pair)
<1>1. p.do = "move" /\ UNCHANGED fixed /\ p.from \in [Block -> Block]
  BY PassHere, SMT DEF Transpose, PassOK
<1>2. /\ view'.of = view.of /\ view'.pair = view.pair
      /\ view'.at = [i \in Block |-> view.at[p.from[i]]]
  BY <1>1, HistoryStep DEF SourceAfter, PartsAfter
<1>3. KeptValues' /\ AccValues'
  <2>1. UNCHANGED <<kept, acc>> /\ p.do \notin {"keep", "pointwise"}
    BY <1>1 DEF Transpose
  <2>2. QED  BY <1>1, <2>1, OthersKeep
<1>4. CASE view.of = "none"
  <2>1. BlockValues'
    BY <1>2, <1>4, Zenon DEF BlockValues
  <2>2. QED  BY <1>3, <2>1, Zenon DEF ValuesInv
<1>5. CASE view.of # "none"
  <2>1. Ints(c, 256) /\ \A i \in Block : LaneValue(view.of, view.pair, block[i], view.at[i])
    BY <1>5, Zenon DEF ValuesInv, BlockValues
  <2>2. ASSUME NEW i \in Block
        PROVE  LaneValue(view.of, view.pair, block'[i], view'.at[i])
    <3>1. p.from[i] \in Block
      BY <1>1
    <3>2. block'[i] = block[p.from[i]]
      BY DEF Transpose
    <3>3. view'.at[i] = view.at[p.from[i]]
      BY <1>2
    <3>4. LaneValue(view.of, view.pair, block[p.from[i]], view.at[p.from[i]])
      BY <2>1, <3>1
    <3>5. QED  BY <3>2, <3>3, <3>4
  <2>3. BlockValues'
    BY <1>1, <1>2, <2>1, <2>2, LanesKeep
  <2>4. QED  BY <1>3, <2>3, Zenon DEF ValuesInv
<1>6. QED  BY <1>4, <1>5

\* An operand's coefficients are integers.
LEMMA OperandInts ==
  ASSUME NEW x, x \in [Block -> Coefficients] \/ x \in [Block -> Secrets]
  PROVE  Ints(x, 256)
<1>1. Coefficients \subseteq Int /\ Secrets \subseteq Int
  BY SMT DEF Coefficients, Secrets, Within, WidestSecret
<1>2. 0..(256 - 1) = Block
  BY SMT DEF Block
<1>3. \A i \in Block : x[i] \in Int
  BY <1>1
<1>4. QED  BY <1>2, <1>3 DEF Ints

\* A lane that is one coefficient.
LEMMA OneCoefficient ==
  ASSUME NEW q \in Primes, NEW c, Ints(c, 256), NEW i \in Block, NEW root \in Int,
         NEW x \in Int, x % q = c[i] % q
  PROVE  Stands(q, c, 1, x, i, 256, root)
<1> DEFINE n == 256
           v == Value(c, i, n, root, q)
<1>1. n \in Lengths /\ i \in 0..(n - 1) /\ i \in 0..255
  BY SMT DEF Lengths, Block
<1>2. c[i] \in Int
  BY <1>1 DEF Ints
<1>3. v = c[i] % q
  BY <1>1, ValueOne, Zenon
<1> HIDE DEF n, v
<1>4. v \in Int /\ v % q = c[i] % q
  BY <1>2, <1>3, ResidueOf, ResidueTwice
<1>5. 1 * v = v
  BY <1>4, SMT
<1>6. Alike(q, x, 1 * v)
  BY <1>4, <1>5 DEF Alike
<1>7. Stands(q, c, 1, x, i, n, root)
  BY <1>1, <1>6 DEF Stands, v
<1>8. QED  BY <1>7 DEF n

LEMMA SplitValues ==
  ASSUME IInv, ValuesInv, Fitting, ValuesNext, Split
  PROVE  ValuesInv'
<1> DEFINE p == program[pc]
           c == input[p.side][p.pair]
           root == prime - 1
<1>1. p.do = "split" /\ p.side \in {"public", "secret"} /\ UNCHANGED fixed
  BY PassHere, SMT DEF Split, PassOK
<1>2. /\ view'.of = p.side /\ view'.pair = p.pair
      /\ view'.at = [i \in Block |-> Part(i, 256, root)]
  <2>1. view'.at = PartsAfter(p, view.at, prime) /\ view'.of = SourceAfter(p) /\ view'.pair = p.pair
    BY <1>1, HistoryStep
  <2>2. PartsAfter(p, view.at, prime) = Coefficients256(prime)
    BY <1>1 DEF PartsAfter
  <2>3. QED  BY <1>1, <2>1, <2>2 DEF SourceAfter, Coefficients256
<1>3. KeptValues' /\ AccValues'
  <2>1. UNCHANGED <<kept, acc>> /\ p.do \notin {"keep", "pointwise"}
    BY <1>1 DEF Split
  <2>2. QED  BY <1>1, <2>1, OthersKeep
<1>4. Poly(p.side, p.pair) = c /\ \A l : Factor(p.side, l) = 1
  BY <1>1 DEF Poly, Factor
<1>5. c \in [Block -> Coefficients] \/ c \in [Block -> Secrets]
  BY SplitResidues
<1>6. \A i \in Block : block'[i] % prime = c[i] % prime
  BY SplitResidues
<1>7. prime \in Primes /\ root \in Int
  BY SMT DEF IInv, TypeOK, Primes
<1> HIDE DEF c, root
<1>8. Ints(c, 256)
  BY <1>5, OperandInts
<1>9. ASSUME NEW i \in Block
      PROVE  LaneValue(p.side, p.pair, block'[i], view'.at[i])
  <2> DEFINE n == 256
  <2>1. block'[i] \in Int
    BY SplitStep, LanesAfter
  <2>2. Stands(prime, c, 1, block'[i], i, n, root)
    BY <1>6, <1>7, <1>8, <2>1, OneCoefficient
  <2>3. view'.at[i] = Part(i, n, root)
    BY <1>2
  <2> HIDE DEF n
  <2>4. Part(i, n, root).off = i /\ Part(i, n, root).len = n /\ Part(i, n, root).root = root
    BY DEF Part
  <2>5. QED  BY <1>4, <2>2, <2>3, <2>4, Zenon DEF LaneValue
<1>10. BlockValues'
  BY <1>1, <1>2, <1>4, <1>8, <1>9, LanesKeep
<1>11. QED  BY <1>3, <1>10, Zenon DEF ValuesInv

\* A transformed lane is the value of the polynomial at the root of its position.
LEMMA WholeLane ==
  ASSUME IInv, ValuesInv, view.of # "none", Transformed, NEW i \in Block,
         NEW c, c = Poly(view.of, view.pair), NEW g, g = Factor(view.of, 1)
  PROVE  Ints(c, 256) /\ Alike(prime, block[i], g * Whole(c, i))
<1> DEFINE r == RootPowers(PowerTable(prime), i)[1]
           v == Value(c, 0, 1, r, prime)
<1>1. view.at[i] = Part(0, 1, r)
  BY DEF Transformed, RootParts
<1>2. r \in Int /\ prime \in Primes
  BY RootHere
<1> HIDE DEF r
<1>3. Ints(c, 256) /\ Stands(prime, c, g, block[i], 0, 1, r)
  BY <1>1, LaneHere
<1>4. Alike(prime, block[i], g * v)
  BY <1>3, Zenon DEF Stands
<1>5. v = Horner(c, r, prime, 256)
  BY <1>2, <1>3, ValueWhole
<1> HIDE DEF v
<1>6. Whole(c, i) = v
  BY <1>5 DEF Whole, r
<1>7. QED  BY <1>3, <1>4, <1>6

LEMMA WholeInt ==
  ASSUME IInv, NEW c, Ints(c, 256), NEW i \in Block
  PROVE  Whole(c, i) \in Int /\ Whole(c, i) % prime = Whole(c, i) /\ Whole(c, i) \in 0..(prime - 1)
<1> DEFINE r == RootPowers(PowerTable(prime), i)[1]
           n == 256
<1>1. r \in Int /\ prime \in Primes /\ n \in Nat
  BY RootHere, SMT
<1> HIDE DEF r, n
<1>2. Ints(c, n)
  BY DEF n
<1>3. Horner(c, r, prime, n) \in 0..(prime - 1) /\ Horner(c, r, prime, n) % prime = Horner(c, r, prime, n)
  BY <1>1, <1>2, HornerRange
<1>4. \A x \in 0..(prime - 1) : x \in Int
  BY <1>1, SMT DEF Primes
<1>5. QED  BY <1>3, <1>4 DEF Whole, r, n

\* The transform of an operand, where it is used.
LEMMA OperandLane ==
  ASSUME IInv, ValuesInv, view.of \in {"public", "secret"}, Transformed, NEW i \in Block,
         NEW c, c = input[view.of][view.pair]
  PROVE  Ints(c, 256) /\ Alike(prime, block[i], Whole(c, i))
<1>1. view.of # "none" /\ c = Poly(view.of, view.pair) /\ Factor(view.of, 1) = 1
  BY DEF Poly, Factor
<1>2. Ints(c, 256) /\ Alike(prime, block[i], 1 * Whole(c, i))
  BY <1>1, WholeLane
<1>3. Whole(c, i) \in Int
  BY <1>2, WholeInt
<1>4. 1 * Whole(c, i) = Whole(c, i)
  BY <1>3, SMT
<1>5. QED  BY <1>2, <1>4

\* The history of the block while the block stays.
LEMMA BlockStays ==
  ASSUME IInv, ValuesInv, ValuesNext, UNCHANGED fixed, UNCHANGED block,
         program[pc].do \in {"keep", "pointwise"}
  PROVE  BlockValues'
<1> DEFINE c == Poly(view.of, view.pair)
<1>1. view'.of = view.of /\ view'.pair = view.pair /\ view'.at = view.at
  BY HistoryStep DEF SourceAfter, PartsAfter
<1>2. CASE view.of = "none"
  BY <1>1, <1>2, Zenon DEF BlockValues
<1>3. CASE view.of # "none"
  <2>1. Ints(c, 256) /\ \A i \in Block : LaneValue(view.of, view.pair, block[i], view.at[i])
    BY <1>3, Zenon DEF ValuesInv, BlockValues
  <2>2. \A i \in Block : LaneValue(view.of, view.pair, block'[i], view'.at[i])
    BY <1>1, <2>1
  <2>3. QED  BY <1>1, <2>1, <2>2, LanesKeep
<1>4. QED  BY <1>2, <1>3

LEMMA KeepValues ==
  ASSUME IInv, ValuesInv, Fitting, ValuesNext, Keep
  PROVE  ValuesInv'
<1> DEFINE p == program[pc]
           c == input.public[p.pair]
<1>1. p.do = "keep" /\ Run({"keep"}) /\ UNCHANGED fixed
  BY PassHere, SMT DEF Keep
<1>2. view.of = "public" /\ view.pair = p.pair /\ Transformed
  BY <1>1, PassFitsHere DEF PassFits
<1>3. kept' = block /\ UNCHANGED <<block, acc>>
  BY DEF Keep
<1>4. keptPair' = p.pair /\ pairs' = pairs
  BY <1>1, HistoryStep
<1>5. prime' = prime /\ input' = input /\ acc' = acc
  BY <1>1, <1>3 DEF fixed
<1>6. ASSUME NEW i \in Block
      PROVE  Ints(c, 256) /\ Alike(prime, block[i], Whole(c, i))
  <2>1. c = input[view.of][view.pair] /\ view.of \in {"public", "secret"}
    BY <1>2
  <2>2. QED  BY <1>2, <2>1, OperandLane
<1>7. KeptValues'
  <2>1. Ints(c, 256)
    <3>1. 0 \in Block
      BY SMT DEF Block
    <3>2. QED  BY <1>6, <3>1
  <2>2. \A i \in Block : Alike(prime, kept'[i], Whole(c, i))
    BY <1>3, <1>6
  <2>3. QED  BY <1>4, <1>5, <2>1, <2>2, Zenon DEF KeptValues, Whole
<1>8. AccValues'
  BY <1>4, <1>5, Zenon DEF ValuesInv, AccValues, Whole
<1>9. BlockValues'
  BY <1>1, <1>3, BlockStays
<1>10. QED  BY <1>7, <1>8, <1>9, Zenon DEF ValuesInv

LEMMA PointwiseValues ==
  ASSUME IInv, ValuesInv, Fitting, ValuesNext, PointwiseMulAcc
  PROVE  ValuesInv'
<1> DEFINE p == program[pc]
           n == pairs
           A == input.public
           B == input.secret
           a == A[n + 1]
           b == B[n + 1]
           S(m) == ProductSums(A, B, m, prime)
<1>1. p.do = "pointwise" /\ Run({"pointwise"}) /\ UNCHANGED fixed
  BY PassHere, SMT DEF PointwiseMulAcc
<1>2. PassFits(p)
  BY <1>1, PassFitsHere
<1>3. view.of = "secret" /\ view.pair = p.pair /\ Transformed /\ p.pair = n + 1 /\ keptPair = p.pair
  BY <1>1, <1>2 DEF PassFits
<1>4. UNCHANGED <<block, kept>> /\ prime' = prime /\ input' = input
  BY <1>1 DEF PointwiseMulAcc, fixed
<1>5. keptPair' = keptPair /\ pairs' = n + 1
  BY <1>1, HistoryStep
<1>6. n \in Nat /\ n + 1 \in Nat /\ keptPair # 0
  <2>1. n \in Nat
    BY Zenon DEF ValuesInv, AccValues
  <2>2. QED  BY <1>3, <2>1, SMT
<1>7. Ints(a, 256) /\ \A i \in Block : Alike(prime, kept[i], Whole(a, i))
  <2>1. /\ Ints(A[keptPair], 256)
        /\ \A i \in Block : Alike(prime, kept[i], Whole(A[keptPair], i))
    BY <1>6, Zenon DEF ValuesInv, KeptValues
  <2>2. QED  BY <1>3, <2>1
<1>8. ASSUME NEW i \in Block
      PROVE  Ints(b, 256) /\ Alike(prime, block[i], Whole(b, i))
  <2>1. b = input[view.of][view.pair] /\ view.of \in {"public", "secret"}
    BY <1>3
  <2>2. QED  BY <1>3, <2>1, OperandLane
<1>9. \A r \in 1..(n + 1) : Ints(A[r], 256) /\ Ints(B[r], 256)
  <2>1. \A r \in 1..n : Ints(A[r], 256) /\ Ints(B[r], 256)
    BY Zenon DEF ValuesInv, AccValues
  <2>2. Ints(a, 256) /\ Ints(b, 256)
    <3>1. 0 \in Block
      BY SMT DEF Block
    <3>2. QED  BY <1>7, <1>8, <3>1
  <2>3. \A r \in 1..(n + 1) : r \in 1..n \/ r = n + 1
    BY <1>6, SMT
  <2>4. QED  BY <2>1, <2>2, <2>3
<1>10. ASSUME NEW i \in Block
       PROVE  Alike(prime, acc'[i], Whole(S(n + 1), i))
  <2> DEFINE w == RootPowers(PowerTable(prime), i)
  <2>1. IsRoot(w, prime) /\ prime \in Primes
    BY RootHere
  <2>2. \A c : Whole(c, i) = Horner(c, w[1], prime, 256)
    BY DEF Whole
  <2> HIDE DEF w
  <2>3. Alike(prime, Horner(S(n + 1), w[1], prime, 256),
                     Horner(S(n), w[1], prime, 256)
                       + Horner(A[n + 1], w[1], prime, 256) * Horner(B[n + 1], w[1], prime, 256))
    BY <1>6, <1>9, <2>1, ProductSumsNext
  <2>4. Alike(prime, Whole(S(n + 1), i), Whole(S(n), i) + Whole(a, i) * Whole(b, i))
    BY <2>2, <2>3
  <2>5. Alike(prime, acc[i], Whole(S(n), i))
    BY Zenon DEF ValuesInv, AccValues
  <2>6. Alike(prime, kept[i], Whole(a, i)) /\ Alike(prime, block[i], Whole(b, i))
    BY <1>7, <1>8
  <2>7. acc'[i] = acc[i] + kept[i] * block[i]
    BY ProductIs DEF PointwiseMulAcc, IInv
  <2> DEFINE s == Whole(S(n), i)
             u == Whole(a, i)
             v == Whole(b, i)
             t == Whole(S(n + 1), i)
  <2> HIDE DEF s, u, v, t, S, a, b
  <2>8. /\ Alike(prime, acc[i], s) /\ Alike(prime, kept[i], u) /\ Alike(prime, block[i], v)
        /\ Alike(prime, t, s + u * v)
    BY <2>4, <2>5, <2>6 DEF s, u, v, t
  <2>9. Alike(prime, acc[i] + kept[i] * block[i], t)
    BY <2>1, <2>8, AccumulateAlike
  <2>10. QED  BY <2>7, <2>9 DEF t
<1>11. AccValues'
  <2>1. pairs' \in Nat /\ \A r \in 1..pairs' : Ints(input'.public[r], 256) /\ Ints(input'.secret[r], 256)
    BY <1>4, <1>5, <1>6, <1>9
  <2>2. \A i \in Block : Alike(prime', acc'[i], Whole(ProductSums(input'.public, input'.secret, pairs', prime'), i))
    BY <1>4, <1>5, <1>10
  <2>3. \A c : \A i : Whole(c, i)' = Whole(c, i)
    BY <1>4, Zenon DEF Whole
  <2>4. QED  BY <1>4, <2>1, <2>2, <2>3, Zenon DEF AccValues, Whole
<1>12. KeptValues'
  <2>1. keptPair' = keptPair /\ prime' = prime /\ input' = input /\ kept' = kept
    BY <1>4, <1>5
  <2>2. QED  BY <2>1, Zenon DEF ValuesInv, KeptValues, Whole
<1>13. BlockValues'
  BY <1>1, <1>4, BlockStays
<1>14. QED  BY <1>11, <1>12, <1>13, Zenon DEF ValuesInv

LEMMA ReduceValues ==
  ASSUME IInv, ValuesInv, Fits, Fitting, ValuesNext, ReduceBlock
  PROVE  ValuesInv'
<1> DEFINE p == program[pc]
           c == ProductSums(input.public, input.secret, Rank, prime)
           k == Exactly!Radix(prime)
<1>1. p.do = "reduce" /\ Run({"reduce"}) /\ UNCHANGED fixed
  BY PassHere, SMT DEF ReduceBlock
<1>2. pairs = Rank /\ Transformed
  BY <1>1, PassFitsHere DEF PassFits
<1>3. view'.of = "sum" /\ view'.pair = view.pair /\ view'.at = view.at
  BY <1>1, HistoryStep DEF SourceAfter, PartsAfter
<1>4. KeptValues' /\ AccValues'
  <2>1. UNCHANGED <<kept, acc>> /\ p.do \notin {"keep", "pointwise"}
    BY <1>1 DEF ReduceBlock
  <2>2. QED  BY <1>1, <2>1, OthersKeep
<1>5. Poly("sum", view.pair) = c /\ Factor("sum", 1) = 1 * k
  BY DEF Poly, Factor
<1>6. prime \in Primes /\ k \in Int
  BY RadixIs DEF IInv
<1>7. Ints(c, 256)
  <2> DEFINE w == RootPowers(PowerTable(prime), 0)
  <2>1. IsRoot(w, prime)
    <3>1. 0 \in Block
      BY SMT DEF Block
    <3>2. QED  BY <3>1, RootHere
  <2> HIDE DEF w
  <2>2. Rank \in Nat /\ \A r \in 1..Rank : Ints(input.public[r], 256) /\ Ints(input.secret[r], 256)
    BY <1>2, Zenon DEF ValuesInv, AccValues
  <2>3. QED  BY <1>6, <2>1, <2>2, ProductSumsInts
<1> HIDE DEF c, k
<1>8. ASSUME NEW i \in Block
      PROVE  LaneValue("sum", view.pair, block'[i], view'.at[i])
  <2> DEFINE r == RootPowers(PowerTable(prime), i)[1]
             v == Value(c, 0, 1, r, prime)
             x == block'[i]
             y == acc[i]
             yk == y * k
             kv == k * v
             vk == v * k
  <2>1. view'.at[i] = Part(0, 1, r)
    BY <1>2, <1>3 DEF Transformed, RootParts
  <2>2. r \in Int
    BY RootHere
  <2> HIDE DEF r
  <2>3. v = Horner(c, r, prime, 256)
    BY <1>6, <1>7, <2>2, ValueWhole
  <2>4. Whole(c, i) = v
    BY <2>3 DEF Whole, r
  <2>5. Alike(prime, y, v)
    BY <1>2, <2>4, Zenon DEF ValuesInv, AccValues, c
  <2>6. x % prime = yk % prime
    BY ReduceResidues DEF k
  <2>7. x \in Int
    BY ReduceStep, LanesAfter
  <2> HIDE DEF x, y, v
  <2>8. Alike(prime, yk, vk) /\ yk \in Int /\ vk \in Int
    <3>1. Alike(prime, yk, vk)
      BY <1>6, <2>5, AlikeProduct
    <3>2. QED  BY <3>1 DEF Alike
  <2>9. vk = (1 * k) * v
    BY <1>6, <2>5, SMT DEF Alike
  <2>10. Alike(prime, x, vk)
    <3> HIDE DEF yk, vk
    <3>1. QED  BY <2>6, <2>7, <2>8 DEF Alike
  <2>11. Stands(prime, c, 1 * k, x, 0, 1, r)
    <3>1. 1 \in Lengths /\ 0 \in 0..(1 - 1)
      BY SMT DEF Lengths
    <3>2. Alike(prime, x, (1 * k) * Value(c, 0, 1, r, prime))
      BY <2>9, <2>10 DEF v
    <3>3. QED  BY <2>2, <3>1, <3>2, Zenon DEF Stands
  <2>12. Part(0, 1, r).off = 0 /\ Part(0, 1, r).len = 1 /\ Part(0, 1, r).root = r
    BY DEF Part
  <2>13. LaneValue("sum", view.pair, x, Part(0, 1, r))
    BY <1>5, <2>11, <2>12, Zenon DEF LaneValue
  <2>14. QED  BY <2>1, <2>13 DEF x
<1>9. BlockValues'
  BY <1>1, <1>3, <1>5, <1>7, <1>8, LanesKeep
<1>10. QED  BY <1>4, <1>9, Zenon DEF ValuesInv

\* The last factor undoes the others.
LEMMA ScaleUndoes ==
  ASSUME IInv
  PROVE  /\ Exactly!Unscaled(InvNttScale(prime)) \in Int
         /\ ((256 * Exactly!Radix(prime)) * Exactly!Unscaled(InvNttScale(prime))) % prime = 1
BY SMT DEF IInv, TypeOK, Primes, InvNttScale, Exactly!Radix, Exactly!Unscaled

LEMMA ScaleValues ==
  ASSUME IInv, ValuesInv, Fits, Fitting, ValuesNext, ScaleBlock
  PROVE  ValuesInv'
<1> DEFINE p == program[pc]
           c == Poly("sum", view.pair)
           k == Exactly!Radix(prime)
           e == Exactly!Unscaled(InvNttScale(prime))
           n == 256
<1>1. p.do = "scale" /\ Run({"scale"}) /\ UNCHANGED fixed
  BY PassHere, SMT DEF ScaleBlock
<1>2. view.of = "sum" /\ InOrder(view.at)
  BY <1>1, PassFitsHere DEF PassFits
<1>3. view'.of = "product" /\ view'.pair = view.pair /\ view'.at = view.at
  BY <1>1, HistoryStep DEF SourceAfter, PartsAfter
<1>4. KeptValues' /\ AccValues'
  <2>1. UNCHANGED <<kept, acc>> /\ p.do \notin {"keep", "pointwise"}
    BY <1>1 DEF ScaleBlock
  <2>2. QED  BY <1>1, <2>1, OthersKeep
<1>5. Poly("product", view.pair) = c /\ \A l : Factor("sum", l) = l * k /\ Factor("product", l) = 1
  BY DEF Poly, Factor
<1>6. Ints(c, 256) /\ \A i \in Block : LaneValue("sum", view.pair, block[i], view.at[i])
  <2>1. view.of # "none"
    BY <1>2
  <2>2. QED  BY <1>2, <2>1, Zenon DEF ValuesInv, BlockValues
<1>7. prime \in Primes /\ k \in Int /\ e \in Int /\ (n * k) * e \in Int /\ n * k \in Int
  <2>1. prime \in Primes /\ k \in Int /\ e \in Int
    BY RadixIs, ScaleUndoes DEF IInv
  <2> HIDE DEF k, e
  <2>2. n * k \in Int
    BY <2>1, SMT
  <2>3. (n * k) * e \in Int
    BY <2>1, SMT
  <2>4. QED  BY <2>1, <2>2, <2>3
<1>8. ((n * k) * e) % prime = 1
  BY ScaleUndoes
<1> HIDE DEF c, k, e, n
<1>9. ASSUME NEW i \in Block
      PROVE  LaneValue("product", view.pair, block'[i], view'.at[i])
  <2> DEFINE r == view.at[i].root
             v == Value(c, i, n, r, prime)
             x == block[i]
             y == block'[i]
             xe == x * e
             h == n * k
  <2>1. view.at[i].off = i /\ view.at[i].len = n /\ view'.at = view.at
    BY <1>2, <1>3 DEF InOrder, n
  <2>2. Stands(prime, c, h, x, i, n, r)
    <3>1. Factor("sum", n) = h
      BY <1>5
    <3>2. LaneValue("sum", view.pair, x, view.at[i])
      BY <1>6
    <3>3. QED  BY <2>1, <3>1, <3>2, Zenon DEF LaneValue, c
  <2>3. n \in Lengths /\ i \in 0..(n - 1) /\ r \in Int /\ Alike(prime, x, h * v)
    BY <2>2, Zenon DEF Stands
  <2>4. v \in Int
    BY <1>6, <1>7, <2>3, ValueRange
  <2>5. y % prime = ((x % prime) * e) % prime /\ y \in Int
    BY ScaleResidues, ScaleStep, LanesAfter DEF e
  <2>6. x \in Int
    BY LanesInts
  <2>7. Alike(prime, ((x % prime) * e) % prime, xe)
    <3> DEFINE t == x % prime
    <3> HIDE DEF x
    <3>1. t \in Int /\ Alike(prime, t, x)
      BY <1>7, <2>6, AlikeSelf, ResidueOf
    <3> HIDE DEF t
    <3>2. Alike(prime, (t * e) % prime, x * e)
      BY <1>7, <2>6, <3>1, FactorAlike
    <3>3. QED  BY <3>2 DEF t
  <2> HIDE DEF x, y, v, r
  <2>8. Alike(prime, xe, v)
    <3> HIDE DEF h
    <3>1. h \in Int /\ (h * e) % prime = 1
      BY <1>7, <1>8 DEF h
    <3>2. QED  BY <1>7, <2>3, <2>4, <3>1, UndoneAlike
  <2>9. Alike(prime, y, v)
    <3> DEFINE t == ((x % prime) * e) % prime
    <3>1. y % prime = t /\ y \in Int /\ Alike(prime, t, xe)
      BY <2>5, <2>7
    <3> HIDE DEF t, xe
    <3>2. y % prime \in Int /\ (y % prime) % prime = y % prime
      BY <1>7, <3>1, ResidueOf, ResidueTwice
    <3>3. QED  BY <2>8, <3>1, <3>2 DEF Alike
  <2>10. Stands(prime, c, 1, y, i, n, r)
    <3>1. 1 * v = v
      BY <2>4, SMT
    <3>2. Alike(prime, y, 1 * v)
      BY <2>9, <3>1
    <3>3. QED  BY <2>3, <3>2, Zenon DEF Stands, v
  <2>11. LaneValue("product", view.pair, y, view.at[i])
    <3>1. Factor("product", n) = 1
      BY <1>5
    <3>2. QED  BY <1>5, <2>1, <2>10, <3>1, Zenon DEF LaneValue, r
  <2>12. QED  BY <2>1, <2>11 DEF y
<1>10. Ints(Poly("product", view.pair), 256)
  BY <1>5, <1>6 DEF n
<1>11. BlockValues'
  BY <1>1, <1>3, <1>9, <1>10, LanesKeep
<1>12. QED  BY <1>4, <1>11, Zenon DEF ValuesInv
-----------------------------------------------------------------------------
\* Every step that fits keeps the history true.
LEMMA StepValues ==
  IInv /\ ValuesInv /\ Fits /\ Fits' /\ Fitting /\ [ValuesNext]_valuesVars => IInv' /\ ValuesInv'
<1> SUFFICES ASSUME IInv, ValuesInv, Fits, Fits', Fitting, [ValuesNext]_valuesVars
             PROVE  IInv' /\ ValuesInv'
  OBVIOUS
<1>1. CASE ValuesNext
  <2>1. Next
    BY <1>1 DEF ValuesNext
  <2>2. IInv'
    BY <2>1, StepInv
  <2>3. ValuesInv'
    <3>1. CASE Split            BY <1>1, <3>1, SplitValues
    <3>2. CASE CtLevel          BY <1>1, <3>2, CtValues
    <3>3. CASE GsLevel          BY <1>1, <3>3, GsValues
    <3>4. CASE BarrettBlock     BY <1>1, <3>4, BarrettValues
    <3>5. CASE Transpose        BY <1>1, <3>5, TransposeValues
    <3>6. CASE Keep             BY <1>1, <3>6, KeepValues
    <3>7. CASE PointwiseMulAcc  BY <1>1, <3>7, PointwiseValues
    <3>8. CASE ReduceBlock      BY <1>1, <3>8, ReduceValues
    <3>9. CASE ScaleBlock       BY <1>1, <3>9, ScaleValues
    <3>10. QED
      BY <2>1, <3>1, <3>2, <3>3, <3>4, <3>5, <3>6, <3>7, <3>8, <3>9 DEF Next
  <2>4. QED  BY <2>2, <2>3
<1>2. CASE UNCHANGED valuesVars
  <2>1. UNCHANGED vars /\ view' = view /\ keptPair' = keptPair /\ pairs' = pairs
    BY <1>2 DEF valuesVars
  <2>2. IInv'
    BY <2>1, StepInv
  <2>3. prime' = prime /\ input' = input /\ block' = block /\ kept' = kept /\ acc' = acc
    BY <2>1 DEF vars, fixed
  <2>4. Exactly!Radix(prime)' = Exactly!Radix(prime)
    BY <2>3, SMT DEF Exactly!Radix
  <2>5. BlockValues'
    BY <2>1, <2>3, <2>4, Zenon DEF ValuesInv, BlockValues, LaneValue, Poly, Factor
  <2>6. KeptValues'
    BY <2>1, <2>3, Zenon DEF ValuesInv, KeptValues, Whole
  <2>7. AccValues'
    BY <2>1, <2>3, Zenon DEF ValuesInv, AccValues, Whole
  <2>8. QED  BY <2>2, <2>5, <2>6, <2>7, Zenon DEF ValuesInv
<1>3. QED  BY <1>1, <1>2

\* A lane no larger than half the prime is the centred residue.
LEMMA CentredIs ==
  ASSUME NEW q \in Primes, NEW x \in Int, Bounds(q \div 2, x), NEW v \in 0..(q - 1), x % q = v
  PROVE  x = Centred(v, q)
<1>1. CASE q = 7681   BY <1>1, SMT DEF Centred, Bounds
<1>2. CASE q = 10753  BY <1>2, SMT DEF Centred, Bounds
<1>3. QED  BY <1>1, <1>2 DEF Primes

LEMMA EvaluatesHere ==
  ASSUME IInv, ValuesInv, Fitting
  PROVE  Evaluates
<1> DEFINE p == program[pc]
           c == input[p.side][p.pair]
           w(i) == RootPowers(PowerTable(prime), i)
<1> SUFFICES ASSUME ~Finished, p.do \in {"keep", "pointwise"}
             PROVE  block = Transform
  BY DEF Evaluates
<1>1. /\ view.of = p.side /\ view.of \in {"public", "secret"} /\ view.pair = p.pair
      /\ Transformed /\ \A i \in Block : mag[i] <= Half
  BY DEF Fitting, PassFits
<1>2. ASSUME NEW i \in Block
      PROVE  block[i] = Centred(ValueAt(c, w(i), prime), prime)
  <2> DEFINE x == block[i]
             v == Whole(c, i)
  <2>1. c = input[view.of][view.pair]
    BY <1>1
  <2>2. Ints(c, 256) /\ Alike(prime, x, v)
    BY <1>1, <2>1, OperandLane
  <2>3. prime \in Primes /\ IsRoot(w(i), prime)
    BY RootHere
  <2>4. v = Horner(c, w(i)[1], prime, 256)
    BY DEF Whole
  <2> HIDE DEF c, w
  <2>5. ValueAt(c, w(i), prime) = v
    BY <2>2, <2>3, <2>4, ValueAtIs
  <2>6. v \in 0..(prime - 1) /\ v % prime = v
    BY <2>2, WholeInt
  <2>7. Bounds(prime \div 2, x)
    <3>1. Bounds(mag[i], x) /\ mag[i] \in Nat /\ mag[i] <= prime \div 2
      BY <1>1, BoundedLanes DEF Half
    <3>2. prime \div 2 \in Nat
      BY <2>3, BoundTypes
    <3> HIDE DEF x
    <3>3. QED  BY <3>1, <3>2, SMT DEF Bounds
  <2> HIDE DEF x, v
  <2>8. x = Centred(v, prime)
    BY <2>2, <2>3, <2>6, <2>7, CentredIs DEF Alike
  <2>9. QED  BY <2>5, <2>8 DEF x
<1>3. block = [i \in Block |-> block[i]]
  BY DEF IInv, TypeOK
<1>4. Transform = [i \in Block |-> Centred(ValueAt(c, w(i), prime), prime)]
  BY DEF Transform
<1> HIDE DEF c, w
<1>5. QED  BY <1>2, <1>3, <1>4

LEMMA ExactHere ==
  ASSUME IInv, ValuesInv, Fitting
  PROVE  Exact
<1> DEFINE c == ProductSums(input.public, input.secret, Rank, prime)
<1> SUFFICES ASSUME Finished, NEW k \in Block
             PROVE  (block[k] - NegacyclicSum(input.public, input.secret, Rank, k, prime)) % prime = 0
  BY DEF Exact
<1>1. view.of = "product" /\ view.at[k].off = k /\ view.at[k].len = 256
  BY DEF Fitting, InOrder
<1>2. c[k] = NegacyclicSum(input.public, input.secret, Rank, k, prime)
  BY DEF ProductSums, Block
<1>3. Poly(view.of, view.pair) = c /\ Factor(view.of, 256) = 1
  BY <1>1 DEF Poly, Factor
<1> HIDE DEF c
<1> DEFINE n == 256
           r == view.at[k].root
           v == Value(c, k, n, r, prime)
           x == block[k]
<1>4. Ints(c, 256) /\ Stands(prime, c, 1, x, k, n, r)
  <2>1. view.of # "none" /\ view.at[k].off = k /\ view.at[k].len = n /\ Factor(view.of, n) = 1
    BY <1>1, <1>3
  <2> HIDE DEF n
  <2>2. Ints(Poly(view.of, view.pair), 256) /\ LaneValue(view.of, view.pair, x, view.at[k])
    BY <2>1, Zenon DEF ValuesInv, BlockValues
  <2>3. QED  BY <1>3, <2>1, <2>2, Zenon DEF LaneValue
<1>5. r \in Int /\ Alike(prime, x, 1 * v)
  BY <1>4, Zenon DEF Stands
<1>6. v = c[k] % prime /\ prime \in Primes /\ c[k] \in Int
  <2>1. k \in 0..255 /\ k \in 0..(256 - 1)
    BY SMT DEF Block
  <2>2. QED  BY <1>4, <1>5, <2>1, LanesInts, ValueOne DEF Ints
<1> HIDE DEF v, x
<1> DEFINE d == c[k]
<1>7. v \in Int /\ v % prime = d % prime /\ d \in Int
  BY <1>6, ResidueOf, ResidueTwice
<1>8. x \in Int /\ x % prime = d % prime
  <2>1. 1 * v = v
    BY <1>7, SMT
  <2>2. QED  BY <1>5, <1>7, <2>1 DEF Alike
<1> HIDE DEF d
<1>9. (x - d) % prime = 0
  <2>1. CASE prime = 7681   BY <1>7, <1>8, <2>1, SMT
  <2>2. CASE prime = 10753  BY <1>7, <1>8, <2>2, SMT
  <2>3. QED  BY <1>6, <2>1, <2>2 DEF Primes
<1>10. QED  BY <1>2, <1>9 DEF x, d

\* If the bounds fit and every pass fits the history, which no operand
\* influences, then whatever the operands, the rank and the schedule, the forward
\* transform is the evaluation at the powers of psi, as centred residues.
THEOREM EvaluatesHolds == ValuesSpec /\ []Fits /\ []Fitting => []Evaluates
<1>1. ValuesInit => IInv /\ ValuesInv
  BY InitInv, InitValues DEF ValuesInit
<1>2. QED  BY <1>1, StepValues, EvaluatesHere, PTL DEF ValuesSpec

\* Under the same conditions the residues handed to the CRT step are those of the
\* sum of the negacyclic products of the operands.
THEOREM ExactHolds == ValuesSpec /\ []Fits /\ []Fitting => []Exact
<1>1. ValuesInit => IInv /\ ValuesInv
  BY InitInv, InitValues DEF ValuesInit
<1>2. QED  BY <1>1, StepValues, ExactHere, PTL DEF ValuesSpec
-----------------------------------------------------------------------------
IsSeq(s) == \E S : s \in Seq(S)

\* Sequence s and then t.
IsJoin(u, s, t) ==
  /\ IsSeq(u) /\ Len(s) \in Nat /\ Len(t) \in Nat
  /\ Len(u) = Len(s) + Len(t)
  /\ \A i \in 1..Len(s) : u[i] = s[i]
  /\ \A i \in 1..Len(t) : u[Len(s) + i] = t[i]

\* Concatenation, by places.
LEMMA Joined ==
  ASSUME NEW s, NEW t, IsSeq(s), IsSeq(t)
  PROVE  IsJoin(s \o t, s, t)
<1>1. PICK A : s \in Seq(A)
  BY DEF IsSeq
<1>2. PICK B : t \in Seq(B)
  BY DEF IsSeq
<1> DEFINE S == A \cup B
<1>3. A \subseteq S /\ B \subseteq S
  OBVIOUS
<1> HIDE DEF S
<1>4. s \in Seq(S) /\ t \in Seq(S)
  BY <1>1, <1>2, <1>3
<1>5. /\ s \o t \in Seq(S) /\ Len(s \o t) = Len(s) + Len(t)
      /\ \A i \in 1..Len(s) + Len(t) : (s \o t)[i] = IF i <= Len(s) THEN s[i] ELSE t[i - Len(s)]
  BY <1>4
<1>6. Len(s) \in Nat /\ Len(t) \in Nat
  BY <1>4
<1>7. \A i \in 1..Len(s) : (s \o t)[i] = s[i]
  BY <1>5, <1>6
<1>8. ASSUME NEW i \in 1..Len(t) PROVE (s \o t)[Len(s) + i] = t[i]
  <2> DEFINE j == Len(s) + i
  <2>1. j \in 1..Len(s) + Len(t) /\ ~(j <= Len(s)) /\ j - Len(s) = i
    BY <1>6
  <2>2. QED  BY <1>5, <2>1
<1>9. QED  BY <1>5, <1>6, <1>7, <1>8 DEF IsSeq, IsJoin

\* Short tuples are sequences.
LEMMA One ==
  ASSUME NEW a
  PROVE  IsSeq(<<a>>) /\ Len(<<a>>) = 1 /\ <<a>>[1] = a
<1>1. <<a>> \in Seq({a})
  OBVIOUS
<1>2. QED  BY <1>1 DEF IsSeq

LEMMA Tuple11 ==
  ASSUME NEW a, NEW b, NEW c, NEW d, NEW e, NEW f, NEW g, NEW h, NEW i, NEW j, NEW k
  PROVE  IsSeq(<<a, b, c, d, e, f, g, h, i, j, k>>)
<1>1. <<a, b, c, d, e, f, g, h, i, j, k>> \in Seq({a, b, c, d, e, f, g, h, i, j, k})
  OBVIOUS
<1>2. QED  BY <1>1 DEF IsSeq

LEMMA Tuple2 ==
  ASSUME NEW a, NEW b
  PROVE  IsSeq(<<a, b>>)
<1>1. <<a, b>> \in Seq({a, b})
  OBVIOUS
<1>2. QED  BY <1>1 DEF IsSeq

LEMMA Tuple10 ==
  ASSUME NEW a, NEW b, NEW c, NEW d, NEW e, NEW f, NEW g, NEW h, NEW i, NEW j
  PROVE  IsSeq(<<a, b, c, d, e, f, g, h, i, j>>)
<1>1. <<a, b, c, d, e, f, g, h, i, j>> \in Seq({a, b, c, d, e, f, g, h, i, j})
  OBVIOUS
<1>2. QED  BY <1>1 DEF IsSeq

LEMMA Tuple13 ==
  ASSUME NEW a, NEW b, NEW c, NEW d, NEW e, NEW f, NEW g, NEW h, NEW i, NEW j, NEW k, NEW l, NEW m
  PROVE  IsSeq(<<a, b, c, d, e, f, g, h, i, j, k, l, m>>)
<1>1. <<a, b, c, d, e, f, g, h, i, j, k, l, m>> \in Seq({a, b, c, d, e, f, g, h, i, j, k, l, m})
  OBVIOUS
<1>2. QED  BY <1>1 DEF IsSeq

\* The transforms are lists of passes.
LEMMA TransformsAreSeqs ==
  ASSUME NEW isa \in Backends, NEW q
  PROVE  IsSeq(Forward(isa, q)) /\ IsSeq(Inverse(isa, q))
<1>1. IsSeq(PortableForward(q)) /\ IsSeq(PortableInverse(q))
  BY Tuple11 DEF PortableForward, PortableInverse
<1>2. IsSeq(Avx2Forward(q)) /\ IsSeq(Avx2Inverse(q))
  BY Tuple13 DEF Avx2Forward, Avx2Inverse
<1>3. \A g : IsSeq(NeonForwardGroup(q, g)) /\ IsSeq(NeonInverseGroup(q, g))
  BY Tuple10, Tuple11 DEF NeonForwardGroup, NeonInverseGroup
<1>4. IsSeq(NeonForward(q))
  BY <1>3, Tuple2, Joined DEF NeonForward, IsJoin
<1>5. IsSeq(NeonInverse(q))
  BY <1>3, Tuple2, Joined DEF NeonInverse, IsJoin
<1>6. QED  BY <1>1, <1>2, <1>4, <1>5 DEF Backends, Forward, Inverse

\* The passes of the pairs are well defined by recursion.
LEMMA PairsUpToIs ==
  ASSUME NEW isa, NEW q, NEW rank \in Nat
  PROVE  /\ PairsUpTo(isa, q, rank)[0] = <<>>
         /\ \A n \in 1..rank :
              PairsUpTo(isa, q, rank)[n] = PairsUpTo(isa, q, rank)[n - 1] \o PairPasses(isa, q, n)
<1> DEFINE none == <<>>
           N(n, l) == l \o PairPasses(isa, q, n)
           Rec(m, f) == f = [n \in 0..m |-> IF n = 0 THEN none ELSE N(n, f[n - 1])]
           S == {m \in Nat : \E f : Rec(m, f)}
<1> HIDE DEF none, N
<1>1. 0 \in S
  <2>1. Rec(0, [n \in 0..0 |-> none])
    OBVIOUS
  <2>2. QED  BY <2>1
<1>2. ASSUME NEW m \in Nat, m \in S PROVE m + 1 \in S
  <2>1. PICK f : Rec(m, f)
    BY <1>2
  <2> DEFINE g == [n \in 0..(m + 1) |-> IF n = m + 1 THEN N(m + 1, f[m]) ELSE f[n]]
  <2>2. ASSUME NEW n \in 0..(m + 1) PROVE g[n] = IF n = 0 THEN none ELSE N(n, g[n - 1])
    <3>1. CASE n = 0
      BY <2>1, <3>1
    <3>2. CASE n \in 1..m
      BY <2>1, <3>2
    <3>3. CASE n = m + 1
      BY <2>1, <3>3
    <3>4. QED  BY <3>1, <3>2, <3>3
  <2>3. Rec(m + 1, g)
    BY <2>2
  <2>4. m + 1 \in Nat
    OBVIOUS
  <2>5. QED  BY <2>3, <2>4, Zenon
<1> HIDE DEF S
<1>3. rank \in S
  BY <1>1, <1>2, SetInduction
<1>4. \E f : Rec(rank, f)
  BY <1>3 DEF S
<1> DEFINE g == CHOOSE f : Rec(rank, f)
<1>5. Rec(rank, g)
  BY <1>4, Zenon
<1>6. PairsUpTo(isa, q, rank) = g
  BY Zenon DEF PairsUpTo, N, none
<1>7. g = [n \in 0..rank |-> IF n = 0 THEN none ELSE N(n, g[n - 1])]
  BY <1>5
<1> HIDE DEF g, Rec
<1>8. g[0] = none /\ \A n \in 1..rank : g[n] = N(n, g[n - 1])
  BY <1>7
<1>9. QED  BY <1>6, <1>8, Zenon DEF N, none

\* So is the history of a transform.
LEMMA TraceIs ==
  ASSUME NEW passes, NEW h, NEW q, Len(passes) \in Nat
  PROVE  /\ Trace(passes, h, q)[0] = h
         /\ \A j \in 1..Len(passes) :
              Trace(passes, h, q)[j] =
                History(BoundsAfter(passes[j], Trace(passes, h, q)[j - 1].mag, q),
                        PartsAfter(passes[j], Trace(passes, h, q)[j - 1].at, q))
<1> DEFINE N(j, l) == History(BoundsAfter(passes[j], l.mag, q), PartsAfter(passes[j], l.at, q))
           Rec(m, f) == f = [n \in 0..m |-> IF n = 0 THEN h ELSE N(n, f[n - 1])]
           S == {m \in Nat : \E f : Rec(m, f)}
<1> HIDE DEF N
<1>1. 0 \in S
  <2>1. Rec(0, [n \in 0..0 |-> h])
    OBVIOUS
  <2>2. QED  BY <2>1
<1>2. ASSUME NEW m \in Nat, m \in S PROVE m + 1 \in S
  <2>1. PICK f : Rec(m, f)
    BY <1>2
  <2> DEFINE g == [n \in 0..(m + 1) |-> IF n = m + 1 THEN N(m + 1, f[m]) ELSE f[n]]
  <2>2. ASSUME NEW n \in 0..(m + 1) PROVE g[n] = IF n = 0 THEN h ELSE N(n, g[n - 1])
    <3>1. CASE n = 0
      BY <2>1, <3>1
    <3>2. CASE n \in 1..m
      BY <2>1, <3>2
    <3>3. CASE n = m + 1
      BY <2>1, <3>3
    <3>4. QED  BY <3>1, <3>2, <3>3
  <2>3. Rec(m + 1, g)
    BY <2>2
  <2>4. m + 1 \in Nat
    OBVIOUS
  <2>5. QED  BY <2>3, <2>4, Zenon
<1> HIDE DEF S
<1>3. Len(passes) \in S
  BY <1>1, <1>2, SetInduction
<1>4. \E f : Rec(Len(passes), f)
  BY <1>3 DEF S
<1> DEFINE g == CHOOSE f : Rec(Len(passes), f)
<1>5. Rec(Len(passes), g)
  BY <1>4, Zenon
<1>6. Trace(passes, h, q) = g
  BY Zenon DEF Trace, N
<1>7. g = [n \in 0..Len(passes) |-> IF n = 0 THEN h ELSE N(n, g[n - 1])]
  BY <1>5
<1> HIDE DEF g, Rec
<1>8. g[0] = h /\ \A j \in 1..Len(passes) : g[j] = N(j, g[j - 1])
  BY <1>7
<1>9. QED  BY <1>6, <1>8 DEF N

\* A concatenation starts with its first part.
LEMMA JoinStarts ==
  ASSUME NEW u, NEW s, NEW t, IsJoin(u, s, t)
  PROVE  IsSeq(u) /\ Len(s) \in Nat /\ Len(u) \in Nat /\ Len(s) <= Len(u) /\ \A i \in 1..Len(s) : u[i] = s[i]
BY DEF IsJoin

\* The passes of pair n stand after the first s of P.
PairAt(P, s, F, n) ==
  /\ P[s + 1] = SplitPass("public", n)
  /\ \A j \in 1..Len(F) : P[s + (1 + j)] = F[j]
  /\ P[s + (Len(F) + 2)] = KeepPass(n)
  /\ P[s + (Len(F) + 3)] = SplitPass("secret", n)
  /\ \A j \in 1..Len(F) : P[s + (Len(F) + 3 + j)] = F[j]
  /\ P[s + (Len(F) + Len(F) + 4)] = PointwisePass(n)

\* The passes of one pair, by their places.
LEMMA PairIs ==
  ASSUME NEW isa \in Backends, NEW q, NEW n
  PROVE  /\ IsSeq(PairPasses(isa, q, n)) /\ Len(Forward(isa, q)) \in Nat
         /\ Len(PairPasses(isa, q, n)) = Len(Forward(isa, q)) + Len(Forward(isa, q)) + 4
         /\ PairAt(PairPasses(isa, q, n), 0, Forward(isa, q), n)
<1> DEFINE P == PairPasses(isa, q, n)
           F == Forward(isa, q)
           f == Len(F)
           a == <<SplitPass("public", n)>>
           b == <<KeepPass(n)>>
           c == <<SplitPass("secret", n)>>
           d == <<PointwisePass(n)>>
           aF == a \o F
           aFb == aF \o b
           aFbc == aFb \o c
           aFbcF == aFbc \o F
<1>1. P = aFbcF \o d
  BY DEF PairPasses
<1>2. /\ IsSeq(a) /\ Len(a) = 1 /\ a[1] = SplitPass("public", n)
      /\ IsSeq(b) /\ Len(b) = 1 /\ b[1] = KeepPass(n)
      /\ IsSeq(c) /\ Len(c) = 1 /\ c[1] = SplitPass("secret", n)
      /\ IsSeq(d) /\ Len(d) = 1 /\ d[1] = PointwisePass(n)
  BY One
<1>3. IsSeq(F)
  BY TransformsAreSeqs
<1> HIDE DEF a, b, c, d, P, F
<1>4. /\ IsSeq(aF) /\ f \in Nat /\ Len(aF) = 1 + f
      /\ aF[1] = SplitPass("public", n) /\ \A j \in 1..f : aF[1 + j] = F[j]
  <2>1. IsJoin(aF, a, F)
    BY <1>2, <1>3, Joined
  <2>2. QED  BY <1>2, <1>3, <2>1 DEF IsJoin
<1> HIDE DEF aF
<1>5. /\ IsSeq(aFb) /\ Len(aFb) = f + 2
      /\ \A j \in 1..(f + 1) : aFb[j] = aF[j]
      /\ aFb[f + 2] = KeepPass(n)
  <2>1. IsJoin(aFb, aF, b)
    BY <1>2, <1>4, Joined
  <2>2. QED  BY <1>2, <1>4, <2>1 DEF IsJoin
<1> HIDE DEF aFb
<1>6. /\ IsSeq(aFbc) /\ Len(aFbc) = f + 3
      /\ \A j \in 1..(f + 2) : aFbc[j] = aFb[j]
      /\ aFbc[f + 3] = SplitPass("secret", n)
  <2>1. IsJoin(aFbc, aFb, c)
    BY <1>2, <1>4, <1>5, Joined
  <2>2. QED  BY <1>2, <1>4, <1>5, <2>1 DEF IsJoin
<1> HIDE DEF aFbc
<1>7. /\ IsSeq(aFbcF) /\ Len(aFbcF) = f + f + 3
      /\ \A j \in 1..(f + 3) : aFbcF[j] = aFbc[j]
      /\ \A j \in 1..f : aFbcF[f + 3 + j] = F[j]
  <2>1. IsJoin(aFbcF, aFbc, F)
    BY <1>3, <1>4, <1>6, Joined
  <2>2. QED  BY <1>3, <1>4, <1>6, <2>1 DEF IsJoin
<1> HIDE DEF aFbcF
<1>8. /\ IsSeq(P) /\ Len(P) = f + f + 4
      /\ \A j \in 1..(f + f + 3) : P[j] = aFbcF[j]
      /\ P[f + f + 4] = PointwisePass(n)
  <2>1. IsJoin(P, aFbcF, d)
    BY <1>1, <1>2, <1>4, <1>7, Joined
  <2>2. QED  BY <1>1, <1>2, <1>4, <1>7, <2>1 DEF IsJoin
<1> HIDE DEF f
<1>9. /\ \A j \in 1..(f + 1) : P[j] = aF[j]
      /\ P[f + 2] = KeepPass(n) /\ P[f + 3] = SplitPass("secret", n)
      /\ \A j \in 1..f : P[f + 3 + j] = F[j]
  BY <1>4, <1>5, <1>6, <1>7, <1>8
<1>10. PairAt(P, 0, F, n)
  <2>1. /\ 0 + 1 = 1 /\ 1 \in 1..(f + 1) /\ 0 + (f + 2) = f + 2 /\ 0 + (f + 3) = f + 3
        /\ 0 + (f + f + 4) = f + f + 4
        /\ \A j \in 1..f : 0 + (1 + j) = 1 + j /\ 1 + j \in 1..(f + 1) /\ 0 + (f + 3 + j) = f + 3 + j
    BY <1>4
  <2>2. QED  BY <1>4, <1>8, <1>9, <2>1, Zenon DEF PairAt, f
<1>11. QED  BY <1>4, <1>8, <1>10 DEF P, F, f

StartsWith(t, s) ==
  /\ Len(s) \in Nat /\ Len(t) \in Nat /\ Len(s) <= Len(t)
  /\ \A i \in 1..Len(s) : t[i] = s[i]

\* The passes of the first pairs start those of all.
LEMMA PairsStart ==
  ASSUME NEW isa \in Backends, NEW q, NEW rank \in Nat, NEW n \in 0..rank, NEW m \in 0..n
  PROVE  /\ IsSeq(PairsUpTo(isa, q, rank)[n])
         /\ StartsWith(PairsUpTo(isa, q, rank)[n], PairsUpTo(isa, q, rank)[m])
<1> DEFINE P == PairsUpTo(isa, q, rank)
           Good(k) == IsSeq(P[k]) /\ \A l \in 0..k : StartsWith(P[k], P[l])
           S == {k \in Nat : k <= rank => Good(k)}
<1>1. 0 \in S
  <2>1. IsSeq(<<>>) /\ Len(<<>>) = 0
    <3>1. <<>> \in Seq({})
      OBVIOUS
    <3>2. QED  BY <3>1 DEF IsSeq
  <2>2. P[0] = <<>>
    BY PairsUpToIs
  <2>3. Good(0)
    BY <2>1, <2>2 DEF StartsWith
  <2>4. QED  BY <2>3
<1>2. ASSUME NEW k \in Nat, k \in S PROVE k + 1 \in S
  <2> SUFFICES ASSUME k + 1 <= rank PROVE Good(k + 1)
    OBVIOUS
  <2>1. P[k + 1] = P[k] \o PairPasses(isa, q, k + 1)
    <3>1. (k + 1) \in 1..rank /\ (k + 1) - 1 = k
      OBVIOUS
    <3>2. QED  BY <3>1, PairsUpToIs
  <2>2. Good(k)
    BY <1>2
  <2>3. IsSeq(PairPasses(isa, q, k + 1))
    BY PairIs
  <2>4. IsJoin(P[k + 1], P[k], PairPasses(isa, q, k + 1))
    BY <2>1, <2>2, <2>3, Joined
  <2>5. IsSeq(P[k + 1]) /\ StartsWith(P[k + 1], P[k]) /\ StartsWith(P[k + 1], P[k + 1])
    <3> DEFINE u == P[k + 1]
               s == P[k]
    <3>1. /\ IsSeq(u) /\ Len(s) \in Nat /\ Len(u) \in Nat /\ Len(s) <= Len(u)
          /\ \A i \in 1..Len(s) : u[i] = s[i]
      BY <2>4, JoinStarts, Zenon
    <3> HIDE DEF u, s
    <3>2. StartsWith(u, s) /\ StartsWith(u, u)
      BY <3>1 DEF StartsWith
    <3>3. QED  BY <3>1, <3>2 DEF u, s
  <2>6. ASSUME NEW l \in 0..k PROVE StartsWith(P[k + 1], P[l])
    BY <2>2, <2>5 DEF StartsWith
  <2>7. \A l \in 0..(k + 1) : l = k + 1 \/ l \in 0..k
    OBVIOUS
  <2>8. QED  BY <2>5, <2>6, <2>7
<1> HIDE DEF S
<1>3. n \in S
  BY <1>1, <1>2, SetInduction
<1>4. n \in Nat /\ n <= rank
  OBVIOUS
<1>5. QED  BY <1>3, <1>4 DEF S

\* The passes after the pairs stand after the first s of P.
EndAt(P, s, G) ==
  /\ P[s + 1] = ReducePass
  /\ \A j \in 1..Len(G) : P[s + (1 + j)] = G[j]
  /\ P[s + (Len(G) + 2)] = ScalePass
  /\ Len(P) = s + (Len(G) + 2)

\* The schedule of an inner product, by the places of its passes.
LEMMA ProgramIs ==
  ASSUME NEW isa \in Backends, NEW q, NEW rank \in Nat
  PROVE  /\ Len(Forward(isa, q)) \in Nat /\ Len(Inverse(isa, q)) \in Nat
         /\ Len(PairsUpTo(isa, q, rank)[0]) = 0
         /\ \A n \in 0..rank :
              /\ Len(PairsUpTo(isa, q, rank)[n]) \in Nat
              /\ Len(PairsUpTo(isa, q, rank)[n]) < Len(Program(isa, q, rank))
         /\ \A n \in 0..(rank - 1) :
              /\ Len(PairsUpTo(isa, q, rank)[n + 1]) =
                   Len(PairsUpTo(isa, q, rank)[n]) + (Len(Forward(isa, q)) + Len(Forward(isa, q)) + 4)
              /\ PairAt(Program(isa, q, rank), Len(PairsUpTo(isa, q, rank)[n]), Forward(isa, q), n + 1)
         /\ EndAt(Program(isa, q, rank), Len(PairsUpTo(isa, q, rank)[rank]), Inverse(isa, q))
<1> DEFINE F == Forward(isa, q)
           G == Inverse(isa, q)
           P == Program(isa, q, rank)
           S == PairsUpTo(isa, q, rank)
           T == S[rank]
           b == <<ReducePass>>
           d == <<ScalePass>>
           Tb == T \o b
           TbG == Tb \o G
           f == Len(F)
           g == Len(G)
           k == f + f + 4
           Pair(n) == PairPasses(isa, q, n)
<1>1. P = TbG \o d
  BY DEF Program
<1>2. /\ IsSeq(b) /\ Len(b) = 1 /\ b[1] = ReducePass
      /\ IsSeq(d) /\ Len(d) = 1 /\ d[1] = ScalePass
  BY One
<1>3. IsSeq(G) /\ IsSeq(F)
  BY TransformsAreSeqs
<1>4. \A n \in 0..rank : IsSeq(S[n]) /\ \A m \in 0..n : StartsWith(S[n], S[m])
  <2>1. \A n \in 0..rank : 0 \in 0..n /\ \A m \in 0..n : IsSeq(PairsUpTo(isa, q, rank)[n]) /\ StartsWith(PairsUpTo(isa, q, rank)[n], PairsUpTo(isa, q, rank)[m])
    BY PairsStart
  <2>2. QED  BY <2>1, Zenon
<1> HIDE DEF F, G, P, S
<1>5. IsSeq(T) /\ Len(T) \in Nat
  BY <1>4 DEF StartsWith
<1> HIDE DEF b, d
<1>6. /\ IsSeq(Tb) /\ Len(Tb) = Len(T) + 1
      /\ \A i \in 1..Len(T) : Tb[i] = T[i]
      /\ Tb[Len(T) + 1] = ReducePass
  <2>1. IsJoin(Tb, T, b)
    BY <1>2, <1>5, Joined
  <2> HIDE DEF Tb, T
  <2>2. QED  BY <1>2, <1>5, <2>1 DEF IsJoin
<1> HIDE DEF Tb
<1>7. /\ IsSeq(TbG) /\ g \in Nat /\ Len(TbG) = Len(T) + 1 + g
      /\ \A i \in 1..(Len(T) + 1) : TbG[i] = Tb[i]
      /\ \A j \in 1..g : TbG[(Len(T) + 1) + j] = G[j]
  <2>1. IsJoin(TbG, Tb, G)
    BY <1>3, <1>6, Joined
  <2> HIDE DEF TbG, T
  <2>2. QED  BY <1>5, <1>6, <2>1 DEF IsJoin
<1> HIDE DEF TbG
<1>8. /\ Len(P) = Len(T) + g + 2
      /\ \A i \in 1..(Len(T) + g + 1) : P[i] = TbG[i]
      /\ P[Len(T) + g + 2] = ScalePass
  <2>1. IsJoin(P, TbG, d)
    BY <1>1, <1>2, <1>7, Joined
  <2> HIDE DEF T, g
  <2>2. QED  BY <1>2, <1>5, <1>7, <2>1 DEF IsJoin
<1>9. \A i \in 1..Len(T) : P[i] = T[i]
  <2> HIDE DEF T, g
  <2>1. QED  BY <1>5, <1>6, <1>7, <1>8
<1>10. EndAt(P, Len(T), G)
  <2> HIDE DEF T
  <2>1. P[Len(T) + 1] = ReducePass
    BY <1>5, <1>6, <1>7, <1>8
  <2>2. ASSUME NEW j \in 1..g PROVE P[Len(T) + (1 + j)] = G[j]
    <3>1. Len(T) + (1 + j) = (Len(T) + 1) + j /\ Len(T) + (1 + j) \in 1..(Len(T) + g + 1)
      BY <1>5, <1>7
    <3>2. QED  BY <1>7, <1>8, <3>1
  <2>3. Len(T) + (g + 2) = Len(T) + g + 2
    BY <1>5, <1>7
  <2>4. QED  BY <1>8, <2>1, <2>2, <2>3 DEF EndAt
<1>11. Len(S[0]) = 0
  <2>1. S[0] = <<>>
    BY PairsUpToIs DEF S
  <2>2. QED  BY <2>1
<1>12. ASSUME NEW n \in 0..rank PROVE Len(S[n]) \in Nat /\ Len(S[n]) < Len(P)
  <2>1. Len(S[n]) \in Nat /\ Len(S[n]) <= Len(T)
    BY <1>4 DEF StartsWith
  <2> HIDE DEF T
  <2>2. QED  BY <1>5, <1>7, <1>8, <2>1
<1>13. ASSUME NEW n \in 0..(rank - 1)
       PROVE  Len(S[n + 1]) = Len(S[n]) + k /\ PairAt(P, Len(S[n]), F, n + 1)
  <2> DEFINE s == Len(S[n])
  <2>0. n \in 0..rank /\ n + 1 \in 0..rank /\ n + 1 \in 1..rank /\ (n + 1) - 1 = n
    OBVIOUS
  <2>1. S[n + 1] = S[n] \o Pair(n + 1)
    BY <2>0, PairsUpToIs DEF S
  <2>2. IsSeq(Pair(n + 1)) /\ f \in Nat /\ Len(Pair(n + 1)) = k /\ PairAt(Pair(n + 1), 0, F, n + 1)
    BY PairIs DEF F
  <2>3. IsJoin(S[n + 1], S[n], Pair(n + 1))
    BY <1>4, <2>0, <2>1, <2>2, Joined
  <2> HIDE DEF Pair, f, T
  <2>4. s \in Nat /\ Len(S[n + 1]) = s + k /\ \A i \in 1..k : S[n + 1][s + i] = Pair(n + 1)[i]
    BY <2>2, <2>3 DEF IsJoin
  <2>5. s + k <= Len(T) /\ \A i \in 1..(s + k) : T[i] = S[n + 1][i]
    <3>1. rank \in 0..rank /\ n + 1 \in 0..rank
      OBVIOUS
    <3>2. StartsWith(T, S[n + 1])
      BY <1>4, <3>1 DEF T
    <3>3. QED  BY <2>4, <3>2 DEF StartsWith
  <2> HIDE DEF s
  <2>7. ASSUME NEW i \in 1..k PROVE P[s + i] = Pair(n + 1)[i]
    <3>1. k \in Nat /\ s \in Nat
      BY <2>2, <2>4
    <3> HIDE DEF k
    <3>2. s + i \in 1..(s + k) /\ s + i \in 1..Len(T)
      BY <1>5, <2>5, <3>1
    <3>3. QED  BY <1>9, <2>4, <2>5, <3>2
  <2>8. /\ 1 \in 1..k /\ f + 2 \in 1..k /\ f + 3 \in 1..k /\ k \in 1..k
        /\ \A j \in 1..f : 1 + j \in 1..k /\ f + 3 + j \in 1..k
    BY <2>2
  <2> HIDE DEF k
  <2>9. PairAt(P, s, F, n + 1)
    BY <2>2, <2>7, <2>8 DEF PairAt, f, k
  <2>10. QED  BY <2>4, <2>9 DEF s
<1>14. QED  BY <1>3, <1>7, <1>10, <1>11, <1>12, <1>13, PairIs, Zenon DEF T, f, g, k, F, G, P, S

\* Where pair n + 1 starts, the histories of its operands, and that of the way back.
Start(n)     == Len(PairsUpTo(backend, prime, Rank)[n])
Onward(side) == Trace(Forward(backend, prime), Loaded(side, prime), prime)
Back         == Trace(Inverse(backend, prime), Spectrum(SumBound(Rank, prime), prime), prime)
Steps       == Len(Forward(backend, prime))
StepsBack   == Len(Inverse(backend, prime))

Here(h) == mag = h.mag /\ view.at = h.at
Square == Half * Half
Accumulated(n) == pairs = n /\ accMag = [i \in Block |-> n * Square]
Stored(n) == keptPair = n /\ keptMag = [i \in Block |-> Half]

\* After n pairs; j passes into the transform of an operand of the next one; between
\* its operands; j passes into the way back; after the last factor.
AtPair(n) ==
  /\ pc = Start(n) + 1
  /\ Accumulated(n)
  /\ Fit16(mag)
  /\ n > 0 => Transformed

Lead(side) == IF side = "public" THEN 1 ELSE Steps + 3
AtOperand(n, side, j) ==
  /\ pc = Start(n) + (Lead(side) + (j + 1))
  /\ Accumulated(n)
  /\ view.of = side /\ view.pair = n + 1
  /\ side = "secret" => Stored(n + 1)
  /\ Here(Onward(side)[j])

BetweenOperands(n) ==
  /\ pc = Start(n) + (Steps + 3)
  /\ Accumulated(n)
  /\ Stored(n + 1)
  /\ Fit16(mag)

AtSum(j) ==
  /\ pc = Start(Rank) + (1 + (j + 1))
  /\ Accumulated(Rank)
  /\ view.of = "sum"
  /\ Here(Back[j])

AtProduct ==
  /\ pc = Start(Rank) + (StepsBack + 3)
  /\ Accumulated(Rank)
  /\ view.of = "product"
  /\ InOrder(view.at)
  /\ \A i \in Block : mag[i] \in 0..(prime - 1)

Somewhere ==
  \/ \E n \in 0..Rank : AtPair(n)
  \/ \E n \in 0..(Rank - 1), side \in {"public", "secret"}, j \in 0..Steps : AtOperand(n, side, j)
  \/ \E n \in 0..(Rank - 1) : BetweenOperands(n)
  \/ \E j \in 0..StepsBack : AtSum(j)
  \/ AtProduct

Scheduled ==
  /\ prime \in Primes /\ backend \in Backends
  /\ program = Program(backend, prime, Rank)

HistoryInv == Scheduled /\ Somewhere
-----------------------------------------------------------------------------
\* The two halves of a history.
LEMMA HistoryIs ==
  ASSUME NEW m, NEW a
  PROVE  History(m, a).mag = m /\ History(m, a).at = a
<1>1. Table(m) = m /\ Table(a) = a
  BY DEF Table
<1>2. History(m, a) = [mag |-> m, at |-> a]
  BY <1>1 DEF History
<1>3. QED  BY <1>2

\* What each kind of pass does to the bounds.
Changes(p) ==
  /\ pc <= Len(program) /\ pc' = pc + 1 /\ UNCHANGED fixed
  /\ p.do = "split" => mag' = [i \in Block |-> LoadedBound(p.side, prime)] /\ UNCHANGED <<keptMag, accMag>>
  /\ p.do \in {"ct", "gs", "barrett", "move"} =>
       mag' = BoundsAfter(p, mag, prime) /\ UNCHANGED <<keptMag, accMag>>
  /\ p.do = "keep" => keptMag' = mag /\ UNCHANGED <<mag, accMag>>
  /\ p.do = "pointwise" =>
       accMag' = [i \in Block |-> accMag[i] + keptMag[i] * mag[i]] /\ UNCHANGED <<mag, keptMag>>
  /\ p.do = "reduce" =>
       mag' = [i \in Block |-> ReduceBound(accMag[i], prime)] /\ UNCHANGED <<keptMag, accMag>>
  /\ p.do = "scale" =>
       /\ mag' = [i \in Block |-> MontBound(mag[i], InvNttScale(prime), prime)]
       /\ UNCHANGED <<keptMag, accMag>>

\* Every pass does so.
LEMMA PassChanges ==
  ASSUME Next
  PROVE  Changes(program[pc])
<1> DEFINE p == program[pc]
<1>1. CASE Split
  <2>1. p.do = "split" /\ pc <= Len(program) /\ pc' = pc + 1 /\ UNCHANGED fixed
    BY <1>1 DEF Split, Run
  <2>2. UNCHANGED <<keptMag, accMag>>
    BY <1>1 DEF Split
  <2>3. mag' = [i \in Block |-> LoadedBound(p.side, prime)]
    <3>1. CASE p.side = "public"  BY <1>1, <3>1 DEF Split, LoadedBound, Half
    <3>2. CASE p.side # "public"  BY <1>1, <3>2 DEF Split, LoadedBound
    <3>3. QED  BY <3>1, <3>2
  <2> HIDE DEF p
  <2>4. QED  BY <2>1, <2>2, <2>3, Zenon DEF Changes, p
<1>2. CASE CtLevel \/ GsLevel \/ BarrettBlock \/ Transpose
  <2>1. p.do \in {"ct", "gs", "barrett", "move"} /\ pc <= Len(program) /\ pc' = pc + 1 /\ UNCHANGED fixed
    BY <1>2 DEF CtLevel, GsLevel, BarrettBlock, Transpose, Run
  <2>2. UNCHANGED <<keptMag, accMag>> /\ mag' = BoundsAfter(p, mag, prime)
    BY <1>2 DEF CtLevel, GsLevel, BarrettBlock, Transpose
  <2>3. QED  BY <2>1, <2>2, Zenon DEF Changes
<1>3. CASE Keep
  BY <1>3, Zenon DEF Keep, Run, Changes
<1>4. CASE PointwiseMulAcc
  BY <1>4, Zenon DEF PointwiseMulAcc, Run, Changes
<1>5. CASE ReduceBlock
  BY <1>5, Zenon DEF ReduceBlock, Run, Changes
<1>6. CASE ScaleBlock
  BY <1>6, Zenon DEF ScaleBlock, Run, Changes
<1>7. QED  BY <1>1, <1>2, <1>3, <1>4, <1>5, <1>6 DEF Next

\* The ranks of the code.
LEMMA RankIs == Rank \in Nat /\ Rank \in 1..MaxRank /\ 1 <= Rank /\ Rank <= 4
<1>1. Rank \in 1..MaxRank
  BY ScheduledAssumption
<1>2. QED  BY <1>1 DEF MaxRank

\* Where the passes of this schedule are.
LEMMA Places ==
  ASSUME Scheduled
  PROVE  /\ Steps \in Nat /\ StepsBack \in Nat /\ Start(0) = 0
         /\ \A n \in 0..Rank : Start(n) \in Nat /\ Start(n) < Len(program)
         /\ \A n \in 0..(Rank - 1) :
              /\ Start(n + 1) = Start(n) + (Steps + Steps + 4)
              /\ PairAt(program, Start(n), Forward(backend, prime), n + 1)
         /\ EndAt(program, Start(Rank), Inverse(backend, prime))
<1>1. /\ backend \in Backends /\ Rank \in Nat /\ program = Program(backend, prime, Rank)
  BY RankIs DEF Scheduled
<1> DEFINE F == Forward(backend, prime)
           G == Inverse(backend, prime)
           S == PairsUpTo(backend, prime, Rank)
<1>2. /\ Len(F) \in Nat /\ Len(G) \in Nat /\ Len(S[0]) = 0
      /\ \A n \in 0..Rank : Len(S[n]) \in Nat /\ Len(S[n]) < Len(program)
      /\ \A n \in 0..(Rank - 1) :
           /\ Len(S[n + 1]) = Len(S[n]) + (Len(F) + Len(F) + 4)
           /\ PairAt(program, Len(S[n]), F, n + 1)
      /\ EndAt(program, Len(S[Rank]), G)
  BY <1>1, ProgramIs
<1>3. QED  BY <1>2, Zenon DEF Steps, StepsBack, Start

\* The table of this backend's forward transform, pass by pass.
LEMMA OnwardIs ==
  ASSUME Scheduled, NEW side \in {"public", "secret"}, NEW F, F = Forward(backend, prime),
         NEW t, t = Onward(side)
  PROVE  /\ t[0].mag = [i \in Block |-> LoadedBound(side, prime)] /\ t[0].at = Coefficients256(prime)
         /\ \A j \in 1..Steps :
              /\ ForwardPass(F[j], t[j - 1], prime)
              /\ t[j].mag = BoundsAfter(F[j], t[j - 1].mag, prime)
              /\ t[j].at = PartsAfter(F[j], t[j - 1].at, prime)
         /\ t[Steps].mag = [i \in Block |-> Half] /\ t[Steps].at = RootParts(prime)
<1>1. ForwardFits(backend, prime, side) /\ Len(F) \in Nat /\ Steps = Len(F)
  BY TransformsAssumption, Places DEF Scheduled, Steps
<1>2. t = Trace(F, Loaded(side, prime), prime)
  BY DEF Onward
<1>3. /\ \A j \in 1..Len(F) : ForwardPass(F[j], t[j - 1], prime)
      /\ t[Len(F)] = Spectrum(prime \div 2, prime)
  BY <1>1, <1>2, Zenon DEF ForwardFits
<1>4. /\ t[0] = Loaded(side, prime)
      /\ \A j \in 1..Len(F) :
           t[j] = History(BoundsAfter(F[j], t[j - 1].mag, prime), PartsAfter(F[j], t[j - 1].at, prime))
  BY <1>1, <1>2, TraceIs
<1>5. t[0].mag = [i \in Block |-> LoadedBound(side, prime)] /\ t[0].at = Coefficients256(prime)
  BY <1>4, HistoryIs DEF Loaded
<1>6. t[Len(F)].mag = [i \in Block |-> Half] /\ t[Len(F)].at = RootParts(prime)
  BY <1>3, HistoryIs DEF Spectrum, Half
<1>7. \A j \in 1..Len(F) :
        /\ t[j].mag = BoundsAfter(F[j], t[j - 1].mag, prime)
        /\ t[j].at = PartsAfter(F[j], t[j - 1].at, prime)
  BY <1>4, HistoryIs
<1>8. QED  BY <1>1, <1>3, <1>5, <1>6, <1>7, Zenon

\* The table of this backend's transform back, at this rank.
LEMMA BackIs ==
  ASSUME Scheduled, NEW G, G = Inverse(backend, prime), NEW t, t = Back
  PROVE  /\ t[0].mag = [i \in Block |-> SumBound(Rank, prime)] /\ t[0].at = RootParts(prime)
         /\ \A j \in 1..StepsBack :
              /\ InversePass(G[j], t[j - 1], prime)
              /\ t[j].mag = BoundsAfter(G[j], t[j - 1].mag, prime)
              /\ t[j].at = PartsAfter(G[j], t[j - 1].at, prime)
         /\ InverseEnd(t[StepsBack], prime)
<1>1. InverseFits(backend, prime, Rank) /\ Len(G) \in Nat /\ StepsBack = Len(G)
  BY TransformsAssumption, Places, RankIs DEF Scheduled, StepsBack
<1>2. t = Trace(G, Spectrum(SumBound(Rank, prime), prime), prime)
  BY DEF Back
<1>3. /\ \A j \in 1..Len(G) : InversePass(G[j], t[j - 1], prime)
      /\ InverseEnd(t[Len(G)], prime)
  BY <1>1, <1>2, Zenon DEF InverseFits
<1>4. /\ t[0] = Spectrum(SumBound(Rank, prime), prime)
      /\ \A j \in 1..Len(G) :
           t[j] = History(BoundsAfter(G[j], t[j - 1].mag, prime), PartsAfter(G[j], t[j - 1].at, prime))
  BY <1>1, <1>2, TraceIs
<1>5. t[0].mag = [i \in Block |-> SumBound(Rank, prime)] /\ t[0].at = RootParts(prime)
  BY <1>4, HistoryIs DEF Spectrum
<1>6. \A j \in 1..Len(G) :
        /\ t[j].mag = BoundsAfter(G[j], t[j - 1].mag, prime)
        /\ t[j].at = PartsAfter(G[j], t[j - 1].at, prime)
  BY <1>4, HistoryIs
<1>7. QED  BY <1>1, <1>3, <1>5, <1>6, Zenon

\* What a behaviour never changes.
LEMMA FixedStays ==
  ASSUME UNCHANGED fixed
  PROVE  /\ Steps' = Steps /\ StepsBack' = StepsBack /\ Back' = Back /\ Square' = Square
         /\ Half' = Half
         /\ Scheduled => Scheduled'
         /\ \A n : Start(n)' = Start(n)
         /\ \A side : Onward(side)' = Onward(side)
<1>1. backend' = backend /\ prime' = prime /\ program' = program
  BY DEF fixed
<1>2. Half' = Half
  BY <1>1 DEF Half
<1>3. Square' = Square
  BY <1>2 DEF Square
<1>4. QED  BY <1>1, <1>2, <1>3, Zenon DEF Steps, StepsBack, Back, Scheduled, Start, Onward

\* What every pass of a schedule does to the histories.
LEMMA HistoryChanges ==
  ASSUME Scheduled, ValuesNext
  PROVE  /\ Changes(program[pc]) /\ UNCHANGED fixed /\ pc' = pc + 1 /\ pc <= Len(program) /\ Scheduled'
         /\ view'.of = SourceAfter(program[pc])
         /\ view'.pair = IF program[pc].do = "split" THEN program[pc].pair ELSE view.pair
         /\ view'.at = PartsAfter(program[pc], view.at, prime)
         /\ keptPair' = IF program[pc].do = "keep" THEN program[pc].pair ELSE keptPair
         /\ pairs' = IF program[pc].do = "pointwise" THEN pairs + 1 ELSE pairs
<1>1. Changes(program[pc])
  BY PassChanges DEF ValuesNext
<1>2. UNCHANGED fixed /\ pc' = pc + 1 /\ pc <= Len(program)
  BY <1>1 DEF Changes
<1>3. Scheduled'
  BY <1>2, FixedStays
<1>4. QED  BY <1>1, <1>2, <1>3, HistoryStep

\* The products of four pairs of centred lanes fit what the reduction takes.
LEMMA HalfIs ==
  ASSUME Scheduled
  PROVE  /\ Half \in Nat /\ Half <= 32767 /\ prime <= 32767 /\ Square \in Nat
         /\ \A n \in 0..4 : n * Square < 32768 * prime
<1>1. CASE prime = 7681
  <2>1. Half = 3840
    BY <1>1, SMT DEF Half
  <2>2. Square = 14745600
    BY <2>1, SMT DEF Square
  <2>3. QED  BY <1>1, <2>1, <2>2, SMT
<1>2. CASE prime = 10753
  <2>1. Half = 5376
    BY <1>2, SMT DEF Half
  <2>2. Square = 28901376
    BY <2>1, SMT DEF Square
  <2>3. QED  BY <1>2, <2>1, <2>2, SMT
<1>3. QED  BY <1>1, <1>2 DEF Scheduled, Primes

\* Where the passes of one pair are.
LEMMA PlaceHere ==
  ASSUME Scheduled, NEW n \in 0..(Rank - 1)
  PROVE  /\ n \in 0..Rank /\ n + 1 \in 0..Rank /\ n \in Nat /\ n < Rank
         /\ Start(n) \in Nat /\ Steps \in Nat
         /\ Start(n + 1) = Start(n) + (Steps + Steps + 4)
         /\ PairAt(program, Start(n), Forward(backend, prime), n + 1)
<1>1. n \in 0..Rank /\ n + 1 \in 0..Rank /\ n \in Nat /\ n < Rank
  BY RankIs
<1>2. QED  BY <1>1, Places

\* Before the first pass no pair is accumulated.
LEMMA InitHistory == ValuesInit => HistoryInv
<1> SUFFICES ASSUME ValuesInit PROVE HistoryInv
  OBVIOUS
<1>1. Init /\ pairs = 0
  BY DEF ValuesInit
<1>2. PICK s \in Plans : backend = s.backend /\ prime = s.prime /\ program = s.passes
  BY <1>1 DEF Init
<1>3. Scheduled
  BY <1>2, PlansAssumption, ScheduledAssumption DEF Scheduled, Backends
<1>4. pc = 1 /\ mag = [i \in Block |-> 0] /\ accMag = [i \in Block |-> 0]
  BY <1>1 DEF Init
<1>5. Start(0) = 0 /\ Square \in Nat
  BY <1>3, Places, HalfIs
<1>6. accMag = [i \in Block |-> 0 * Square]
  BY <1>4, <1>5
<1>7. Fit16(mag)
  BY <1>4 DEF Fit16
<1>8. AtPair(0)
  BY <1>1, <1>4, <1>5, <1>6, <1>7 DEF AtPair, Accumulated
<1>9. 0 \in 0..Rank
  BY RankIs
<1>10. QED  BY <1>3, <1>8, <1>9 DEF HistoryInv, Somewhere

\* Loading the first operand of the next pair.
LEMMA PairStep ==
  ASSUME Scheduled, ValuesNext, NEW n \in 0..(Rank - 1), AtPair(n)
  PROVE  AtOperand(n, "public", 0)'
<1> DEFINE p == program[pc]
           t == Onward("public")
<1>1. p = SplitPass("public", n + 1)
  BY Places DEF PairAt, AtPair
<1>2. p.do = "split" /\ p.side = "public" /\ p.pair = n + 1
  BY <1>1 DEF SplitPass
<1> HIDE DEF p
<1>3. /\ Changes(p) /\ UNCHANGED fixed /\ pc' = pc + 1
      /\ view'.of = "public" /\ view'.pair = n + 1 /\ view'.at = Coefficients256(prime)
      /\ keptPair' = keptPair /\ pairs' = pairs
  BY <1>2, HistoryChanges DEF p, SourceAfter, PartsAfter
<1>4. mag' = [i \in Block |-> LoadedBound("public", prime)] /\ accMag' = accMag
  BY <1>2, <1>3 DEF Changes
<1>5. t[0].mag = [i \in Block |-> LoadedBound("public", prime)] /\ t[0].at = Coefficients256(prime)
  BY OnwardIs
<1>6. Onward("public")' = t /\ Start(n)' = Start(n) /\ Square' = Square
  BY <1>3, FixedStays
<1>7. pc' = Start(n) + (1 + (0 + 1))
  <2>1. Start(n) \in Nat /\ pc = Start(n) + 1
    BY PlaceHere DEF AtPair
  <2>2. QED  BY <1>3, <2>1
<1>8. Accumulated(n)'
  BY <1>3, <1>4, <1>6 DEF AtPair, Accumulated
<1>9. QED  BY <1>3, <1>4, <1>5, <1>6, <1>7, <1>8 DEF AtOperand, Lead, Here

\* One pass of an operand's transform.
LEMMA OperandStep ==
  ASSUME Scheduled, ValuesNext, NEW n \in 0..(Rank - 1), NEW side \in {"public", "secret"},
         NEW j \in 0..(Steps - 1), AtOperand(n, side, j)
  PROVE  AtOperand(n, side, j + 1)'
<1> DEFINE p == program[pc]
           F == Forward(backend, prime)
           t == Onward(side)
<1>1. j \in Nat /\ j + 1 \in 1..Steps /\ (j + 1) - 1 = j /\ Steps \in Nat /\ Start(n) \in Nat
  BY PlaceHere
<1>2. p = F[j + 1]
  BY <1>1, PlaceHere DEF PairAt, AtOperand, Lead, Steps
<1> HIDE DEF F
<1>3. /\ ForwardPass(p, t[j], prime)
      /\ t[j + 1].mag = BoundsAfter(p, t[j].mag, prime)
      /\ t[j + 1].at = PartsAfter(p, t[j].at, prime)
  BY <1>1, <1>2, OnwardIs DEF F
<1>4. p.do \in {"ct", "barrett", "move"} /\ mag = t[j].mag /\ view.at = t[j].at
  BY <1>3 DEF ForwardPass, AtOperand, Here
<1> HIDE DEF p, t
<1>5. /\ Changes(p) /\ UNCHANGED fixed /\ pc' = pc + 1
      /\ view'.of = view.of /\ view'.pair = view.pair /\ view'.at = PartsAfter(p, view.at, prime)
      /\ keptPair' = keptPair /\ pairs' = pairs
  BY <1>4, HistoryChanges DEF p, SourceAfter
<1>6. mag' = BoundsAfter(p, mag, prime) /\ UNCHANGED <<keptMag, accMag>>
  BY <1>4, <1>5 DEF Changes
<1>7. mag' = t[j + 1].mag /\ view'.at = t[j + 1].at
  BY <1>3, <1>4, <1>5, <1>6
<1>8. /\ Onward(side)' = t /\ Start(n)' = Start(n) /\ Square' = Square /\ Half' = Half
      /\ Steps' = Steps
  BY <1>5, FixedStays DEF t
<1>9. Lead(side) \in Nat /\ Lead(side)' = Lead(side)
  BY <1>1, <1>8 DEF Lead
<1>10. pc' = Start(n) + (Lead(side) + ((j + 1) + 1))
  BY <1>1, <1>5, <1>9 DEF AtOperand
<1>11. Accumulated(n)' /\ (side = "secret" => Stored(n + 1)')
  BY <1>5, <1>6, <1>8 DEF AtOperand, Accumulated, Stored
<1>12. QED  BY <1>5, <1>7, <1>8, <1>9, <1>10, <1>11 DEF AtOperand, Here

\* The first operand's transform is complete, and kept.
LEMMA KeptStep ==
  ASSUME Scheduled, ValuesNext, NEW n \in 0..(Rank - 1), AtOperand(n, "public", Steps)
  PROVE  BetweenOperands(n)'
<1> DEFINE p == program[pc]
<1>1. Steps \in Nat /\ Start(n) \in Nat /\ pc = Start(n) + (Steps + 2)
  BY PlaceHere DEF AtOperand, Lead
<1>2. p = KeepPass(n + 1)
  BY <1>1, PlaceHere DEF PairAt, Steps
<1>3. p.do = "keep" /\ p.pair = n + 1
  BY <1>2 DEF KeepPass
<1> HIDE DEF p
<1>4. mag = [i \in Block |-> Half]
  BY OnwardIs DEF AtOperand, Here
<1>5. Changes(p) /\ UNCHANGED fixed /\ pc' = pc + 1 /\ keptPair' = n + 1 /\ pairs' = pairs
  BY <1>3, HistoryChanges DEF p
<1>6. keptMag' = mag /\ UNCHANGED <<mag, accMag>>
  BY <1>3, <1>5 DEF Changes
<1>7. Start(n)' = Start(n) /\ Square' = Square /\ Half' = Half /\ Steps' = Steps
  BY <1>5, FixedStays
<1>8. pc' = Start(n) + (Steps + 3)
  BY <1>1, <1>5
<1>9. Fit16(mag)
  BY <1>4, HalfIs DEF Fit16
<1>10. Fit16(mag)'
  BY <1>6, <1>9 DEF Fit16
<1>11. Accumulated(n)' /\ Stored(n + 1)'
  BY <1>4, <1>5, <1>6, <1>7 DEF AtOperand, Accumulated, Stored
<1>12. QED  BY <1>7, <1>8, <1>10, <1>11 DEF BetweenOperands

\* Loading the second operand.
LEMMA BetweenStep ==
  ASSUME Scheduled, ValuesNext, NEW n \in 0..(Rank - 1), BetweenOperands(n)
  PROVE  AtOperand(n, "secret", 0)'
<1> DEFINE p == program[pc]
           t == Onward("secret")
<1>1. p = SplitPass("secret", n + 1)
  BY PlaceHere DEF PairAt, BetweenOperands, Steps
<1>2. p.do = "split" /\ p.side = "secret" /\ p.pair = n + 1
  BY <1>1 DEF SplitPass
<1> HIDE DEF p
<1>3. /\ Changes(p) /\ UNCHANGED fixed /\ pc' = pc + 1
      /\ view'.of = "secret" /\ view'.pair = n + 1 /\ view'.at = Coefficients256(prime)
      /\ keptPair' = keptPair /\ pairs' = pairs
  BY <1>2, HistoryChanges DEF p, SourceAfter, PartsAfter
<1>4. mag' = [i \in Block |-> LoadedBound("secret", prime)] /\ UNCHANGED <<keptMag, accMag>>
  BY <1>2, <1>3 DEF Changes
<1>5. t[0].mag = [i \in Block |-> LoadedBound("secret", prime)] /\ t[0].at = Coefficients256(prime)
  BY OnwardIs
<1>6. /\ Onward("secret")' = t /\ Start(n)' = Start(n) /\ Square' = Square
      /\ Half' = Half /\ Steps' = Steps
  BY <1>3, FixedStays
<1>7. pc' = Start(n) + ((Steps + 3) + (0 + 1))
  <2>1. Start(n) \in Nat /\ Steps \in Nat /\ pc = Start(n) + (Steps + 3)
    BY PlaceHere DEF BetweenOperands
  <2>2. QED  BY <1>3, <2>1
<1>8. Accumulated(n)' /\ Stored(n + 1)'
  BY <1>3, <1>4, <1>6 DEF BetweenOperands, Accumulated, Stored
<1>9. QED  BY <1>3, <1>4, <1>5, <1>6, <1>7, <1>8 DEF AtOperand, Lead, Here

\* The second one's transform is complete, and the product accumulated.
LEMMA AccumulateStep ==
  ASSUME Scheduled, ValuesNext, NEW n \in 0..(Rank - 1), AtOperand(n, "secret", Steps)
  PROVE  AtPair(n + 1)'
<1> DEFINE p == program[pc]
<1>1. Steps \in Nat /\ Start(n) \in Nat /\ pc = Start(n) + (Steps + Steps + 4)
  BY PlaceHere DEF AtOperand, Lead
<1>2. p = PointwisePass(n + 1)
  BY <1>1, PlaceHere DEF PairAt, Steps
<1>3. p.do = "pointwise"
  BY <1>2 DEF PointwisePass
<1> HIDE DEF p
<1>4. mag = [i \in Block |-> Half] /\ view.at = RootParts(prime)
  BY OnwardIs DEF AtOperand, Here
<1>5. /\ Changes(p) /\ UNCHANGED fixed /\ pc' = pc + 1 /\ pairs' = pairs + 1
      /\ view'.at = view.at
  BY <1>3, HistoryChanges DEF p, PartsAfter
<1>6. accMag' = [i \in Block |-> accMag[i] + keptMag[i] * mag[i]] /\ UNCHANGED <<mag, keptMag>>
  BY <1>3, <1>5 DEF Changes
<1>7. /\ Start(n + 1)' = Start(n + 1) /\ Square' = Square /\ Half' = Half /\ prime' = prime
  BY <1>5, FixedStays DEF fixed
<1>8. pc' = Start(n + 1) + 1
  BY <1>1, <1>5, PlaceHere
<1>9. Fit16(mag)'
  <2>1. Fit16(mag)
    BY <1>4, HalfIs DEF Fit16
  <2>2. QED  BY <1>6, <2>1 DEF Fit16
<1>10. pairs' = n + 1 /\ accMag' = [i \in Block |-> (n + 1) * Square]
  <2>1. pairs = n /\ accMag = [i \in Block |-> n * Square] /\ keptMag = [i \in Block |-> Half]
    BY DEF AtOperand, Accumulated, Stored
  <2>2. n * Square + Half * Half = (n + 1) * Square
    <3>1. n \in Nat /\ Square \in Nat
      BY PlaceHere, HalfIs
    <3>2. \A s \in Nat : n * s + s = (n + 1) * s
      BY <3>1
    <3>3. QED  BY <3>1, <3>2 DEF Square
  <2>3. QED  BY <1>4, <1>5, <1>6, <2>1, <2>2
<1>11. Transformed'
  BY <1>4, <1>5, <1>7 DEF Transformed
<1>12. QED  BY <1>7, <1>8, <1>9, <1>10, <1>11 DEF AtPair, Accumulated

\* After the last pair the accumulators are reduced.
LEMMA ReductionStep ==
  ASSUME Scheduled, ValuesNext, AtPair(Rank)
  PROVE  AtSum(0)'
<1> DEFINE p == program[pc]
           t == Back
<1>1. p = ReducePass
  BY Places DEF EndAt, AtPair
<1>2. p.do = "reduce"
  BY <1>1 DEF ReducePass
<1>3. Start(Rank) \in Nat /\ Rank \in Nat /\ Rank > 0
  BY Places, RankIs
<1> HIDE DEF p
<1>4. /\ Changes(p) /\ UNCHANGED fixed /\ pc' = pc + 1
      /\ view'.of = "sum" /\ view'.at = view.at /\ pairs' = pairs
  BY <1>2, HistoryChanges DEF p, SourceAfter, PartsAfter
<1>5. mag' = [i \in Block |-> ReduceBound(accMag[i], prime)] /\ accMag' = accMag
  BY <1>2, <1>4 DEF Changes
<1>6. accMag = [i \in Block |-> Rank * Square] /\ view.at = RootParts(prime)
  BY <1>3 DEF AtPair, Accumulated, Transformed
<1>7. t[0].mag = [i \in Block |-> SumBound(Rank, prime)] /\ t[0].at = RootParts(prime)
  BY BackIs
<1>8. SumBound(Rank, prime) = ReduceBound(Rank * Square, prime)
  BY DEF SumBound, Square, Half
<1>9. mag' = t[0].mag
  BY <1>5, <1>6, <1>7, <1>8
<1>10. Back' = t /\ Start(Rank)' = Start(Rank) /\ Square' = Square
  BY <1>4, FixedStays
<1>11. pc' = Start(Rank) + (1 + (0 + 1))
  BY <1>3, <1>4 DEF AtPair
<1>12. Accumulated(Rank)'
  BY <1>4, <1>5, <1>10 DEF AtPair, Accumulated
<1>13. QED  BY <1>4, <1>6, <1>7, <1>9, <1>10, <1>11, <1>12 DEF AtSum, Here

\* One pass of the way back.
LEMMA BackStep ==
  ASSUME Scheduled, ValuesNext, NEW j \in 0..(StepsBack - 1), AtSum(j)
  PROVE  AtSum(j + 1)'
<1> DEFINE p == program[pc]
           G == Inverse(backend, prime)
           t == Back
<1>1. /\ j \in Nat /\ j + 1 \in 1..StepsBack /\ (j + 1) - 1 = j /\ Start(Rank) \in Nat
  BY Places, RankIs
<1>2. p = G[j + 1]
  BY <1>1, Places DEF EndAt, AtSum, StepsBack
<1> HIDE DEF G
<1>3. /\ InversePass(p, t[j], prime)
      /\ t[j + 1].mag = BoundsAfter(p, t[j].mag, prime)
      /\ t[j + 1].at = PartsAfter(p, t[j].at, prime)
  BY <1>1, <1>2, BackIs DEF G
<1>4. p.do \in {"gs", "barrett", "move"} /\ mag = t[j].mag /\ view.at = t[j].at
  BY <1>3 DEF InversePass, AtSum, Here
<1> HIDE DEF p, t
<1>5. /\ Changes(p) /\ UNCHANGED fixed /\ pc' = pc + 1
      /\ view'.of = view.of /\ view'.at = PartsAfter(p, view.at, prime) /\ pairs' = pairs
  BY <1>4, HistoryChanges DEF p, SourceAfter
<1>6. mag' = BoundsAfter(p, mag, prime) /\ accMag' = accMag
  BY <1>4, <1>5 DEF Changes
<1>7. mag' = t[j + 1].mag /\ view'.at = t[j + 1].at
  BY <1>3, <1>4, <1>5, <1>6
<1>8. Back' = t /\ Start(Rank)' = Start(Rank) /\ Square' = Square
  BY <1>5, FixedStays DEF t
<1>9. pc' = Start(Rank) + (1 + ((j + 1) + 1))
  BY <1>1, <1>5 DEF AtSum
<1>10. Accumulated(Rank)'
  BY <1>5, <1>6, <1>8 DEF AtSum, Accumulated
<1>11. QED  BY <1>5, <1>7, <1>8, <1>9, <1>10 DEF AtSum, Here

\* The last factor.
LEMMA FactorStep ==
  ASSUME Scheduled, ValuesNext, AtSum(StepsBack)
  PROVE  AtProduct'
<1> DEFINE p == program[pc]
<1>1. StepsBack \in Nat /\ Start(Rank) \in Nat /\ pc = Start(Rank) + (StepsBack + 2)
  BY Places, RankIs DEF AtSum
<1>2. p = ScalePass
  BY <1>1, Places DEF EndAt, StepsBack
<1>3. p.do = "scale"
  BY <1>2 DEF ScalePass
<1> HIDE DEF p
<1>4. InOrder(view.at) /\ \A i \in Block : MontBound(mag[i], InvNttScale(prime), prime) \in 0..(prime - 1)
  BY BackIs DEF InverseEnd, AtSum, Here
<1>5. /\ Changes(p) /\ UNCHANGED fixed /\ pc' = pc + 1
      /\ view'.of = "product" /\ view'.at = view.at /\ pairs' = pairs
  BY <1>3, HistoryChanges DEF p, SourceAfter, PartsAfter
<1>6. mag' = [i \in Block |-> MontBound(mag[i], InvNttScale(prime), prime)] /\ accMag' = accMag
  BY <1>3, <1>5 DEF Changes
<1>7. /\ Start(Rank)' = Start(Rank) /\ Square' = Square /\ StepsBack' = StepsBack /\ prime' = prime
  BY <1>5, FixedStays DEF fixed
<1>8. pc' = Start(Rank) + (StepsBack + 3)
  BY <1>1, <1>5
<1>9. Accumulated(Rank)'
  BY <1>5, <1>6, <1>7 DEF AtSum, Accumulated
<1>10. InOrder(view.at)'
  BY <1>4, <1>5 DEF InOrder
<1>11. \A i \in Block : mag'[i] \in 0..(prime' - 1)
  BY <1>4, <1>6, <1>7
<1>12. QED  BY <1>5, <1>7, <1>8, <1>9, <1>10, <1>11 DEF AtProduct

\* Nothing follows.
LEMMA ProductLast ==
  ASSUME Scheduled, AtProduct
  PROVE  pc > Len(program)
BY Places, RankIs DEF EndAt, AtProduct, StepsBack

\* Every pass leads from one phase to the next.
LEMMA StepHistory == HistoryInv /\ [ValuesNext]_valuesVars => HistoryInv'
<1> SUFFICES ASSUME HistoryInv, [ValuesNext]_valuesVars PROVE HistoryInv'
  OBVIOUS
<1>1. CASE ValuesNext
  <2>1. Scheduled /\ Scheduled' /\ UNCHANGED fixed
    BY <1>1, HistoryChanges DEF HistoryInv
  <2>2. Steps' = Steps /\ StepsBack' = StepsBack /\ Steps \in Nat /\ StepsBack \in Nat
    BY <2>1, FixedStays, Places
  <2>3. CASE \E n \in 0..Rank : AtPair(n)
    <3>1. PICK n \in 0..Rank : AtPair(n)
      BY <2>3
    <3>2. CASE n = Rank
      <4>1. AtSum(0)' /\ 0 \in 0..StepsBack'
        BY <1>1, <2>1, <2>2, <3>1, <3>2, ReductionStep
      <4>2. QED  BY <2>1, <4>1 DEF HistoryInv, Somewhere
    <3>3. CASE n # Rank
      <4>1. n \in 0..(Rank - 1)
        BY <3>3, RankIs
      <4>2. AtOperand(n, "public", 0)' /\ 0 \in 0..Steps'
        BY <1>1, <2>1, <2>2, <3>1, <4>1, PairStep
      <4>3. QED  BY <2>1, <4>1, <4>2 DEF HistoryInv, Somewhere
    <3>4. QED  BY <3>2, <3>3
  <2>4. CASE \E n \in 0..(Rank - 1), side \in {"public", "secret"}, j \in 0..Steps : AtOperand(n, side, j)
    <3>1. PICK n \in 0..(Rank - 1), side \in {"public", "secret"}, j \in 0..Steps : AtOperand(n, side, j)
      BY <2>4
    <3>2. CASE j # Steps
      <4>1. j \in 0..(Steps - 1) /\ j + 1 \in 0..Steps'
        BY <2>2, <3>2
      <4>2. AtOperand(n, side, j + 1)'
        BY <1>1, <2>1, <3>1, <4>1, OperandStep
      <4>3. QED  BY <2>1, <4>1, <4>2 DEF HistoryInv, Somewhere
    <3>3. CASE j = Steps /\ side = "public"
      <4>1. BetweenOperands(n)'
        BY <1>1, <2>1, <3>1, <3>3, KeptStep
      <4>2. QED  BY <2>1, <4>1 DEF HistoryInv, Somewhere
    <3>4. CASE j = Steps /\ side = "secret"
      <4>1. AtPair(n + 1)' /\ n + 1 \in 0..Rank
        BY <1>1, <2>1, <3>1, <3>4, AccumulateStep, PlaceHere
      <4>2. QED  BY <2>1, <4>1 DEF HistoryInv, Somewhere
    <3>5. QED  BY <3>2, <3>3, <3>4
  <2>5. CASE \E n \in 0..(Rank - 1) : BetweenOperands(n)
    <3>1. PICK n \in 0..(Rank - 1) : BetweenOperands(n)
      BY <2>5
    <3>2. AtOperand(n, "secret", 0)' /\ 0 \in 0..Steps'
      BY <1>1, <2>1, <2>2, <3>1, BetweenStep
    <3>3. QED  BY <2>1, <3>2 DEF HistoryInv, Somewhere
  <2>6. CASE \E j \in 0..StepsBack : AtSum(j)
    <3>1. PICK j \in 0..StepsBack : AtSum(j)
      BY <2>6
    <3>2. CASE j # StepsBack
      <4>1. j \in 0..(StepsBack - 1) /\ j + 1 \in 0..StepsBack'
        BY <2>2, <3>2
      <4>2. AtSum(j + 1)'
        BY <1>1, <2>1, <3>1, <4>1, BackStep
      <4>3. QED  BY <2>1, <4>1, <4>2 DEF HistoryInv, Somewhere
    <3>3. CASE j = StepsBack
      <4>1. AtProduct'
        BY <1>1, <2>1, <3>1, <3>3, FactorStep
      <4>2. QED  BY <2>1, <4>1 DEF HistoryInv, Somewhere
    <3>4. QED  BY <3>2, <3>3
  <2>7. CASE AtProduct
    <3>1. pc > Len(program) /\ pc <= Len(program)
      BY <1>1, <2>1, <2>7, ProductLast, HistoryChanges
    <3>2. Len(program) \in Nat /\ pc \in Nat
      BY <2>1, <2>7, Places, RankIs DEF EndAt, AtProduct, StepsBack
    <3>3. QED  BY <3>1, <3>2
  <2>8. QED  BY <2>3, <2>4, <2>5, <2>6, <2>7 DEF HistoryInv, Somewhere
<1>2. CASE UNCHANGED valuesVars
  <2>1. /\ UNCHANGED fixed /\ pc' = pc /\ mag' = mag /\ keptMag' = keptMag /\ accMag' = accMag
        /\ view' = view /\ keptPair' = keptPair /\ pairs' = pairs /\ backend' = backend
        /\ prime' = prime /\ program' = program
    BY <1>2 DEF valuesVars, vars, fixed
  <2>2. /\ \A n : Start(n)' = Start(n)
        /\ \A side : Onward(side)' = Onward(side) /\ Lead(side)' = Lead(side)
        /\ Back' = Back /\ Steps' = Steps /\ StepsBack' = StepsBack
        /\ \A n : Accumulated(n)' = Accumulated(n) /\ Stored(n)' = Stored(n)
        /\ Scheduled' = Scheduled /\ Fit16(mag)' = Fit16(mag) /\ InOrder(view.at)' = InOrder(view.at)
        /\ Transformed' = Transformed
    <3>1. /\ \A n : Start(n)' = Start(n)
          /\ \A side : Onward(side)' = Onward(side) /\ Lead(side)' = Lead(side)
          /\ Back' = Back /\ Steps' = Steps /\ StepsBack' = StepsBack
      BY <2>1, Zenon DEF Start, Onward, Lead, Back, Steps, StepsBack
    <3>2. Half' = Half /\ Square' = Square
      BY <2>1, Zenon DEF Square, Half
    <3>3. \A n : Accumulated(n)' = Accumulated(n) /\ Stored(n)' = Stored(n)
      BY <2>1, <3>2, Zenon DEF Accumulated, Stored
    <3>4. Scheduled' = Scheduled
      BY <2>1, Zenon DEF Scheduled
    <3>5. Fit16(mag)' = Fit16(mag)
      BY <2>1 DEF Fit16
    <3>6. InOrder(view.at)' = InOrder(view.at)
      BY <2>1 DEF InOrder
    <3>7. Transformed' = Transformed
      BY <2>1, Zenon DEF Transformed
    <3>8. QED  BY <3>1, <3>3, <3>4, <3>5, <3>6, <3>7
  <2>3. /\ \A n : AtPair(n)' = AtPair(n) /\ BetweenOperands(n)' = BetweenOperands(n)
        /\ \A n, side, j : AtOperand(n, side, j)' = AtOperand(n, side, j)
        /\ \A j : AtSum(j)' = AtSum(j)
        /\ AtProduct' = AtProduct
    BY <2>1, <2>2, Zenon DEF AtPair, AtOperand, BetweenOperands, AtSum, AtProduct, Here
  <2>4. QED  BY <2>2, <2>3, Zenon DEF HistoryInv, Somewhere
<1>3. QED  BY <1>1, <1>2

\* Where a transform stands, its bounds fit.
LEMMA OperandFits ==
  ASSUME Scheduled, NEW side \in {"public", "secret"}, NEW j \in 0..Steps, Here(Onward(side)[j])
  PROVE  Fit16(mag)
<1> DEFINE t == Onward(side)
           F == Forward(backend, prime)
<1>1. CASE j # Steps
  <2>1. j + 1 \in 1..Steps /\ (j + 1) - 1 = j
    BY <1>1, Places
  <2>2. ForwardPass(F[j + 1], t[j], prime)
    BY <2>1, OnwardIs
  <2>3. QED  BY <2>2 DEF ForwardPass, Here
<1>2. CASE j = Steps
  <2>1. mag = [i \in Block |-> Half]
    BY <1>2, OnwardIs DEF Here
  <2>2. QED  BY <2>1, HalfIs DEF Fit16
<1>3. QED  BY <1>1, <1>2

LEMMA SumFits ==
  ASSUME Scheduled, NEW j \in 0..StepsBack, Here(Back[j])
  PROVE  Fit16(mag)
<1> DEFINE t == Back
           G == Inverse(backend, prime)
<1>1. CASE j # StepsBack
  <2>1. j + 1 \in 1..StepsBack /\ (j + 1) - 1 = j
    BY <1>1, Places
  <2>2. InversePass(G[j + 1], t[j], prime)
    BY <2>1, BackIs
  <2>3. QED  BY <2>2 DEF InversePass, Here
<1>2. CASE j = StepsBack
  BY <1>2, BackIs DEF InverseEnd, Here
<1>3. QED  BY <1>1, <1>2

\* What the phases have in common.
LEMMA Everywhere ==
  ASSUME HistoryInv
  PROVE  /\ Fit16(mag) /\ \E n \in 0..Rank : Accumulated(n)
         /\ Finished => AtProduct
<1>1. Scheduled /\ Rank \in Nat /\ Rank \in 0..Rank /\ Steps \in Nat /\ StepsBack \in Nat
  BY Places, RankIs DEF HistoryInv
<1>2. /\ Start(Rank) \in Nat /\ Len(program) = Start(Rank) + (StepsBack + 2)
      /\ \A n \in 0..(Rank - 1) :
           Start(n) \in Nat /\ Start(n) + (Steps + Steps + 4) = Start(n + 1) /\ Start(n + 1) < Len(program)
  BY <1>1, Places, PlaceHere DEF EndAt, StepsBack
<1>3. CASE \E n \in 0..Rank : AtPair(n)
  <2>1. PICK n \in 0..Rank : AtPair(n)
    BY <1>3
  <2>2. Start(n) \in Nat /\ Start(n) < Len(program)
    BY <1>1, Places
  <2>3. pc = Start(n) + 1 /\ Len(program) \in Nat
    BY <1>1, <1>2, <2>1 DEF AtPair
  <2>4. ~Finished
    BY <2>2, <2>3 DEF Finished
  <2>5. QED  BY <2>1, <2>4 DEF AtPair
<1>4. CASE \E n \in 0..(Rank - 1), side \in {"public", "secret"}, j \in 0..Steps : AtOperand(n, side, j)
  <2>1. PICK n \in 0..(Rank - 1), side \in {"public", "secret"}, j \in 0..Steps : AtOperand(n, side, j)
    BY <1>4
  <2>2. pc = Start(n) + (Lead(side) + (j + 1)) /\ Lead(side) \in Nat /\ Lead(side) <= Steps + 3
    BY <1>1, <2>1 DEF AtOperand, Lead
  <2>3. pc <= Start(n + 1) /\ pc \in Nat
    <3>1. Start(n) \in Nat /\ Start(n) + (Steps + Steps + 4) = Start(n + 1)
      BY <1>2
    <3>2. QED  BY <1>1, <2>2, <3>1
  <2>4. ~Finished
    <3>1. Start(n + 1) \in Nat /\ Start(n + 1) < Len(program) /\ Len(program) \in Nat
      BY <1>1, <1>2
    <3>2. QED  BY <2>3, <3>1 DEF Finished
  <2>5. Fit16(mag) /\ n \in 0..Rank
    BY <1>1, <2>1, OperandFits DEF AtOperand
  <2>6. QED  BY <2>1, <2>4, <2>5 DEF AtOperand
<1>5. CASE \E n \in 0..(Rank - 1) : BetweenOperands(n)
  <2>1. PICK n \in 0..(Rank - 1) : BetweenOperands(n)
    BY <1>5
  <2>2. pc <= Start(n + 1) /\ pc \in Nat
    <3>1. Start(n) \in Nat /\ Start(n) + (Steps + Steps + 4) = Start(n + 1)
      BY <1>2
    <3>2. pc = Start(n) + (Steps + 3)
      BY <2>1 DEF BetweenOperands
    <3>3. QED  BY <1>1, <3>1, <3>2
  <2>3. ~Finished /\ n \in 0..Rank
    <3>1. Start(n + 1) \in Nat /\ Start(n + 1) < Len(program) /\ Len(program) \in Nat
      BY <1>1, <1>2
    <3>2. QED  BY <1>1, <2>2, <3>1 DEF Finished
  <2>4. QED  BY <2>1, <2>3 DEF BetweenOperands
<1>6. CASE \E j \in 0..StepsBack : AtSum(j)
  <2>1. PICK j \in 0..StepsBack : AtSum(j)
    BY <1>6
  <2>2. Fit16(mag)
    BY <1>1, <2>1, SumFits DEF AtSum
  <2>3. ~Finished
    BY <1>1, <1>2, <2>1 DEF AtSum, Finished
  <2>4. QED  BY <1>1, <2>1, <2>2, <2>3 DEF AtSum
<1>7. CASE AtProduct
  <2>1. prime \in {7681, 10753}
    BY <1>1 DEF Scheduled, Primes
  <2>2. Fit16(mag)
    BY <1>7, <2>1 DEF AtProduct, Fit16
  <2>3. QED  BY <1>1, <1>7, <2>2 DEF AtProduct
<1>8. QED  BY <1>3, <1>4, <1>5, <1>6, <1>7 DEF HistoryInv, Somewhere

\* What the phases say of the bounds.
LEMMA FitsFollows ==
  ASSUME HistoryInv
  PROVE  Fits
<1>1. Scheduled /\ Rank <= 4 /\ Rank \in Nat
  BY RankIs DEF HistoryInv
<1>2. PICK n \in 0..Rank : Accumulated(n)
  BY Everywhere
<1>3. n * Square < 32768 * prime
  <2>1. n \in 0..4
    BY <1>1
  <2>2. QED  BY <1>1, <2>1, HalfIs
<1>4. \A i \in Block : accMag[i] < 32768 * prime
  BY <1>2, <1>3 DEF Accumulated
<1>5. \A i \in Block : mag[i] <= 32767
  BY Everywhere DEF Fit16
<1>6. Finished => \A i \in Block : mag[i] < prime
  <2>1. prime \in {7681, 10753}
    BY <1>1 DEF Scheduled, Primes
  <2>2. Finished => \A i \in Block : mag[i] \in 0..(prime - 1)
    BY Everywhere DEF AtProduct
  <2>3. QED  BY <2>1, <2>2
<1>7. QED  BY <1>4, <1>5, <1>6 DEF Fits

\* The passes of the two kinds of transform fit.
LEMMA FittingFollows ==
  ASSUME HistoryInv
  PROVE  Fitting
<1> DEFINE p == program[pc]
           F == Forward(backend, prime)
           G == Inverse(backend, prime)
<1>1. Scheduled /\ Rank \in Nat /\ Steps \in Nat /\ StepsBack \in Nat /\ (Finished => AtProduct)
  BY Places, RankIs, Everywhere DEF HistoryInv
<1> SUFFICES ASSUME ~Finished PROVE PassFits(p)
  BY <1>1 DEF Fitting, AtProduct
<1>2. CASE \E n \in 0..Rank : AtPair(n)
  <2>1. PICK n \in 0..Rank : AtPair(n)
    BY <1>2
  <2>2. CASE n = Rank
    <3>1. p = ReducePass
      BY <1>1, <2>1, <2>2, Places DEF EndAt, AtPair
    <3>2. p.do = "reduce"
      BY <3>1 DEF ReducePass
    <3>3. pairs = Rank /\ Transformed
      BY <2>1, <2>2, RankIs DEF AtPair, Accumulated
    <3>4. QED  BY <3>2, <3>3 DEF PassFits
  <2>3. CASE n # Rank
    <3>1. n \in 0..(Rank - 1)
      BY <1>1, <2>3
    <3>2. p = SplitPass("public", n + 1)
      BY <1>1, <2>1, <3>1, PlaceHere DEF PairAt, AtPair
    <3>3. p.do = "split"
      BY <3>2 DEF SplitPass
    <3>4. QED  BY <3>3 DEF PassFits
  <2>4. QED  BY <2>2, <2>3
<1>3. CASE \E n \in 0..(Rank - 1), side \in {"public", "secret"}, j \in 0..Steps : AtOperand(n, side, j)
  <2>1. PICK n \in 0..(Rank - 1), side \in {"public", "secret"}, j \in 0..Steps : AtOperand(n, side, j)
    BY <1>3
  <2>2. CASE j # Steps
    <3>1. j + 1 \in 1..Steps /\ (j + 1) - 1 = j
      BY <1>1, <2>2
    <3>2. p = F[j + 1]
      BY <1>1, <2>1, <3>1, PlaceHere DEF PairAt, AtOperand, Lead, Steps
    <3>3. ForwardPass(p, Onward(side)[j], prime)
      BY <1>1, <3>1, <3>2, OnwardIs
    <3> HIDE DEF p
    <3>4. p.do \in {"ct", "barrett", "move"} /\ (p.do = "ct" => \A i \in p.low : Splits(p, view.at, prime, i))
      BY <2>1, <3>3 DEF ForwardPass, AtOperand, Here
    <3>5. view.of \in {"public", "secret"}
      BY <2>1 DEF AtOperand
    <3>6. QED  BY <3>4, <3>5 DEF PassFits
  <2>3. CASE j = Steps
    <3>1. view.of = side /\ view.pair = n + 1 /\ pairs = n /\ (side = "secret" => keptPair = n + 1)
      BY <2>1 DEF AtOperand, Accumulated, Stored
    <3>2. Transformed /\ \A i \in Block : mag[i] <= Half
      <4>1. mag = [i \in Block |-> Half] /\ view.at = RootParts(prime)
        BY <1>1, <2>1, <2>3, OnwardIs DEF AtOperand, Here
      <4>2. QED  BY <1>1, <4>1, HalfIs DEF Transformed
    <3>3. CASE side = "public"
      <4>1. p = KeepPass(n + 1)
        BY <1>1, <2>1, <2>3, <3>3, PlaceHere DEF PairAt, AtOperand, Lead, Steps
      <4>2. p.do = "keep" /\ p.side = "public" /\ p.pair = n + 1
        BY <4>1 DEF KeepPass
      <4> HIDE DEF p
      <4>3. QED  BY <3>1, <3>2, <3>3, <4>2 DEF PassFits
    <3>4. CASE side = "secret"
      <4>1. p = PointwisePass(n + 1)
        BY <1>1, <2>1, <2>3, <3>4, PlaceHere DEF PairAt, AtOperand, Lead, Steps
      <4>2. p.do = "pointwise" /\ p.side = "secret" /\ p.pair = n + 1
        BY <4>1 DEF PointwisePass
      <4> HIDE DEF p
      <4>3. QED  BY <3>1, <3>2, <3>4, <4>2 DEF PassFits
    <3>5. QED  BY <3>3, <3>4
  <2>4. QED  BY <2>2, <2>3
<1>4. CASE \E n \in 0..(Rank - 1) : BetweenOperands(n)
  <2>1. PICK n \in 0..(Rank - 1) : BetweenOperands(n)
    BY <1>4
  <2>2. p = SplitPass("secret", n + 1)
    BY <1>1, <2>1, PlaceHere DEF PairAt, BetweenOperands, Steps
  <2>3. p.do = "split"
    BY <2>2 DEF SplitPass
  <2>4. QED  BY <2>3 DEF PassFits
<1>5. CASE \E j \in 0..StepsBack : AtSum(j)
  <2>1. PICK j \in 0..StepsBack : AtSum(j)
    BY <1>5
  <2>2. CASE j # StepsBack
    <3>1. j + 1 \in 1..StepsBack /\ (j + 1) - 1 = j
      BY <1>1, <2>2
    <3>2. p = G[j + 1]
      BY <1>1, <2>1, <3>1, Places DEF EndAt, AtSum, StepsBack
    <3>3. InversePass(p, Back[j], prime)
      BY <1>1, <3>1, <3>2, BackIs
    <3> HIDE DEF p
    <3>4. p.do \in {"gs", "barrett", "move"} /\ (p.do = "gs" => \A i \in p.low : Joins(p, view.at, prime, i))
      BY <2>1, <3>3 DEF InversePass, AtSum, Here
    <3>5. QED  BY <2>1, <3>4 DEF PassFits, AtSum
  <2>3. CASE j = StepsBack
    <3>1. p = ScalePass
      BY <1>1, <2>1, <2>3, Places DEF EndAt, AtSum, StepsBack
    <3>2. p.do = "scale"
      BY <3>1 DEF ScalePass
    <3>3. view.of = "sum" /\ InOrder(view.at)
      BY <1>1, <2>1, <2>3, BackIs DEF InverseEnd, AtSum, Here
    <3>4. QED  BY <3>2, <3>3 DEF PassFits
  <2>4. QED  BY <2>2, <2>3
<1>6. CASE AtProduct
  BY <1>1, <1>6, ProductLast, Places, RankIs DEF Finished
<1>7. QED  BY <1>1, <1>2, <1>3, <1>4, <1>5, <1>6 DEF HistoryInv, Somewhere

\* The schedules of the code are always in one of the phases of HistoryInv: so many
\* pairs accumulated, so many passes into an operand's transform, or into the way
\* back, with the bounds and the parts that the tables of Transforms give.
THEOREM HistoryHolds == ValuesSpec => []HistoryInv
<1>1. ValuesInit => HistoryInv
  BY InitHistory
<1>2. HistoryInv /\ [ValuesNext]_valuesVars => HistoryInv'
  BY StepHistory
<1>3. QED  BY <1>1, <1>2, PTL DEF ValuesSpec

\* On every backend, for both primes and at every rank, no bound of the code's
\* schedules ever leaves what its lane can hold: the i16 lanes, the i32 accumulators
\* before their reduction, the residues at the end.
THEOREM FitsHolds == ValuesSpec => []Fits
<1>1. HistoryInv => Fits
  BY FitsFollows
<1>2. QED  BY <1>1, HistoryHolds, PTL

\* Every pass of the code's schedules finds the lanes standing for what it expects:
\* the roots and layout of its level, the pair in its order, complete transforms.
THEOREM FittingHolds == ValuesSpec => []Fitting
<1>1. HistoryInv => Fitting
  BY FittingFollows
<1>2. QED  BY <1>1, HistoryHolds, PTL

\* The schedule of values is one of the lanes.
LEMMA ValuesAreLanes == ValuesSpec => Spec
<1>1. ValuesInit => Init
  BY DEF ValuesInit
<1>2. [ValuesNext]_valuesVars => [Next]_vars
  BY DEF ValuesNext, valuesVars
<1>3. QED  BY <1>1, <1>2, PTL DEF ValuesSpec, Spec

\* So no lane of the code's inner products ever leaves its bound, whatever the
\* operands: no multiplication, addition or accumulation of a pass overflows.
THEOREM ScheduledBounded == ValuesSpec => []Bounded
BY ValuesAreLanes, FitsHolds, BoundedHolds, PTL

\* What the CRT step receives is within one prime of zero.
THEOREM ScheduledCanonical == ValuesSpec => []Canonical
BY ValuesAreLanes, FitsHolds, CanonicalHolds, PTL

\* Modulo the prime the code's passes are those of exact arithmetic.
THEOREM ScheduledResidues == ValuesSpec => ComputesResidues
BY ValuesAreLanes, FitsHolds, Refinement, PTL

\* Every backend's forward transform is the evaluation at the powers of psi, as the
\* centred residues: after it the backends hold the same integers.
THEOREM ScheduledEvaluates == ValuesSpec => []Evaluates
BY FitsHolds, FittingHolds, EvaluatesHolds, PTL

\* And what every backend hands to the CRT step, whatever the operands and at each
\* rank, are the residues of the sum of their negacyclic products.
THEOREM ScheduledExact == ValuesSpec => []Exact
BY FitsHolds, FittingHolds, ExactHolds, PTL
=============================================================================

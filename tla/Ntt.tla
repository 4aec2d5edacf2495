---------------------------------- MODULE Ntt ----------------------------------
(***************************************************************************)
(* The inner product of ring elements modulo one prime, as the passes of a *)
(* schedule run on a block of 16-bit lanes: the transforms, the pointwise  *)
(* accumulation and the final reduction of src/src/arithmetic/ntt_crt.rs   *)
(* and of its AVX2 and NEON twins.  The schedules are a constant: the      *)
(* code's own are in module Schedules.                                     *)
(*                                                                         *)
(* Beside each lane runs the largest magnitude that any operands could     *)
(* have brought to it (BoundsAfter of Montgomery).                         *)
(***************************************************************************)
EXTENDS Lanes, Sequences

CONSTANTS Rank,    \* pairs of operands
          Plans,   \* what may run: a backend, a prime and a sequence of passes
          Inputs   \* the operands considered

Within(m) == -m..m

ButterflyOK(p, q) ==
  /\ p.low \subseteq Block
  /\ p.gap \in Block
  /\ \A i \in p.low : i + p.gap \in Block \ p.low
  /\ p.zeta \in [p.low -> Within(q \div 2)]

PassOK(p, q) ==
  \/ p.do \in {"ct", "gs"} /\ ButterflyOK(p, q)
  \/ p.do = "barrett" /\ p.at \subseteq Block
  \/ p.do = "move" /\ p.from \in [Block -> Block]
  \/ p.do \in {"split", "keep", "pointwise"} /\ p.side \in {"public", "secret"} /\ p.pair \in 1..Rank
  \/ p.do \in {"reduce", "scale"}

ASSUME PlansAssumption ==
  \A s \in Plans :
    /\ s.prime \in Primes
    /\ s.backend \in {"portable", "avx2", "neon"}
    /\ Len(s.passes) \in Nat
    /\ \A n \in 1..Len(s.passes) : PassOK(s.passes[n], s.prime)

Coefficients == 0..8191
Secrets == Within(WidestSecret)

ASSUME InputsAssumption ==
  Inputs \subseteq [public : [1..Rank -> [Block -> Coefficients]],
                    secret : [1..Rank -> [Block -> Secrets]]]

VARIABLES backend, prime, program, input,  \* fixed at the start
          pc,                 \* the next pass
          block,              \* the 256 lanes in work
          kept,               \* the transform of the pair's public operand
          acc,                \* the 32-bit accumulators
          mag, keptMag, accMag  \* history: bounds on the three above

fixed == <<backend, prime, program, input>>
vars == <<fixed, pc, block, kept, acc, mag, keptMag, accMag>>
-----------------------------------------------------------------------------
Finished == pc > Len(program)

Mul(a, z) == IF backend = "neon" THEN NeonMontMul(a, z, prime) ELSE MontMul(a, z, prime)
Recentre(x) == IF backend = "neon" THEN NeonBarrett(x, prime) ELSE Barrett(x, prime)

Half == prime \div 2

Init ==
  /\ \E s \in Plans : backend = s.backend /\ prime = s.prime /\ program = s.passes
  /\ input \in Inputs
  /\ pc = 1
  /\ block = [i \in Block |-> 0]
  /\ kept = [i \in Block |-> 0]
  /\ acc = [i \in Block |-> 0]
  /\ mag = [i \in Block |-> 0]
  /\ keptMag = [i \in Block |-> 0]
  /\ accMag = [i \in Block |-> 0]

Run(kinds) ==
  /\ pc <= Len(program)
  /\ program[pc].do \in kinds
  /\ pc' = pc + 1
  /\ UNCHANGED fixed

\* A public operand is reduced to centred residues, a secret one is centred.
Split ==
  /\ Run({"split"})
  /\ LET p == program[pc]
         x == input[p.side][p.pair]
     IN  IF p.side = "public"
         THEN /\ block' = [i \in Block |-> Recentre(x[i])]
              /\ mag' = [i \in Block |-> Half]
         ELSE /\ block' = x
              /\ mag' = [i \in Block |-> WidestSecret]
  /\ UNCHANGED <<kept, acc, keptMag, accMag>>

\* (lo, hi) <- (lo + zeta * hi, lo - zeta * hi)
CtLevel ==
  /\ Run({"ct"})
  /\ LET p == program[pc]
         t(i) == Mul(block[i + p.gap], p.zeta[i])
     IN  /\ block' = [i \in Block |->
              CASE i \in p.low         -> I16(block[i] + t(i))
                [] i - p.gap \in p.low -> I16(block[i - p.gap] - t(i - p.gap))
                [] OTHER               -> block[i]]
         /\ mag' = BoundsAfter(p, mag, prime)
  /\ UNCHANGED <<kept, acc, keptMag, accMag>>

\* (lo, hi) <- (lo + hi, zeta * (lo - hi)), with the root negated already
GsLevel ==
  /\ Run({"gs"})
  /\ LET p == program[pc]
         lo(i) == block[i - p.gap]
     IN  /\ block' = [i \in Block |->
              CASE i \in p.low         -> I16(block[i] + block[i + p.gap])
                [] i - p.gap \in p.low -> Mul(I16(lo(i) - block[i]), p.zeta[i - p.gap])
                [] OTHER               -> block[i]]
         /\ mag' = BoundsAfter(p, mag, prime)
  /\ UNCHANGED <<kept, acc, keptMag, accMag>>

BarrettBlock ==
  /\ Run({"barrett"})
  /\ LET p == program[pc]
     IN  /\ block' = [i \in Block |-> IF i \in p.at THEN Recentre(block[i]) ELSE block[i]]
         /\ mag' = BoundsAfter(p, mag, prime)
  /\ UNCHANGED <<kept, acc, keptMag, accMag>>

Transpose ==
  /\ Run({"move"})
  /\ LET p == program[pc]
     IN  /\ block' = [i \in Block |-> block[p.from[i]]]
         /\ mag' = BoundsAfter(p, mag, prime)
  /\ UNCHANGED <<kept, acc, keptMag, accMag>>

\* The first operand's transform is stored.
Keep ==
  /\ Run({"keep"})
  /\ kept' = block
  /\ keptMag' = mag
  /\ UNCHANGED <<block, acc, mag, accMag>>

\* Lane j of the product of the two transforms, and of the reduction of the
\* accumulators: a vector backend computes a whole vector at once.
Product(j) ==
  CASE backend = "portable" -> kept[j] * block[j]
    [] backend = "avx2" -> Avx2Products(Vector(16, kept, j), Vector(16, block, j))[j % 16]
    [] backend = "neon" -> NeonProducts(Vector(8, kept, j), Vector(8, block, j))[j % 8]

ReducedLane(j) ==
  CASE backend = "portable" -> MontReduce(acc[j], prime)
    [] backend = "avx2" -> Avx2Reduce(Vector(16, acc, j), prime)[j % 16]
    [] backend = "neon" -> NeonReduce(Vector(8, acc, j), prime)[j % 8]

PointwiseMulAcc ==
  /\ Run({"pointwise"})
  /\ acc' = [i \in Block |-> acc[i] + Product(i)]
  /\ accMag' = [i \in Block |-> accMag[i] + keptMag[i] * mag[i]]
  /\ UNCHANGED <<block, kept, mag, keptMag>>

ReduceBlock ==
  /\ Run({"reduce"})
  /\ block' = [i \in Block |-> ReducedLane(i)]
  /\ mag' = [i \in Block |-> ReduceBound(accMag[i], prime)]
  /\ UNCHANGED <<kept, acc, keptMag, accMag>>

\* The factor that undoes the transform's 256 and both Montgomery factors.
ScaleBlock ==
  /\ Run({"scale"})
  /\ block' = [i \in Block |-> Mul(block[i], InvNttScale(prime))]
  /\ mag' = [i \in Block |-> MontBound(mag[i], InvNttScale(prime), prime)]
  /\ UNCHANGED <<kept, acc, keptMag, accMag>>

Next ==
  \/ Split \/ CtLevel \/ GsLevel \/ BarrettBlock \/ Transpose
  \/ Keep \/ PointwiseMulAcc \/ ReduceBlock \/ ScaleBlock

Spec == Init /\ [][Next]_vars
-----------------------------------------------------------------------------
TypeOK ==
  /\ \E s \in Plans : backend = s.backend /\ prime = s.prime /\ program = s.passes
  /\ prime \in Primes /\ backend \in {"portable", "avx2", "neon"} /\ input \in Inputs
  /\ pc \in Nat \ {0}
  /\ block \in [Block -> Int] /\ kept \in [Block -> Int] /\ acc \in [Block -> Int]
  /\ mag \in [Block -> Nat] /\ keptMag \in [Block -> Nat] /\ accMag \in [Block -> Nat]

\* No lane and no accumulator ever exceeds the bound propagated to it, whatever
\* the operands.
Bounded ==
  /\ \A i \in Block : block[i] \in Within(mag[i])
  /\ \A i \in Block : kept[i] \in Within(keptMag[i])
  /\ \A i \in Block : acc[i] \in Within(accMag[i])

\* The bounds fit: lanes in 16 bits, accumulators in the range of the Montgomery
\* reduction, and the result is less than one prime in magnitude, which is what
\* canonicalising it by one conditional addition needs (ntt_crt.rs:412-414).
Fits ==
  /\ \A i \in Block : mag[i] <= 32767 /\ accMag[i] < 32768 * prime
  /\ Finished => \A i \in Block : mag[i] < prime

\* Lane by lane, the passes are those of exact arithmetic modulo the prime: what
\* reductions, signs, Montgomery forms, widening products and packs do is not
\* seen in the residues, and the backends differ in nothing else
\* (ntt_crt.rs:16-24).
Exactly ==
  INSTANCE Residues WITH
    block <- [i \in Block |-> block[i] % prime],
    kept  <- [i \in Block |-> kept[i] % prime],
    acc   <- [i \in Block |-> acc[i] % prime]
ComputesResidues == Exactly!Spec
=============================================================================

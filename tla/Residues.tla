-------------------------------- MODULE Residues -------------------------------
(***************************************************************************)
(* What a schedule of passes means: the same passes on residues modulo the *)
(* prime, in exact arithmetic.  No lane has a width, no reduction is       *)
(* needed, table entries are the roots they stand for, and nothing depends *)
(* on a backend.                                                           *)
(***************************************************************************)
EXTENDS Montgomery, Sequences

CONSTANTS Plans, Inputs

VARIABLES prime, program, input, pc, block, kept, acc

vars == <<prime, program, input, pc, block, kept, acc>>

\* The residue that a number in Montgomery form stands for.
Unscaled(z) == (z * Radix(prime)) % prime

Init ==
  /\ \E s \in Plans : prime = s.prime /\ program = s.passes
  /\ input \in Inputs
  /\ pc = 1
  /\ block = [i \in Block |-> 0]
  /\ kept = [i \in Block |-> 0]
  /\ acc = [i \in Block |-> 0]

\* A change of the block by the pass at hand.
Pass(kind, lane(_, _)) ==
  /\ program[pc].do = kind
  /\ block' = [i \in Block |-> lane(program[pc], i)]
  /\ UNCHANGED <<kept, acc>>

Operand(p, i) == input[p.side][p.pair][i] % prime

Twiddled(p, i) == (block[i + p.gap] * Unscaled(p.zeta[i])) % prime
Forward(p, i) ==
  CASE i \in p.low         -> (block[i] + Twiddled(p, i)) % prime
    [] i - p.gap \in p.low -> (block[i - p.gap] - Twiddled(p, i - p.gap)) % prime
    [] OTHER               -> block[i]

Inverse(p, i) ==
  CASE i \in p.low         -> (block[i] + block[i + p.gap]) % prime
    [] i - p.gap \in p.low -> ((block[i - p.gap] - block[i]) * Unscaled(p.zeta[i - p.gap])) % prime
    [] OTHER               -> block[i]

Same(p, i) == block[i]
Moved(p, i) == block[p.from[i]]
Sum(p, i) == Unscaled(acc[i])
Final(p, i) == (block[i] * Unscaled(InvNttScale(prime))) % prime

Keep ==
  /\ program[pc].do = "keep"
  /\ kept' = block
  /\ UNCHANGED <<block, acc>>

Accumulate ==
  /\ program[pc].do = "pointwise"
  /\ acc' = [i \in Block |-> (acc[i] + kept[i] * block[i]) % prime]
  /\ UNCHANGED <<block, kept>>

Next ==
  /\ pc <= Len(program)
  /\ pc' = pc + 1
  /\ UNCHANGED <<prime, program, input>>
  /\ \/ Pass("split", Operand)
     \/ Pass("ct", Forward)
     \/ Pass("gs", Inverse)
     \/ Pass("barrett", Same)
     \/ Pass("move", Moved)
     \/ Pass("reduce", Sum)
     \/ Pass("scale", Final)
     \/ Keep
     \/ Accumulate

Spec == Init /\ [][Next]_vars
=============================================================================

------------------------------- MODULE NttValues -------------------------------
(***************************************************************************)
(* What the transforms compute: the code's schedules run on given          *)
(* operands, against the negacyclic transform and product they stand for.  *)
(* Beside the lanes runs a history of what each of them stands for (module *)
(* Parts).  Like the bounds it evolves by the schedule alone, whatever the *)
(* operands.                                                               *)
(***************************************************************************)
EXTENDS Ntt, Parts

VARIABLES view,      \* history: what the lanes stand for
          keptPair,  \* history: the pair whose public operand is kept
          pairs      \* history: the number of pairs accumulated

valuesVars == <<vars, view, keptPair, pairs>>

AllRoots(q) ==
  LET powers == PowerTable(q) IN \A i \in Block : IsRoot(RootPowers(powers, i), q)

ASSUME RootsAssumption == \A q \in Primes : AllRoots(q)

\* What runs are the code's schedules, at one of its ranks.
ASSUME ScheduledAssumption ==
  /\ Rank \in 1..MaxRank
  /\ \A s \in Plans : s.passes = Program(s.backend, s.prime, Rank)

\* The polynomial they are parts of: an operand, the sum of the products, or
\* that sum with all factors undone.
SourceAfter(p) ==
  CASE p.do = "split"  -> p.side
    [] p.do = "reduce" -> "sum"
    [] p.do = "scale"  -> "product"
    [] OTHER           -> view.of

ValuesInit ==
  /\ Init
  /\ view = [of |-> "none", pair |-> 0, at |-> [i \in Block |-> Part(0, 1, 0)]]
  /\ keptPair = 0
  /\ pairs = 0

ValuesNext ==
  /\ Next
  /\ LET p == program[pc]
     IN  /\ view' = [of |-> SourceAfter(p),
                     pair |-> IF p.do = "split" THEN p.pair ELSE view.pair,
                     at |-> PartsAfter(p, view.at, prime)]
         /\ keptPair' = IF p.do = "keep" THEN p.pair ELSE keptPair
         /\ pairs' = IF p.do = "pointwise" THEN pairs + 1 ELSE pairs

ValuesSpec == ValuesInit /\ [][ValuesNext]_valuesVars
-----------------------------------------------------------------------------
Transformed == view.at = RootParts(prime)

\* Every pass of the schedule fits what the lanes stand for when it runs: the
\* roots and the layout of each level, the order of the pairs, each transform
\* complete and centred before it is used, the factors undone once and last.
PassFits(p) ==
  /\ p.do = "ct" => view.of \in {"public", "secret"} /\ \A i \in p.low : Splits(p, view.at, prime, i)
  /\ p.do = "gs" => view.of = "sum" /\ \A i \in p.low : Joins(p, view.at, prime, i)
  /\ p.do \in {"keep", "pointwise"} =>
       /\ p.side = IF p.do = "keep" THEN "public" ELSE "secret"
       /\ view.of = p.side /\ view.pair = p.pair /\ p.pair = pairs + 1
       /\ p.do = "pointwise" => keptPair = p.pair
       /\ Transformed /\ \A i \in Block : mag[i] <= Half
  /\ p.do = "reduce" => pairs = Rank /\ Transformed
  /\ p.do = "scale" => view.of = "sum" /\ InOrder(view.at)

Fitting ==
  IF Finished THEN view.of = "product" /\ InOrder(view.at) ELSE PassFits(program[pc])
-----------------------------------------------------------------------------
\* The centred transform of the operand a pass is about.
Transform ==
  LET p == program[pc]
      powers == PowerTable(prime)
  IN  [i \in Block |->
         Centred(ValueAt(input[p.side][p.pair], RootPowers(powers, i), prime), prime)]

\* Whatever the schedule and the layout of its inner levels, the forward
\* transform leaves at position i the operand's value at that power of psi, as
\* the centred residue: the backends' transforms are the same integers.
Evaluates ==
  ~Finished /\ program[pc].do \in {"keep", "pointwise"} => block = Transform

\* ntt_crt.rs:22-23: "Only the endpoints of the pipeline agree between
\* implementations -- the NTT-domain values are different integers".
DomainValuesDiffer ==
  ~Finished /\ program[pc].do = "keep" /\ backend # "portable" => block # Transform

\* The residues that the CRT step receives are those of the sum of the negacyclic
\* products of the operands.
Exact ==
  Finished =>
    \A k \in Block : (block[k] - NegacyclicSum(input.public, input.secret, Rank, k, prime)) % prime = 0
=============================================================================

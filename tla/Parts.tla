---------------------------------- MODULE Parts --------------------------------
(***************************************************************************)
(* What the lanes of a block stand for while a schedule runs: each a part  *)
(* of a polynomial, namely the coefficients at off, off + len, off + 2 len *)
(* and so on, taken at a root.  A lane starts as one coefficient, a        *)
(* Cooley-Tukey level halves len until a lane is the whole polynomial at a *)
(* root of X^256 + 1, and the inverse levels go back.                      *)
(***************************************************************************)
EXTENDS Schedules, Sums

\* The function f as a table: TLC computes its values once, not at every use.
Table(f) == CHOOSE g \in {f} : g = f

Part(off, len, root) == [off |-> off, len |-> len, root |-> root]

\* The powers of psi as a table, and those that are the powers of the root of
\* X^256 + 1 that belongs to position i in bit-reversed order.
PowerTable(q) == Table(Powers(q))
RootPowers(powers, i) == [j \in Block |-> powers[(j * (2 * Brv8(i) + 1)) % 512]]

\* An operand as loaded, and transformed.
Coefficients256(q) == [i \in Block |-> Part(i, 256, q - 1)]
RootParts(q) ==
  LET powers == PowerTable(q) IN [i \in Block |-> Part(0, 1, RootPowers(powers, i)[1])]

\* The root that the butterfly at i multiplies by, out of Montgomery form.
Twiddle(p, q, i) == (p.zeta[i] * Radix(q)) % q

\* What the butterfly at i makes of the parts at i and one gap above it.
CtLow(p, at, q, i)  == Part(at[i].off, at[i].len \div 2, Twiddle(p, q, i))
CtHigh(p, at, q, i) == Part(at[i].off, at[i].len \div 2, (-Twiddle(p, q, i)) % q)
GsLow(at, q, i)     == Part(at[i].off, 2 * at[i].len, (at[i].root * at[i].root) % q)
GsHigh(at, q, i) ==
  Part(at[i].off + at[i].len, 2 * at[i].len, (at[i].root * at[i].root) % q)

\* The parts that the lanes stand for after pass p, if they stand for "at" before.
PartsAfter(p, at, q) ==
  CASE p.do = "split" -> Coefficients256(q)
    [] p.do = "ct" -> [i \in Block |->
         CASE i \in p.low         -> CtLow(p, at, q, i)
           [] i - p.gap \in p.low -> CtHigh(p, at, q, i - p.gap)
           [] OTHER               -> at[i]]
    [] p.do = "gs" -> [i \in Block |->
         CASE i \in p.low         -> GsLow(at, q, i)
           [] i - p.gap \in p.low -> GsHigh(at, q, i - p.gap)
           [] OTHER               -> at[i]]
    [] p.do = "move" -> [i \in Block |-> at[p.from[i]]]
    [] OTHER -> at

\* A butterfly joins two lanes that stand for parts which together are the parts
\* it leaves behind: its root is the square root of theirs, or the inverse of the
\* upper one's.
Splits(p, at, q, i) ==
  LET lo == at[i]
      z  == Twiddle(p, q, i)
  IN  /\ lo.len > 1
      /\ at[i + p.gap] = Part(lo.off + lo.len \div 2, lo.len, lo.root)
      /\ (z * z) % q = lo.root

Joins(p, at, q, i) ==
  LET lo == at[i]
  IN  /\ lo.len < 256
      /\ at[i + p.gap] = Part(lo.off, lo.len, (-lo.root) % q)
      /\ (Twiddle(p, q, i) * lo.root) % q = 1

\* A block of coefficients, each in its place.
InOrder(at) == \A i \in Block : at[i].off = i /\ at[i].len = 256
=============================================================================

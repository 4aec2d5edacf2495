------------------------------ MODULE Montgomery ------------------------------
(***************************************************************************)
(* Signed 16-bit modular arithmetic for the two primes of the transforms:  *)
(* src/src/arithmetic/ntt_crt.rs, and the NEON form of it in               *)
(* src/src/backend/neon/ntt.rs.  \div is the arithmetic right shift.       *)
(***************************************************************************)
EXTENDS Integers

Primes == {7681, 10753}

\* The positions of a block of coefficients modulo one prime.
Block == 0..255

QInv(q)        == IF q = 7681 THEN -7679 ELSE -10751
BarrettM(q)    == IF q = 7681 THEN 17474 ELSE 12482
InvNttScale(q) == IF q = 7681 THEN 1912 ELSE 2536

\* The inverse of 2^16 modulo the prime.
Radix(q) == IF q = 7681 THEN 900 ELSE 1764

I16(x) == ((x + 32768) % 65536) - 32768

MulLo(a, b) == I16(a * b)
MulHi(a, b) == (a * b) \div 65536

\* The high half of x - t*q, where t*q is to agree with x in the low half.
Reduced(x, t, q) == I16(I16(x \div 65536) - MulHi(t, q))

MontMul(a, z, q) == Reduced(a * z, MulLo(a, MulLo(z, QInv(q))), q)

\* reduce_block, of one accumulator.
MontReduce(x, q) == Reduced(x, MulLo(I16(x), QInv(q)), q)

\* Mutant of Barrett: the quotient is truncated, not rounded.
BarrettTruncating(x, q) ==
  I16(x - MulLo(MulHi(x, BarrettM(q)) \div 2048, q))

Barrett(x, q) ==
  I16(x - MulLo(I16(MulHi(x, BarrettM(q)) + 1024) \div 2048, q))

\* NEON's doubling, saturating high multiply; its difference is halved once.
Sqdmulh(a, b) ==
  IF a = -32768 /\ b = -32768 THEN 32767 ELSE (a * b) \div 32768

\* Mutant of NeonMontMul: the difference of the doubled halves not halved.
NeonMontMulDoubled(a, z, q) ==
  Sqdmulh(a, z) - Sqdmulh(MulLo(a, MulLo(z, QInv(q))), q)

NeonMontMul(a, z, q) ==
  (Sqdmulh(a, z) - Sqdmulh(MulLo(a, MulLo(z, QInv(q))), q)) \div 2

NeonBarrett(x, q) ==
  I16(x - MulLo(I16((Sqdmulh(x, BarrettM(q)) \div 2) + 1024) \div 2048, q))
-----------------------------------------------------------------------------
\* The largest magnitude of a Montgomery product, of |a| <= m and |z| <= w, and
\* of a Montgomery reduction, of |x| <= m.
ReduceBound(m, q) == (m + 32768 * q) \div 65536
MontBound(m, w, q) == ReduceBound(m * w, q)

WidestSecret == 5   \* mu / 2 for the widest secrets (consts.rs)

\* The largest magnitudes that any operands can bring to the lanes of a block, as the
\* test in src/src/backend/neon/ntt.rs:844-900 propagates them: m before pass p,
\* these after it.
BoundsAfter(p, m, q) ==
  LET ct(i) == m[i] + MontBound(m[i + p.gap], q \div 2, q)
  IN  CASE p.do = "ct" -> [i \in Block |->
             CASE i \in p.low         -> ct(i)
               [] i - p.gap \in p.low -> ct(i - p.gap)
               [] OTHER               -> m[i]]
        [] p.do = "gs" -> [i \in Block |->
             CASE i \in p.low         -> m[i] + m[i + p.gap]
               [] i - p.gap \in p.low -> MontBound(m[i - p.gap] + m[i], q \div 2, q)
               [] OTHER               -> m[i]]
        [] p.do = "barrett" -> [i \in Block |-> IF i \in p.at THEN q \div 2 ELSE m[i]]
        [] p.do = "move"    -> [i \in Block |-> m[p.from[i]]]
        [] OTHER            -> m
=============================================================================

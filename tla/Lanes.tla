--------------------------------- MODULE Lanes --------------------------------
(***************************************************************************)
(* Where the vector backends leave 16 bits: products accumulated in 32-bit *)
(* lanes, accumulators reduced to 16 bits again, and pairs of residues     *)
(* lifted to coefficients (pointwise_mul_acc, reduce_block, reduce_invntt  *)
(* of src/src/backend/avx2/ntt.rs and neon/ntt.rs, with the instructions   *)
(* of their intrinsics.rs).  AVX2 vectors have 16 lanes of 16 bits in two  *)
(* halves, which most instructions treat apart; NEON vectors have 8.       *)
(***************************************************************************)
EXTENDS Montgomery

Q1 == 7681
Q2 == 10753
CrtQ == 82593793
CrtQHalf == 41296896
CrtQ1InvMont == 3563

\* The vector of w lanes that holds lane i of an array.
Vector(w, a, i) == [k \in 0..(w - 1) |-> a[w * (i \div w) + k]]
-----------------------------------------------------------------------------
\* AVX2

\* vpunpck*wd of low and high product halves, read as 32-bit lanes.
Join(low, high) == high * 65536 + (low % 65536)
unpacklo_epi16(a, b) ==
  [k \in 0..7 |-> Join(a[8 * (k \div 4) + (k % 4)], b[8 * (k \div 4) + (k % 4)])]
unpackhi_epi16(a, b) ==
  [k \in 0..7 |-> Join(a[8 * (k \div 4) + 4 + (k % 4)], b[8 * (k \div 4) + 4 + (k % 4)])]

\* Two low halves, and two high halves: vperm2i128 by 0x20 and 0x31.
LowHalvesOf(a, b)  == [k \in 0..7 |-> IF k < 4 THEN a[k] ELSE b[k - 4]]
HighHalvesOf(a, b) == [k \in 0..7 |-> IF k < 4 THEN a[k + 4] ELSE b[k]]

\* A saturating pack takes four lanes of a, then four of b, in each half.
Packed(a, b) ==
  [i \in 0..15 |-> IF i % 8 < 4 THEN a[4 * (i \div 8) + (i % 4)] ELSE b[4 * (i \div 8) + (i % 4)]]

Saturated(x, least, most) == IF x < least THEN least ELSE IF x > most THEN most ELSE x
packs_epi32(a, b)  == [i \in 0..15 |-> Saturated(Packed(a, b)[i], -32768, 32767)]
packus_epi32(a, b) == [i \in 0..15 |-> Saturated(Packed(a, b)[i], 0, 65535)]

\* vpermq by 0xD8: the middle two quarters exchanged.
Quarter(n) == IF n = 1 THEN 2 ELSE IF n = 2 THEN 1 ELSE n
permute4x64_D8(v) == [i \in 0..15 |-> v[4 * Quarter(i \div 4) + (i % 4)]]

\* Mutant of Avx2Products: the halves left as the unpacks leave them.
Avx2ProductsUnpermuted(l, r) ==
  LET lo == [i \in 0..15 |-> MulLo(l[i], r[i])]
      hi == [i \in 0..15 |-> MulHi(l[i], r[i])]
  IN  [i \in 0..15 |-> IF i < 8 THEN unpacklo_epi16(lo, hi)[i] ELSE unpackhi_epi16(lo, hi)[i - 8]]

\* The 16 products of two vectors, in two vectors of eight.
Avx2Products(l, r) ==
  LET lo == [i \in 0..15 |-> MulLo(l[i], r[i])]
      hi == [i \in 0..15 |-> MulHi(l[i], r[i])]
      p0 == unpacklo_epi16(lo, hi)
      p1 == unpackhi_epi16(lo, hi)
  IN  [i \in 0..15 |-> IF i < 8 THEN LowHalvesOf(p0, p1)[i] ELSE HighHalvesOf(p0, p1)[i - 8]]

\* The Montgomery reduction of 16 accumulators.  A left and an arithmetic right
\* shift by 16 keep the low half, signed.
LowHalf(x, from)  == [k \in 0..7 |-> I16(x[k + from])]
HighHalf(x, from) == [k \in 0..7 |-> x[k + from] \div 65536]

Avx2Reduce(x, q) ==
  LET lo == permute4x64_D8(packs_epi32(LowHalf(x, 0), LowHalf(x, 8)))
      hi == permute4x64_D8(packs_epi32(HighHalf(x, 0), HighHalf(x, 8)))
  IN  [i \in 0..15 |-> I16(hi[i] - MulHi(MulLo(lo[i], QInv(q)), q))]
-----------------------------------------------------------------------------
\* NEON

\* smull and smull2; and xtn with xtn2, shrn with shrn2.
NeonProducts(l, r) ==
  LET first  == [k \in 0..3 |-> l[k] * r[k]]
      second == [k \in 0..3 |-> l[k + 4] * r[k + 4]]
  IN  [i \in 0..7 |-> IF i < 4 THEN first[i] ELSE second[i - 4]]

xtn_pair_32(a, b) == [i \in 0..7 |-> I16(IF i < 4 THEN a[i] ELSE b[i - 4])]
shrn16_pair_s32(a, b) == [i \in 0..7 |-> I16((IF i < 4 THEN a[i] ELSE b[i - 4]) \div 65536)]

\* The high half as the doubled one, shifted back (mulhi).
NeonMulHi(a, b) == Sqdmulh(a, b) \div 2

NeonReduce(x, q) ==
  LET a0 == [k \in 0..3 |-> x[k]]
      a1 == [k \in 0..3 |-> x[k + 4]]
      lo == xtn_pair_32(a0, a1)
      hi == shrn16_pair_s32(a0, a1)
  IN  [i \in 0..7 |-> I16(hi[i] - NeonMulHi(MulLo(lo[i], QInv(q)), q))]
-----------------------------------------------------------------------------
\* The CRT step of reduce_invntt, on residues r1 and r2 of one coefficient: q is
\* added to a negative one by an arithmetic shift's mask.
Masked(mask, v) == IF mask = 0 THEN 0 ELSE v
Nonnegative(r, q) == I16(r + Masked(r \div 32768, q))

\* (a2 - a1) / q1 modulo q2, times q1 and centred: the low 16 bits.
Quotient(a1, a2)     == Nonnegative(MontMul(I16(a2 - a1), CrtQ1InvMont, Q2), Q2)
NeonQuotient(a1, a2) == Nonnegative(NeonMontMul(I16(a2 - a1), CrtQ1InvMont, Q2), Q2)
Centred32(x) == x - (IF x > CrtQHalf THEN CrtQ ELSE 0)

PortableCrt(r1, r2) ==
  LET a1 == Nonnegative(r1, Q1)
  IN  Centred32(a1 + Quotient(a1, Nonnegative(r2, Q2)) * Q1) % 65536

\* Mutant of Avx2Crt: the interleaving of the pack left as it is.
Avx2CrtUnpermuted(r1, r2) ==
  LET a1 == [i \in 0..15 |-> Nonnegative(r1[i], Q1)]
      t  == [i \in 0..15 |-> Quotient(a1[i], Nonnegative(r2[i], Q2))]
      combine(n) == [k \in 0..7 |-> Centred32((a1[k + n] % 65536) + (t[k + n] % 65536) * Q1) % 65536]
  IN  packus_epi32(combine(0), combine(8))

\* Two halves widened by zeros, masked to 16 bits and packed.
Avx2Crt(r1, r2) ==
  LET a1 == [i \in 0..15 |-> Nonnegative(r1[i], Q1)]
      t  == [i \in 0..15 |-> Quotient(a1[i], Nonnegative(r2[i], Q2))]
      combine(n) == [k \in 0..7 |-> Centred32((a1[k + n] % 65536) + (t[k + n] % 65536) * Q1) % 65536]
  IN  permute4x64_D8(packus_epi32(combine(0), combine(8)))

\* Two halves widened by signs, truncated and read as unsigned.
NeonCrt(r1, r2) ==
  LET a1 == [i \in 0..7 |-> Nonnegative(r1[i], Q1)]
      t  == [i \in 0..7 |-> NeonQuotient(a1[i], Nonnegative(r2[i], Q2))]
      wide(n) == [k \in 0..3 |-> Centred32(a1[k + n] + t[k + n] * Q1)]
      narrow  == xtn_pair_32(wide(0), wide(4))
  IN  [i \in 0..7 |-> narrow[i] % 65536]
===============================================================================

------------------------------- MODULE Schedules ------------------------------
(***************************************************************************)
(* The transforms as sequences of passes over a block of 256 coefficients, *)
(* one sequence per backend: src/src/arithmetic/ntt_crt.rs,                *)
(* src/src/backend/avx2/ntt.rs and src/src/backend/neon/ntt.rs.            *)
(*                                                                         *)
(* A butterfly pass pairs each position of "low" with the one "gap" above  *)
(* it and multiplies by zeta[position]; a Barrett pass reduces "at"; a     *)
(* move brings from[i] to i.  The vector backends finish their short       *)
(* levels in a transposed layout, with per-lane tables.  NEON runs the     *)
(* inner levels on one group of eight vectors at a time.                   *)
(***************************************************************************)
EXTENDS Montgomery, Sequences

Group(g) == (64 * g)..(64 * g + 63)

MaxRank == 4   \* that of Kopis-1024

Psi(q) == IF q = 7681 THEN 62 ELSE 10

Brv8(k) ==
  LET Bit(i) == (k \div 2^i) % 2
  IN  128 * Bit(0) + 64 * Bit(1) + 32 * Bit(2) + 16 * Bit(3)
        + 8 * Bit(4) + 4 * Bit(5) + 2 * Bit(6) + Bit(7)

\* Powers of psi modulo q.
Powers(q) ==
  LET p[n \in 0..511] ==
        IF n = 0 THEN 1
        ELSE IF n % 2 = 0 THEN (p[n \div 2]^2) % q
        ELSE (Psi(q) * p[n - 1]) % q
  IN  p

Centred(x, q) == IF x > q \div 2 THEN x - q ELSE x

\* Entry k of ZETAS_Q1 or ZETAS_Q2: Montgomery form, centred, in bit-reversed
\* order.
Zeta(q, k) == Centred((Powers(q)[Brv8(k)] * (65536 % q)) % q, q)
-----------------------------------------------------------------------------
\* Passes

LowHalves(at, gap) == {i \in at : (i \div gap) % 2 = 0}

\* A level of Cooley-Tukey butterflies, and one of Gentleman-Sande, which
\* multiplies by the negated root; root[i] is that of the butterfly at i.
Ct(at, gap, root) ==
  [do |-> "ct", low |-> LowHalves(at, gap), gap |-> gap,
   zeta |-> [i \in LowHalves(at, gap) |-> root[i]]]
Gs(at, gap, root) ==
  [do |-> "gs", low |-> LowHalves(at, gap), gap |-> gap,
   zeta |-> [i \in LowHalves(at, gap) |-> -root[i]]]

BarrettPass(at) == [do |-> "barrett", at |-> at]
Move(from) == [do |-> "move", from |-> from]

\* The passes of an inner product around its transforms, for operand "side" of
\* a pair.
SplitPass(side, pair) == [do |-> "split", side |-> side, pair |-> pair]
KeepPass(pair)        == [do |-> "keep", side |-> "public", pair |-> pair]
PointwisePass(pair)   == [do |-> "pointwise", side |-> "secret", pair |-> pair]
ReducePass            == [do |-> "reduce"]
ScalePass             == [do |-> "scale"]

\* Mutant of GsPlain: the inverse too walks the table up.
GsPlainAscending(q, at, len) ==
  Gs(at, len, [i \in at |-> Zeta(q, (128 \div len) + (i \div (2 * len)))])

\* Coefficient order: the k counter goes up through the table, one entry per
\* butterfly block; the inverse walks it down.
CtPlain(q, at, len) == Ct(at, len, [i \in at |-> Zeta(q, (128 \div len) + (i \div (2 * len)))])
GsPlain(q, at, len) == Gs(at, len, [i \in at |-> Zeta(q, (256 \div len) - 1 - (i \div (2 * len)))])

PortableForward(q) ==
  <<CtPlain(q, Block, 128), CtPlain(q, Block, 64), CtPlain(q, Block, 32), BarrettPass(Block),
    CtPlain(q, Block, 16), CtPlain(q, Block, 8), CtPlain(q, Block, 4), BarrettPass(Block),
    CtPlain(q, Block, 2), CtPlain(q, Block, 1), BarrettPass(Block)>>

PortableInverse(q) ==
  <<GsPlain(q, Block, 1), GsPlain(q, Block, 2), BarrettPass(Block),
    GsPlain(q, Block, 4), GsPlain(q, Block, 8), BarrettPass(Block),
    GsPlain(q, Block, 16), GsPlain(q, Block, 32), BarrettPass(Block),
    GsPlain(q, Block, 64), GsPlain(q, Block, 128)>>
-----------------------------------------------------------------------------
\* AVX2.  Vector v, lane m of a block is position 16 * v + m.

\* Interleave elements of u words of the low or the high half (of each 128-bit
\* lane) of a and b: vpunpckl*, vpunpckh*.
Unpack(u, high, a, b) ==
  [i \in 0..15 |->
     LET j == i % 8
         from == (i - j) + high * 4 + ((j \div u) \div 2) * u + (j % u)
     IN  IF (j \div u) % 2 = 0 THEN a[from] ELSE b[from]]

InlaneTranspose8(v) ==
  LET a == [r \in 0..7 |-> Unpack(1, r % 2, v[r - (r % 2)], v[r - (r % 2) + 1])]
      b == [r \in 0..7 |->
              LET s == r - (r % 4) + ((r % 4) \div 2) IN Unpack(2, r % 2, a[s], a[s + 2])]
  IN  [r \in 0..7 |-> Unpack(4, r % 2, b[r \div 2], b[(r \div 2) + 4])]

\* transpose16: which position each position of the result comes from.
Transpose16 ==
  LET load(r) == [m \in 0..15 |-> 16 * r + m]
      top     == InlaneTranspose8([r \in 0..7 |-> load(r)])
      bottom  == InlaneTranspose8([r \in 0..7 |-> load(8 + r)])
      vec(r)  == [m \in 0..15 |->
                    IF r < 8 THEN (IF m < 8 THEN top[r][m] ELSE bottom[r][m - 8])
                    ELSE (IF m < 8 THEN top[r - 8][m + 8] ELSE bottom[r - 8][m])]
  IN  [i \in Block |-> vec(i \div 16)[i % 16]]

\* Mutant of LaneIndex16: the two strides exchanged.
LaneIndex16Swapped(len, h, m) == (128 \div len) + (8 \div len) * h + m

\* lane_tbl, for sub-block h of lane m; entries of the inverse tables run down.
LaneIndex16(len, h, m) == (128 \div len) + h + (8 \div len) * m
LaneIndex16Inv(len, h, m) == (256 \div len) - 1 - h - (8 \div len) * m

CtLane16(q, len) ==
  Ct(Block, 16 * len, [i \in Block |-> Zeta(q, LaneIndex16(len, (i \div 16) \div (2 * len), i % 16))])
GsLane16(q, len) ==
  Gs(Block, 16 * len, [i \in Block |-> Zeta(q, LaneIndex16Inv(len, (i \div 16) \div (2 * len), i % 16))])

\* Mutant of Avx2Forward: no reduction after the third level.
Avx2ForwardUnreduced(q) ==
  <<CtPlain(q, Block, 128), CtPlain(q, Block, 64), CtPlain(q, Block, 32),
    CtPlain(q, Block, 16), Move(Transpose16),
    CtLane16(q, 8), CtLane16(q, 4), CtLane16(q, 2), BarrettPass(Block),
    CtLane16(q, 1), Move(Transpose16), BarrettPass(Block)>>

Avx2Forward(q) ==
  <<CtPlain(q, Block, 128), CtPlain(q, Block, 64), CtPlain(q, Block, 32), BarrettPass(Block),
    CtPlain(q, Block, 16), Move(Transpose16),
    CtLane16(q, 8), CtLane16(q, 4), CtLane16(q, 2), BarrettPass(Block),
    CtLane16(q, 1), Move(Transpose16), BarrettPass(Block)>>

Avx2Inverse(q) ==
  <<Move(Transpose16),
    GsLane16(q, 1), GsLane16(q, 2), BarrettPass(Block),
    GsLane16(q, 4), GsLane16(q, 8), BarrettPass(Block), Move(Transpose16),
    GsPlain(q, Block, 16), GsPlain(q, Block, 32), BarrettPass(Block),
    GsPlain(q, Block, 64), GsPlain(q, Block, 128)>>
-----------------------------------------------------------------------------
\* NEON.  Vector v, lane m of a block is position 8 * v + m; group g is the
\* vectors 8g to 8g + 7.

\* trn1 and trn2 on elements of u words.
Trn(u, odd, a, b) ==
  [j \in 0..7 |->
     IF (j \div u) % 2 = 0 THEN a[j + odd * u] ELSE b[j + (odd - 1) * u]]

Transpose8(v) ==
  LET b == [r \in 0..7 |-> Trn(1, r % 2, v[r - (r % 2)], v[r - (r % 2) + 1])]
      c == [r \in 0..7 |->
              LET s == r - (r % 4) + (r % 2) IN Trn(2, (r % 4) \div 2, b[s], b[s + 2])]
  IN  [r \in 0..7 |-> Trn(4, r \div 4, c[r % 4], c[(r % 4) + 4])]

\* transpose8 of one group; the rest of the block stays.
TransposeGroup(g) ==
  LET v == Transpose8([r \in 0..7 |-> [m \in 0..7 |-> 64 * g + 8 * r + m]])
  IN  [i \in Block |-> IF i \in Group(g) THEN v[(i - 64 * g) \div 8][i % 8] ELSE i]

LaneIndex8(len, g, h, m) == (128 \div len) + (32 \div len) * g + h + (4 \div len) * m
LaneIndex8Inv(len, g, h, m) == (256 \div len) - 1 - (32 \div len) * g - h - (4 \div len) * m

CtLane8(q, g, len) ==
  Ct(Group(g), 8 * len,
     [i \in Group(g) |-> Zeta(q, LaneIndex8(len, g, ((i - 64 * g) \div 8) \div (2 * len), i % 8))])
GsLane8(q, g, len) ==
  Gs(Group(g), 8 * len,
     [i \in Group(g) |-> Zeta(q, LaneIndex8Inv(len, g, ((i - 64 * g) \div 8) \div (2 * len), i % 8))])

\* The levels whose halves are whole vectors of a group: block h of the group.
GroupIndex(len, g, h) == (128 \div len) + (32 \div len) * g + h
GroupIndexInv(len, g, h) == (256 \div len) - 1 - (32 \div len) * g - h

CtGroup(q, g, len) ==
  Ct(Group(g), len,
     [i \in Group(g) |-> Zeta(q, GroupIndex(len, g, (i - 64 * g) \div (2 * len)))])
GsGroup(q, g, len) ==
  Gs(Group(g), len,
     [i \in Group(g) |-> Zeta(q, GroupIndexInv(len, g, (i - 64 * g) \div (2 * len)))])

NeonForwardGroup(q, g) ==
  <<CtGroup(q, g, 32), CtGroup(q, g, 16), BarrettPass(Group(g)), CtGroup(q, g, 8),
    Move(TransposeGroup(g)), CtLane8(q, g, 4), CtLane8(q, g, 2), CtLane8(q, g, 1),
    BarrettPass(Group(g)), Move(TransposeGroup(g))>>

NeonInverseGroup(q, g) ==
  <<Move(TransposeGroup(g)), GsLane8(q, g, 1), GsLane8(q, g, 2), BarrettPass(Group(g)),
    GsLane8(q, g, 4), Move(TransposeGroup(g)), GsGroup(q, g, 8), BarrettPass(Group(g)),
    GsGroup(q, g, 16), GsGroup(q, g, 32), BarrettPass(Group(g))>>

NeonForward(q) ==
  <<CtPlain(q, Block, 128), CtPlain(q, Block, 64)>>
    \o NeonForwardGroup(q, 0) \o NeonForwardGroup(q, 1)
    \o NeonForwardGroup(q, 2) \o NeonForwardGroup(q, 3)

NeonInverse(q) ==
  NeonInverseGroup(q, 0) \o NeonInverseGroup(q, 1)
    \o NeonInverseGroup(q, 2) \o NeonInverseGroup(q, 3)
    \o <<GsPlain(q, Block, 64), GsPlain(q, Block, 128)>>
-----------------------------------------------------------------------------
Forward(isa, q) ==
  CASE isa = "portable" -> PortableForward(q)
    [] isa = "avx2"     -> Avx2Forward(q)
    [] isa = "neon"     -> NeonForward(q)

Inverse(isa, q) ==
  CASE isa = "portable" -> PortableInverse(q)
    [] isa = "avx2"     -> Avx2Inverse(q)
    [] isa = "neon"     -> NeonInverse(q)

\* Both operands of a pair are transformed and their product accumulated.
PairPasses(isa, q, n) ==
  <<SplitPass("public", n)>> \o Forward(isa, q) \o <<KeepPass(n)>>
    \o <<SplitPass("secret", n)>> \o Forward(isa, q) \o <<PointwisePass(n)>>

\* The passes of the first n pairs, for n up to the rank.
PairsUpTo(isa, q, rank) ==
  LET pairs[n \in 0..rank] ==
        IF n = 0 THEN <<>> ELSE pairs[n - 1] \o PairPasses(isa, q, n)
  IN  pairs

\* The inner product of "rank" pairs, whose sum is transformed back once.
Program(isa, q, rank) ==
  PairsUpTo(isa, q, rank)[rank] \o <<ReducePass>> \o Inverse(isa, q) \o <<ScalePass>>
=============================================================================

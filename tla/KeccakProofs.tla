----------------------------- MODULE KeccakProofs -----------------------------
(***************************************************************************)
(* For every set of states: the fused, ping-ponging rounds of both vector  *)
(* backends are the rounds of KECCAK-p[1600, 12].                          *)
(***************************************************************************)
EXTENDS Keccak, TLAPS

----------------------------------------------------------------------------
\* Instructions: each is what the standard's steps are made of.

\* The three exclusive ors are one.
LEMMA XorIs ==
  ASSUME NEW a, NEW b
  PROVE  xor_si256(a, b) = Standard!Xor(a, b) /\ eor(a, b) = Standard!Xor(a, b)
  BY DEF xor_si256, eor, Standard!Xor

LEMMA XorWord ==
  ASSUME NEW a \in Word, NEW b \in Word
  PROVE  Standard!Xor(a, b) \in Word
  BY DEF Standard!Xor, Word

\* The order of a fold does not matter.
LEMMA XorAssoc ==
  ASSUME NEW a, NEW b, NEW c
  PROVE  Standard!Xor(Standard!Xor(a, b), c) = Standard!Xor(a, Standard!Xor(b, c))
  BY DEF Standard!Xor

LEMMA RotlWord ==
  ASSUME NEW a \in Word, NEW r \in 0..63
  PROVE  Standard!Rotl(a, r) \in Word
  BY DEF Standard!Rotl, Word

\* AVX2 has no rotate: two shifts make one, by 0 included.
LEMMA RotlIs ==
  ASSUME NEW a \in Word, NEW r \in 0..63
  PROVE  rotl(a, r) = Standard!Rotl(a, r)
<1>1. ASSUME NEW p \in rotl(a, r) PROVE p \in Standard!Rotl(a, r)
  <2>1. CASE p \in slli_epi64(a, r)
    <3>1. PICK q \in a : q + r <= 63 /\ p = q + r
      BY <2>1 DEF slli_epi64
    <3>2. q \in 0..63 /\ p = (q + r) % 64
      BY <3>1 DEF Word
    <3> QED BY <3>1, <3>2 DEF Standard!Rotl
  <2>2. CASE p \in srli_epi64(a, 64 - r)
    <3>1. PICK q \in a : q >= 64 - r /\ p = q - (64 - r)
      BY <2>2 DEF srli_epi64
    <3>2. q \in 0..63 /\ p = (q + r) % 64
      BY <3>1 DEF Word
    <3> QED BY <3>1, <3>2 DEF Standard!Rotl
  <2> QED BY <1>1, <2>1, <2>2 DEF rotl, or_si256
<1>2. ASSUME NEW p \in Standard!Rotl(a, r) PROVE p \in rotl(a, r)
  <2>1. PICK q \in a : p = (q + r) % 64
    BY <1>2 DEF Standard!Rotl
  <2>2. q \in 0..63
    BY DEF Word
  <2>3. CASE q + r <= 63
    <3>1. p = q + r
      BY <2>1, <2>2, <2>3
    <3> QED BY <2>3, <3>1 DEF rotl, or_si256, slli_epi64
  <2>4. CASE q + r > 63
    <3>1. p = q - (64 - r) /\ q >= 64 - r
      BY <2>1, <2>2, <2>4
    <3> QED BY <3>1 DEF rotl, or_si256, srli_epi64
  <2> QED BY <2>2, <2>3, <2>4
<1> QED BY <1>1, <1>2

\* NEON rotates right: by 64 - r, and by 0 where r is 0.
LEMMA RotrIs ==
  ASSUME NEW a \in Word, NEW r \in 0..63
  PROVE  rotr(a, (64 - r) % 64) = Standard!Rotl(a, r)
<1>1. \A p \in a : (p + (64 - ((64 - r) % 64))) % 64 = (p + r) % 64
  BY DEF Word
<1> QED BY <1>1 DEF rotr, Standard!Rotl
-----------------------------------------------------------------------------
\* The step mappings of the standard keep the array an array of words.
Arrays == [0..4 -> [0..4 -> Word]]

LEMMA ArrayIs ==
  ASSUME NEW lanes \in [Lane -> Word]
  PROVE  /\ Array(lanes) \in Arrays
         /\ \A x \in 0..4, y \in 0..4 : Array(lanes)[x][y] = lanes[5 * y + x]
<1>1. \A x \in 0..4, y \in 0..4 : 5 * y + x \in Lane
  BY DEF Lane, PLEN
<1> QED BY <1>1 DEF Array, Arrays

LEMMA ColumnWord ==
  ASSUME NEW a \in Arrays, NEW x \in 0..4
  PROVE  Standard!Column(a, x) \in Word
<1>1. \A y \in 0..4 : a[x][y] \in Word
  BY DEF Arrays
<1>2. Standard!Xor(a[x][0], a[x][1]) \in Word
  BY <1>1, XorWord
<1>3. Standard!Xor(Standard!Xor(a[x][0], a[x][1]), a[x][2]) \in Word
  BY <1>1, <1>2, XorWord
<1>4. Standard!Xor(Standard!Xor(Standard!Xor(a[x][0], a[x][1]), a[x][2]), a[x][3]) \in Word
  BY <1>1, <1>3, XorWord
<1> QED BY <1>1, <1>4, XorWord DEF Standard!Column

LEMMA MixWord ==
  ASSUME NEW a \in Arrays, NEW x \in 0..4
  PROVE  Standard!Mix(a, x) \in Word
<1>1. (x + 4) % 5 \in 0..4 /\ (x + 1) % 5 \in 0..4
  OBVIOUS
<1>2. Standard!Rotl(Standard!Column(a, (x + 1) % 5), 1) \in Word
  BY <1>1, ColumnWord, RotlWord
<1> QED BY <1>1, <1>2, ColumnWord, XorWord DEF Standard!Mix

\* theta's part of a round: what Fold computes is the standard's mix.
LEMMA ColumnIs ==
  ASSUME TypeOK, NEW x \in 0..4
  PROVE  Column(x) = Standard!Column(Array(src), x)
<1>1. src \in [Lane -> Word]
  BY DEF TypeOK, src
<1> DEFINE a(y) == src[5 * y + x]
           X(u, v) == Standard!Xor(u, v)
<1>2. \A y \in 0..4 : Array(src)[x][y] = a(y)
  BY <1>1, ArrayIs
<1>3. Standard!Column(Array(src), x) = X(X(X(X(a(0), a(1)), a(2)), a(3)), a(4))
  BY <1>2 DEF Standard!Column
<1>4. /\ src[x] = a(0) /\ src[x + 5] = a(1) /\ src[x + 10] = a(2)
      /\ src[x + 15] = a(3) /\ src[x + 20] = a(4)
  BY SMT
<1> HIDE DEF a
<1>5. CASE backend = "avx2"
  <2>1. Column(x) = X(X(X(a(0), a(1)), X(a(2), a(3))), a(4))
    BY <1>4, <1>5, XorIs DEF Column
  <2>2. X(X(a(0), a(1)), X(a(2), a(3))) = X(X(X(a(0), a(1)), a(2)), a(3))
    BY XorAssoc
  <2> QED BY <1>3, <2>1, <2>2
<1>6. CASE backend = "neon"
  <2>1. Column(x) = X(X(X(X(a(0), a(1)), a(2)), a(3)), a(4))
    BY <1>4, <1>6, XorIs DEF Column, eor3
  <2> QED BY <1>3, <2>1
<1> QED BY <1>5, <1>6 DEF TypeOK

LEMMA MixedIs ==
  ASSUME TypeOK, NEW x \in 0..4
  PROVE  Mixed(x) = Standard!Mix(Array(src), x)
<1>1. src \in [Lane -> Word]
  BY DEF TypeOK, src
<1>2. (x + 4) % 5 \in 0..4 /\ (x + 1) % 5 \in 0..4
  OBVIOUS
<1> DEFINE before == Standard!Column(Array(src), (x + 4) % 5)
           after  == Standard!Column(Array(src), (x + 1) % 5)
<1>3. Column((x + 4) % 5) = before /\ Column((x + 1) % 5) = after
  BY <1>2, ColumnIs
<1>4. Standard!Mix(Array(src), x) = Standard!Xor(before, Standard!Rotl(after, 1))
  BY DEF Standard!Mix
<1>5. after \in Word
  BY <1>1, <1>2, ArrayIs, ColumnWord
<1> HIDE DEF before, after
<1>6. CASE backend = "avx2"
  BY <1>3, <1>4, <1>5, <1>6, XorIs, RotlIs DEF Mixed
<1>7. CASE backend = "neon"
  <2>1. rotr(after, 63) = Standard!Rotl(after, 1)
    BY <1>5, RotrIs
  <2> QED BY <1>3, <1>4, <1>7, <2>1, XorIs DEF Mixed, rax1
<1> QED BY <1>6, <1>7 DEF TypeOK
-----------------------------------------------------------------------------
\* The tables: the sources and the rotations are those of pi and rho.
LEMMA RowIs ==
  ASSUME NEW y \in 0..4, NEW x \in 0..4
  PROVE  /\ Row(y)[x + 1][1] = 5 * x + ((x + 3 * y) % 5)
         /\ Row(y)[x + 1][2] = Standard!Offset((x + 3 * y) % 5, x)
         /\ Row(y)[x + 1][2] \in 0..63
<1>1. Row(y)[x + 1] = << 5 * x + ((x + 3 * y) % 5), Standard!Offset((x + 3 * y) % 5, x) >>
  BY StandardTables
<1>2. Row(y)[x + 1][2] \in 0..63
  <2>1. CASE y = 0
    BY <2>1 DEF Row
  <2>2. CASE y = 1
    BY <2>2 DEF Row
  <2>3. CASE y = 2
    BY <2>3 DEF Row
  <2>4. CASE y = 3
    BY <2>4 DEF Row
  <2>5. CASE y = 4
    BY <2>5 DEF Row
  <2> QED BY <2>1, <2>2, <2>3, <2>4, <2>5
<1> QED BY <1>1, <1>2

\* What rho, pi and chi make of an array: B is the lanes chi works on.
B(a) == Standard!Pi(Standard!Rho(Standard!Theta(a)))

LEMMA BIs ==
  ASSUME NEW a \in Arrays, NEW x \in 0..4, NEW y \in 0..4
  PROVE  B(a)[x][y] = Standard!Rotl(Standard!Xor(a[(x + 3 * y) % 5][x],
                                                 Standard!Mix(a, (x + 3 * y) % 5)),
                                    Standard!Offset((x + 3 * y) % 5, x))
<1> DEFINE c == (x + 3 * y) % 5
<1>1. c \in 0..4
  OBVIOUS
<1>2. B(a)[x][y] = Standard!Rho(Standard!Theta(a))[c][x]
  BY DEF B, Standard!Pi
<1> HIDE DEF c
<1>3. Standard!Rho(Standard!Theta(a))[c][x]
        = Standard!Rotl(Standard!Theta(a)[c][x], Standard!Offset(c, x))
  BY <1>1 DEF Standard!Rho
<1>4. Standard!Theta(a)[c][x] = Standard!Xor(a[c][x], Standard!Mix(a, c))
  BY <1>1 DEF Standard!Theta
<1> QED BY <1>2, <1>3, <1>4 DEF c

\* t0 to t4 of a row, theta's xor and rho's rotation in one, are those lanes.
LEMMA TIs ==
  ASSUME TypeOK, \A c \in 0..4 : d[c] = Standard!Mix(Array(src), c),
         NEW y \in 0..4, NEW k \in 0..6
  PROVE  t(y, k) = B(Array(src))[k % 5][y] /\ t(y, k) \in Word
<1> DEFINE x == k % 5
           c == (x + 3 * y) % 5
           f == 5 * x + c
           r == Standard!Offset(c, x)
<1>1. x \in 0..4 /\ c \in 0..4 /\ f \in Lane /\ f % 5 = c
  BY DEF Lane, PLEN
<1>2. r \in 0..63
  BY <1>1, RowIs
<1>3. t(y, k) = ThetaRho(f, r)
  BY <1>1, RowIs DEF t
<1>4. src \in [Lane -> Word] /\ d \in [0..4 -> Word]
  BY DEF TypeOK, src
<1>5. Array(src) \in Arrays /\ Array(src)[c][x] = src[f]
  BY <1>1, <1>4, ArrayIs
<1> DEFINE v == Standard!Xor(src[f], d[c])
<1>6. v \in Word
  BY <1>1, <1>4, XorWord
<1>7. B(Array(src))[x][y] = Standard!Rotl(v, r)
  BY <1>1, <1>5, BIs, ZenonT(40)
<1>8. ThetaRho(f, r) = IF backend = "avx2" THEN rotl(v, r) ELSE rotr(v, (64 - r) % 64)
  BY <1>1, XorIs DEF ThetaRho, xar
<1> HIDE DEF x, c, f, r, v
<1>9. ThetaRho(f, r) = Standard!Rotl(v, r) /\ Standard!Rotl(v, r) \in Word
  BY <1>2, <1>6, <1>8, RotlIs, RotrIs, RotlWord
<1>10. t(y, k) = B(Array(src))[x][y] /\ t(y, k) \in Word
  BY <1>3, <1>7, <1>9
<1> QED BY <1>10 DEF x

\* One lane of chi, whichever operand the instruction negates.
LEMMA ChiLaneIs ==
  ASSUME TypeOK, \A c \in 0..4 : d[c] = Standard!Mix(Array(src), c),
         NEW y \in 0..4, NEW x \in 0..4
  PROVE  ChiLane(y, x) = Standard!Chi(B(Array(src)))[x][y] /\ ChiLane(y, x) \in Word
<1> DEFINE b == B(Array(src))
           u == t(y, x)
           v == t(y, x + 1)
           w == t(y, x + 2)
<1>1. u = b[x][y] /\ v = b[(x + 1) % 5][y] /\ w = b[(x + 2) % 5][y]
  <2>1. x \in 0..6 /\ x + 1 \in 0..6 /\ x + 2 \in 0..6 /\ x % 5 = x
    OBVIOUS
  <2> QED BY <2>1, TIs
<1>2. u \in Word /\ v \in Word /\ w \in Word
  BY TIs
<1>3. ChiLane(y, x) = Standard!Xor(u, w \ v)
  BY XorIs DEF ChiLane, andnot_si256, bcax
<1> HIDE DEF b, u, v, w
<1>4. Standard!Chi(b)[x][y] = Standard!Xor(b[x][y], b[(x + 2) % 5][y] \ b[(x + 1) % 5][y])
  BY DEF Standard!Chi
<1>5. w \ v \in Word
  BY <1>2 DEF Word
<1>6. ChiLane(y, x) \in Word
  BY <1>2, <1>3, <1>5, XorWord
<1> QED BY <1>1, <1>3, <1>4, <1>6 DEF b
-----------------------------------------------------------------------------
\* A write leaves the array being read alone, and makes the other one lanes.
LEMMA WriteIs ==
  ASSUME TypeOK, NEW lanes \in [Lane -> Word], Write(lanes)
  PROVE  /\ state' \in [Lane -> Word] /\ scratch' \in [Lane -> Word]
         /\ done' = done => src' = src /\ dst' = lanes
         /\ done' = done + 1 => src' = lanes
<1>1. done \in Nat
  BY DEF TypeOK, ROUNDS
<1>2. (done + 1) % 2 = 0 <=> done % 2 # 0
  BY <1>1
<1> QED BY <1>1, <1>2 DEF TypeOK, Write, src, dst

\* What the three kinds of step write.
LEMMA RowWord ==
  ASSUME TypeOK, MidRound, step \in 1..5
  PROVE  /\ [i \in Lane |-> IF i \div 5 = step - 1 THEN ChiLane(step - 1, i % 5) ELSE dst[i]]
              \in [Lane -> Word]
         /\ \A x \in 0..4 : ChiLane(step - 1, x) = Standard!Chi(B(Array(src)))[x][step - 1]
<1>1. \A c \in 0..4 : d[c] = Standard!Mix(Array(src), c)
  BY DEF MidRound
<1>2. step - 1 \in 0..4
  OBVIOUS
<1>3. \A x \in 0..4 : /\ ChiLane(step - 1, x) = Standard!Chi(B(Array(src)))[x][step - 1]
                      /\ ChiLane(step - 1, x) \in Word
  BY <1>1, <1>2, ChiLaneIs
<1>4. \A i \in Lane : i % 5 \in 0..4 /\ dst[i] \in Word
  BY DEF TypeOK, dst, Lane, PLEN
<1> QED BY <1>3, <1>4

\* Five rows make the array that iota is given.
LEMMA RowsMakeChi ==
  ASSUME TypeOK, MidRound, step = 6
  PROVE  \A x \in 0..4, y \in 0..4 : dst[5 * y + x] = Standard!Chi(B(Array(src)))[x][y]
<1>1. step - 2 = 4
  OBVIOUS
<1> QED BY <1>1 DEF MidRound, B

LEMMA RoundConstIs ==
  ASSUME TypeOK, done < ROUNDS
  PROVE  /\ RoundConst(done) = Standard!RoundConstant(24 - Standard!Rounds + done)
         /\ RoundConst(done) \in Word
<1>1. 12 + done \in 0..23
  BY DEF TypeOK, ROUNDS
<1>2. RC[12 + done + 1] = Standard!RoundConstant(12 + done)
  BY <1>1, StandardTables
<1>3. RC[12 + done + 1] \in Word
  BY <1>1 DEF RC, Word
<1> QED BY <1>2, <1>3 DEF RoundConst, Standard!Rounds, ROUNDS

LEMMA IotaWord ==
  ASSUME TypeOK, step = 6
  PROVE  [i \in Lane |-> IF i = 0 THEN xor_si256(dst[0], RoundConst(done)) ELSE dst[i]]
           \in [Lane -> Word]
<1>1. done < ROUNDS
  BY DEF TypeOK, ROUNDS
<1>2. \A i \in Lane : dst[i] \in Word
  BY DEF TypeOK, dst
<1>3. xor_si256(dst[0], RoundConst(done)) \in Word
  BY <1>1, <1>2, RoundConstIs, XorIs, XorWord DEF Lane, PLEN
<1> QED BY <1>2, <1>3
-----------------------------------------------------------------------------
LEMMA InitIInv == Init => IInv
  BY InputsAssumption DEF Init, IInv, TypeOK, MidRound, Word, ROUNDS

LEMMA FoldStep ==
  ASSUME IInv, Fold
  PROVE  IInv' /\ src' = src /\ done' = done
<1> USE DEF IInv
<1>1. src' = src /\ done' = done
  BY DEF Fold, src
<1>2. src \in [Lane -> Word]
  BY DEF TypeOK, src
<1>3. \A x \in 0..4 : Mixed(x) = Standard!Mix(Array(src), x) /\ Mixed(x) \in Word
  BY <1>2, MixedIs, ArrayIs, MixWord
<1>4. TypeOK'
  BY <1>3 DEF Fold, TypeOK
<1>5. MidRound'
  <2>1. \A x \in 0..4 : d'[x] = Standard!Mix(Array(src'), x)
    BY <1>1, <1>3 DEF Fold
  <2>2. step' - 2 = -1
    BY DEF Fold
  <2> QED BY <2>1, <2>2 DEF MidRound, Array
<1> QED BY <1>1, <1>4, <1>5

LEMMA ChiRowStep ==
  ASSUME IInv, ChiRow
  PROVE  IInv' /\ src' = src /\ done' = done
<1> USE DEF IInv
<1> DEFINE lanes == [i \in Lane |-> IF i \div 5 = step - 1 THEN ChiLane(step - 1, i % 5)
                                    ELSE dst[i]]
<1>1. step \in 1..5 /\ step' = step + 1 /\ done' = done /\ d' = d /\ backend' = backend
  BY DEF ChiRow
<1>2. lanes \in [Lane -> Word] /\ Write(lanes)
  BY <1>1, RowWord DEF ChiRow
<1>3. /\ state' \in [Lane -> Word] /\ scratch' \in [Lane -> Word]
      /\ src' = src /\ dst' = lanes
  <2> HIDE DEF lanes
  <2> QED BY <1>1, <1>2, WriteIs
<1>4. TypeOK'
  BY <1>1, <1>3 DEF TypeOK
<1>5. MidRound'
  <2>1. \A x \in 0..4 : d'[x] = Standard!Mix(Array(src'), x)
    BY <1>1, <1>3 DEF MidRound
  <2>2. ASSUME NEW x \in 0..4, NEW y \in 0..(step' - 2)
        PROVE  dst'[5 * y + x] = Standard!Chi(B(Array(src')))[x][y]
    <3>1. /\ 5 * y + x \in Lane /\ (5 * y + x) \div 5 = y /\ (5 * y + x) % 5 = x
          /\ y \in 0..(step - 1)
      BY <1>1 DEF Lane, PLEN
    <3>2. CASE y = step - 1
      <4>1. dst'[5 * y + x] = ChiLane(step - 1, x)
        BY <1>3, <3>1, <3>2
      <4> QED BY <1>1, <1>3, <3>2, <4>1, RowWord
    <3>3. CASE y # step - 1
      <4>1. dst'[5 * y + x] = dst[5 * y + x] /\ y \in 0..(step - 2) /\ step > 0
        BY <1>1, <1>3, <3>1, <3>3
      <4> QED BY <1>3, <4>1 DEF MidRound, B
    <3> QED BY <3>2, <3>3
  <2> QED BY <2>1, <2>2 DEF MidRound, Array, B
<1> QED BY <1>1, <1>3, <1>4, <1>5

LEMMA IotaStep ==
  ASSUME IInv, Iota
  PROVE  /\ IInv' /\ done < ROUNDS /\ done' = done + 1
         /\ Array(src') = Standard!Rnd(Array(src), done)
<1> USE DEF IInv
<1> DEFINE lanes == [i \in Lane |-> IF i = 0 THEN xor_si256(dst[0], RoundConst(done))
                                    ELSE dst[i]]
           chi == Standard!Chi(B(Array(src)))
<1>1. step = 6 /\ step' = 0 /\ done' = done + 1 /\ d' = d /\ backend' = backend
  BY DEF Iota
<1>2. done < ROUNDS /\ done \in Nat
  BY <1>1 DEF TypeOK, ROUNDS
<1>3. lanes \in [Lane -> Word] /\ Write(lanes)
  BY <1>1, IotaWord DEF Iota
<1>4. state' \in [Lane -> Word] /\ scratch' \in [Lane -> Word] /\ src' = lanes
  <2> HIDE DEF lanes
  <2> QED BY <1>1, <1>3, WriteIs
<1>5. TypeOK'
  BY <1>1, <1>2, <1>4 DEF TypeOK, ROUNDS
<1>6. MidRound'
  BY <1>1 DEF MidRound
<1>7. Array(src') = Standard!Iota(chi, 24 - Standard!Rounds + done)
  <2> DEFINE rc == Standard!RoundConstant(24 - Standard!Rounds + done)
  <2>1. RoundConst(done) = rc
    BY <1>2, RoundConstIs
  <2>2. ASSUME NEW x \in 0..4, NEW y \in 0..4
        PROVE  lanes[5 * y + x] = IF x = 0 /\ y = 0 THEN Standard!Xor(chi[x][y], rc)
                                  ELSE chi[x][y]
    <3>1. 5 * y + x \in Lane /\ (5 * y + x = 0 <=> x = 0 /\ y = 0)
      BY DEF Lane, PLEN
    <3>2. dst[5 * y + x] = chi[x][y]
      BY <1>1, RowsMakeChi
    <3> HIDE DEF chi, rc
    <3> QED BY <2>1, <3>1, <3>2, XorIs
  <2>3. Array(src') = [x \in 0..4 |-> [y \in 0..4 |-> lanes[5 * y + x]]]
    BY <1>4 DEF Array
  <2> HIDE DEF lanes, chi
  <2> QED BY <2>2, <2>3 DEF Standard!Iota
<1> QED BY <1>1, <1>2, <1>5, <1>6, <1>7 DEF Standard!Rnd, B

LEMMA StepIInv == IInv /\ [Next]_vars => IInv'
<1> SUFFICES ASSUME IInv, [Next]_vars PROVE IInv'
  OBVIOUS
<1>1. CASE Fold
  BY <1>1, FoldStep
<1>2. CASE ChiRow
  BY <1>2, ChiRowStep
<1>3. CASE Iota
  BY <1>3, IotaStep
<1>4. CASE UNCHANGED vars
  BY <1>4 DEF vars, IInv, TypeOK, MidRound, src, dst, Array
<1> QED BY <1>1, <1>2, <1>3, <1>4 DEF Next

\* Whatever the states permuted, the array being read is untouched until the
\* round is over and every row written so far is the standard's (chi_row).
THEOREM Invariant == Spec => []IInv
<1> QED BY InitIInv, StepIInv, PTL DEF Spec

\* Every step of the code is a round of KECCAK-p[1600, 12] or leaves its array
\* alone, in either backend and for every input (permute).
THEOREM Implementation == Spec => Implements
<1>1. Init => Standard!Init
  BY DEF Init, Standard!Init, src
<1>2. IInv /\ [Next]_vars => [Standard!Next]_(Standard!vars)
  <2> SUFFICES ASSUME IInv, [Next]_vars PROVE [Standard!Next]_(Standard!vars)
    OBVIOUS
  <2>1. CASE Fold \/ ChiRow
    BY <2>1, FoldStep, ChiRowStep DEF Standard!vars, Array
  <2>2. CASE Iota
    BY <2>2, IotaStep DEF Standard!Next, Standard!vars, Standard!Rounds, ROUNDS, Array
  <2>3. CASE UNCHANGED vars
    BY <2>3 DEF vars, Standard!vars, src, Array
  <2> QED BY <2>1, <2>2, <2>3 DEF Next
<1> QED BY <1>1, <1>2, Invariant, PTL DEF Spec, Implements, Standard!Spec
===============================================================================

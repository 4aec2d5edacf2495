-------------------------------- MODULE Keccak --------------------------------
(***************************************************************************)
(* The permutation as the vector backends compute it (permute, round and   *)
(* chi_row of src/src/backend/avx2/keccak.rs and neon/keccak.rs), lane by  *)
(* lane: no instruction of it moves a bit from one 64-bit lane to another. *)
(* theta is split, rho, pi and chi are fused and read by destination, and  *)
(* the rounds alternate between the state and one scratch array.           *)
(***************************************************************************)
EXTENDS Integers, Sequences

CONSTANT Inputs  \* the states permuted, [Lane -> Word]

PLEN == 25
ROUNDS == 12
Lane == 0..(PLEN - 1)
Word == SUBSET (0..63)

ASSUME InputsAssumption == Inputs \subseteq [Lane -> Word]

VARIABLES backend,         \* "avx2" or "neon"
          state, scratch,  \* the two arrays the rounds alternate between
          d,               \* of the round: what theta adds to each column
          step,            \* of the round: 0 the fold, 1..5 a row, 6 iota
          done             \* rounds done

vars == <<backend, state, scratch, d, step, done>>
-----------------------------------------------------------------------------
\* The instructions, on one 64-bit lane.

xor_si256(a, b)    == (a \ b) \cup (b \ a)
or_si256(a, b)     == a \cup b
andnot_si256(a, b) == b \ a
slli_epi64(a, n)   == {p + n : p \in {q \in a : q + n <= 63}}
srli_epi64(a, n)   == {p - n : p \in {q \in a : q >= n}}

eor(a, b)     == (a \ b) \cup (b \ a)
eor3(a, b, c) == eor(eor(a, b), c)
rotr(a, n)    == {(p + (64 - n)) % 64 : p \in a}
rax1(a, b)    == eor(a, rotr(b, 63))
xar(a, b, n)  == rotr(eor(a, b), n)
bcax(a, b, c) == eor(a, b \ c)

\* rotl::<L, R> with R = 64 - L
rotl(v, L) == or_si256(slli_epi64(v, L), srli_epi64(v, 64 - L))
-----------------------------------------------------------------------------
\* Row y of the fused step: the source and the rotation of t0 to t4.
Row(y) ==
  CASE y = 0 -> << <<0, 0>>,  <<6, 44>>, <<12, 43>>, <<18, 21>>, <<24, 14>> >>
    [] y = 1 -> << <<3, 28>>, <<9, 20>>, <<10, 3>>,  <<16, 45>>, <<22, 61>> >>
    [] y = 2 -> << <<1, 1>>,  <<7, 6>>,  <<13, 25>>, <<19, 8>>,  <<20, 18>> >>
    [] y = 3 -> << <<4, 27>>, <<5, 36>>, <<11, 10>>, <<17, 15>>, <<23, 56>> >>
    [] y = 4 -> << <<2, 62>>, <<8, 55>>, <<14, 39>>, <<15, 41>>, <<21, 2>> >>

\* RC, each word as the positions of its ones.
RC ==
  << {0}, {1, 7, 15}, {1, 3, 7, 15, 63}, {15, 31, 63},
     {0, 1, 3, 7, 15}, {0, 31}, {0, 7, 15, 31, 63}, {0, 3, 15, 63},
     {1, 3, 7}, {3, 7}, {0, 3, 15, 31}, {1, 3, 31},
     {0, 1, 3, 7, 15, 31}, {0, 1, 3, 7, 63}, {0, 3, 7, 15, 63}, {0, 1, 15, 63},
     {1, 15, 63}, {7, 63}, {1, 3, 15}, {1, 3, 31, 63},
     {0, 7, 15, 31, 63}, {7, 15, 63}, {0, 31}, {3, 15, 31, 63} >>

RoundConst(round) == RC[24 - ROUNDS + round + 1]

src == IF done % 2 = 0 THEN state ELSE scratch
dst == IF done % 2 = 0 THEN scratch ELSE state

\* Mutant of Write: in place.
WriteInPlace(lanes) ==
  IF done % 2 = 0 THEN state' = lanes /\ UNCHANGED scratch
  ELSE scratch' = lanes /\ UNCHANGED state

Write(lanes) ==
  IF done % 2 = 0 THEN scratch' = lanes /\ UNCHANGED state
  ELSE state' = lanes /\ UNCHANGED scratch

\* theta: fold each column, then mix it with its two neighbours.
Column(x) ==
  IF backend = "avx2"
  THEN xor_si256(xor_si256(xor_si256(src[x], src[x + 5]),
                           xor_si256(src[x + 10], src[x + 15])), src[x + 20])
  ELSE eor3(eor3(src[x], src[x + 5], src[x + 10]), src[x + 15], src[x + 20])

Mixed(x) ==
  LET before == Column((x + 4) % 5)  after == Column((x + 1) % 5)
  IN  IF backend = "avx2" THEN xor_si256(before, rotl(after, 1)) ELSE rax1(before, after)

\* theta's xor of a lane and rho's rotation of it.
ThetaRho(f, r) ==
  IF backend = "avx2" THEN rotl(xor_si256(src[f], d[f % 5]), r)
  ELSE xar(src[f], d[f % 5], (64 - r) % 64)

t(y, x) == ThetaRho(Row(y)[(x % 5) + 1][1], Row(y)[(x % 5) + 1][2])

ChiLane(y, x) ==
  IF backend = "avx2" THEN xor_si256(t(y, x), andnot_si256(t(y, x + 1), t(y, x + 2)))
  ELSE bcax(t(y, x), t(y, x + 2), t(y, x + 1))
-----------------------------------------------------------------------------
Init ==
  /\ backend \in {"avx2", "neon"}
  /\ state \in Inputs
  /\ scratch = [i \in Lane |-> {}]
  /\ d = [x \in 0..4 |-> {}]
  /\ step = 0 /\ done = 0

Fold ==
  /\ done < ROUNDS /\ step = 0
  /\ d' = [x \in 0..4 |-> Mixed(x)]
  /\ step' = 1
  /\ UNCHANGED <<backend, state, scratch, done>>

ChiRow ==
  /\ step \in 1..5
  /\ Write([i \in Lane |-> IF i \div 5 = step - 1 THEN ChiLane(step - 1, i % 5) ELSE dst[i]])
  /\ step' = step + 1
  /\ UNCHANGED <<backend, d, done>>

Iota ==
  /\ step = 6
  /\ Write([i \in Lane |-> IF i = 0 THEN xor_si256(dst[0], RoundConst(done)) ELSE dst[i]])
  /\ step' = 0 /\ done' = done + 1
  /\ UNCHANGED <<backend, d>>

Next == Fold \/ ChiRow \/ Iota

Spec == Init /\ [][Next]_vars
-----------------------------------------------------------------------------
(***************************************************************************)
(* The array of the standard: A[x][y] lives at 5y + x, in whichever array  *)
(* the rounds done have left their result.                                 *)
(***************************************************************************)
Array(lanes) == [x \in 0..4 |-> [y \in 0..4 |-> lanes[5 * y + x]]]

Standard == INSTANCE KeccakP
              WITH Inputs <- {Array(lanes) : lanes \in Inputs}, A <- Array(src), round <- done

\* The tables of the code are the standard's.
ASSUME StandardTables ==
  /\ \A y \in 0..4, x \in 0..4 :
       Row(y)[x + 1] = << 5 * x + ((x + 3 * y) % 5), Standard!Offset((x + 3 * y) % 5, x) >>
  /\ \A i \in 0..23 : RC[i + 1] = Standard!RoundConstant(i)

\* The permutation is that of the standard, whatever the state: each round of
\* the fused code, over whichever array it reads, is one step of KECCAK-p and
\* no other step of the code is visible (permute, round).
Implements == Standard!Spec

TypeOK ==
  /\ backend \in {"avx2", "neon"}
  /\ state \in [Lane -> Word] /\ scratch \in [Lane -> Word]
  /\ d \in [0..4 -> Word]
  /\ step \in 0..6 /\ done \in 0..ROUNDS
  /\ done = ROUNDS => step = 0

\* Between the fold and iota: d is the mix of the array being read, which no
\* row written so far has touched, and the rows written are those of chi over
\* pi, rho and theta of it; the rest of the other array is still to come.
MidRound ==
  step > 0 =>
    LET a == Array(src)
        b == Standard!Chi(Standard!Pi(Standard!Rho(Standard!Theta(a))))
    IN  /\ \A x \in 0..4 : d[x] = Standard!Mix(a, x)
        /\ \A x \in 0..4, y \in 0..(step - 2) : dst[5 * y + x] = b[x][y]

IInv == TypeOK /\ MidRound
===============================================================================

-------------------------------- MODULE KeccakP -------------------------------
(***************************************************************************)
(* KECCAK-p[1600, 12] of FIPS 202: what the permutation of TurboSHAKE is.  *)
(* A step is one round.  A word is the set of the positions of its one     *)
(* bits; the offsets and the round constants are computed as the standard  *)
(* computes them, by a walk over the lanes and by a shift register.        *)
(***************************************************************************)
EXTENDS Integers

CONSTANT Inputs  \* the arrays it is applied to, [0..4 -> [0..4 -> Word]]

Word == SUBSET (0..63)
Rounds == 12

VARIABLES A,     \* the array: word A[x][y] of the lane in column x, row y
          round  \* rounds behind it

Xor(a, b)  == (a \ b) \cup (b \ a)
Rotl(a, r) == {(p + r) % 64 : p \in a}

\* rho: the walk from the lane (1, 0), and the offset of its t-th lane.
Walk[t \in 0..23] ==
  IF t = 0 THEN <<1, 0>>
  ELSE LET last == Walk[t - 1] IN <<last[2], (2 * last[1] + 3 * last[2]) % 5>>

Offset(x, y) ==
  IF x = 0 /\ y = 0 THEN 0
  ELSE LET t == CHOOSE t \in 0..23 : Walk[t] = <<x, y>>
       IN  (((t + 1) * (t + 2)) \div 2) % 64

\* iota: a shift of the register, the set of its ones; the register after 7i
\* shifts; and the constant of round i of the 24 of KECCAK-f.
Shift(s) ==
  IF 7 \in s THEN Xor({b + 1 : b \in s \ {7}}, {0, 4, 5, 6}) ELSE {b + 1 : b \in s}

Shifts(s) ==
  LET s1 == Shift(s)   s2 == Shift(s1)  s3 == Shift(s2)  s4 == Shift(s3)
      s5 == Shift(s4)  s6 == Shift(s5)  s7 == Shift(s6)
  IN  <<s, s1, s2, s3, s4, s5, s6, s7>>

Register[i \in 0..23] == IF i = 0 THEN {0} ELSE Shifts(Register[i - 1])[8]

RoundConstant(i) == {2^j - 1 : j \in {k \in 0..6 : 0 \in Shifts(Register[i])[k + 1]}}
-----------------------------------------------------------------------------
\* The five step mappings.

Column(a, x) == Xor(Xor(Xor(Xor(a[x][0], a[x][1]), a[x][2]), a[x][3]), a[x][4])
Mix(a, x)    == Xor(Column(a, (x + 4) % 5), Rotl(Column(a, (x + 1) % 5), 1))

Theta(a) == [x \in 0..4 |-> [y \in 0..4 |-> Xor(a[x][y], Mix(a, x))]]
Rho(a)   == [x \in 0..4 |-> [y \in 0..4 |-> Rotl(a[x][y], Offset(x, y))]]
Pi(a)    == [x \in 0..4 |-> [y \in 0..4 |-> a[(x + 3 * y) % 5][x]]]
Chi(a)   == [x \in 0..4 |-> [y \in 0..4 |->
               Xor(a[x][y], a[(x + 2) % 5][y] \ a[(x + 1) % 5][y])]]
Iota(a, i) == [x \in 0..4 |-> [y \in 0..4 |->
                 IF x = 0 /\ y = 0 THEN Xor(a[x][y], RoundConstant(i)) ELSE a[x][y]]]

\* KECCAK-p[1600, 12] takes the last 12 rounds of the 24.
Rnd(a, r) == Iota(Chi(Pi(Rho(Theta(a)))), 24 - Rounds + r)
-----------------------------------------------------------------------------
vars == <<A, round>>

Init == A \in Inputs /\ round = 0

Next ==
  /\ round < Rounds
  /\ A' = Rnd(A, round)
  /\ round' = round + 1

Spec == Init /\ [][Next]_vars
===============================================================================

------------------------------- MODULE MCKeccak -------------------------------
(***************************************************************************)
(* The permutation over the state of all zeros, one dense state, and the   *)
(* two input blocks of the empty message in TurboSHAKE128 and 256, whose   *)
(* outputs src/tests/turboshake_vectors.jsonl:1-2 gives: with them, the    *)
(* standard as KeccakP states it is checked against vectors that are not   *)
(* this crate's.                                                           *)
(***************************************************************************)
EXTENDS Keccak

\* The word of eight bytes, the first one the lowest.
Bytes(b) == {p \in 0..63 : (b[(p \div 8) + 1] \div 2^(p % 8)) % 2 = 1}

\* pad_block of no message under the domain separator 1, at a rate of bytes.
Padded(rate) ==
  [i \in Lane |-> IF i = 0 THEN {0} ELSE IF 8 * i + 8 = rate THEN {63} ELSE {}]

MCInputs == {[i \in Lane |-> {}],
             [i \in Lane |-> {p \in 0..63 : (p * p + 7 * i + ((p * i) % 11)) % 3 = 0}],
             Padded(168), Padded(136)}

\* The standard's permutation, an array after each round as a sequence.
Listed(a) == [k \in 1..PLEN |-> a[(k - 1) % 5][(k - 1) \div 5]] \o <<>>
Arranged(s) == [x \in 0..4 |-> [y \in 0..4 |-> s[5 * y + x + 1]]]

P(lanes) ==
  LET after[r \in 0..ROUNDS] ==
        IF r = 0 THEN Listed(Array(lanes))
        ELSE LET before == after[r - 1] IN Listed(Standard!Rnd(Arranged(before), r - 1))
  IN  after[ROUNDS]

Squeezed(lanes) == LET s == P(lanes) IN [x \in 0..3 |-> s[x + 1]]

ASSUME Vectors ==
  /\ Squeezed(Padded(168)) =
       [x \in 0..3 |->
          CASE x = 0 -> Bytes(<<134, 140, 189, 83, 176, 120, 32, 90>>)
            [] x = 1 -> Bytes(<<187, 133, 129, 93, 148, 31, 125, 3>>)
            [] x = 2 -> Bytes(<<118, 191, 245, 184, 136, 138, 106, 45>>)
            [] x = 3 -> Bytes(<<3, 72, 58, 251, 175, 131, 150, 127>>)]
  /\ Squeezed(Padded(136)) =
       [x \in 0..3 |->
          CASE x = 0 -> Bytes(<<227, 221, 45, 240, 148, 59, 222, 109>>)
            [] x = 1 -> Bytes(<<130, 227, 158, 195, 96, 89, 243, 92>>)
            [] x = 2 -> Bytes(<<215, 103, 32, 226, 223, 56, 204, 107>>)
            [] x = 3 -> Bytes(<<16, 182, 159, 221, 252, 170, 58, 74>>)]
===============================================================================

------------------------------- MODULE BitWords -------------------------------
(***************************************************************************)
(* Machine words whose bits are named by where they came from, for the     *)
(* packing code of src/src/ser.rs.  A word of w bits is a function on      *)
(* 0..(w - 1) whose values are positions in the packed bit stream, or one  *)
(* of the two marks below.                                                 *)
(***************************************************************************)
EXTENDS Integers, Sequences

Zero  == -1   \* a bit known to be 0
Clash == -2   \* the OR of two stream bits, or a bit from outside the stream

ZeroWord(w) == [p \in 0..(w - 1) |-> Zero]

OrBit(a, b) == IF a = Zero THEN b ELSE IF b = Zero THEN a ELSE Clash

OrWord(x, y) == [p \in DOMAIN x |-> OrBit(x[p], y[p])]

\* The OR of a sequence of words of w bits, from the first on.
OrAll(w, words) ==
  LET upTo[j \in 0..Len(words)] ==
        IF j = 0 THEN ZeroWord(w) ELSE OrWord(upTo[j - 1], words[j])
  IN  upTo[Len(words)]

\* y << s in a word of w bits, where y's bits outside its domain are 0.
ShiftLeft(w, y, s) ==
  [p \in 0..(w - 1) |-> IF p - s \in DOMAIN y THEN y[p - s] ELSE Zero]

\* y >> s in a word of w bits: also `y as` a narrower or wider word, for s = 0.
ShiftRight(w, y, s) ==
  [p \in 0..(w - 1) |-> IF p + s \in DOMAIN y THEN y[p + s] ELSE Zero]

\* y & ((1 << n) - 1)
Low(y, n) == [p \in DOMAIN y |-> IF p < n THEN y[p] ELSE Zero]

\* A word of w bits holding the n stream bits from position `from` on.
Run(w, from, n) == [p \in 0..(w - 1) |-> IF p < n THEN from + p ELSE Zero]
=============================================================================

---------------------------- MODULE MCInnerProduct ----------------------------
(***************************************************************************)
(* Kopis-768 at its real size, whose sums are the largest of the three     *)
(* parameter sets: 3 * 256 terms, secrets up to 4.  An operand list        *)
(* repeats two products, one of them 154 times, so that the two forms'      *)
(* sums differ in 16 bits; the extreme ones reach the bound that           *)
(* ExactnessAssumption puts on a sum.                                      *)
(***************************************************************************)
EXTENDS InnerProduct, Transforms

Products == {<<8191, -4>>, <<8191, 4>>, <<6827, 3>>, <<4097, -1>>}

MCInputs ==
  {[n \in 1..Terms |-> IF n % 5 = 1 THEN p ELSE r] : p, r \in Products}
=============================================================================

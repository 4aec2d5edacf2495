-------------------------------- MODULE MCPke ---------------------------------
(***************************************************************************)
(* A ring of degree 2 and a module of rank 2: products wrap around X^2 + 1 *)
(* and matrices differ from their transposes.  Secrets are scaled up until *)
(* some executions have exactly the noise that is still tolerable at T     *)
(* bits, and some have more and decrypt to another message: the matrices'  *)
(* entries make products that lie halfway between two multiples of 8.      *)
(***************************************************************************)
EXTENDS Pke

Linear(a, b) == [d \in Degrees |-> IF d = 0 THEN a ELSE b]

\* Every assignment of one of these to the four entries.
MCMatrices == [Ranks -> [Ranks -> {Linear(2730, 8188), Linear(4096, 1608), Linear(1, 8190)}]]

\* All secrets of extreme coefficients, and one of others.
MCSecrets ==
  VectorOver({-HalfMu, HalfMu}) \cup {[r \in Ranks |-> Linear(HalfMu - 1 - r, r + 1 - HalfMu)]}
=============================================================================

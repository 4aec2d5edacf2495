-------------------------------- MODULE MCKem ---------------------------------
(***************************************************************************)
(* One holder and one sender, two seeds, two messages of which one does    *)
(* not decrypt, two ciphertexts and two answers.  Seeds are symmetric; the *)
(* messages are not, since one of them is unlucky.                         *)
(***************************************************************************)
EXTENDS Kem, TLC

Symmetry == Permutations(Seeds)
=============================================================================

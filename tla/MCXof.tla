--------------------------------- MODULE MCXof --------------------------------
(***************************************************************************)
(* The calls the crate makes, and output lengths at which the wide and the *)
(* narrow stores meet: around one word, one group of words and one block.  *)
(* Two of them share a length, and so may share buffers.                   *)
(***************************************************************************)
EXTENDS Xof

Seeded(r, lengths) == {[rate |-> r, n |-> m] : m \in lengths}

MCCalls == Seeded(168, {416, 1, 31, 167, 169, 185}) \cup Seeded(136, {320, 192, 137, 1})

MCSuffixes == {<<0>>, <<1>>}
===============================================================================

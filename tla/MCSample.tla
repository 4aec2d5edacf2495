------------------------------- MODULE MCSample -------------------------------
(***************************************************************************)
(* The matrices and secrets of the parameter sets of a few ranks, at their *)
(* real sizes: mu is 10, 8 and 6 for ranks 2, 3 and 4.                     *)
(***************************************************************************)
EXTENDS Sample

CONSTANT SomeRanks

Mu(r) == CASE r = 2 -> 10 [] r = 3 -> 8 [] r = 4 -> 6

MCJobs == [kind : {"matrix"}, L : SomeRanks, mu : {6}]
            \cup {[kind |-> "secret", L |-> r, mu |-> Mu(r)] : r \in SomeRanks}

MCCalls == {CallOf(j) : j \in MCJobs}

MCSuffixes ==
  UNION {{<<i, j>> : i, j \in 0..(r - 1)} \cup {<<i>> : i \in 0..(r - 1)} : r \in SomeRanks}
===============================================================================

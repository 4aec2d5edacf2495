------------------------------- MODULE IdealKem -------------------------------
(***************************************************************************)
(* What the KEM promises to the two ends that use it, with no key, hash or *)
(* ciphertext structure left: a table of the secrets encapsulation has     *)
(* handed out and a table of the secrets decapsulation has answered.       *)
(*                                                                         *)
(* An entry is a record [key, ct, ss]: the public key the ciphertext was   *)
(* made for (or decapsulated under), the ciphertext, and the secret. An    *)
(* issued entry also says whether the ciphertext decrypts ("ok"): lattice  *)
(* encryption has a nonzero failure probability.                           *)
(***************************************************************************)
VARIABLES
  issued,    \* what encapsulation returned, to anyone
  answered   \* what decapsulation returned, to anyone

vars == <<issued, answered>>

Secrets == {e.ss : e \in issued \union answered}

Init == issued = {} /\ answered = {}

\* Encapsulation hands out a secret nobody has seen, for a ciphertext nobody
\* has seen under that key.
Encap(i) ==
  /\ i.ss \notin Secrets
  /\ \A e \in issued \union answered : e.key # i.key \/ e.ct # i.ct
  /\ issued' = issued \union {i}
  /\ UNCHANGED answered

\* Decapsulation of an issued ciphertext returns its secret.
Accept(a) ==
  /\ \E i \in issued : i.ok /\ i.key = a.key /\ i.ct = a.ct /\ i.ss = a.ss
  /\ answered' = answered \union {a}
  /\ UNCHANGED issued

\* Decapsulation of anything else returns a secret nobody has seen, the same
\* one every time it is asked.
Reject(a) ==
  /\ ~ \E i \in issued : i.ok /\ i.key = a.key /\ i.ct = a.ct
  /\ ~ \E b \in answered : b.key = a.key /\ b.ct = a.ct
  /\ a.ss \notin Secrets
  /\ answered' = answered \union {a}
  /\ UNCHANGED issued

Next ==
  \/ \E i \in issued' : Encap(i)
  \/ \E a \in answered' : Accept(a) \/ Reject(a)

Spec == Init /\ [][Next]_vars
=============================================================================

CONSTANTS
  Holders = {h1}
  Senders = {e1}
  Seeds = {s1, s2}
  Randomness = {m1, m2}
  Unlucky = {m2}
  Junk = junk
  NoKey = nokey
  MaxEncaps = 2
  MaxDecaps = 2
SPECIFICATION Spec
SYMMETRY Symmetry
INVARIANTS
  Agreement
  ImplicitRejection
  Binding
  StableAnswers
  IInv
PROPERTY
  ImplementsIdeal

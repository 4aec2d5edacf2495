CONSTANTS
  N = 2
  L = 2
  T = 3
  HalfMu = 60
  Matrices <- MCMatrices
  Secrets <- MCSecrets
  None = None
SPECIFICATION Spec
INVARIANTS
  Decrypts
  Reencrypts
  NoiseBound
CHECK_DEADLOCK FALSE

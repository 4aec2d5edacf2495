CONSTANTS
  N = 256
  Widths = {1, 2, 3, 4, 5, 6, 7, 8, 9, 10, 11, 12, 13}
  Inputs <- MCInputs
SPECIFICATION Spec
INVARIANTS
  Layout
  AccessesInBounds
  CentredBinomial
CHECK_DEADLOCK FALSE

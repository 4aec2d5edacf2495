CONSTANTS
  N = 32
  Widths = {1, 3, 4, 6, 10, 13}
SPECIFICATION PackSpec
INVARIANTS
  PackLayout
  PackInBounds
  Complete
  SerializedAgree
CHECK_DEADLOCK FALSE

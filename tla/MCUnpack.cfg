CONSTANTS
  N = 32
  Widths = {1, 3, 4, 6, 10, 13}
SPECIFICATION UnpackSpec
INVARIANTS
  UnpackLayout
  UnpackInBounds
  Consumed
  DeserializedAgree
CHECK_DEADLOCK FALSE

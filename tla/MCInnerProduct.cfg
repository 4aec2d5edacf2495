CONSTANTS
  Terms = 768
  MaxSecret = 4
  Inputs <- MCInputs
SPECIFICATION ProductSpec
INVARIANTS
  Exact
  Lifted
  FormsAgree
CHECK_DEADLOCK FALSE

CONSTANTS
  Inputs <- MCInputs
SPECIFICATION Spec
PROPERTIES
  Implements
CHECK_DEADLOCK FALSE

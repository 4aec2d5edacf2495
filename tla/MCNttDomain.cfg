SPECIFICATION ValuesSpec
CONSTANTS
  Rank = 4
  Plans <- MCPlans
  Inputs <- MCInputs
INVARIANTS
  DomainValuesDiffer
CHECK_DEADLOCK FALSE

SPECIFICATION ValuesSpec
CONSTANTS
  Rank = 4
  Plans <- MCPlans
  Inputs <- MCInputs
INVARIANTS
  Bounded
  Fits
  Fitting
  Evaluates
  Exact
PROPERTY
  ComputesResidues
CHECK_DEADLOCK FALSE

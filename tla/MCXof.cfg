CONSTANTS
  Ways = 4
  Calls <- MCCalls
  Suffixes <- MCSuffixes
SPECIFICATION Spec
INVARIANTS
  Exact
  InBounds

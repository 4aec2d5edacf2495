CONSTANTS
  Ways = 2
  SomeRanks = {2, 3}
  Jobs <- MCJobs
  Calls <- MCCalls
  Suffixes <- MCSuffixes
SPECIFICATION FairSampleSpec
INVARIANTS
  AsSerial
PROPERTIES
  XofContract
  Sampled
CHECK_DEADLOCK FALSE

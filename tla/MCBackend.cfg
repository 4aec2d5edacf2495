CONSTANTS
  t1 = t1
  t2 = t2
  Threads = {t1, t2}
  MaxFlags = 3
  Flags <- MCFlags
  Targets <- MCTargets
  Cpus <- MCCpus
SPECIFICATION FairSpec
INVARIANTS
  SoundDispatch
  OneBackend
  AsDocumented
  RefusedForCause
PROPERTIES
  Settles
CHECK_DEADLOCK FALSE

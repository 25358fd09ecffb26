\* Both bounds set, nothing assumed of the body; what is assumed of cleanups is
\* part of RegisteredCleanupsRun.
SPECIFICATION FairSpec
CONSTANTS
  HasTimeout = TRUE
  HasCleanupTimeout = TRUE
  MaxCleanups = 3
INVARIANTS
  TypeOK
  PassMeansClean
  CleanupsReversed
PROPERTIES
  KeepsLifecycle
  RunOneReturns
  RegisteredCleanupsRun
\* Once everything has ended nothing is left to do.
CHECK_DEADLOCK FALSE

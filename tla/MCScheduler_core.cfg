\* One serial test and two for the pool, watchdogs, and cleanups without a bound
\* of their own: stalls, leaks, interrupts and workers left behind all happen.
SPECIFICATION FairSpec
CONSTANTS
  NTests = 3
  Serial <- SerialOne
  Parallel = 2
  Timeout = 1
  Grace = 1
  CleanupTimeout = 0
  StallTimeout = 2
  MaxInterval = 1
  MaxLeaked = 2
INVARIANTS
  TypeOK
  OneHolder
  SerialFirst
  NoSilentTruncation
  LeaksReported
PROPERTIES
  ResultsFinal
  KeepsContract
  RunReturns

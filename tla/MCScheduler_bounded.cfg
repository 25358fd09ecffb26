\* Bounds on bodies and cleanups, and a stall timeout just above what one test
\* may take.
SPECIFICATION FairSpec
CONSTANTS
  NTests = 3
  Serial <- SerialOne
  Parallel = 2
  Timeout = 1
  Grace = 1
  CleanupTimeout = 1
  StallTimeout = 4
  MaxInterval = 1
  MaxLeaked = 0
INVARIANTS
  NoSpuriousStall
PROPERTIES
  KeepsLifecycles
  ReturnsUnstalled

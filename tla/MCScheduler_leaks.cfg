\* A test that fails after its deadline and before its watchdog, and another one.
SPECIFICATION FairSpec
CONSTANTS
  NTests = 2
  Serial <- SerialNone
  Parallel = 1
  Timeout = 1
  Grace = 1
  CleanupTimeout = 1
  StallTimeout = 0
  MaxInterval = 1
  MaxLeaked = 1
PROPERTIES
  LeakErrorAborts

\* An interrupt while a test is in flight.
SPECIFICATION Spec
CONSTANTS
  NTests = 1
  Serial <- SerialNone
  Parallel = 1
  Timeout = 1
  Grace = 1
  CleanupTimeout = 1
  StallTimeout = 0
  MaxInterval = 1
  MaxLeaked = 0
INVARIANTS
  InterruptUnwinds

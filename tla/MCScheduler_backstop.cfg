\* One unit is 5s: --timeout 10s with the default grace of 5s, cleanup timeout of
\* 1m, stall timeout of 3 * 10s and ticker of 30s.
SPECIFICATION Spec
CONSTANTS
  NTests = 1
  Serial <- SerialNone
  Parallel = 1
  Timeout = 2
  Grace = 1
  CleanupTimeout = 12
  StallTimeout = 6
  MaxInterval = 6
  MaxLeaked = 8
INVARIANTS
  BackstopIsLooser

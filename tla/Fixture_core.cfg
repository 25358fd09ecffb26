\* Up to three versions with every combination of locks, one retry per call.
SPECIFICATION FairSpec
CONSTANTS
  NVersions = 3
  Budget = 1
INVARIANTS
  TypeOK
  NoSilentLeak
  RemovedUnlessRefused
PROPERTIES
  NukeEnds
\* The cleanup ends.
CHECK_DEADLOCK FALSE

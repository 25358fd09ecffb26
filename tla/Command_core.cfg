\* Two tests, every set of known failures and of reports, up to three signals.
SPECIFICATION FairSpec
CONSTANTS
  NTests = 2
  MaxSignals = 3
INVARIANTS
  TypeOK
  SuccessMeansExpected
  SuccessMeansReported
PROPERTIES
  TwoInterruptsExit
  OneInterruptExits
\* The process exits.
CHECK_DEADLOCK FALSE

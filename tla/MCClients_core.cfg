\* Pairs and some triples of options, every client, a server that may never answer.
SPECIFICATION FairSpec
CONSTANTS
  OptionLists <- MCOptionLists
  Answers <- MCAnswers
INVARIANTS
  OptionsTakeEffect
  SignedAsSent
  ConflictsAreErrors
  VerdictIsTheServers
PROPERTIES
  CallReturns
\* The call ends.
CHECK_DEADLOCK FALSE

\* Every suite, list and expression within the bounds of MCSelection.
SPECIFICATION Spec
CONSTANTS
  Marker = {"a", "b"}
  Names <- TestNames
  Suites <- SmallSuites
  Lists <- SmallLists
  Expressions <- SmallExpressions
INVARIANTS
  ParserMeetsGrammar
  SelectionComplete
  AllowListGates
  KnownFailuresAccounted
\* The selection ends.
CHECK_DEADLOCK FALSE

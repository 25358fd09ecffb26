\* An entry whose name is that of a test, in another module.
SPECIFICATION Spec
CONSTANTS
  Marker = {"a", "b"}
  Names <- TestNames
  Suites <- SmallSuites
  Lists <- SmallLists
  Expressions <- OneExpression
INVARIANTS
  UnknownEntriesCounted
\* The selection ends.
CHECK_DEADLOCK FALSE

\* Two tests of one run or of two; every length as large as the limit allows.
SPECIFICATION Spec
CONSTANTS
  Files <- MCFiles
  Section <- MCSection
  Key <- MCKey
  Value <- MCValue
  Absent = absent
  Number <- MCNumber
  Fixed <- MCFixed
  Holes <- MCHoles
  MaxPrefixLen = 3
  Run = {r, s}
  Env = {e, f}
  Alphabet <- MCAlphabet
  TestNames <- MCTestNames
  Lower <- MCLower
  MaxSlugLen = 3
  TokenLen = 1
  Numeral <- MCNumeral
  MaxDigits = 2
  MaxBuckets = 2
  Exact <- MCExact
  ShortPrefix = 5
  Lengths = {11}
  NameLimit = 11
SYMMETRY Symmetry
INVARIANTS
  TypeOK
  ReadAsWritten
  NamesAreLegal
  LeftoversAreExplained
PROPERTIES
  CleanupIsScoped
\* The tests end.
CHECK_DEADLOCK FALSE

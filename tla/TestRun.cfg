SPECIFICATION FairSpec
CONSTANTS
  Addr = {0}
  Modulus = 32
  PipeCap = 2
  NUM_XACTIONS = 15
INVARIANTS
  TypeOK
  ResponseMatches
  StopsLast
PROPERTIES
  TestEnds
\* testhost and the simulation both stop.
CHECK_DEADLOCK FALSE

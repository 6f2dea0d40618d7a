SPECIFICATION CFairSpec
CONSTANTS
  Addr <- MCAddr
  Modulus = 4
  PipeCap = 1
  FdLimit = 6
  FaultKinds <- MCAllKinds
  MaxRelayFaults = 3
INVARIANTS
  NeverMoreThanOwed
PROPERTIES
  ImplementsLossyPromise
  EveryAccessEnds
CHECK_DEADLOCK FALSE

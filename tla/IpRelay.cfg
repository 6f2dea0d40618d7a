\* Without a fault left the host may be left waiting for good: deadlock is not an error.
SPECIFICATION FairSpec
CONSTANTS
  Addr <- MCOneAddr
  Modulus = 3
  PipeCap = 1
  FdLimit = 4
  MaxFaults = 1
INVARIANTS
  TypeOK
  InFlightMatches
  NeverTwoPackets
  EndsAreServed
PROPERTIES
  ImplementsPromise
  EveryAccessEnds
  EveryAccessReturns
  Reconnects
CHECK_DEADLOCK FALSE

SPECIFICATION FairSpec
CONSTANTS
  Addr <- MCAddr
  Modulus = 4
  PipeCap = 1
  FdLimit = 7
INVARIANTS
  TypeOK
  Conservation
  InFlightMatches
  NumberCountsLeak
  NeverStopsDevice
PROPERTIES
  ImplementsPromise
  EveryAccessReturns
  RefusedForGood

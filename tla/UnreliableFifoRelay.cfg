\* As many faults as there is room for packets: the last state may be one in which
\* everybody waits, so deadlock is not an error here.
SPECIFICATION UFairSpec
CONSTANTS
  Addr = {0}
  Modulus = 3
  PipeCap = 1
  FdLimit = 4
  MaxHostFaults = 7
INVARIANTS
  UTypeOK
  Surplus
PROPERTIES
  ServesInOrder
  WedgedOnlyWhenFull
CHECK_DEADLOCK FALSE

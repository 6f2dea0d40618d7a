SPECIFICATION Spec
CONSTANTS
  Addr <- MCOneAddr
  Modulus = 3
  PipeCap = 1
  FdLimit = 4
  MaxFaults = 1
INVARIANTS
  HeldReplyHasSocket
CHECK_DEADLOCK FALSE

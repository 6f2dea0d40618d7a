SPECIFICATION UFairSpec
CONSTANTS
  Addr <- MCAddr
  Modulus = 4
  PipeCap = 1
  FdLimit = 6
  MaxHostFaults = 2
INVARIANTS
  ReplyAnswersAccess

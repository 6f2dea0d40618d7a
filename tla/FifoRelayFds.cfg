SPECIFICATION Spec
CONSTANTS
  Addr <- MCAddr
  Modulus = 4
  PipeCap = 1
  FdLimit = 4
INVARIANTS
  RepliedDataRelayed

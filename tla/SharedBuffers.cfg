\* An access whose request or reply is lost leaves everybody waiting: deadlock is not an error.
SPECIFICATION HSpec
CONSTANTS
  Addr <- MCOneAddr
  Modulus = 4
  PipeCap = 1
  FdLimit = 6
  MaxFaults = 1
  MaxHostFaults = 1
INVARIANTS
  NeverMoreThanOwed
  NoOvertaking
  SentAsTaken
PROPERTIES
  ServesInOrder
CHECK_DEADLOCK FALSE

SPECIFICATION Spec
CONSTANTS
  Modes = {1, 2}
  Bars = {"bar0_fwd", "bar1_fwd"}
  Windows <- MCWindows
  Sizes = {4, 8}
  Byte = {1, 2}
  DummyValue <- MCDummyValue
  Budget = 4
  MaxHostFaults = 2
INVARIANTS
  TypeOK
  MemoryHitsDeviceBar
PROPERTIES
  OnlyLeftoversAreRead

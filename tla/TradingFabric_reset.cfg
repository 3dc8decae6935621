\* The same instance; the host may send a CLEAR while an event is worked on.
CONSTANTS
  Symbols = {s1, s2}
  NoSlot = NoSlot
  None = None
  FifoDepth = 1
  CrcCycles = 2
  LoopbackCycles = 3
  CalcCycles = {1, 5}
  MaxPackets = 3
SPECIFICATION FairSpec
PROPERTIES ResetIsPerformed
CHECK_DEADLOCK TRUE

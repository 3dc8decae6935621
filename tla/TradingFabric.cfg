\* Two slots, FIFOs of one cell, three packets; a calculation may end before
\* or after the next command is classified.
CONSTANTS
  Symbols = {s1, s2}
  NoSlot = NoSlot
  None = None
  FifoDepth = 1
  CrcCycles = 2
  LoopbackCycles = 3
  CalcCycles = {1, 5}
  MaxPackets = 3
SPECIFICATION FairSpec
INVARIANTS TypeOK EnginesAgree ClearSeparates
PROPERTIES AnswersRequests PatientHostIsServed
CHECK_DEADLOCK TRUE

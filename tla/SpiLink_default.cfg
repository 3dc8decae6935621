\* FIFOs of two cells, three packets, all with the default sequence number.
CONSTANTS
  Depth = 2
  MaxPackets = 3
  SequenceOf <- DefaultNumber
  None = None
  Filler = Filler
SPECIFICATION Spec
INVARIANTS AckIsTruthful
CHECK_DEADLOCK FALSE

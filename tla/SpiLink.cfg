\* FIFOs of two cells, five packets, every packet its own sequence number.
CONSTANTS
  Depth = 2
  MaxPackets = 5
  SequenceOf <- OwnNumber
  None = None
  Filler = Filler
SPECIFICATION Spec
INVARIANTS TypeOK AckIsTruthful UndisturbedExchangeSucceeds OnceInOrder
CHECK_DEADLOCK FALSE

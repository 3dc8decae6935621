\* Two packets, the deployed depth of four cells, counters that wrap at 2.
CONSTANTS
  Data = {p1, p2}
  Depth = 4
  PtrWidth = 3
  CountMod = 2
  Gray <- GrayOf
SPECIFICATION FairSpec
INVARIANTS TypeOK FlagsErrSafely
PROPERTIES ImplementsQueue WrittenBecomesVisible DrainedFifoAccepts
CHECK_DEADLOCK TRUE

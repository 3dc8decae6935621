\* Two inputs share the files; checkpoints every two events; one run may be lost.
CONSTANTS
  Symbols = {s1, s2}
  s1 = s1
  s2 = s2
  Combined = Combined
  Windows = {2}
  Depths = {1, 2}
  ClockHz = 2
  ServiceNum = 3
  StreamSample = 3
  CombinedSample = 2
  Inputs = {a, b}
  a = a
  b = b
  Traces <- MCTraces
  Interval = 2
  MaxLost = 1
  Absent = Absent
SPECIFICATION Spec
INVARIANTS TypeOK StateIsAPrefix AdoptsOwnState ThreeWaysAgree QueueIsReal
PROPERTIES InterruptedRunsFinish
CHECK_DEADLOCK TRUE

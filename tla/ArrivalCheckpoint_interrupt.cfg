\* The instance of ArrivalCheckpoint.cfg without lost runs.
CONSTANTS
  Symbols = {s1, s2}
  s1 = s1
  s2 = s2
  Combined = Combined
  Windows = {2}
  Depths = {1, 2}
  ClockHz = 2
  ServiceNum = 3
  StreamSample = 3
  CombinedSample = 2
  Inputs = {a, b}
  a = a
  b = b
  Traces <- MCTraces
  Interval = 2
  MaxLost = 0
  Absent = Absent
SPECIFICATION Spec
INVARIANT InterruptLeavesResumableState
CHECK_DEADLOCK TRUE

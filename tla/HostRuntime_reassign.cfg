\* The same instance, asked whether a reassigned slot was cleared first.
CONSTANTS
  Slots = {s0, s1}
  Symbols = {SPY, QQQ}
  None = None
  MaxSequence = 2
SPECIFICATION Spec
INVARIANTS FpgaHoldsOnlyItsSymbol
CHECK_DEADLOCK TRUE

\* Two slots, two tickers, sequence numbers up to two.
CONSTANTS
  Slots = {s0, s1}
  Symbols = {SPY, QQQ}
  None = None
  MaxSequence = 2
SPECIFICATION Spec
INVARIANTS TypeOK OneActiveSlotPerSymbol RemapSlotIsClean NextEventIsFresh
CHECK_DEADLOCK TRUE

\* Two symbols, two days, up to six events and two orders by candidates.
CONSTANTS
  Symbols = {s1, s2}
  Flat = Flat
  NONE = NONE
  LONG = LONG
  SHORT = SHORT
  Configs <- MCConfigs
  Quotes <- MCQuotes
  NoFeature = NoFeature
  NoSymbol = NoSymbol
  MaxEvents = 6
  MaxDay = 1
  MaxOrders = 2
SPECIFICATION Spec
SYMMETRY Symmetry
INVARIANTS TypeOK PendingAgree CashReconciles OrdersAccounted EligibleOrdersFill
PROPERTIES CloseIsComplete
CHECK_DEADLOCK FALSE

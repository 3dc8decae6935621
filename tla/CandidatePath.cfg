\* Two symbols, two days, up to seven events.
CONSTANTS
  Symbols = {0, 1}
  Unlisted = 2
  TradeWindow = 2
  MomentumWindow = 1
  VwapWindow = 1
  BpsScale = 1000000
  BpsWidth = 21
  ImbalanceFracBits = 15
  ImbalanceWidth = 16
  SampleSize = 3
  MaxCooldown = 2
  MaxEvents = 7
  MaxDay = 1
  Horizons <- MCHorizons
  Configs <- MCConfigs
  Offered <- MCOffered
  NONE = NONE
  LONG = LONG
  SHORT = SHORT
  Combined = Combined
  NoFeature = NoFeature
  NoReturn = NoReturn
  NoPrice = NoPrice
  NoQuote = NoQuote
  NoValue = NoValue
  NoSequence = NoSequence
  NoInput = NoInput
  NoSignal = NoSignal
SPECIFICATION Spec
INVARIANTS TypeOK WindowsMatchHistory AssignedNeverRefused StreamingAgrees
PROPERTIES StrategyFollowsRtl
CHECK_DEADLOCK FALSE

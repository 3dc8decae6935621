\* One slot (slots share only the configuration), cooldowns of zero to three.
CONSTANTS
  Symbols = {s1}
  MaxCooldown = 3
  Horizon = 4
  NoSignal = NoSignal
  NONE = NONE
  LONG = LONG
  SHORT = SHORT
SPECIFICATION Spec
INVARIANTS TypeOK CooldownMeasuresFeatures
PROPERTIES CandidatesKeepTheirDistance DisarmedSlotFires LastingConditionRepeats
CHECK_DEADLOCK TRUE

SPECIFICATION Spec
CONSTANTS
  NONE = NONE
  plain = plain
  chip = chip
  Plans <- PlainAndChip
  ChipPlans <- OnlyChip
  Issues = {}
  Pids = {}
  LastGw = 1
  Tokens <- YesStopChat
  MaxMessages = 3
  MaxFaults = 0
  Overlap = TRUE
  TornSaves = FALSE
PROPERTY FinalLocksStandingConsent

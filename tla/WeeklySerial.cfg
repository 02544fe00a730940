SPECIFICATION Spec
CONSTANTS
  NONE = NONE
  plain = plain
  chip = chip
  Plans <- PlainAndChip
  ChipPlans <- OnlyChip
  Issues = {}
  Pids = {}
  LastGw = 2
  Tokens <- YesStopChat
  MaxMessages = 2
  MaxFaults = 1
  Overlap = FALSE
  TornSaves = FALSE
PROPERTIES
  StandingConsentDecides
  ClosedStaysClosed
  ImplementsWriteGate

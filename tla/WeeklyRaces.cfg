SPECIFICATION FairSpec
CONSTANTS
  NONE = NONE
  plain = plain
  chip = chip
  Plans <- PlainAndChip
  ChipPlans <- OnlyChip
  Issues = {}
  Pids = {}
  LastGw = 2
  Tokens <- YesStopChat
  MaxMessages = 1
  MaxFaults = 1
  Overlap = TRUE
  TornSaves = TRUE
INVARIANTS
  TypeOK
  NoApplyWithoutYes
  NoChipLocks
  ClosedAsRecorded
PROPERTY LoudDeadline

SPECIFICATION FairSpec
CONSTANTS
  NONE = NONE
  a1 = a1
  a2 = a2
  Analysts <- TwoAnalysts
  AM = AM
  Scout = Scout
  CallRail = 1
  Turns = 2
  Searches = 1
  MaxAsks = 1
  MaxSweeps = 1
  MaxFaults = 1
CHECK_DEADLOCK FALSE
INVARIANTS
  TypeOK
  RailHolds
  NeverSilent
  NoEntryLost
PROPERTIES
  BriefGoesOut

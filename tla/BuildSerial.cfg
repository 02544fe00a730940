SPECIFICATION Spec
CONSTANTS
  NONE = NONE
  plan = plan
  issue1 = issue1
  issue2 = issue2
  pid1 = pid1
  pid2 = pid2
  Plans <- OnePlan
  ChipPlans = {}
  Issues <- TwoIssues
  Pids <- TwoPids
  LastGw = 2
  MaxMessages = 5
  MaxFaults = 2
  Overlap = FALSE
SYMMETRY Interchangeable
INVARIANTS
  TypeOK
  OneBuildRuns
  LiveBuildIsNamed
PROPERTY ImplementsBuildQueue

SPECIFICATION Spec
CONSTANTS
  NONE = NONE
  plan = plan
  issue1 = issue1
  issue2 = issue2
  pid1 = pid1
  pid2 = pid2
  Plans <- OnePlan
  ChipPlans = {}
  Issues <- TwoIssues
  Pids <- TwoPids
  LastGw = 1
  MaxMessages = 4
  MaxFaults = 0
  Overlap = FALSE
SYMMETRY Interchangeable
PROPERTY RefusedOnlyWhileRunning

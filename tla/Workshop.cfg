SPECIFICATION Spec
CONSTANTS
    TurnCap = 5
    ToolCap = 1
    MaxCalls = 3
    FixTurns = 2
    MaxTries = 2
    MaxAsks = 3
    Issues = {"build-7"}
    Slugs = {"chips"}
    Halves = {"build", "roles"}

CHECK_DEADLOCK FALSE
INVARIANTS
    TypeOK
    CapsHold
    FixBudget
    PushedIsCleared
    ReportedIsThere
PROPERTIES
    WriteOnce
    BuildEnds

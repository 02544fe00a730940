SPECIFICATION Spec
CONSTANTS
    Players = {1, 2}
    SquadSize = 1
    MaxGW = 3
    HalfGW = 1
    FTCap = 2
    MaxMoves = 1
    MaxCli = 1
    Schedules = {TRUE, FALSE}
    Chats = {}
    Replies <- MCSilent
    Bad = 0
    MaxPerReply = 2
    Briefed = {1, 2, 3}

CHECK_DEADLOCK FALSE
INVARIANTS
    TypeOK
    SyncedIsTrue
    FreshDraft
    LockedIsGraded

SPECIFICATION Spec
CONSTANTS
    Players = {1, 2}
    SquadSize = 1
    MaxGW = 5
    HalfGW = 1
    FTCap = 2
    MaxMoves = 0
    MaxCli = 0
    Schedules = {TRUE, FALSE}
    Chats = {1, 2}
    Replies <- MCReplies
    Bad = 0
    MaxPerReply = 2
    Briefed = {}

CHECK_DEADLOCK FALSE
INVARIANTS
    DiaryOnce
PROPERTIES
    DeliveredBeforeMark
    ImplementsReviewDuty
    EverySettledReviewed

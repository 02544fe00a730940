SPECIFICATION Spec
CONSTANTS
    Chats = {1, 2}
    Values = {"fit", "injured", "gone"}
    Gone = "gone"
    NamedBy = {"squad", "shortlist"}
    MaxEvents = 4

INVARIANTS
    TypeOK
    ToldOfBaseline
PROPERTIES
    AlertArrives
    GoodCodeRuns

\* Phase 3 on the own server under edits, and on a server that answers anything.
SPECIFICATION FairSpec
CONSTANTS
    OwnStamps <- RofrStamps
    NStandards = 3
    Stamps <- OneStamp
    Contents = {"sound", "misdated"}
    Epoch = 2
    PageSize = 2
    Limits = {1, 3, 5}
    ForeignReplies <- AllReplies
    MaxPages = 3
    MaxEdits = 2
    None = None
CHECK_DEADLOCK FALSE
INVARIANTS
    LimitKept
    TroubleIsReported
    OwnHarvestComplete
PROPERTIES
    OwnHarvestEnds

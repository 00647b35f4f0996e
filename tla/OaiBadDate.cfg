\* Bounds that are no dates, and bounds the calendar does not have.
SPECIFICATION Spec
CONSTANTS
    OwnStamps <- RofrStamps
    NStandards = 1
    Stamps <- SomeStamps
    Contents = {"sound"}
    Epoch = 2
    PageSize = 2
    Queries <- DatedQueries
    MaxEdits = 0
    None = None
CHECK_DEADLOCK FALSE
INVARIANTS
    InvalidDatesAreRefused

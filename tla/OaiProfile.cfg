\* Phases 1 and 2 on the own server under edits, on one that breaks down, and
\* on servers with one answer.
SPECIFICATION Spec
CONSTANTS
    OwnStamps <- RofrStamps
    NStandards = 1
    Stamps <- SomeStamps
    Contents <- AllContents
    OwnValid <- Own
    IdentifyValid = TRUE
    Epoch = 2
    PageSize = 3
    Answers <- AllAnswers
    Breakdowns <- SomeBreakdowns
    MaxEdits = 2
    None = None
CHECK_DEADLOCK FALSE
INVARIANTS
    ConstantAnswerFails
    BreakdownShows
PROPERTIES
    SelfConformance

\* A client lists the catalog with every kind of arguments, edits between pages.
SPECIFICATION FairSpec
CONSTANTS
    OwnStamps <- RofrStamps
    NStandards = 2
    Stamps <- SomeStamps
    Contents = {"sound", "misdated"}
    Epoch = 2
    PageSize = 2
    Queries <- AllQueries
    MaxEdits = 2
    None = None
CHECK_DEADLOCK FALSE
INVARIANTS
    ExactListing
    NothingMissed
    ListedCanBeFetched
PROPERTIES
    ListingEnds

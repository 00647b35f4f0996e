\* One page, two runs, two requests in flight, losses and late answers.
SPECIFICATION FairSpec
CONSTANTS
    Runs = {r1, r2}
    MaxCalls = 2
    None = None
CHECK_DEADLOCK FALSE
INVARIANTS
    PageTypeOK
    FormIsOfShownResult
PROPERTIES
    WatchComesToVerdict
    PollingStops

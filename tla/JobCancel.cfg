\* Cancel on a run whose pipeline is a request, or is asked for again.
SPECIFICATION Spec
CONSTANTS
    Runs = {r1}
    Execs = {e1}
    Endpoints = {u1}
    Ids = {i1}
    Tallies <- Clean
    Texts <- SomeText
    MaxFailures = 0
    MaxWarnings = 0
    RequireBuiltin = TRUE
    None = None
CHECK_DEADLOCK FALSE
PROPERTIES
    CancelInterrupts

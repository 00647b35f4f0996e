\* A phase raises an exception whose text is empty, as a timeout's is.
SPECIFICATION Spec
CONSTANTS
    Runs = {r1}
    Execs = {e1}
    Endpoints = {u1}
    Ids = {i1}
    Tallies <- Clean
    Texts <- NoText
    MaxFailures = 0
    MaxWarnings = 0
    RequireBuiltin = TRUE
    None = None
CHECK_DEADLOCK FALSE
INVARIANTS
    FailureIsAnswered500

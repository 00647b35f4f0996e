\* Two runs of one endpoint compete for its registration.
SPECIFICATION Spec
CONSTANTS
    Runs = {r1, r2}
    Execs = {e1, e2}
    Endpoints = {u1}
    Ids = {i1, i2}
    Tallies <- CleanOrFailing
    Texts <- SomeText
    MaxFailures = 0
    MaxWarnings = 0
    RequireBuiltin = TRUE
    None = None
SYMMETRY RunExecSymmetry
CHECK_DEADLOCK FALSE
INVARIANTS
    PublishedOnceFromReport

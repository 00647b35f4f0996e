\* One run under fairness: a worker, reruns, single phases and Cancel.
SPECIFICATION FairSpec
CONSTANTS
    Runs = {r1}
    Execs = {e1, e2}
    Endpoints = {u1}
    Ids = {i1}
    Tallies <- CleanOrFailing
    Texts <- SomeText
    MaxFailures = 0
    MaxWarnings = 0
    RequireBuiltin = TRUE
    None = None
CHECK_DEADLOCK FALSE
PROPERTIES
    RunningSettles
    ExecutionsEnd

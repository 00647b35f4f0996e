\* One run, three executions of pipeline code in any interleaving.
SPECIFICATION Spec
CONSTANTS
    Runs = {r1}
    Execs = {e1, e2, e3}
    Endpoints = {u1}
    Ids = {i1}
    Tallies <- Clean
    Texts <- SomeText
    MaxFailures = 0
    MaxWarnings = 0
    RequireBuiltin = TRUE
    None = None
SYMMETRY ExecSymmetry
CHECK_DEADLOCK FALSE
INVARIANTS
    TypeOK
    MergedFromOneExecution
    OneWorkerPerRun
    CanceledWorkerNeverReports
    FailedRunNotRegistrable
    StepperIsPrefix
PROPERTIES
    NoResurrection
    KeepsJobStatus
    ProgressNeverFalls

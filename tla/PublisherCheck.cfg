\* Server and two checkers whose sections do not overlap; crashes anywhere.
SPECIFICATION CheckedSpec
CONSTANTS
    Server = server
    Checkers = {c1, c2}
    Inodes = {f1, f2}
    i1 = i1
    i2 = i2
    u1 = u1
    u2 = u2
    Ids = {i1, i2}
    Endpoints = {u1, u2}
    MaxChecks = 2
    Overlap = FALSE
    None = None
    Serves <- TwoServers
CHECK_DEADLOCK FALSE
SYMMETRY Symmetry
INVARIANTS
    TypeOK
    AckedIsStored
    NoDuplicates
    OkIsEarned
    ExitZeroMeansOk
    AnnotatedTogether
PROPERTIES
    CheckOnlyStamps
    RegistrySpec
    IsPublisherFile

\* The command runs beside the live server and nothing keeps them apart.
SPECIFICATION Spec
CONSTANTS
    Server = server
    Checkers = {c1}
    Inodes = {f1, f2, f3}
    Ids = {i1, i2}
    Endpoints = {u1, u2}
    MaxChecks = 1
    Overlap = TRUE
    None = None
CHECK_DEADLOCK FALSE
SYMMETRY Symmetry
PROPERTIES
    CheckOnlyStamps

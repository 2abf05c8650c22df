SPECIFICATION Spec
CONSTANTS
    r1 = r1
    r2 = r2
    w1 = w1
    w2 = w2
    Runs <- MCRuns
    Workers <- MCWorkers
    MaxItems = 3
INVARIANTS
    OkMeansAccepted
    NothingLeft
PROPERTIES
    LateCancelHarmless
    UploadEnds
\* Every upload is made once, so the system stops when they are over.
CHECK_DEADLOCK FALSE

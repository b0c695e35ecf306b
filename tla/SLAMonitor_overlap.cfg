\* Two workers whose scans overlap, with failures.
SPECIFICATION FairSpec
CONSTANTS
    NoOne = NoOne
    e1 = e1
    e2 = e2
    w1 = w1
    w2 = w2
    Scanners = {w1, w2}
    Executions = {e1, e2}
    Deadline <- MCDeadline
    Outcomes = {"APPROVED", "REJECTED"}
    MaxTime = 3
    MaxFailures = 2
INVARIANTS
    TypeOK
    FlagMeansEscalated
    
    LocksAreStaged
PROPERTIES
    OverdueIsHandled
CHECK_DEADLOCK FALSE

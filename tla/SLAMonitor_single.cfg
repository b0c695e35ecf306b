\* One worker process.
SPECIFICATION Spec
CONSTANTS
    NoOne = NoOne
    e1 = e1
    e2 = e2
    w1 = w1
    w2 = w2
    Scanners = {w1}
    Executions = {e1, e2}
    Deadline <- MCDeadline
    Outcomes = {"APPROVED", "REJECTED"}
    MaxTime = 3
    MaxFailures = 3
INVARIANTS
    EscalatedOnce
CHECK_DEADLOCK FALSE

\* A request started while its workflow is being deleted.
SPECIFICATION Spec
CONSTANTS
    None = None
    Workflows = {w1, w2}
    Popular = {w1}
    MaxStarts = 2
    MaxDeletes = 2
    MaxMounts = 2
INVARIANTS
    ActiveRequestsSurvive
CHECK_DEADLOCK FALSE

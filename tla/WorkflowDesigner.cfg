\* A wizard with up to three steps, and JSON sources good and bad.
SPECIFICATION Spec
CONSTANTS
    manager = manager
    ghost = ghost
    NoRole = NoRole
    RoleNames = {manager}
    JsonSources <- MCJsonSources
    MaxSteps = 3
    MaxAdded = 3
INVARIANTS
    TypeOK
    ChainIsCurrent
    StoredAsDrawn
    StoredAsWritten
CHECK_DEADLOCK FALSE

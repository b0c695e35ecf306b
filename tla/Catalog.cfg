\* Two workflows, two starts, two deletions, two pages opened.
SPECIFICATION FairSpec
CONSTANTS
    None = None
    Workflows = {w1, w2}
    Popular = {w1}
    MaxStarts = 2
    MaxDeletes = 2
    MaxMounts = 2
INVARIANTS
    TypeOK
    StartedIsShown
    OneDeletionSticks
PROPERTIES
    OnlyRacingRequestsLost
    StartingEnds
CHECK_DEADLOCK FALSE

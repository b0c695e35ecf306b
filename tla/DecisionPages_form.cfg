\* The server as it is: it serves no steps, and cannot store what the tasks
\* page posts.
SPECIFICATION Spec
CONSTANTS
    r1 = r1
    r2 = r2
    NoTask = NoTask
    NoDetails = NoDetails
    Requests = {r1, r2}
    LastStage = 2
    Cleared = {1, 2}
    Storable = {"request"}
    Viewed = r1
    StepsServed = FALSE
    MaxDecisions = 2
    MaxOthers = 1
    MaxCalls = 1
    MaxVisits = 1
    Filters = {"", "IN_PROGRESS", "COMPLETED"}
    AllNodes = ""
    NoRows = "no rows"
    MaxChanges = 2
INVARIANTS
    LockMeansFinalized
CHECK_DEADLOCK FALSE

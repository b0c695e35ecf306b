\* Two requests of two stages; the user is cleared for both stages.
SPECIFICATION FairSpec
CONSTANTS
    r1 = r1
    r2 = r2
    NoTask = NoTask
    NoDetails = NoDetails
    Requests = {r1, r2}
    LastStage = 2
    Cleared = {1, 2}
    Storable = {"tasks", "request"}
    Viewed = r1
    StepsServed = TRUE
    MaxDecisions = 2
    MaxOthers = 1
    MaxCalls = 1
    MaxVisits = 1
    Filters = {"", "IN_PROGRESS", "COMPLETED"}
    AllNodes = ""
    NoRows = "no rows"
    MaxChanges = 2
INVARIANTS
    TypeOK
    OneDecisionAtATime
    CommentSentOnce
    
    OneSubmissionAtATime
    
    RowsMatchFilter
PROPERTIES
    
    ButtonsComeBack
CHECK_DEADLOCK FALSE

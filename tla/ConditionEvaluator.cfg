\* All operators on all kinds of data.
SPECIFICATION Spec
CONSTANTS
    None = None
    stepA = stepA
    stepB = stepB
    Contexts <- MCContexts
    Tables <- MCTables
    Data <- MCData
    Substrings <- MCSubstrings
INVARIANTS
    AnswerMatches
    ThresholdRouting
CHECK_DEADLOCK FALSE

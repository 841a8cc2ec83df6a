CONSTANTS
    Values <- MCValues
    Functions <- MCFunctions
    Sig <- MCSig
    Class <- MCClass
    Requests <- MCRequests
    IntRange = 64
    NotBase64 = NotBase64
    Empty = Empty
    Other = Other
    None = None
SPECIFICATION Spec
INVARIANTS
    AnswersItsRequest
    RefusedChangesNothing
    ArgumentsFit
    CachedIsApplied
CHECK_DEADLOCK FALSE

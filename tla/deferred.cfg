CONSTANTS
    Plain = {a}
    Foreign = {f}
    TypeError = TypeError
    Outcomes = Outcomes
    jQuery = jQuery
    HandlerSets <- MCHandlerSets
    MaxMade = 3
    MaxCalls = 2
    MaxHolds = 1
    None = None
SPECIFICATION FairSpec
INVARIANTS OutcomeIsFirst WhenWaits
PROPERTIES ChainsEnd
CHECK_DEADLOCK FALSE

CONSTANTS
    Kinds <- SomeKinds
    MaxItems = 3
    MaxStops = 2
    MaxLoops = 3
    None = None
SPECIFICATION Spec
INVARIANTS SentinelIsTrue OriginalComesBack AnimationsGoOn
PROPERTIES PromiseIsKept
CHECK_DEADLOCK FALSE

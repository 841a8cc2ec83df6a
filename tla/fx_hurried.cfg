CONSTANTS
    Kinds <- SomeKinds
    MaxItems = 3
    MaxStops = 2
    MaxLoops = 3
    None = None
SPECIFICATION Spec
INVARIANTS OneByOne
CHECK_DEADLOCK FALSE

CONSTANTS
    box = box
    row = row
    Nodes = {box, row}
    Up <- Page
    Checkable = {box}
    f = f
    Forms <- FormsOfOne
    MaxBound = 2
    MaxGestures = 2
    Nil = Nil
SPECIFICATION EventsSpec
INVARIANTS EachIsCalledOnce StateComesFirst NothingLeftBehind
CHECK_DEADLOCK FALSE

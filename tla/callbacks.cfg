CONSTANTS
    Lists = {l}
    OptionSets <- AllOptions
    Fns = {f, g}
    MaxAdds = 3
    MaxFires = 2
    None = None
SPECIFICATION Spec
INVARIANTS NoneForgotten
PROPERTIES Announces
CHECK_DEADLOCK FALSE

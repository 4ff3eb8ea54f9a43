CONSTANTS
    a = a
    b = b
    c = c
    w1 = w1
    w2 = w2
    Commands = {a, b, c}
    Workspaces = {w1, w2}
    None = None
    Faults = TRUE
    Crashes = TRUE
SPECIFICATION Spec
SYMMETRY Symmetry
INVARIANTS TypeOK RecordsTellOutcomes PriorityIsExplicit
PROPERTIES SettledIsFinal

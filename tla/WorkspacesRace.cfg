CONSTANTS
    a = a
    b = b
    c = c
    n1 = n1
    n2 = n2
    d1 = d1
    d2 = d2
    x = x
    y = y
    Commands = {a, b, c}
    Names = {n1, n2}
    Roots = {d1, d2}
    Argvs = {x, y}
    None = None
    Faults = TRUE
    Crashes = TRUE
SPECIFICATION Spec
SYMMETRY Symmetry
INVARIANTS TypeOK IndexIsExact GrantsAreKept RunsWhereAdmitted

CONSTANTS
    r1 = r1
    r2 = r2
    Runs = {r1, r2}
    None = None
    MaxFaults = 1
    LateFaults = TRUE
    Crashes = FALSE
SPECIFICATION Spec
SYMMETRY Symmetry
INVARIANTS OnlySweptRunsFailLate SuccessIsTrue

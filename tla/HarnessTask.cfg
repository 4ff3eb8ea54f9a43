CONSTANTS
    r1 = r1
    r2 = r2
    Runs = {r1}
    None = None
    MaxFaults = 7
    LateFaults = TRUE
    Crashes = TRUE
SPECIFICATION Spec
INVARIANTS TypeOK CitationsHold SuccessIsTrue FailureIsUndone FailureIsTold

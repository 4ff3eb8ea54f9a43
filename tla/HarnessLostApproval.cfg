CONSTANTS
    r1 = r1
    r2 = r2
    Runs = {r1}
    None = None
    MaxFaults = 0
    LateFaults = FALSE
    Crashes = FALSE
SPECIFICATION Spec
INVARIANTS AllApprovalsListed

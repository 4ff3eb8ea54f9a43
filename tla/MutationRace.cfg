CONSTANTS
    r1 = r1
    r2 = r2
    t1 = t1
    t2 = t2
    c1 = c1
    c2 = c2
    Runs = {r1, r2}
    Targets = {t1, t2}
    Contents = {c1, c2}
    Absent = Absent
    NoRun = NoRun
    Requests <- SingleRequests
    Flock = TRUE
    Faults = FALSE
    Crashes = FALSE
    Foreign = TRUE
SPECIFICATION Spec
INVARIANTS ChangedTargetFails

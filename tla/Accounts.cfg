\* Two requests at a time.
CONSTANTS
    Request = {r1, r2}
    Url = {a, b}
    MaxTasks = 1
    MaxUser = 2
    MaxTask = 3
    MaxCode = 3
    MaxFaults = 1
SYMMETRY Alike
SPECIFICATION Spec
CHECK_DEADLOCK FALSE
INVARIANTS TypeOK TaskLimit OneTaskPerSearch
PROPERTY VerificationSticks

\* Two tasks share two items, one task may be deleted; two handlers, two results, one
\* failure.
CONSTANTS
    a = a
    b = b
    Task = {t1, t2}
    Item = {a, b}
    Price = {1, 2}
    Handler = {h1, h2}
    Limit = 1
    Notified = {t1}
    Deletable = {t2}
    None = None
    Results <- Pages
    MaxBatches = 2
    Faults = {"db", "redis", "restart"}
    MaxFaults = 1
SYMMETRY HandlerSymmetry
SPECIFICATION Spec
INVARIANTS TypeOK LinksBounded PriceAgrees AnnouncedOnce LinkedIsKnown
CHECK_DEADLOCK FALSE

\* One task that may be deleted, one crawler and the API janitor, one failure of any kind.
CONSTANTS
    Task = {t1}
    Crawler = {c1}
    Api = {api}
    None = None
    Concurrency = 1
    TaskTimeout = 1
    SlotDeadline = 1
    ScanDeadline = 1
    StartupThreshold = 2
    StuckThreshold = 2
    JanitorThreshold = 2
    MaxAge = 3
    Deletable = {t1}
    Faults = {"crash", "restart", "reply", "stamp", "result", "ack", "scan", "timeout"}
    MaxFaults = 1
    MaxEntries = 2
    MaxResults = 1
SPECIFICATION FairSpec
INVARIANTS TypeOK NoLostTask RunningNotOverdue
PROPERTIES AtLeastOnce SettledUnlessOrphaned

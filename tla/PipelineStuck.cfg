\* One crawler, one crash.
CONSTANTS
    Task = {t1}
    Crawler = {c1}
    Api = {}
    None = None
    Concurrency = 1
    TaskTimeout = 1
    SlotDeadline = 1
    ScanDeadline = 1
    StartupThreshold = 2
    StuckThreshold = 2
    JanitorThreshold = 2
    MaxAge = 3
    Deletable = {}
    Faults = {"crash"}
    MaxFaults = 1
    MaxEntries = 2
    MaxResults = 1
SPECIFICATION FairSpec
PROPERTY CrashedTaskRecovered

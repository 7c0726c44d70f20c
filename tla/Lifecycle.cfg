\* Two monitors in one batch, or the demo task, a one-shot task or a task that is still to
\* be created alone; two result handlers; the events that Scenario leaves.
CONSTANTS
    Task = {1, 2}
    Managed = {2}
    Handler = {h1, h2}
    Worker = {w1}
    None = None
    PoolCap = 1
    BatchSize = 2
    MaxResults = 1
    Faults = {"db", "redis", "panic", "result", "copy", "timeout", "orphan", "restart"}
    MaxEvents = 2
SPECIFICATION ScenarioSpec
INVARIANT TypeOK
PROPERTIES StopHolds QueueInterface DeletedDrains OneShotEnds GuestStopped RunningIsCrawled

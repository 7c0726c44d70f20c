\* A single task, two requests and nothing that fails.
CONSTANTS
    Task = {1}
    Managed = {1}
    Handler = {h1}
    Worker = {w1}
    None = None
    PoolCap = 1
    BatchSize = 1
    MaxResults = 1
    Faults = {}
    MaxEvents = 2
SPECIFICATION Spec
PROPERTY StopSticks

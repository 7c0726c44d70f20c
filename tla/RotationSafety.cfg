\* Two crawls, every failure, one of them.
CONSTANTS
    Crawl = {g1, g2}
    None = None
    AutoSwitch = TRUE
    ForceProxyOnce = TRUE
    Threshold = 1
    Faults = {"redis", "launch", "hang", "timeout"}
    MaxFaults = 1
SYMMETRY CrawlSymmetry
SPECIFICATION Spec
INVARIANTS TypeOK PageCount DrainHeld ModeMatches
PROPERTY RotationSwitches

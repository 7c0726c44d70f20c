\* Two crawls, nothing fails.
CONSTANTS
    Crawl = {g1, g2}
    None = None
    AutoSwitch = TRUE
    ForceProxyOnce = FALSE
    Threshold = 1
    Faults = {}
    MaxFaults = 0
SYMMETRY CrawlSymmetry
SPECIFICATION Spec
PROPERTY PageKeepsBrowser

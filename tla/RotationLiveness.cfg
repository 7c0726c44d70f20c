\* Two crawls, no failures, no drain that times out; the cooldown may expire.
CONSTANTS
    Crawl = {g1, g2}
    None = None
    AutoSwitch = FALSE
    ForceProxyOnce = FALSE
    Threshold = 1
    Faults = {}
    MaxFaults = 0
SPECIFICATION FairSpec
PROPERTIES CrawlReturns FollowsCooldown

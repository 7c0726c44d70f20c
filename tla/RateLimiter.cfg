\* Two crawls, a bucket of three tokens that fills up in six units of time.
CONSTANTS
    Slot = {s1, s2}
    Cost = 2
    Burst = 3
    MaxSkew = 3
    MaxWait = 2
SPECIFICATION FairSpec
INVARIANT RateBounded
PROPERTIES RefusedOnlyIfUsedUp WaitEnds

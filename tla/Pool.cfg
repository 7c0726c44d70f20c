\* Three jobs for one place in the channel.
CONSTANTS
    Job = {j1, j2, j3}
    Worker = {w1, w2}
    Cap = 1
    None = None
    Cancels = TRUE
SPECIFICATION FairSpec
INVARIANTS TypeOK JobInOnePlace ShutdownDrains
PROPERTIES SendersReturn ShutdownEnds

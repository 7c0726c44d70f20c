\* Two crawls in one process or in two, two jars, two failures.
CONSTANTS
    Crawler = {c1, c2}
    Slot = {s1, s2}
    Jar = {j1, j2}
    NoJar = NoJar
    Threshold = 2
    MaxFaults = 2
SYMMETRY Symmetry
SPECIFICATION Spec
INVARIANTS TypeOK CooldownHasSleeper ClearedStayAway
PROPERTY SharedCountCoolsDown

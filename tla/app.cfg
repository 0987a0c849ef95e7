SPECIFICATION FairSpec
CONSTANTS
    s1 = s1
    s2 = s2
    Slave = {s1, s2}
    MaxFaults = 1
    MaxLate = 1
INVARIANTS StatusTells
PROPERTIES ConnectsAll
CHECK_DEADLOCK FALSE

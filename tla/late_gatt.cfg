SPECIFICATION Spec
CONSTANTS
    s1 = s1
    s2 = s2
    Debug = {"C"}
    Slave = {s1, s2}
    Master = Master
    NoOne = NoOne
    Handle = {0, 1}
    NUM_CENTRAL = 2
    SCAN_MAXNUM = 2
    MaxFaults <- NoFaults
CHECK_DEADLOCK FALSE
INVARIANT LateIgnored

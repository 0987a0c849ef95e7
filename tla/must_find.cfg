SPECIFICATION Spec
CONSTANTS
    HeavyNum = 2
    LightNum = 1
    Token = 4
    Deals <- DealsOrphan
    TIP_NUM = 5
    Word = 64
    Topologies <- FixedHub
    Stray = {}
    MaxTick = 0
INVARIANTS MustFind
CHECK_DEADLOCK FALSE

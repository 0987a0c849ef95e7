SPECIFICATION Spec
CONSTANTS
    HeavyNum = 2
    LightNum = 0
    Token = 4
    Deals <- DealsScarce
    TIP_NUM = 5
    Word = 64
    Topologies <- Fixed
    Stray = {}
    MaxTick = 0
INVARIANTS ConfirmedStands

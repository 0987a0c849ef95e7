SPECIFICATION Spec
CONSTANTS
    HeavyNum = 2
    LightNum = 1
    Token = 4
    Deals <- DealsPaid
    TIP_NUM = 5
    Word = 64
    Topologies <- Heard
    Stray = {2}
    MaxTick = 0
INVARIANTS FrozenCovers OneDecision AccountsAgree Awake
CHECK_DEADLOCK FALSE
PROPERTIES PaysOnce

SPECIFICATION Spec
CONSTANTS
    HeavyNum = 1
    LightNum = 2
    Token = 3
    Deals <- DealsChain
    TIP_NUM = 5
    Word = 64
    Topologies <- FixedChain
    Stray = {}
    MaxTick = 0
INVARIANTS FrozenCovers GossipInv OneCopy AccountsAgree ConfirmedStands
CHECK_DEADLOCK FALSE

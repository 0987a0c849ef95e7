SPECIFICATION FairSpec
CONSTANTS
    HeavyNum = 2
    LightNum = 0
    Token = 4
    Deals <- DealsFew
    TIP_NUM = 3
    Word = 64
    Topologies <- Fixed
    Stray = {}
    MaxTick = 1
INVARIANTS TypeOK OneCopy TipWidth
PROPERTIES AllListed Quiesces

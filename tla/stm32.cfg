SPECIFICATION FairSpec
CONSTANTS
    A = A
    B = B
    C = C
    own = own
    signer = signer
    Image = {A, B, C}
    Size <- Sizes
    Shipped = A
    Key = {own, signer}
    ServerKey = signer
    Erased = Erased
    Empty = Empty
    Blank = Blank
    Part = Part
    MaxCuts = 2
    MaxFaults = 1
    MaxOwed = 1
INVARIANTS MoveSource Recoverable StartsAgain
PROPERTIES UpdateArrives SendsAgain
CHECK_DEADLOCK FALSE

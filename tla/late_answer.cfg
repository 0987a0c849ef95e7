SPECIFICATION Spec
CONSTANTS
    A = A
    B = B
    C = C
    own = own
    signer = signer
    Image = {A, B, C}
    Size <- Sizes
    Shipped = A
    Key = {own, signer}
    ServerKey = signer
    Erased = Erased
    Empty = Empty
    Blank = Blank
    Part = Part
    MaxCuts = 0
    MaxFaults = 0
    MaxOwed = 1
CHECK_DEADLOCK FALSE
INVARIANT OkIsMine

SPECIFICATION Spec
CONSTANTS
    Traders = {t1, t2}
    MaxPrice = 2
    Sizes = {1, 2}
    Kinds <- AllKinds
    MaxOrders = 3
    MaxCrashes = 0
    NoOrder = NoOrder
    Idle = Idle
SYMMETRY TraderSymmetry
CHECK_DEADLOCK FALSE
INVARIANTS
    TypeOK
    BookMirrorsState
    LevelTotals
    Uncrossed
    OpenInterestBalanced

SPECIFICATION Spec
CONSTANTS
    Traders = {t1, t2}
    MaxPrice = 1
    Sizes = {1, 2}
    Kinds <- GtcKinds
    MaxOrders = 3
    MaxCrashes = 1
    NoOrder = NoOrder
    Idle = Idle
SYMMETRY TraderSymmetry
CHECK_DEADLOCK FALSE
INVARIANTS
    TimePriority
    BookMirrorsState
    PositionsExplained

SPECIFICATION EventSpec
CONSTANTS
    Heights = {1, 255, 256}
    Hashes = {1, 2}
    Addresses = {a1}
    BufferLimit = 3
    QueryLimits = {1, 2}
    MaxPerTx = 2
    MaxEvents = 4
    MaxFaults = 1
CHECK_DEADLOCK FALSE
INVARIANTS
    EventsAccounted
    QueriesAgree

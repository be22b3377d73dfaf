SPECIFICATION Spec
CONSTANTS
    Keys = {k1, k2}
    Values = {x1, x2}
    None = None
    Deletable = {}
    MaxVersion = 3
    PruningEnabled = FALSE
    SnapshotInterval = 2
    PruneBefore = 1
    Faults = {"restart"}
    MaxFaults = 1
PROPERTIES
    ImplementsVersionedStore

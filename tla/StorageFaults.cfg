SPECIFICATION Spec
CONSTANTS
    Keys = {k1, k2}
    Values = {x1, x2}
    None = None
    Deletable = {k1}
    MaxVersion = 3
    PruningEnabled = TRUE
    SnapshotInterval = 3
    PruneBefore = 1
    Faults = {"crash", "io", "lost", "restore"}
    MaxFaults = 2
INVARIANTS
    TypeOK
    FastPathSound
    IndexInv
PROPERTIES
    HistoryStable
    UntornBlockStarts
    PruneSparesWindow

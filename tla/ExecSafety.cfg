SPECIFICATION Spec
CONSTANTS
    Senders = {s1}
    MaxNonce = 1
    Bodies = {b1, b2}
    Nobody = Nobody
    MaxSize = 3
    MaxTxsPerSender = 2
    BlockLimit = 3
    Outcomes = {"ok", "fail", "partial"}
    MaxQueue = 2
    MaxLog = 1
    MaxFaults = 2
INVARIANTS
    TypeOK
    IndexSound
    WithinLimits
    EffectsOnceInOrder
PROPERTIES
    CommittedGrows

SPECIFICATION LiveSpec
CONSTANTS
    Senders = {s1, s2}
    MaxNonce = 1
    Bodies = {b1}
    Nobody = Nobody
    MaxSize = 2
    MaxTxsPerSender = 2
    BlockLimit = 2
    Outcomes = {"ok"}
    MaxQueue = 2
    MaxLog = 3
    MaxFaults = 1
PROPERTIES
    NextNonceExecuted

SPECIFICATION MCSpec
CONSTANTS
    A = A
    B = B
    d1 = d1
    d2 = d2
    w1 = w1
    w2 = w2
    UI = UI
    None = None
    Accounts <- MCAccounts
    Devices <- MCDevices
    Workers <- MCWorkers
    Stored <- MCStored
    MaxTokens = 2
    MaxRequests = 1
    MaxStreams = 1
SYMMETRY MCSymmetry
INVARIANTS
    TypeOK
    SequentialUse
PROPERTIES
    SerialLostOnlyByWriteBack
CHECK_DEADLOCK FALSE

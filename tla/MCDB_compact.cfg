SPECIFICATION Spec
CONSTANTS
    v1 = v1
    v2 = v2
    Keys = {1}
    Values = {v1, v2}
    Tombstone = Tombstone
    NoEntry = NoEntry
    KeyLen = 1
    ValLen <- MixedValues
    Writers = {w1}
    Readers = {}
    MemTableSize = 2
    Threshold = 2
    SyncMode = "none"
    Failed = Failed
    Failing = {}
    MaxWrites = 4
    MaxFileID = 9
    MaxOpens = 0
    MaxFaults = 0
CONSTRAINT IDsInOrder
PROPERTIES SafeRemoval
CHECK_DEADLOCK FALSE

SPECIFICATION Spec
CONSTANTS
    v1 = v1
    v2 = v2
    Keys = {1}
    Values = {v1, v2}
    Tombstone = Tombstone
    NoEntry = NoEntry
    KeyLen = 1
    ValLen <- ShortValues
    Writers = {w1, w2}
    Readers = {}
    MemTableSize = 2
    Threshold = 9
    SyncMode = "full"
    Failed = Failed
    Failing = {}
    MaxWrites = 2
    MaxFileID = 6
    MaxOpens = 0
    MaxFaults = 0
INVARIANTS ReplayAgrees
CHECK_DEADLOCK FALSE

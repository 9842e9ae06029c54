SPECIFICATION FairSpec
CONSTANTS
    v1 = v1
    v2 = v2
    Keys = {1}
    Values = {v1}
    Tombstone = Tombstone
    NoEntry = NoEntry
    KeyLen = 1
    ValLen <- ShortValues
    Writers = {w1}
    Readers = {}
    MemTableSize = 2
    Threshold = 2
    SyncMode = "batched"
    Failed = Failed
    Failing = {"flush", "fsync"}
    MaxWrites = 2
    MaxFileID = 9
    MaxOpens = 0
    MaxFaults = 1
PROPERTIES FlushHappens CloseReturns EventuallySynced
CHECK_DEADLOCK FALSE

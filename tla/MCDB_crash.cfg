SPECIFICATION Spec
CONSTANTS
    v1 = v1
    v2 = v2
    Keys = {1}
    Values = {v1}
    Tombstone = Tombstone
    NoEntry = NoEntry
    KeyLen = 1
    ValLen <- ShortValues
    Writers = {w1, w2}
    Readers = {}
    MemTableSize = 2
    Threshold = 2
    SyncMode = "full"
    Failed = Failed
    Failing = {"write", "flush", "merge", "stat", "remove"}
    MaxWrites = 2
    MaxFileID = 9
    MaxOpens = 2
    MaxFaults = 1
CONSTRAINT NothingBehindPiece
INVARIANTS TypeOK WriteAhead AckedDurable EngineOnDisk HandlesOwned
PROPERTIES TablesImmutable
CHECK_DEADLOCK FALSE
SYMMETRY ClientSymmetry

\* A Get against a writer, flushes, compactions, reader reloads, Close, a crash and
\* a restart, as long as StepsInOrder.
SPECIFICATION Spec
CONSTANTS
    v1 = v1
    v2 = v2
    Keys = {1, 2}
    Values = {v1}
    Tombstone = Tombstone
    NoEntry = NoEntry
    KeyLen = 1
    ValLen <- ShortValues
    Writers = {w1, r1}
    Readers = {r1}
    MemTableSize = 2
    Threshold = 2
    SyncMode = "full"
    Failed = Failed
    Failing = {}
    MaxWrites = 2
    MaxFileID = 9
    MaxOpens = 1
    MaxFaults = 0
CONSTRAINT StepsInOrder
INVARIANTS NewestVisible TablesReadable ReplayAgrees
PROPERTIES StoreImplemented
CHECK_DEADLOCK FALSE

SPECIFICATION Spec
CONSTANTS
    MaxRecords = 5
    Storages <- GoodAndBad
INVARIANTS TypeOK ReplayInOrder
PROPERTIES PromisesKept LogImplemented RecoveredStays
CHECK_DEADLOCK FALSE

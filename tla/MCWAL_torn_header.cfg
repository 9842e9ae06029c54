SPECIFICATION Spec
CONSTANTS
    MaxRecords = 3
    Storages <- OnlyHeader
PROPERTIES PromisesReplayed
CHECK_DEADLOCK FALSE

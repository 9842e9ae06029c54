SPECIFICATION Spec
CONSTANTS
    MaxRecords = 3
    Storages <- OnlyBare
INVARIANTS OpenSucceeds
CHECK_DEADLOCK FALSE

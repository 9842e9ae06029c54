SPECIFICATION Spec
CONSTANTS
    v1 = v1
    v2 = v2
    Keys = {1, 2, 3}
    Values = {v1, v2}
    Tombstone = Tombstone
    NoEntry = NoEntry
    KeyLen = 1
    ValLen <- ShortAndLong
    MaxLevel = 2
    HeadNode = HeadNode
    Nil = Nil
    Hash <- SmallHash
    Refused = Refused
    Unreadable = Unreadable
    BlockSize = 21
INVARIANTS MemTableRight CountsRight LookupRight MergeExact SizeAgrees
CHECK_DEADLOCK FALSE

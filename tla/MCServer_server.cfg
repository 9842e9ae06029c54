SPECIFICATION FairSpec
CONSTANTS
    c1 = c1
    c2 = c2
    whole = whole
    cut = cut
    Conns = {c1, c2}
    Keys = {1, 2}
    Values = {whole, cut}
    None = None
    Failed = Failed
    Own <- OwnKeys
    Script <- Scripts
    ShortOf <- CutValues
    Window = 2
    MaxRequests <- TwoAndOne
    MaxStarts = 2
INVARIANTS AckedStored ReadYourWrites RepliesInStep
PROPERTIES ShutdownEnds AlwaysAnswered
CHECK_DEADLOCK FALSE

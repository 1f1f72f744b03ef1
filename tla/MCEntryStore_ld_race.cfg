CONSTANTS
    t1 = t1  t2 = t2  k1 = k1  v1 = v1  v2 = v2
    Nil = Nil
    LDCalls <- MCLDCalls
    Threads <- MCThreads2
    Keys <- MCKeys
    Vals <- MCVals
    Ents <- MCEnts
    Highest = 6
    MaxOps = 2
    GetVersions <- MCGetVersions
    OldVersions <- MCOldVersions
SPECIFICATION LDHopSpec
CHECK_DEADLOCK FALSE
INVARIANT PutOverWhatWasRead

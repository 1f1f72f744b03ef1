CONSTANTS
    t1 = t1  t2 = t2  k1 = k1  k2 = k2  v1 = v1  v2 = v2
    Nil = Nil
    Threads <- MCThreads2
    Keys <- MCKeys
    Vals <- MCVals
    ValSize <- MCValSize
    KeyLen = 1
    MaxElem = 2
    MaxMem = 5
    CEnts <- MCCEnts
    Highest = 6
    MaxOps = 2
SPECIFICATION Spec
INVARIANT TypeOK
CHECK_DEADLOCK FALSE

\* MaxSearch < CAP, as for BUFFER_POOL (16 of 128 slots).
CONSTANTS
    t1 = t1  t2 = t2
    v1 = v1  v2 = v2  v3 = v3
    NoVal = NoVal
    Thread = {t1, t2}
    Running = {}
    Val = {v1, v2, v3}
    CAP = 2
    MaxSearch = 1
    SkipMod = 4
    ThreadId <- MCThreadId
    Capacity = {1, 2, 3}
    DefaultLen = 1
    MaxSingle = 2
    MaxTotal = 3
SPECIFICATION BSpec
SYMMETRY ValSymmetry
INVARIANTS
    BTypeOK
    SizeAccounts
    SoftLimit

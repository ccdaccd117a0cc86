CONSTANTS
    t1 = t1  t2 = t2  t3 = t3
    v1 = v1  v2 = v2  v3 = v3
    NoVal = NoVal
    Thread = {t1, t2, t3}
    Running = {t1}
    Val = {v1, v2, v3}
    CAP = 2
    MaxSearch = 2
    SkipMod = 2
    ThreadId <- MCThreadId
SPECIFICATION FairSpec
INVARIANTS
    TypeOK
    SlotExclusive
    ClaimIntact
    OneOwner
    NoSlotLost
    DroppedEmpty
PROPERTIES
    WaitFree
    DropEnds
    StalledSearchComplete
    RefinesAbstract

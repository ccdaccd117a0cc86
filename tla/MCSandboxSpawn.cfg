CONSTANTS
    r1 = r1  r2 = r2  r3 = r3
    None = None
    Req = {r1, r2, r3}
    WireCap = 2
    ReplyCap = 3
    MayCancel = TRUE
    MaxFault = 1
    Watched = {r1}
SPECIFICATION FairSpec
INVARIANTS
    TypeOK
    OwnDescriptor
    StreamAligned
PROPERTIES
    EveryRequestAnswered
    FailedSpawnEnds

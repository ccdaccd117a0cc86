CONSTANTS
    r1 = r1  r2 = r2  r3 = r3
    None = None
    Req = {r1}
    WireCap = 2
    ReplyCap = 1
    MayCancel = FALSE
    MaxFault = 0
    Watched = {r1}
SPECIFICATION FairSpec
PROPERTY
    SupervisorEnds

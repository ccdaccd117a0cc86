\* Three files fill the channel and block the walk: one is with the task, one
\* in the channel, one being sent.
CONSTANTS
    N = 3
    Cap = 1
    None = None
SPECIFICATION FairSpec
INVARIANTS
    TypeOK
    Complete
    ParentsFirst
    FailureReported
PROPERTY
    Returns

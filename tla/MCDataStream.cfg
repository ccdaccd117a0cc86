\* Base 2: chunks of at most 3 bytes, so that 4 bytes need two of them.
CONSTANTS
    Base = 2
    Total = 4
    HashLen = 2
    MaxRead = 2
    Async = FALSE
    None = None
SPECIFICATION FairSpec
INVARIANTS
    TypeOK
    ContentInOrder
    EndExact
PROPERTIES
    ReturnWithinBuffer
    Completes
    RefinesStream

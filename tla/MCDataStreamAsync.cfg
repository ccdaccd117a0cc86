\* Base 2: chunks of at most 3 bytes, so that 4 bytes need two of them.
CONSTANTS
    Base = 2
    Total = 4
    HashLen = 2
    MaxRead = 2
    Async = TRUE
    None = None
SPECIFICATION Spec
INVARIANT
    NoPanic

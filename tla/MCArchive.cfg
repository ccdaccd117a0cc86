CONSTANTS
    Base = 4
    HashLen = 2
    Entries <- MCEntries
    Blobs <- MCBlobs
    MaxEvents = 2
    MaxInterrupts = 2
    Radix = 2
    Width = 2
    MaxLen = 3
SPECIFICATION Spec
INVARIANTS
    TypeOK
    EventsInOrder
    EndExact
    CutReported
    HashedApart
PROPERTIES
    InvalidFinal
    ReaderEnds

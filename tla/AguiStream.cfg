\* Two connections of one conversation, two turns, five frames.
CONSTANTS
    Readers = {r1, r2}
    PageFrames = 2
    BatchSize = 2
    Turns = 2
    MaxFrames = 5
    MaxEntries = 1
SPECIFICATION FairSpec
CHECK_DEADLOCK FALSE
INVARIANTS
    LedgerServed
PROPERTIES
    ReaderCatchesUp

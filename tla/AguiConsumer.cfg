\* Two turns, two projectors, pages of two events: safety and progress.
CONSTANTS
    Runs = {1, 2}
    Workers = {w1, w2}
    NoRun = NoRun
    NoWorker = NoWorker
    PageSize = 2
    MaxPages = 2
    MaxCommitAttempts = 2
    MaxEvents = 3
    MaxFaults = 1
    MaxIdlePolls = 0
SPECIFICATION FairSpec
CHECK_DEADLOCK FALSE
INVARIANTS
    VersionPinsStream
PROPERTIES
    StaleWorkerHarmless
    ImplementsLedger
    CatchesUp

CONSTANTS
    Occurrences = {1, 2}
    Workers = {w1, w2}
    Readers = {k1, k2}
    NoWorker = NoWorker
    NoReader = NoReader
    PageSize = 1
    MaxAttempts = 1
    MaxNoise = 1
    MaxFaults = 2
SPECIFICATION FairSpec
CHECK_DEADLOCK FALSE
INVARIANTS
    FailedNeverAdmitted
    ScopeSerial
    PageCommits
PROPERTIES
    ActiveUntilSettled
    EveryOccurrenceCloses

CONSTANTS
    Occurrences = {1, 2}
    Workers = {w1, w2}
    Readers = {k1}
    NoWorker = NoWorker
    NoReader = NoReader
    PageSize = 1
    MaxAttempts = 2
    MaxNoise = 0
    MaxFaults = 2
SPECIFICATION FairSpec
CHECK_DEADLOCK FALSE
PROPERTIES
    NeverSentRetried

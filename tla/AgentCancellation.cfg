\* Two runs of a deleted conversation, two workers, three attempts.
CONSTANTS
    Runs = {1, 2}
    Workers = {w1, w2}
    MaxAttempts = 3
SPECIFICATION FairSpec
CHECK_DEADLOCK FALSE
PROPERTIES
    SettlementsAreEarned
    EveryCancellationCloses

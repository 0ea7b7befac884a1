\* Three commands, two dispatchers, two attempts, one fault: safety and progress.
CONSTANTS
    Workers = {w1, w2}
    MaxAttempts = 2
    MaxCommands = 3
    MaxFaults = 1
SPECIFICATION FairSpec
CHECK_DEADLOCK FALSE
INVARIANTS
    TimelyInCommitOrder
    LastWins
    FailureVerdict
PROPERTIES
    EveryCommandCloses

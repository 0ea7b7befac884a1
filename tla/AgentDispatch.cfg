\* One conversation, two turns, two workers, all fairness.
CONSTANTS
    c1 = c1
    r1 = r1
    r2 = r2
    w1 = w1
    w2 = w2
    Convs = {c1}
    Runs = {r1, r2}
    ConvOf <- OneConversation
    Workers = {w1, w2}
    NoRun = NoRun
    NoWorker = NoWorker
    MaxAttempts = 1
    MaxFaults = 3
SPECIFICATION FairSpec
CHECK_DEADLOCK FALSE
INVARIANTS
    NoStateException
    FailedNeverAdmitted
    DeletedRunsCancelled
    TurnRecordsAgree
PROPERTIES
    StaleSettlementHarmless
    FifoAdmission
    EveryTurnCloses

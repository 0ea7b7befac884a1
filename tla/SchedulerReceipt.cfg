\* Two handlers, two keys of one occurrence, two revisions, two faults.
CONSTANTS
    Handlers = {h1, h2}
    Keys = {k1, k2}
    NoHandler = NoHandler
    MaxRevision = 2
    MaxFaults = 2
SPECIFICATION FairSpec
CHECK_DEADLOCK FALSE
INVARIANTS
    OneVerdict
PROPERTIES
    QueuedWhileActive
    CallbackAnswered

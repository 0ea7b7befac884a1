\* One callback of a task that expires; nothing fails.
CONSTANTS
    Handlers = {h1}
    Keys = {k1}
    NoHandler = NoHandler
    MaxRevision = 1
    MaxFaults = 0
SPECIFICATION Spec
CHECK_DEADLOCK FALSE
PROPERTY
    QueuedBeforeExpiry

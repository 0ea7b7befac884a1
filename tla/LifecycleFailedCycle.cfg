\* As Lifecycle.cfg with one dispatcher and one request.
CONSTANTS
    Dispatchers = 1
    Batch = 1
    Requests = {q1}
    MaxFaults = 1
SPECIFICATION Spec
CHECK_DEADLOCK FALSE
INVARIANTS
    DrainsThenCloses

\* The projector, two dispatchers and the releaser, two commands to a cycle, two
\* requests, one cycle that fails.
CONSTANTS
    Dispatchers = 2
    Batch = 2
    Requests = {q1, q2}
    MaxFaults = 1
SPECIFICATION FairSpec
CHECK_DEADLOCK FALSE
INVARIANTS
    CloseSound
PROPERTIES
    SignalEnds

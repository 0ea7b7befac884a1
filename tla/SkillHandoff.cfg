\* Two overlapping requests, two payloads, three faults.
CONSTANTS
    Handlers = {h1, h2}
    Payloads = {p1, p2}
    NoPayload = NoPayload
    MaxFaults = 3
SPECIFICATION FairSpec
CHECK_DEADLOCK FALSE
INVARIANTS
    HandoffSound
PROPERTIES
    HandoffEnds

\* A project's resource or a personal file: two overlapping requests, four faults.
CONSTANTS
    Handlers = {h1, h2}
    Kinds = {"project", "personal"}
    MaxFaults = 4
SPECIFICATION FairSpec
CHECK_DEADLOCK FALSE
INVARIANTS
    UploadSound
PROPERTIES
    KeyAnswered

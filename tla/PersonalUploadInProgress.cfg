\* A personal file: one request at a time, two faults.
CONSTANTS
    Handlers = {h1}
    Kinds = {"personal"}
    MaxFaults = 2
SPECIFICATION Spec
CHECK_DEADLOCK FALSE
INVARIANTS
    FinalAnswers

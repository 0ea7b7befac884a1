\* A project's resource: one request at a time, two faults.
CONSTANTS
    Handlers = {h1}
    Kinds = {"project"}
    MaxFaults = 2
SPECIFICATION Spec
CHECK_DEADLOCK FALSE
INVARIANTS
    NeverAbortsUncertain

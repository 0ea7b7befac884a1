\* Handlers of any length: three requests, two payloads, two failures.
CONSTANTS
    Clients = {c1, c2, c3}
    Fingerprints = {f1, f2}
    NoClient = NoClient
    NoFingerprint = NoFingerprint
    MaxFaults = 2
SPECIFICATION FairSpec
CHECK_DEADLOCK FALSE
INVARIANTS
    OneAnswer
    TimelyNoParallelExecution
PROPERTIES
    KeyRecovers

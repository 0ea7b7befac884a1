\* One conversation and one task in the first of two projects; one request that
\* deletes a project, one that moves a conversation and one that may be anything
\* else; two dispatchers that take two commands at a time, and one fault.
CONSTANTS
    r1 = r1
    r2 = r2
    r3 = r3
    t1 = t1
    t2 = t2
    w1 = w1
    w2 = w2
    Projects = {1, 2}
    Convs = {1, 2}
    Tasks = {t1, t2}
    Requests = {r1, r2, r3}
    Kinds <- MCKinds
    Workers = {w1, w2}
    InitialConv <- MCInitialConv
    InitialTask <- MCInitialTask
    BatchSize = 2
    None = None
    MaxFaults = 1
SPECIFICATION FairSpec
CHECK_DEADLOCK FALSE
INVARIANTS
    DeletionSound
    NoWaitCycle
    BindingLineage
PROPERTIES
    EveryScopeEnds

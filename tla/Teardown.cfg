SPECIFICATION Spec
CONSTANTS
    NumContexts = 2
    NumSurfaces = 2
    NumFds = 3
    Threads = {t1, t2}
    t1 = t1
    t2 = t2
    OrphanSlots = 2
    MaxImport = 2
    MaxCalls = 4
    MaxFaults = 3
INVARIANTS
    TypeOK
    EveryBufferHasOneHolder
    BuffersBackBeforeStop
    NothingLeftBehind
PROPERTIES
    TerminateSucceeds

CONSTANTS
    Contexts = {c1}
    Surfaces = {s1}
    Threads = {t1, t2}
    OutBufs = {b1}
    TargetSets <- NoRefs
    RefSets <- NoRefs
    RingSize = 1
    MaxAttempts = 1
    MaxLocks = 1
    NoContext = NoContext
    NoSurface = NoSurface
    NoThread = NoThread
    NoOutput = NoOutput
SPECIFICATION LiveSpec
PROPERTIES
    SleepersWake
    TimedSyncReturns
    SyncEnds

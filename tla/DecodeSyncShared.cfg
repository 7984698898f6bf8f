CONSTANTS
    Contexts = {c1, c2}
    Surfaces = {s1, s2}
    Threads = {t1}
    OutBufs = {b1}
    TargetSets <- NoRefs
    RefSets <- EmptyOrAll
    RingSize = 1
    MaxAttempts = 1
    MaxLocks = 1
    NoContext = NoContext
    NoSurface = NoSurface
    NoThread = NoThread
    NoOutput = NoOutput
SPECIFICATION Spec
SYMMETRY Interchangeable
INVARIANTS
    FifoIsPending
    PendingIsClean
    BuffersConserved
    FrameOwnerRuns
PROPERTIES
    LockedFrameStays

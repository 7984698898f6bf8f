CONSTANTS
    Contexts = {c1}
    Surfaces = {s1, s2}
    Threads = {t1, t2}
    OutBufs = {b1, b2}
    TargetSets <- NoRefs
    RefSets <- NoRefs
    RingSize = 2
    MaxAttempts = 1
    MaxLocks = 1
    NoContext = NoContext
    NoSurface = NoSurface
    NoThread = NoThread
    NoOutput = NoOutput
SPECIFICATION Spec
SYMMETRY Interchangeable
INVARIANTS
    TypeOK
    OneSyncer
    SyncExcludesPicture
    SurfaceStaysMine
    FifoMatchesVpu
    FramesAreOwn
    NoLeftoverInput
    Inductive
PROPERTIES
    ResolvedInOrder

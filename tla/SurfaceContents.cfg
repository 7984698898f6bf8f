CONSTANTS
    Surfaces = {s1}
    Encoders = {e1}
    Threads = {t1, t2}
    NumImages = 1
    NumBuffers = 2
    MaxLocks = 1
    MaxMaps = 1
    MaxAccesses = 2
    MaxViews = 1
    Shared <- Surfaces
    Unsynced <- AllCalls
    NoSurface = NoSurface
    NoImage = NoImage
    NoBuffer = NoBuffer
SPECIFICATION ContentsSpec
SYMMETRY Interchangeable
INVARIANTS
    ReachableMemoryStays
    CopiesAgree

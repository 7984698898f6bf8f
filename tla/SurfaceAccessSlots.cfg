CONSTANTS
    Surfaces = {s1, s2}
    Encoders = {e1}
    Threads = {t1}
    NumImages = 2
    NumBuffers = 2
    MaxLocks = 1
    MaxMaps = 1
    MaxAccesses = 2
    MaxViews = 1
    Shared <- None
    Unsynced <- DeriveUnsynced
    NoSurface = NoSurface
    NoImage = NoImage
    NoBuffer = NoBuffer
SPECIFICATION Spec
SYMMETRY Interchangeable
INVARIANTS
    Counted

CONSTANTS
    Surfaces = {s1, s2}
    Encoders = {e1}
    Threads = {t1}
    NumImages = 2
    NumBuffers = 2
    MaxLocks = 2
    MaxMaps = 2
    MaxAccesses = 4
    MaxViews = 1
    Shared <- Surfaces
    Unsynced <- CopiesOnly
    NoSurface = NoSurface
    NoImage = NoImage
    NoBuffer = NoBuffer
SPECIFICATION Spec
SYMMETRY Interchangeable
INVARIANTS
    TypeOK
    Counted
    EncoderInputUnlocked
    NoWriteLost
    DevicesSeeWrites

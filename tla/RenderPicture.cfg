SPECIFICATION Spec
CONSTANTS
    RateModes = {"CQP", "CBR", "VBR"}
    MaxRate = 2
    MaxFps = 2
    Windows = {1, 2}
    MaxQp = 2
    Pictures = {p1, p2}
    p1 = p1
    p2 = p2
    ManyRefs = {p2}
    Unsent = Unsent
    Counts = {0, 2}
INVARIANTS
    TypeOK
    HardwareFollows
    DecodedWithItsSets
CHECK_DEADLOCK FALSE

SPECIFICATION RateSpec
CONSTANTS
    RateModes = {"CQP", "CBR", "VBR"}
    MaxRate = 2
    MaxFps = 2
    Windows = {1, 2}
    MaxQp = 2
PROPERTIES
    RefusedChangesNothing
CHECK_DEADLOCK FALSE

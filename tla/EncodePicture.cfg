CONSTANTS
    NumEncoders = 1
    Surfaces = {s1}
    Coded = {b1}
    NumIn = 2
    NumOut = 2
    MaxToken = 3
    MaxFrame = 3
    Decoder = decoder
    NoSurface = NoSurface
    NoBuffer = NoBuffer
    NoContext = NoContext
SPECIFICATION FairSpec
INVARIANTS
    TypeOK
    PendingIsTracked
    BuffersConserved
PROPERTIES
    HardwareInputUntouched
    StoppedWhenRead
    DeliversOwnPicture
    InputReleased

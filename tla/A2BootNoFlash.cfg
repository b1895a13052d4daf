\* bootsel is 1 and there is no flash part.
SPECIFICATION Spec
CONSTANTS
    Image <- SmallImage
    Frames <- NoFrames
    CheckModes = {}
    Bootsels = {1}
    FlashParts = {FALSE}
    MaxErrors = 0
    HitFields = {}
    FlippedBits = {}
INVARIANT
    FlashOnlyIfDetected
CHECK_DEADLOCK FALSE

\* The image holds an S5 record.
SPECIFICATION FairSpec
CONSTANTS
    Image <- CountedImage
    Frames <- NoFrames
    CheckModes = {}
    Bootsels = {0}
    FlashParts = {FALSE}
    MaxErrors = 0
    HitFields = {}
    FlippedBits = {}
PROPERTY
    SrecordFileBoots
CHECK_DEADLOCK FALSE

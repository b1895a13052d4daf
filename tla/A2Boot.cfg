SPECIFICATION FairSpec
CONSTANTS
    Image <- SmallImage
    Frames <- SmallFrames
    CheckModes = {"CHECK_WITHOUT_CRC", "CHECK_WITH_CRC"}
    Bootsels = {0, 1}
    FlashParts = {TRUE}
    MaxErrors = 1
    HitFields = {"count", "body"}
    FlippedBits = {1, 4}
INVARIANTS
    TypeOK
    NeverBothStopped
    LoadedFromOneHost
    AcknowledgedIsStored
    JumpMeansLoaded
PROPERTY
    SomeBootCompletes
\* After a jump the ROM is done, and a script whose record was refused waits.
CHECK_DEADLOCK FALSE

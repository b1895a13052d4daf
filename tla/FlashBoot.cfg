SPECIFICATION FairSpec
CONSTANTS
    BLOCK = 8
    DATA_SIZE = 12
    LIVE_OFFSET = 8
    MAX_NB_AREA = 3
    WORD = 128
    FLASH_SPAN = 64
    L2_BASE = 16
    L2_SIZE = 64
    STATIC <- Statics
    TOP <- Tops
    Driver <- Driver4
    Stack <- Stacks
    RAM <- Bytes80
    Boots <- SmallBoots
    NB_TICKS = 2
INVARIANTS
    PlaceIsFree
    LoaderSurvives
    ImageLoaded
    ReadsComplete
    JtagJumpMeansLoaded
PROPERTY
    FlashBootEnds
\* After a jump, an abort or a lost loader nothing happens any more.
CHECK_DEADLOCK FALSE

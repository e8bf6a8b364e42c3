SPECIFICATION FairSpec
CONSTANTS
    Methods <- EveryMethod
    Slot = {0, 1, 2}
    Pubkey = {p1, p2}
    WriteVersion = {1, 2}
    MaxRootedSlotDistance = 1
    CacheSize = 2
    MaxMessages = 3
INVARIANTS TypeOK Numbered FirstSeqIsFloor NoneStaleAtGenesis AtMostOneLate
PROPERTIES ExitHonoured EndNoticed
CHECK_DEADLOCK FALSE

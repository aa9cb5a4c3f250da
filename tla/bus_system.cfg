SPECIFICATION FairSpec
CONSTANTS
    Byte <- MCByte
    HighBit = 64
    RamSize = 16
    ImageFile <- Image
    MayPause = TRUE
    MaxTyped = 2
    Accesses <- MCAccesses
    Bursts <- MCBursts
    MaxOps = 2
INVARIANTS
    TypeOK
    SanityChecksHold
    LastBeatEndsBurst
    FrontExists
    CharsInOrder
    OutputInOrder
PROPERTIES
    ImplementsByteMemory
    AllPerformed
CHECK_DEADLOCK FALSE

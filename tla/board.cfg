CONSTANTS
    PC <- PC2
    PCINIT = 0
    pcPlus4 <- Plus4on2
    Ops = {"store", "muldiv"}
    CsrWrites = {}
    Irqs = {}
    MdCounts = {1}
    None = None
    NUM_INPUTS = 2
    BRAM_DELAY = 1
    Char = {0, 1}
    BIT_TMR_MAX = 1
    Greeting = 1
    Ratio = 4
    Devices = {"tx", "finish"}
SPECIFICATION FairBoardSpec
INVARIANTS BoardTypeOK RamReadsOwnWord CharsSentOnce
PROPERTIES StallsEnd

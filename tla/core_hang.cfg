CONSTANTS
    PC <- PC2
    PCINIT = 0
    pcPlus4 <- Plus4on2
    Ops = {"muldiv", "jump"}
    CsrWrites = {}
    Irqs = {}
    MdCounts = {2}
    None = None
SPECIFICATION FairSpec
PROPERTIES KeepsStepping

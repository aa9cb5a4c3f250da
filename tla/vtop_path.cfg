CONSTANTS
    PC <- PC2
    PCINIT = 0
    pcPlus4 <- Plus4on2
    Ops = {"load", "csr", "mret"}
    CsrWrites <- SatpWrites
    Irqs = {}
    MdCounts = {1}
    None = None
    NUM_INPUTS = 2
SPECIFICATION FairTopSpec
INVARIANTS TopTypeOK MmuBehindArbiter
PROPERTIES TranslationStable AnswersAreOwn MemRequestStands ImplementsCore

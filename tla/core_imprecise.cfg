CONSTANTS
    PC <- PC2
    PCINIT = 0
    pcPlus4 <- Plus4on2
    Ops = {"alu", "csr"}
    CsrWrites <- IrqWrites
    Irqs = {"timer"}
    MdCounts = {2}
    None = None
SPECIFICATION Spec
INVARIANTS PreciseInterrupt

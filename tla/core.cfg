CONSTANTS
    PC <- PC2
    PCINIT = 0
    pcPlus4 <- Plus4on2
    Ops = {"muldiv", "load", "branch", "csr", "mret"}
    CsrWrites <- IrqWrites
    Irqs = {"timer"}
    MdCounts = {1}
    None = None
SPECIFICATION Spec
INVARIANTS TypeOK InOrder PreciseMemory NoStaleCsr OneTrap NothingSkipped MdOwned
PROPERTIES RequestsStand PrivilegeSettled ResultNotReused

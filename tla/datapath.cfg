CONSTANTS
    PC <- PC1
    PCINIT = 0
    pcPlus4 <- Plus4on1
    Ops = {"muldiv", "load", "ecall"}
    CsrWrites = {}
    Irqs = {}
    MdCounts = {1}
    None = None
    Val <- MCVal
    Reg <- MCReg
    Sources = {"rs1"}
    Fields <- MCFields
SPECIFICATION DataSpec
INVARIANTS OperandsFresh RegsCatchUp

------------------------------ MODULE CoreTypes ------------------------------
(***************************************************************************)
(* The values that travel through the five-stage pipeline of core.sv, cut  *)
(* down to what its control tells apart.  An instruction is the class of   *)
(* control signals that decode.sv gives it; an address is an element of    *)
(* PC; a CSR write is a register with its new value.  Operand and result   *)
(* values do not appear here.                                              *)
(***************************************************************************)
EXTENDS Integers

CONSTANTS
    PC,        \* instruction addresses (the 64-bit space, or a small cycle of it)
    PCINIT,    \* the reset address
    pcPlus4,   \* pcPlus4[p] is the address of the instruction after p, wrapping
    Ops,       \* classes of instructions the program may contain
    CsrWrites, \* CSR writes the program may make
    Irqs,      \* interrupt lines that exist
    MdCounts,  \* iteration counts of the multiply/divide unit
    None       \* no CSR write, no trap

\* Control classes of decode.sv.  "alu" is every instruction that only flows
\* through (ALU, LUI, AUIPC, FENCE, HALT and the SYSTEM encodings that are
\* neither ECALL nor MRET); "jump" is JAL and JALR.
AllOps == {"alu", "muldiv", "load", "store", "branch", "jump",
           "csr", "ecall", "mret", "illegal"}

\* What the all-zero word of a reset register decodes to (opcode 0).
ZeroInstr == "illegal"

\* Privilege modes: 0 is U, 1 is S, 3 is M.  The code keeps any two-bit value.
Priv == 0..3
M == 3
U == 0

\* The three fields of mstatus that steer traps.
Mstatus == [mie: BOOLEAN, mpie: BOOLEAN, mpp: Priv]

\* A write of a CSR instruction: the register and its new value.  satp is
\* cut down to "mode = 8"; "mscratch" stands for the CSRs that steer nothing.
CsrWrite ==
    [reg: {"mtvec", "mepc"}, val: PC] \cup [reg: {"mie"}, val: SUBSET Irqs]
        \cup [reg: {"mstatus"}, val: Mstatus]
        \cup [reg: {"satp", "mscratch"}, val: BOOLEAN]

\* The trap_* fields of REG_EX_MEM and REG_MEM_WB while trap_pending is set.
Trap == [mret: BOOLEAN, irq: BOOLEAN, priv: Priv]

IfId  == [valid: BOOLEAN, pc: PC, op: AllOps]
IdEx  == [valid: BOOLEAN, pc: PC, op: AllOps]

\* mem: the is_load/is_store flags.  wr: csr_pending with csr_paddr and
\* csr_pwdata.  trap: trap_pending with the trap_* fields.  next is not in the
\* code: it is the address the program order continues at after this entry,
\* recorded so that properties can speak of it.
ExMem == [valid: BOOLEAN, pc: PC, op: AllOps, mem: {"none", "load", "store"},
          wr: CsrWrite \cup {None}, trap: Trap \cup {None}, next: PC]
MemWb == [valid: BOOLEAN, pc: PC, op: AllOps,
          wr: CsrWrite \cup {None}, trap: Trap \cup {None}, next: PC]

ASSUME PCAssumption == PCINIT \in PC /\ pcPlus4 \in [PC -> PC]
ASSUME OpsAssumption == Ops \subseteq AllOps
ASSUME CsrWritesAssumption == CsrWrites \subseteq CsrWrite
ASSUME MdCountsAssumption == MdCounts \subseteq Nat \ {0}
ASSUME NoneAssumption == None \notin CsrWrite /\ None \notin Trap
=============================================================================

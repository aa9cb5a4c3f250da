------------------------------ MODULE Execute ------------------------------
(***************************************************************************)
(* execute.sv: branch resolution, exception detection, the handshake of    *)
(* the iterative multiply/divide unit and the EX/MEM register.  Everything *)
(* that depends on operand values - whether a branch is taken and where    *)
(* to, whether an address is aligned, which value a CSR instruction        *)
(* writes - is an outcome the instruction may have.                        *)
(***************************************************************************)
EXTENDS CoreTypes

VARIABLES
    ex_mem,           \* EX/MEM pipeline register
    md_busy,          \* the multiply/divide unit is iterating
    md_result_ready,  \* its result has not been taken yet
    md_count          \* iterations left

executeVars == <<ex_mem, md_busy, md_result_ready, md_count>>

ExecuteTypeOK ==
    /\ ex_mem \in ExMem
    /\ md_busy \in BOOLEAN /\ md_result_ready \in BOOLEAN /\ md_count \in Nat

ExecuteInit ==
    /\ ex_mem = [valid |-> FALSE, pc |-> PCINIT, op |-> ZeroInstr, mem |-> "none",
                 wr |-> None, trap |-> None, next |-> PCINIT]
    /\ md_busy = FALSE /\ md_result_ready = FALSE /\ md_count = 0

----------------------------------------------------------------------------
\* What an instruction may turn out to do once its operands are known.  A branch
\* or jump that is taken has a target, a CSR instruction writes or (set/clear with
\* rs1 = x0) does not.
Outcome == [taken: BOOLEAN, misaligned: BOOLEAN, tgt: PC, wr: CsrWrites \cup {None}]

Plain == [taken |-> FALSE, misaligned |-> FALSE, tgt |-> PCINIT, wr |-> None]

Outcomes(op) ==
    {o \in Outcome :
        /\ o.taken => op \in {"branch", "jump"}
        /\ op = "jump" => o.taken
        /\ ~o.taken => o.tgt = PCINIT
        /\ o.misaligned => o.taken \/ op \in {"load", "store"}
        /\ o.wr # None => op = "csr"}

----------------------------------------------------------------------------
\* Combinational signals for the instruction e in EX with outcome o.

branch_taken(e, o) == (e.op = "branch" /\ o.taken) \/ e.op = "jump"

except_fire(step, e, o) ==
    /\ step /\ e.valid
    /\ e.op = "illegal" \/ (o.misaligned /\ e.op \in {"branch", "jump", "load", "store"})

\* Mutant: a CSR instruction does not restart the fetch behind it.
RedirectWithoutCsr(step, e, o) ==
    /\ step /\ e.valid
    /\ branch_taken(e, o) \/ e.op \in {"ecall", "mret"} \/ except_fire(step, e, o)

redirect_valid(step, e, o) ==
    /\ step /\ e.valid
    /\ branch_taken(e, o) \/ e.op \in {"csr", "ecall", "mret"} \/ except_fire(step, e, o)

redirect_pc(step, e, o, mtvec, mepc) ==
    CASE e.op = "mret"                               -> mepc
      [] e.op = "ecall" \/ except_fire(step, e, o)   -> mtvec
      [] e.op = "csr"                                -> pcPlus4[e.pc]
      [] OTHER                                       -> o.tgt

trap_fire(step, e, o) ==
    step /\ e.valid /\ (e.op \in {"ecall", "mret"} \/ except_fire(step, e, o))

\* Where program order continues after e: the handler of a trap, mepc for MRET,
\* the target of a taken branch or jump, otherwise the following instruction.
successor(e, o, mtvec, mepc) ==
    IF e.op = "mret" THEN mepc
    ELSE IF e.op \in {"ecall", "illegal"} \/ o.misaligned THEN mtvec
    ELSE IF o.taken THEN o.tgt ELSE pcPlus4[e.pc]

id_is_muldiv(e) == e.op = "muldiv"
\* Mutant: a flushed multiplication starts the unit.
MdStartIgnoresValid(e) == id_is_muldiv(e) /\ ~md_busy /\ ~md_result_ready

md_start(e) == e.valid /\ id_is_muldiv(e) /\ ~md_busy /\ ~md_result_ready
\* Mutant: the stage never reports a finished multiplication.
ExecuteOkIgnoresResult(e) == ~md_busy /\ ~id_is_muldiv(e)

execute_ok(e) == ~md_busy /\ (~id_is_muldiv(e) \/ md_result_ready)

----------------------------------------------------------------------------
\* Mutant: the instruction that takes the result does not clear md_result_ready.
MdTickKeepsResult(step, e, o, interrupt_fire) ==
    LET trapped == trap_fire(step, e, o) \/ interrupt_fire
    IN  \/ /\ ~trapped /\ md_start(e)
           /\ md_busy' = TRUE /\ md_result_ready' = FALSE
           /\ md_count' \in MdCounts
        \/ /\ ~trapped /\ ~md_start(e) /\ md_busy
           /\ md_count' = md_count - 1
           /\ md_busy' = (md_count # 1)
           /\ md_result_ready' = (md_count = 1 \/ md_result_ready)
        \/ /\ trapped \/ (~md_start(e) /\ ~md_busy)
           /\ UNCHANGED <<md_busy, md_result_ready, md_count>>

\* The multiply/divide unit and md_result_ready at one clock edge.  A trap or an
\* interrupt leaves the unit alone, a leftover result included.
MdTick(step, e, o, interrupt_fire) ==
    LET trapped == trap_fire(step, e, o) \/ interrupt_fire
    IN  \/ /\ trapped
           /\ UNCHANGED <<md_busy, md_result_ready, md_count>>
        \/ /\ ~trapped /\ md_start(e)
           /\ md_busy' = TRUE /\ md_result_ready' = FALSE
           /\ md_count' \in MdCounts
        \/ /\ ~trapped /\ ~md_start(e) /\ md_busy
           /\ md_count' = md_count - 1
           /\ md_busy' = (md_count # 1)
           /\ md_result_ready' = (md_count = 1 \/ md_result_ready)
        \/ /\ ~trapped /\ ~md_start(e) /\ ~md_busy
           /\ md_result_ready' = (md_result_ready /\ ~(step /\ id_is_muldiv(e)))
           /\ UNCHANGED <<md_busy, md_count>>

\* The EX/MEM register at one clock edge: a trap entry, an interrupt entry that
\* carries interrupt_pc, the instruction itself, or no change.
ExMemTick(step, e, o, interrupt_fire, interrupt_pc, priv, mtvec, mepc) ==
    ex_mem' =
        IF trap_fire(step, e, o)
        THEN [valid |-> TRUE, pc |-> e.pc, op |-> e.op, mem |-> "none", wr |-> None,
              trap |-> [mret |-> e.op = "mret", irq |-> FALSE, priv |-> priv],
              next |-> successor(e, o, mtvec, mepc)]
        ELSE IF interrupt_fire
        THEN [valid |-> TRUE, pc |-> interrupt_pc, op |-> ZeroInstr, mem |-> "none",
              wr |-> None, trap |-> [mret |-> FALSE, irq |-> TRUE, priv |-> priv],
              next |-> mtvec]
        ELSE IF step /\ (~id_is_muldiv(e) \/ md_result_ready)
        THEN [valid |-> e.valid, pc |-> e.pc, op |-> e.op,
              mem |-> IF e.op \in {"load", "store"} THEN e.op ELSE "none",
              wr |-> IF e.valid /\ e.op = "csr" THEN o.wr ELSE None,
              trap |-> None, next |-> successor(e, o, mtvec, mepc)]
        ELSE ex_mem

ExecuteTick(step, e, o, interrupt_fire, interrupt_pc, priv, mtvec, mepc) ==
    /\ MdTick(step, e, o, interrupt_fire)
    /\ ExMemTick(step, e, o, interrupt_fire, interrupt_pc, priv, mtvec, mepc)
=============================================================================

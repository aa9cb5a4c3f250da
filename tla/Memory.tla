------------------------------- MODULE Memory -------------------------------
(***************************************************************************)
(* memory.sv: one data-bus transaction per load or store, which holds the  *)
(* pipeline until it is answered, and the MEM/WB register.                 *)
(***************************************************************************)
EXTENDS CoreTypes

VARIABLES
    mem_in_progress,  \* a transaction is on the data bus
    req_completed,    \* the access of the EX/MEM entry is done
    dreq,             \* the request on the data bus
    mem_wb            \* MEM/WB pipeline register

memoryVars == <<mem_in_progress, req_completed, dreq, mem_wb>>

MemoryTypeOK ==
    /\ mem_in_progress \in BOOLEAN /\ req_completed \in BOOLEAN
    /\ dreq \in [valid: BOOLEAN, kind: {"load", "store"}]
    /\ mem_wb \in MemWb

MemoryInit ==
    /\ mem_in_progress = FALSE /\ req_completed = FALSE
    /\ dreq = [valid |-> FALSE, kind |-> "load"]
    /\ mem_wb = [valid |-> FALSE, pc |-> PCINIT, op |-> ZeroInstr,
                 wr |-> None, trap |-> None, next |-> PCINIT]

\* Mutant: every valid instruction accesses memory.
NeedsAccessAlways(x) == x.valid /\ ~req_completed

\* The EX/MEM entry x still has to access memory.
needs_access(x) == x.valid /\ x.mem # "none" /\ ~req_completed

mem_ok(x) == ~needs_access(x)

\* The handshake at one clock edge.  Later assignments of the code win: a
\* response over a flush, a response over the reset of req_completed by a step.
BusTick(step, flush, x, dresp_ok) ==
    LET issues    == ~mem_in_progress /\ needs_access(x)
        completes == mem_in_progress /\ dresp_ok
        cancels   == flush /\ mem_in_progress
    IN  /\ mem_in_progress' = (((mem_in_progress /\ ~cancels) \/ issues) /\ ~completes)
        /\ dreq' = IF completes THEN [dreq EXCEPT !.valid = FALSE]
                   ELSE IF issues THEN [valid |-> TRUE, kind |-> x.mem]
                   ELSE IF cancels THEN [dreq EXCEPT !.valid = FALSE]
                   ELSE dreq
        /\ req_completed' = (completes \/ (req_completed /\ ~step))

\* One clock edge of the stage for the EX/MEM entry x.
MemoryTick(step, flush, x, dresp_ok) ==
    /\ BusTick(step, flush, x, dresp_ok)
    /\ mem_wb' = IF step
                 THEN [valid |-> x.valid, pc |-> x.pc, op |-> x.op,
                       wr |-> x.wr, trap |-> x.trap, next |-> x.next]
                 ELSE mem_wb
=============================================================================

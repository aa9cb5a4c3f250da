-------------------------------- MODULE Core --------------------------------
(***************************************************************************)
(* core.sv: the five stages, wired together by the global step signal, the *)
(* trap and interrupt logic and the CSR file.  One action Tick is one edge *)
(* of the clock; its parameters are the inputs of the cycle.               *)
(***************************************************************************)
EXTENDS Fetch, Decode, Execute, Memory, CsrRegfile

VARIABLE retired   \* the address of the last instruction committed and the one
                   \* at which program order continues (not in the code)

vars == <<fetchVars, id_ex, executeVars, memoryVars, csr, retired>>

----------------------------------------------------------------------------
\* Wires that depend on registers only.

writeback_ok == TRUE

\* Mutant: the pipeline steps while a fetch is in flight.
StepIgnoresFetch == decode_ok /\ execute_ok(id_ex) /\ mem_ok(ex_mem)

step == fetch_ok /\ decode_ok /\ execute_ok(id_ex) /\ mem_ok(ex_mem) /\ writeback_ok

trap_in_progress == ex_mem.trap # None \/ mem_wb.trap # None

trap_csr_commit == step /\ mem_wb.valid /\ mem_wb.trap # None

\* Mutant: a CSR write takes effect as soon as it is in MEM/WB.
CsrWeWithoutStep == mem_wb.valid /\ mem_wb.wr # None

csr_we == step /\ mem_wb.valid /\ mem_wb.wr # None

committing_trap == IF trap_csr_commit THEN mem_wb.trap ELSE None
committing_wr   == IF csr_we THEN mem_wb.wr ELSE None

interrupt_save_pc == IF ex_mem.valid THEN ex_mem.pc
                     ELSE IF id_ex.valid THEN id_ex.pc ELSE current_pc

\* Interrupts are globally enabled: mstatus is the value after this cycle's commit.
interrupts_on ==
    csr.priv = M => CsrCommit(committing_trap, mem_wb.pc, committing_wr).mstatus.mie

\* Mutant: an interrupt does not wait for the trap in the pipeline to commit.
InterruptNests(o, lines) ==
    /\ step /\ fetch_ok /\ ~trap_fire(step, id_ex, o) /\ ~trap_csr_commit
    /\ interrupts_on
    /\ lines \cap csr.mie # {}

interrupt_fire(o, lines) ==
    /\ step /\ fetch_ok
    /\ ~trap_fire(step, id_ex, o) /\ ~trap_csr_commit /\ ~trap_in_progress
    /\ interrupts_on
    /\ lines \cap csr.mie # {}

\* An MRET still counts as committed; a trap does not.
block_commit == trap_csr_commit /\ ~mem_wb.trap.mret
commit_valid == mem_wb.valid /\ step /\ ~block_commit

----------------------------------------------------------------------------
\* Bookkeeping of program order: what leaves write-back in this cycle.
RetireTick ==
    retired' = [pc   |-> IF commit_valid THEN mem_wb.pc ELSE retired.pc,
                next |-> IF step /\ mem_wb.valid THEN mem_wb.next ELSE retired.next]

\* One clock edge.  iresp: the instruction the instruction bus delivers, if any;
\* dresp_ok: the data bus answers; o: the outcome of the instruction in EX;
\* lines: the interrupt lines that are up.
Tick(iresp, dresp_ok, o, lines) ==
    LET irq      == interrupt_fire(o, lines)
        trap_ex  == trap_fire(step, id_ex, o)
        redirect == redirect_valid(step, id_ex, o) \/ irq
        target   == IF irq THEN csr.mtvec
                    ELSE redirect_pc(step, id_ex, o, csr.mtvec, csr.mepc)
        trap     == trap_ex \/ irq
    IN  /\ FetchTick(step, redirect, target, trap, iresp)
        /\ DecodeTick(step, redirect \/ trap, if_id)
        /\ ExecuteTick(step, id_ex, o, irq, interrupt_save_pc,
                       csr.priv, csr.mtvec, csr.mepc)
        /\ MemoryTick(step, trap, ex_mem, dresp_ok)
        /\ CsrTick(committing_trap, mem_wb.pc, committing_wr,
                   trap_ex, id_ex.op = "mret", irq)
        /\ RetireTick

\* The buses answer only while they are asked, and an outcome exists only when
\* an instruction leaves EX.
IBusResponses == {{}} \cup (IF ireq.valid THEN {{op} : op \in Ops} ELSE {})
DBusResponses == IF dreq.valid THEN BOOLEAN ELSE {FALSE}
EXOutcomes    == IF step /\ id_ex.valid THEN Outcomes(id_ex.op) ELSE {Plain}
LineSets      == IF step THEN SUBSET Irqs ELSE {{}}

Init == /\ FetchInit /\ DecodeInit /\ ExecuteInit /\ MemoryInit /\ CsrInit
        /\ retired = [pc |-> PCINIT, next |-> PCINIT]

Next == \E iresp \in IBusResponses, dresp_ok \in DBusResponses,
           o \in EXOutcomes, lines \in LineSets :
            Tick(iresp, dresp_ok, o, lines)

Spec == Init /\ [][Next]_vars

\* The bus of the instruction fetch answers; the bus of the data access answers.
IBusAnswer == \E iresp \in IBusResponses \ {{}}, dresp_ok \in DBusResponses,
                 o \in EXOutcomes, lines \in LineSets :
                  Tick(iresp, dresp_ok, o, lines)
DBusAnswer == /\ dreq.valid
              /\ \E iresp \in IBusResponses, o \in EXOutcomes, lines \in LineSets :
                  Tick(iresp, TRUE, o, lines)

\* The clock never stops and a bus that is asked answers some day.
FairSpec == Spec /\ WF_vars(Next) /\ WF_vars(IBusAnswer) /\ WF_vars(DBusAnswer)

----------------------------------------------------------------------------
\* Properties.

\* Every register holds a value of its type (the packed structs of core.sv).
TypeOK == /\ FetchTypeOK /\ DecodeTypeOK /\ ExecuteTypeOK /\ MemoryTypeOK /\ CsrTypeOK
          /\ retired \in [pc: PC, next: PC]

\* Where program order continues after everything up to a stage.  An IF/ID
\* entry is consumed once the next fetch has begun.
AfterWB == IF mem_wb.valid THEN mem_wb.next ELSE retired.next
AfterMEM == IF ex_mem.valid THEN ex_mem.next ELSE AfterWB
AfterEX == IF id_ex.valid THEN pcPlus4[id_ex.pc] ELSE AfterMEM
AfterID == IF if_id.valid /\ ~fetch_in_progress THEN pcPlus4[if_id.pc] ELSE AfterEX

IsIrq(r) == r.trap # None /\ r.trap.irq
Pending(r) == r.wr # None \/ r.trap # None

\* Every instruction in the pipeline, and the next fetch, is the one program
\* order asks for, whatever was flushed, trapped or interrupted before it.
InOrder ==
    /\ mem_wb.valid /\ ~IsIrq(mem_wb) => mem_wb.pc = retired.next
    /\ ex_mem.valid /\ ~IsIrq(ex_mem) => ex_mem.pc = AfterWB
    /\ id_ex.valid => id_ex.pc = AfterMEM
    /\ if_id.valid /\ ~fetch_in_progress => if_id.pc = AfterEX
    /\ pc = AfterID

\* README 9.5: CSRs are not forwarded, the flush makes that sound.  While an
\* instruction is in EX, which reads CSRs, mtvec, mepc and the privilege, no CSR
\* write and no trap is on its way to write-back.
NoStaleCsr == id_ex.valid => ~Pending(ex_mem) /\ ~Pending(mem_wb)

\* README 11.3.3, point 4: traps do not nest in the pipeline.  A pending trap is
\* alone in it, and a CSR write is never behind one.
OneTrap == /\ mem_wb.trap # None => ~Pending(ex_mem)
           /\ ex_mem.trap # None => mem_wb.trap = None

\* No load or store reaches the data bus unless it is the instruction in MEM and
\* every instruction before it went on without a trap.
PreciseMemory ==
    dreq.valid => /\ ex_mem.valid /\ ex_mem.mem = dreq.kind /\ ~req_completed
                  /\ mem_wb.trap = None

\* An interrupt loses no instruction: the address that mepc receives is that of
\* the instruction that follows the last one committed, or of that very one.
NothingSkipped == mem_wb.valid /\ IsIrq(mem_wb) => mem_wb.pc \in {retired.next, retired.pc}

\* README 11.3.4: mepc of an interrupt is the address of the instruction that
\* would be executed next, not of one already completed.
PreciseInterrupt == mem_wb.valid /\ IsIrq(mem_wb) => mem_wb.pc = retired.next

\* Lab.md, interrupts: whether an interrupt is taken is evaluated with the CSR
\* write that has just been executed.  None is taken when that write leaves no
\* line enabled.
NoDisabledInterrupt ==
    [][ex_mem'.trap # None /\ ex_mem'.trap.irq /\ ex_mem.trap = None
           => csr'.mie # {}]_vars

\* README 3.3: a request stays on its bus unchanged until the answer arrives and
\* goes to the instruction that asked for it.
RequestsStand ==
    [][/\ ireq.valid => ireq' = ireq \/ (if_id'.valid /\ if_id'.pc = ireq.addr)
       /\ dreq.valid => dreq' = dreq \/ (req_completed' /\ ex_mem' = ex_mem)]_vars

\* The MMU reads the privilege and satp anew in every cycle of a translation;
\* neither moves while a request is out.
TranslationStable ==
    [][ireq.valid \/ dreq.valid => csr'.priv = csr.priv /\ csr'.satp = csr.satp]_vars

\* README 10.2.4: EX moves the privilege before the trap commits.  The commit
\* then confirms that privilege, under which the handler was already fetched.
PrivilegeSettled == [][trap_csr_commit => csr'.priv = csr.priv]_vars

\* A result of the multiply/divide unit is taken by the instruction it was
\* computed for, or dropped with it.
ResultNotReused ==
    [][md_result_ready /\ md_result_ready' /\ id_ex'.valid => id_ex' = id_ex]_vars

\* The multiply/divide unit starts from rest and works for the instruction in EX.
MdOwned == md_busy => id_ex.valid /\ id_is_muldiv(id_ex) /\ ~md_result_ready

\* README 4.2: the stages hold the pipeline only for a fetch, a computation or an
\* access, so it steps again and again.
KeepsStepping == []<>step

\* README 8.4: the stall of a multiplication is bounded, as every other stall is.
\* What can stop the pipeline is a multiplication that was flushed before EX, only.
StallsEnd == []<>(step \/ (id_is_muldiv(id_ex) /\ ~id_ex.valid))

----------------------------------------------------------------------------
\* The inductive invariant that carries the safety properties (Core_proofs.tla).

\* Fetch is ready exactly when it has no request out, and a redirect never meets
\* a fetch in flight.
FetchHandshake ==
    /\ fetch_ok = ~fetch_in_progress /\ ireq.valid = fetch_in_progress
    /\ ~redirect_pending
    /\ fetch_in_progress => req_pc = pc /\ ireq.addr = pc

\* The data bus works for the instruction in MEM.
DataHandshake ==
    /\ mem_in_progress = dreq.valid
    /\ dreq.valid => ex_mem.valid /\ ex_mem.mem = dreq.kind /\ ~req_completed

\* The bubbles behind a CSR instruction and behind a trap.
Bubbles ==
    /\ Pending(ex_mem) => /\ ex_mem.valid /\ ex_mem.mem = "none"
                          /\ ~id_ex.valid /\ ~if_id.valid /\ ~fetch_in_progress
    /\ Pending(mem_wb) => mem_wb.valid /\ ~id_ex.valid
    /\ mem_wb.trap # None => ~ex_mem.valid
    /\ ex_mem.trap # None /\ Pending(mem_wb) => ex_mem.trap.irq /\ ~ex_mem.trap.mret

\* The privilege EX has given to the trap in the pipeline.
PrivOf(trap) == IF trap.mret THEN csr.mstatus.mpp ELSE M
PrivilegeGiven == /\ ex_mem.trap # None => csr.priv = PrivOf(ex_mem.trap)
                  /\ mem_wb.trap # None => csr.priv = PrivOf(mem_wb.trap)

\* Where an interrupt resumes, seen from MEM and from WB.
Resumes ==
    /\ ex_mem.valid /\ IsIrq(ex_mem) =>
           IF mem_wb.valid THEN mem_wb.trap = None /\ ex_mem.pc = mem_wb.pc
           ELSE ex_mem.pc = retired.next
    /\ NothingSkipped

\* A result waits only behind a multiplication, valid or flushed.
ResultOwned == md_result_ready => id_is_muldiv(id_ex)

CoreInv == /\ FetchHandshake /\ DataHandshake /\ Bubbles /\ PrivilegeGiven /\ Resumes
           /\ MdOwned /\ ResultOwned /\ InOrder
=============================================================================

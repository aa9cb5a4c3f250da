----------------------------- MODULE Core_proofs -----------------------------
(***************************************************************************)
(* Proofs about Core.tla.  The typing of each stage is a lemma of its own; *)
(* an inductive invariant then carries the safety properties.              *)
(***************************************************************************)
EXTENDS Core, TLAPS

----------------------------------------------------------------------------
\* Typing, stage by stage.

\* What the instruction in EX may turn out to do has the type of an outcome.
LEMMA OutcomeType ==
    ASSUME NEW op, NEW o \in {Plain} \cup Outcomes(op)
    PROVE  /\ o.taken \in BOOLEAN /\ o.misaligned \in BOOLEAN /\ o.tgt \in PC
           /\ o.wr \in CsrWrite \cup {None}
  <1>1. Plain \in Outcome
    BY PCAssumption DEF Outcome, Plain
  <1>2. o \in Outcome
    BY <1>1 DEF Outcomes
  <1>3. QED
    BY <1>2, CsrWritesAssumption DEF Outcome

LEMMA FetchType ==
    ASSUME FetchTypeOK, NEW s \in BOOLEAN, NEW rv \in BOOLEAN, NEW tgt \in PC,
           NEW trap \in BOOLEAN, NEW iresp \in SUBSET AllOps,
           FetchTick(s, rv, tgt, trap, iresp)
    PROVE  FetchTypeOK'
  <1>1. CASE FetchTrap(tgt)
    BY <1>1 DEF FetchTrap, FetchTypeOK, IfId
  <1>2. CASE FetchRedirect(tgt)
    BY <1>2 DEF FetchRedirect, FetchTypeOK, IfId
  <1>3. CASE FetchStart
    BY <1>3 DEF FetchStart, FetchTypeOK, IfId
  <1>4. CASE \E op \in iresp : FetchResponse(op)
    <2>1. PICK op \in AllOps : FetchResponse(op)
      BY <1>4
    <2>2. pcPlus4[req_pc] \in PC
      BY PCAssumption DEF FetchTypeOK
    <2>3. /\ fetch_ok' = TRUE /\ fetch_in_progress' = FALSE /\ redirect_pending' = FALSE
          /\ ireq' = [ireq EXCEPT !.valid = FALSE]
          /\ UNCHANGED <<req_pc, pending_redirect_pc>>
      BY <2>1 DEF FetchResponse
    <2>4. if_id' \in IfId /\ pc' \in PC
      <3>1. CASE redirect_pending
        <4>1. if_id' = [if_id EXCEPT !.valid = FALSE] /\ pc' = pending_redirect_pc
          BY <2>1, <3>1, Zenon DEF FetchResponse
        <4>2. QED
          BY <4>1 DEF FetchTypeOK, IfId
      <3>2. CASE ~redirect_pending
        <4>1. if_id' = [valid |-> TRUE, pc |-> req_pc, op |-> op] /\ pc' = pcPlus4[req_pc]
          BY <2>1, <3>2, Zenon DEF FetchResponse
        <4>2. QED
          BY <2>2, <4>1 DEF FetchTypeOK, IfId
      <3>3. QED
        BY <3>1, <3>2
    <2>5. QED
      BY <2>3, <2>4 DEF FetchTypeOK
  <1>5. CASE UNCHANGED fetchVars
    BY <1>5 DEF fetchVars, FetchTypeOK, IfId
  <1>6. QED
    BY <1>1, <1>2, <1>3, <1>4, <1>5 DEF FetchTick

LEMMA DecodeType ==
    ASSUME DecodeTypeOK, NEW s, NEW flush, NEW r \in IfId, DecodeTick(s, flush, r)
    PROVE  DecodeTypeOK'
  BY DEF DecodeTypeOK, DecodeTick, IfId, IdEx

LEMMA ExMemType ==
    ASSUME ex_mem \in ExMem, NEW s, NEW e \in IdEx, NEW o \in {Plain} \cup Outcomes(e.op),
           NEW irq \in BOOLEAN, NEW ipc \in PC, NEW priv \in Priv,
           NEW mtvec \in PC, NEW mepc \in PC,
           ExMemTick(s, e, o, irq, ipc, priv, mtvec, mepc)
    PROVE  ex_mem' \in ExMem
  <1>1. successor(e, o, mtvec, mepc) \in PC
    BY OutcomeType, PCAssumption DEF successor, IdEx
  <1>2. CASE trap_fire(s, e, o)
    BY <1>1, <1>2 DEF ExMemTick, ExMem, IdEx, Trap
  <1>3. CASE ~trap_fire(s, e, o) /\ irq
    BY <1>3 DEF ExMemTick, ExMem, Trap, AllOps, ZeroInstr
  <1>4. CASE ~trap_fire(s, e, o) /\ ~irq
    BY <1>1, <1>4, OutcomeType DEF ExMemTick, ExMem, IdEx
  <1>5. QED
    BY <1>2, <1>3, <1>4

LEMMA MdType ==
    ASSUME md_busy \in BOOLEAN, md_result_ready \in BOOLEAN, md_count \in Nat,
           md_busy => md_count # 0,
           NEW s, NEW e, NEW o, NEW irq, MdTick(s, e, o, irq)
    PROVE  /\ md_busy' \in BOOLEAN /\ md_result_ready' \in BOOLEAN /\ md_count' \in Nat
           /\ md_busy' => md_count' # 0
  <1>1. CASE UNCHANGED <<md_busy, md_result_ready, md_count>>
    BY <1>1
  <1>2. CASE md_busy' = TRUE /\ md_result_ready' = FALSE /\ md_count' \in MdCounts
    BY <1>2, MdCountsAssumption
  <1>3. CASE /\ md_busy
             /\ md_count' = md_count - 1
             /\ md_busy' = (md_count # 1)
             /\ md_result_ready' = (md_count = 1 \/ md_result_ready)
    <2>1. md_count' \in Nat /\ (md_count # 1 => md_count' # 0)
      BY <1>3
    <2>2. QED
      BY <1>3, <2>1
  <1>4. CASE /\ md_result_ready' \in BOOLEAN
             /\ UNCHANGED <<md_busy, md_count>>
    BY <1>4
  <1>5. QED
    BY <1>1, <1>2, <1>3, <1>4 DEF MdTick

LEMMA MemoryType ==
    ASSUME MemoryTypeOK, NEW s \in BOOLEAN, NEW flush \in BOOLEAN, NEW x \in ExMem,
           NEW ok \in BOOLEAN, MemoryTick(s, flush, x, ok)
    PROVE  MemoryTypeOK'
  <1>1. mem_wb' \in MemWb
    BY DEF MemoryTypeOK, MemoryTick, ExMem, MemWb
  <1>2. needs_access(x) => x.mem \in {"load", "store"}
    BY DEF needs_access, ExMem
  <1>3. dreq' \in [valid: BOOLEAN, kind: {"load", "store"}]
    BY <1>2 DEF MemoryTypeOK, MemoryTick, BusTick
  <1>4. mem_in_progress' \in BOOLEAN /\ req_completed' \in BOOLEAN
    BY DEF MemoryTypeOK, MemoryTick, BusTick
  <1>5. QED
    BY <1>1, <1>3, <1>4 DEF MemoryTypeOK

LEMMA CsrCommitType ==
    ASSUME CsrTypeOK, NEW trap \in Trap \cup {None}, NEW tpc \in PC,
           NEW wr \in CsrWrite \cup {None}
    PROVE  CsrCommit(trap, tpc, wr) \in Csr
  <1>1. /\ wr # None /\ wr.reg = "mstatus" => wr.val \in Mstatus
        /\ wr # None /\ wr.reg \in {"mtvec", "mepc"} => wr.val \in PC
        /\ wr # None /\ wr.reg = "mie" => wr.val \in SUBSET Irqs
        /\ wr # None /\ wr.reg = "satp" => wr.val \in BOOLEAN
    BY DEF CsrWrite
  <1>2. /\ MretStatus(csr.mstatus) \in Mstatus
        /\ trap # None => TrapStatus(csr.mstatus, trap.priv) \in Mstatus
    BY DEF CsrTypeOK, Csr, Mstatus, MretStatus, TrapStatus, Trap, Priv, U
  <1>3. /\ csr.mstatus \in Mstatus /\ csr.mtvec \in PC /\ csr.mepc \in PC
        /\ csr.mie \in SUBSET Irqs /\ csr.satp \in BOOLEAN /\ csr \in Csr
    BY DEF CsrTypeOK, Csr
  <1> DEFINE mret     == trap # None /\ trap.mret
             enters   == trap # None /\ ~trap.mret
             Is(reg)  == wr # None /\ wr.reg = reg
             status   == IF Is("mstatus") THEN wr.val
                         ELSE IF mret THEN MretStatus(csr.mstatus)
                         ELSE IF enters THEN TrapStatus(csr.mstatus, trap.priv)
                         ELSE csr.mstatus
             epc      == IF Is("mepc") THEN wr.val ELSE IF enters THEN tpc ELSE csr.mepc
             tvec     == IF Is("mtvec") THEN wr.val ELSE csr.mtvec
             ie       == IF Is("mie") THEN wr.val ELSE csr.mie
             satp     == IF Is("satp") THEN wr.val ELSE csr.satp
  <1>4. status \in Mstatus
    BY <1>1, <1>2, <1>3
  <1>5. epc \in PC /\ tvec \in PC /\ ie \in SUBSET Irqs /\ satp \in BOOLEAN
    BY <1>1, <1>3
  <1>6. CsrCommit(trap, tpc, wr) = [csr EXCEPT !.mstatus = status, !.mepc = epc,
                                                !.mtvec = tvec, !.mie = ie, !.satp = satp]
    BY DEF CsrCommit
  <1> HIDE DEF status, epc, tvec, ie, satp
  <1>7. QED
    BY <1>3, <1>4, <1>5, <1>6 DEF Csr

LEMMA CsrType ==
    ASSUME CsrTypeOK, NEW trap \in Trap \cup {None}, NEW tpc \in PC,
           NEW wr \in CsrWrite \cup {None}, NEW tex, NEW mex, NEW irq,
           CsrTick(trap, tpc, wr, tex, mex, irq)
    PROVE  CsrTypeOK'
  <1>1. PrivNext(trap, tex, mex, irq) \in Priv
    BY DEF PrivNext, CsrTypeOK, Csr, Mstatus, Priv, M
  <1>2. QED
    BY <1>1, CsrCommitType DEF CsrTick, CsrTypeOK, Csr

----------------------------------------------------------------------------
\* The wires of core.sv.

\* Every input of a cycle has its type, and the wires computed from it have theirs.
LEMMA WireType ==
    ASSUME TypeOK
    PROVE  /\ step \in BOOLEAN /\ csr_we \in BOOLEAN
           /\ committing_trap \in Trap \cup {None} /\ committing_wr \in CsrWrite \cup {None}
           /\ interrupt_save_pc \in PC
           /\ csr.mtvec \in PC /\ csr.mepc \in PC /\ csr.priv \in Priv
  <1> USE DEF TypeOK
  <1>1. step \in BOOLEAN /\ csr_we \in BOOLEAN
    BY DEF step, csr_we, FetchTypeOK, decode_ok, execute_ok, mem_ok, writeback_ok
  <1>2. /\ committing_trap \in Trap \cup {None}
        /\ committing_wr \in CsrWrite \cup {None}
    BY DEF committing_trap, committing_wr, MemoryTypeOK, MemWb
  <1>3. interrupt_save_pc \in PC
    BY DEF interrupt_save_pc, current_pc, FetchTypeOK, DecodeTypeOK, ExecuteTypeOK,
           IfId, IdEx, ExMem
  <1>4. csr.mtvec \in PC /\ csr.mepc \in PC /\ csr.priv \in Priv
    BY DEF CsrTypeOK, Csr
  <1>5. QED
    BY <1>1, <1>2, <1>3, <1>4

\* A busy multiply/divide unit has iterations left.
MdCountInv == md_busy => md_count # 0

TypeInv == TypeOK /\ MdCountInv

LEMMA InitTypeInv == Init => TypeInv
  <1> SUFFICES ASSUME Init PROVE TypeInv
    OBVIOUS
  <1> USE PCAssumption DEF Init
  <1>1. FetchTypeOK
    BY DEF FetchInit, FetchTypeOK, IfId, AllOps, ZeroInstr
  <1>2. DecodeTypeOK
    BY DEF DecodeInit, DecodeTypeOK, IdEx, AllOps
  <1>3. ExecuteTypeOK /\ MdCountInv
    BY DEF ExecuteInit, ExecuteTypeOK, MdCountInv, ExMem, AllOps, ZeroInstr
  <1>4. MemoryTypeOK
    BY DEF MemoryInit, MemoryTypeOK, MemWb, AllOps, ZeroInstr
  <1>5. CsrTypeOK
    BY DEF CsrInit, CsrTypeOK, Csr, Mstatus, Priv, U, M
  <1>6. QED
    BY <1>1, <1>2, <1>3, <1>4, <1>5 DEF TypeInv, TypeOK

LEMMA TickTypeInv ==
    ASSUME TypeInv, NEW iresp \in IBusResponses, NEW ok \in DBusResponses,
           NEW o \in EXOutcomes, NEW lines \in LineSets, Tick(iresp, ok, o, lines)
    PROVE  TypeInv'
  <1> USE DEF TypeInv, TypeOK
  <1>1. iresp \in SUBSET AllOps /\ ok \in BOOLEAN
    BY OpsAssumption DEF IBusResponses, DBusResponses
  <1>2. o \in {Plain} \cup Outcomes(id_ex.op)
    BY DEF EXOutcomes
  <1> DEFINE irq    == interrupt_fire(o, lines)
             trapx  == trap_fire(step, id_ex, o)
             redir  == redirect_valid(step, id_ex, o) \/ irq
             target == IF irq THEN csr.mtvec
                       ELSE redirect_pc(step, id_ex, o, csr.mtvec, csr.mepc)
  <1>3. irq \in BOOLEAN /\ trapx \in BOOLEAN /\ redir \in BOOLEAN
    BY DEF interrupt_fire, trap_fire, redirect_valid
  <1>4. target \in PC
    BY WireType, <1>2, OutcomeType, PCAssumption DEF redirect_pc, DecodeTypeOK, IdEx
  <1>5. /\ FetchTick(step, redir, target, trapx \/ irq, iresp)
        /\ DecodeTick(step, redir \/ trapx \/ irq, if_id)
        /\ ExecuteTick(step, id_ex, o, irq, interrupt_save_pc,
                       csr.priv, csr.mtvec, csr.mepc)
        /\ MemoryTick(step, trapx \/ irq, ex_mem, ok)
        /\ CsrTick(committing_trap, mem_wb.pc, committing_wr,
                   trapx, id_ex.op = "mret", irq)
        /\ RetireTick
    BY DEF Tick
  <1> HIDE DEF irq, trapx, redir, target
  <1>6. FetchTypeOK'
    BY <1>1, <1>3, <1>4, <1>5, WireType, FetchType
  <1>7. DecodeTypeOK'
    BY <1>5, DecodeType DEF FetchTypeOK
  <1>8. ExecuteTypeOK' /\ MdCountInv'
    <2>1. ex_mem' \in ExMem
      BY <1>2, <1>3, <1>5, WireType, ExMemType DEF ExecuteTick, ExecuteTypeOK, DecodeTypeOK
    <2>2. /\ md_busy' \in BOOLEAN /\ md_result_ready' \in BOOLEAN /\ md_count' \in Nat
          /\ md_busy' => md_count' # 0
      BY <1>5, MdType DEF ExecuteTick, ExecuteTypeOK, MdCountInv
    <2>3. QED
      BY <2>1, <2>2 DEF ExecuteTypeOK, MdCountInv
  <1>9. MemoryTypeOK'
    BY <1>1, <1>3, <1>5, WireType, MemoryType DEF ExecuteTypeOK
  <1>10. CsrTypeOK'
    <2>1. mem_wb.pc \in PC
      BY DEF MemoryTypeOK, MemWb
    <2>2. QED
      BY <1>5, <2>1, WireType, CsrType
  <1>11. (retired \in [pc: PC, next: PC])'
    BY <1>5 DEF RetireTick, MemoryTypeOK, MemWb
  <1>12. QED
    BY <1>6, <1>7, <1>8, <1>9, <1>10, <1>11

\* Every register of the core has its type in every reachable state.
THEOREM TypeCorrect == Spec => []TypeOK
  <1>1. TypeInv /\ [Next]_vars => TypeInv'
    <2>1. CASE Next
      BY <2>1, TickTypeInv DEF Next
    <2>2. CASE UNCHANGED vars
      BY <2>2 DEF vars, fetchVars, executeVars, memoryVars, TypeInv, TypeOK, MdCountInv,
           FetchTypeOK, DecodeTypeOK, ExecuteTypeOK, MemoryTypeOK, CsrTypeOK
    <2>3. QED
      BY <2>1, <2>2
  <1>2. TypeInv => TypeOK
    BY DEF TypeInv
  <1>3. QED
    BY InitTypeInv, <1>1, <1>2, PTL DEF Spec

----------------------------------------------------------------------------
\* What one edge of the clock does, case by case.

Inputs(iresp, ok, o, lines) ==
    /\ iresp \in IBusResponses /\ ok \in DBusResponses
    /\ o \in EXOutcomes /\ lines \in LineSets

\* The registers behind EX when the pipeline moves.
Moves ==
    /\ mem_wb' = [valid |-> ex_mem.valid, pc |-> ex_mem.pc, op |-> ex_mem.op,
                  wr |-> ex_mem.wr, trap |-> ex_mem.trap, next |-> ex_mem.next]
    /\ retired' = [pc   |-> IF commit_valid THEN mem_wb.pc ELSE retired.pc,
                   next |-> AfterWB]
    /\ dreq'.valid = FALSE /\ mem_in_progress' = FALSE

\* EX/MEM takes the instruction of EX.
TakesEX(o) ==
    ex_mem' = [valid |-> id_ex.valid, pc |-> id_ex.pc, op |-> id_ex.op,
               mem |-> IF id_ex.op \in {"load", "store"} THEN id_ex.op ELSE "none",
               wr |-> IF id_ex.valid /\ id_ex.op = "csr" THEN o.wr ELSE None,
               trap |-> None, next |-> successor(id_ex, o, csr.mtvec, csr.mepc)]

Flush == id_ex' = [id_ex EXCEPT !.valid = FALSE]

NoMove == /\ id_ex' = id_ex /\ ex_mem' = ex_mem /\ mem_wb' = mem_wb
          /\ csr' = csr /\ retired' = retired
          /\ (fetch_in_progress /\ \E op : FetchResponse(op)) \/ UNCHANGED fetchVars

TrapMove(o) ==
    /\ id_ex.valid /\ FetchTrap(successor(id_ex, o, csr.mtvec, csr.mepc)) /\ Flush
    /\ ex_mem' = [valid |-> TRUE, pc |-> id_ex.pc, op |-> id_ex.op, mem |-> "none",
                  wr |-> None, next |-> successor(id_ex, o, csr.mtvec, csr.mepc),
                  trap |-> [mret |-> id_ex.op = "mret", irq |-> FALSE, priv |-> csr.priv]]
    /\ csr'.priv = IF id_ex.op = "mret" THEN csr.mstatus.mpp ELSE M

IrqMove ==
    /\ ~trap_in_progress /\ FetchTrap(csr.mtvec) /\ Flush
    /\ ex_mem' = [valid |-> TRUE, pc |-> interrupt_save_pc, op |-> ZeroInstr,
                  mem |-> "none", wr |-> None, next |-> csr.mtvec,
                  trap |-> [mret |-> FALSE, irq |-> TRUE, priv |-> csr.priv]]
    /\ csr'.priv = M

RedirectMove(o) ==
    /\ id_ex.valid /\ FetchRedirect(successor(id_ex, o, csr.mtvec, csr.mepc)) /\ Flush
    /\ TakesEX(o)
    /\ csr'.priv = PrivNext(committing_trap, FALSE, FALSE, FALSE)

NextMove(o) ==
    /\ FetchStart /\ TakesEX(o)
    /\ id_ex' = [valid |-> if_id.valid, pc |-> if_id.pc, op |-> if_id.op]
    /\ id_ex.valid => /\ id_ex.op # "csr"
                      /\ successor(id_ex, o, csr.mtvec, csr.mepc) = pcPlus4[id_ex.pc]
    /\ csr'.priv = PrivNext(committing_trap, FALSE, FALSE, FALSE)

\* A redirect goes where program order continues; without one that is the next address.
LEMMA Successor ==
    ASSUME NEW e \in IdEx, NEW o \in Outcomes(e.op), e.valid, NEW mtvec, NEW mepc
    PROVE  /\ redirect_valid(TRUE, e, o) =>
                  redirect_pc(TRUE, e, o, mtvec, mepc) = successor(e, o, mtvec, mepc)
           /\ ~redirect_valid(TRUE, e, o) =>
                  e.op # "csr" /\ successor(e, o, mtvec, mepc) = pcPlus4[e.pc]
  <1>1. /\ o.taken => e.op \in {"branch", "jump"}
        /\ e.op = "jump" => o.taken
        /\ o.misaligned => o.taken \/ e.op \in {"load", "store"}
    BY DEF Outcomes
  <1>2. QED
    BY <1>1 DEF redirect_valid, redirect_pc, except_fire, branch_taken, successor

\* Without a step only the two bus interfaces and the multiply/divide unit move.
LEMMA Stall ==
    ASSUME TypeOK, NEW iresp, NEW ok, NEW o, NEW lines, Inputs(iresp, ok, o, lines),
           Tick(iresp, ok, o, lines), ~step
    PROVE  NoMove /\ BusTick(FALSE, FALSE, ex_mem, ok)
  <1>1. /\ interrupt_fire(o, lines) = FALSE /\ trap_fire(step, id_ex, o) = FALSE
        /\ redirect_valid(step, id_ex, o) = FALSE
        /\ committing_trap = None /\ committing_wr = None /\ step = FALSE
    BY WireType DEF interrupt_fire, trap_fire, redirect_valid, committing_trap, committing_wr,
       trap_csr_commit, csr_we
  <1>2. id_ex' = id_ex /\ ex_mem' = ex_mem
    BY <1>1 DEF Tick, DecodeTick, ExecuteTick, ExMemTick
  <1>3. mem_wb' = mem_wb /\ BusTick(FALSE, FALSE, ex_mem, ok)
    BY <1>1 DEF Tick, MemoryTick
  <1>4. csr' = csr
    <2>1. CsrCommit(None, mem_wb.pc, None) = csr /\ csr \in Csr
      BY DEF CsrCommit, TypeOK, CsrTypeOK, Csr
    <2>2. PrivNext(None, FALSE, id_ex.op = "mret", FALSE) = csr.priv
      BY DEF PrivNext
    <2>3. QED
      BY <1>1, <2>1, <2>2 DEF Tick, CsrTick, Csr
  <1>5. retired' = retired
    BY <1>1 DEF Tick, RetireTick, commit_valid, TypeOK
  <1>6. (fetch_in_progress /\ \E op : FetchResponse(op)) \/ UNCHANGED fetchVars
    BY <1>1 DEF Tick, FetchTick
  <1>7. QED
    BY <1>2, <1>3, <1>4, <1>5, <1>6 DEF NoMove

\* A step moves the whole pipeline, in one of four ways.
LEMMA Step ==
    ASSUME TypeOK, FetchHandshake, DataHandshake, NEW iresp, NEW ok, NEW o, NEW lines,
           Inputs(iresp, ok, o, lines), Tick(iresp, ok, o, lines), step
    PROVE  /\ fetch_ok /\ ~fetch_in_progress /\ ~dreq.valid /\ ~md_busy
           /\ id_is_muldiv(id_ex) => md_result_ready
           /\ Moves
           /\ TrapMove(o) \/ IrqMove \/ RedirectMove(o) \/ NextMove(o)
  <1> DEFINE irq   == interrupt_fire(o, lines)
             trapx == trap_fire(step, id_ex, o)
             redir == redirect_valid(step, id_ex, o)
             rpc   == redirect_pc(step, id_ex, o, csr.mtvec, csr.mepc)
             succ  == successor(id_ex, o, csr.mtvec, csr.mepc)
  <1>1. /\ fetch_ok /\ ~fetch_in_progress /\ ~dreq.valid /\ ~md_busy /\ ~needs_access(ex_mem)
        /\ id_is_muldiv(id_ex) => md_result_ready
    <2>1. fetch_ok /\ execute_ok(id_ex) /\ mem_ok(ex_mem)
      BY DEF step
    <2>2. ~needs_access(ex_mem)
      BY <2>1 DEF mem_ok
    <2>3. ~dreq.valid
      BY <2>2, <2>1 DEF needs_access, DataHandshake, TypeOK, MemoryTypeOK
    <2>4. ~fetch_in_progress
      BY <2>1 DEF FetchHandshake, TypeOK, FetchTypeOK
    <2>5. QED
      BY <2>1, <2>2, <2>3, <2>4 DEF execute_ok
  <1>2. step = TRUE
    BY WireType
  <1>3. Moves
    <2>1. dreq'.valid = FALSE /\ mem_in_progress' = FALSE
      BY <1>1 DEF Tick, MemoryTick, BusTick, DataHandshake, TypeOK, MemoryTypeOK
    <2>2. QED
      BY <1>2, <2>1 DEF Tick, MemoryTick, RetireTick, AfterWB, Moves
  <1>4. /\ redir /\ id_ex.valid => rpc = succ
        /\ ~redir /\ id_ex.valid => id_ex.op # "csr" /\ succ = pcPlus4[id_ex.pc]
    BY <1>2, Successor DEF Inputs, EXOutcomes, TypeOK, DecodeTypeOK
  <1>5. trapx => redir /\ id_ex.valid /\ ~irq
    BY DEF trap_fire, redirect_valid, interrupt_fire
  <1>6. redir => id_ex.valid
    BY DEF redirect_valid
  <1>7. csr'.priv = PrivNext(committing_trap, trapx, id_ex.op = "mret", irq)
    <2>1. CsrCommit(committing_trap, mem_wb.pc, committing_wr) \in Csr
      BY WireType, CsrCommitType DEF TypeOK, MemoryTypeOK, MemWb
    <2>2. QED
      BY <2>1 DEF Tick, CsrTick, Csr
  <1>8. ASSUME trapx PROVE TrapMove(o)
    <2>1. FetchTrap(succ)
      BY <1>4, <1>5, <1>8 DEF Tick, FetchTick
    <2>2. Flush
      BY <1>8 DEF Tick, DecodeTick, Flush
    <2>3. ex_mem' = [valid |-> TRUE, pc |-> id_ex.pc, op |-> id_ex.op, mem |-> "none",
                     wr |-> None, next |-> succ,
                     trap |-> [mret |-> id_ex.op = "mret", irq |-> FALSE, priv |-> csr.priv]]
      BY <1>8 DEF Tick, ExecuteTick, ExMemTick
    <2>4. csr'.priv = IF id_ex.op = "mret" THEN csr.mstatus.mpp ELSE M
      BY <1>5, <1>7, <1>8 DEF PrivNext
    <2>5. QED
      BY <1>5, <1>8, <2>1, <2>2, <2>3, <2>4 DEF TrapMove
  <1>9. ASSUME irq PROVE IrqMove
    <2>1. FetchTrap(csr.mtvec)
      BY <1>5, <1>9 DEF Tick, FetchTick
    <2>2. Flush
      BY <1>9 DEF Tick, DecodeTick, Flush
    <2>3. ~trap_in_progress
      BY <1>9 DEF interrupt_fire
    <2>4. ex_mem' = [valid |-> TRUE, pc |-> interrupt_save_pc, op |-> ZeroInstr,
                     mem |-> "none", wr |-> None, next |-> csr.mtvec,
                     trap |-> [mret |-> FALSE, irq |-> TRUE, priv |-> csr.priv]]
      BY <1>5, <1>9 DEF Tick, ExecuteTick, ExMemTick
    <2>5. csr'.priv = M
      BY <1>7, <1>9 DEF PrivNext
    <2>6. QED
      BY <2>1, <2>2, <2>3, <2>4, <2>5 DEF IrqMove
  <1>10. ASSUME ~trapx /\ ~irq PROVE RedirectMove(o) \/ NextMove(o)
    <2>1. TakesEX(o)
      BY <1>1, <1>2, <1>10 DEF Tick, ExecuteTick, ExMemTick, TakesEX
    <2>2. csr'.priv = PrivNext(committing_trap, FALSE, FALSE, FALSE)
      BY <1>7, <1>10 DEF PrivNext
    <2>3. CASE redir
      <3>1. FetchRedirect(succ)
        BY <1>4, <1>6, <1>10, <2>3 DEF Tick, FetchTick
      <3>2. Flush
        BY <2>3 DEF Tick, DecodeTick, Flush
      <3>3. QED
        BY <1>6, <2>1, <2>2, <2>3, <3>1, <3>2 DEF RedirectMove
    <2>4. CASE ~redir
      <3>1. FetchStart
        BY <1>1, <1>2, <1>10, <2>4 DEF Tick, FetchTick
      <3>2. id_ex' = [valid |-> if_id.valid, pc |-> if_id.pc, op |-> if_id.op]
        BY <1>2, <1>10, <2>4 DEF Tick, DecodeTick
      <3>3. QED
        BY <1>4, <2>1, <2>2, <2>4, <3>1, <3>2 DEF NextMove
    <2>5. QED
      BY <2>3, <2>4
  <1>11. QED
    BY <1>1, <1>3, <1>8, <1>9, <1>10

----------------------------------------------------------------------------
\* Preservation of the parts of the invariant by one edge of the clock.

LEMMA FetchHandshakeTick ==
    ASSUME TypeOK, FetchHandshake, DataHandshake, NEW iresp, NEW ok, NEW o, NEW lines,
           Inputs(iresp, ok, o, lines), Tick(iresp, ok, o, lines)
    PROVE  FetchHandshake'
  <1> USE DEF FetchHandshake
  <1>1. ASSUME UNCHANGED fetchVars PROVE FetchHandshake'
    BY <1>1 DEF fetchVars
  <1>2. ASSUME NEW op, FetchResponse(op) PROVE FetchHandshake'
    BY <1>2 DEF FetchResponse, TypeOK, FetchTypeOK
  <1>3. ASSUME NEW t, FetchTrap(t) PROVE FetchHandshake'
    BY <1>3 DEF FetchTrap, TypeOK, FetchTypeOK
  <1>4. ASSUME NEW t, FetchRedirect(t), ~fetch_in_progress PROVE FetchHandshake'
    BY <1>4 DEF FetchRedirect
  <1>5. ASSUME FetchStart PROVE FetchHandshake'
    BY <1>5 DEF FetchStart
  <1>6. CASE ~step
    BY <1>1, <1>2, <1>6, Stall DEF NoMove
  <1>7. CASE step
    BY <1>3, <1>4, <1>5, <1>7, Step DEF TrapMove, IrqMove, RedirectMove, NextMove
  <1>8. QED
    BY <1>6, <1>7

LEMMA DataHandshakeTick ==
    ASSUME TypeOK, FetchHandshake, DataHandshake, NEW iresp, NEW ok, NEW o, NEW lines,
           Inputs(iresp, ok, o, lines), Tick(iresp, ok, o, lines)
    PROVE  DataHandshake'
  <1>1. CASE ~step
    <2>1. NoMove /\ BusTick(FALSE, FALSE, ex_mem, ok)
      BY <1>1, Stall
    <2>2. QED
      BY <2>1 DEF BusTick, NoMove, needs_access, DataHandshake, TypeOK, MemoryTypeOK
  <1>2. CASE step
    BY <1>2, Step DEF Moves, DataHandshake
  <1>3. QED
    BY <1>1, <1>2

\* The four moves again, with what the invariant adds.
LEMMA StepFromInv ==
    ASSUME TypeOK, CoreInv, NEW iresp, NEW ok, NEW o, NEW lines,
           Inputs(iresp, ok, o, lines), Tick(iresp, ok, o, lines)
    PROVE  /\ ~step => NoMove
           /\ step => /\ ~fetch_in_progress /\ Moves
                      /\ TrapMove(o) \/ IrqMove \/ RedirectMove(o) \/ NextMove(o)
  BY Stall, Step DEF CoreInv

LEMMA BubblesTick ==
    ASSUME TypeOK, CoreInv, NEW iresp, NEW ok, NEW o, NEW lines,
           Inputs(iresp, ok, o, lines), Tick(iresp, ok, o, lines)
    PROVE  Bubbles'
  <1> USE DEF CoreInv, Bubbles, Pending
  <1>1. CASE ~step
    <2>1. NoMove
      BY <1>1, StepFromInv
    <2>2. UNCHANGED fetchVars \/ fetch_in_progress
      BY <2>1 DEF NoMove
    <2>3. Pending(ex_mem) => UNCHANGED fetchVars
      BY <2>2
    <2>4. QED
      BY <2>1, <2>3 DEF NoMove, fetchVars
  <1>2. CASE step
    <2>1. /\ ~fetch_in_progress /\ Moves
          /\ TrapMove(o) \/ IrqMove \/ RedirectMove(o) \/ NextMove(o)
      BY <1>2, StepFromInv
    <2>2. CASE TrapMove(o)
      BY <2>1, <2>2 DEF TrapMove, Moves, Flush, FetchTrap, TypeOK, DecodeTypeOK, IdEx,
         FetchTypeOK, IfId
    <2>3. CASE IrqMove
      BY <2>1, <2>3 DEF IrqMove, Moves, Flush, FetchTrap, TypeOK, DecodeTypeOK, IdEx,
         FetchTypeOK, IfId, trap_in_progress
    <2>4. CASE RedirectMove(o)
      BY <2>1, <2>4 DEF RedirectMove, TakesEX, Moves, Flush, FetchRedirect, TypeOK,
         DecodeTypeOK, IdEx, FetchTypeOK, IfId
    <2>5. CASE NextMove(o)
      BY <2>1, <2>5 DEF NextMove, TakesEX, Moves, FetchStart
    <2>6. QED
      BY <2>1, <2>2, <2>3, <2>4, <2>5
  <1>3. QED
    BY <1>1, <1>2

LEMMA ResumesTick ==
    ASSUME TypeOK, CoreInv, NEW iresp, NEW ok, NEW o, NEW lines,
           Inputs(iresp, ok, o, lines), Tick(iresp, ok, o, lines)
    PROVE  Resumes'
  <1> USE DEF CoreInv, Resumes, NothingSkipped, IsIrq
  <1>1. CASE ~step
    BY <1>1, StepFromInv DEF NoMove
  <1>2. CASE step
    <2>1. /\ ~fetch_in_progress /\ Moves
          /\ TrapMove(o) \/ IrqMove \/ RedirectMove(o) \/ NextMove(o)
      BY <1>2, StepFromInv
    <2>2. NothingSkipped'
      BY <2>1, <1>2 DEF Moves, AfterWB, commit_valid, block_commit, trap_csr_commit
    <2>3. ASSUME IrqMove, ex_mem.valid PROVE ex_mem'.pc = mem_wb'.pc /\ mem_wb'.trap = None
      BY <2>1, <2>3 DEF IrqMove, Moves, interrupt_save_pc, trap_in_progress
    <2>4. ASSUME IrqMove, ~ex_mem.valid PROVE ex_mem'.pc = retired'.next
      BY <2>1, <2>4 DEF IrqMove, Moves, interrupt_save_pc, current_pc, InOrder, AfterID,
         AfterEX, AfterMEM
    <2>5. CASE IrqMove
      BY <2>1, <2>2, <2>3, <2>4, <2>5 DEF Moves
    <2>6. CASE TrapMove(o)
      <3>1. ex_mem'.trap.irq = FALSE
        BY <2>6 DEF TrapMove
      <3>2. QED
        BY <2>2, <3>1
    <2>7. CASE RedirectMove(o) \/ NextMove(o)
      <3>1. TakesEX(o)
        BY <2>7 DEF RedirectMove, NextMove
      <3> HIDE DEF CoreInv, Resumes, NothingSkipped
      <3>2. ex_mem'.trap = None
        BY <3>1 DEF TakesEX
      <3>3. QED
        BY <2>2, <3>2 DEF Resumes
    <2>8. QED
      BY <2>1, <2>5, <2>6, <2>7
  <1>3. QED
    BY <1>1, <1>2

LEMMA InOrderTick ==
    ASSUME TypeOK, CoreInv, NEW iresp, NEW ok, NEW o, NEW lines,
           Inputs(iresp, ok, o, lines), Tick(iresp, ok, o, lines)
    PROVE  InOrder'
  <1> USE DEF CoreInv, InOrder, IsIrq, AfterWB, AfterMEM, AfterEX, AfterID
  <1>1. CASE ~step
    <2>1. NoMove
      BY <1>1, StepFromInv
    <2>2. CASE UNCHANGED fetchVars
      BY <2>1, <2>2 DEF NoMove, fetchVars
    <2>3. ASSUME fetch_in_progress, NEW op, FetchResponse(op) PROVE InOrder'
      BY <2>1, <2>3 DEF NoMove, FetchResponse, FetchHandshake
    <2>4. QED
      BY <2>1, <2>2, <2>3 DEF NoMove
  <1>2. CASE step
    <2>1. /\ ~fetch_in_progress /\ Moves
          /\ TrapMove(o) \/ IrqMove \/ RedirectMove(o) \/ NextMove(o)
      BY <1>2, StepFromInv
    <2>2. (mem_wb.valid /\ ~IsIrq(mem_wb) => mem_wb.pc = retired.next)' /\ AfterWB' = AfterMEM
      BY <2>1 DEF Moves
    <2>3. CASE TrapMove(o)
      BY <2>1, <2>2, <2>3 DEF TrapMove, Flush, FetchTrap, TypeOK, DecodeTypeOK, IdEx,
         FetchTypeOK, IfId
    <2>4. CASE IrqMove
      <3>1. ex_mem'.trap \in Trap
        BY <2>4, WireType DEF IrqMove, Trap
      <3>2. ex_mem'.valid /\ IsIrq(ex_mem)'
        BY <2>4, <3>1, NoneAssumption DEF IrqMove
      <3>3. QED
        BY <2>1, <2>2, <2>4, <3>2 DEF IrqMove, Flush, FetchTrap, TypeOK, DecodeTypeOK, IdEx,
           FetchTypeOK, IfId
    <2>5. CASE RedirectMove(o)
      BY <2>1, <2>2, <2>5 DEF RedirectMove, TakesEX, Flush, FetchRedirect, TypeOK,
         DecodeTypeOK, IdEx, FetchTypeOK, IfId
    <2>6. CASE NextMove(o)
      BY <2>1, <2>2, <2>6 DEF NextMove, TakesEX, FetchStart
    <2>7. QED
      BY <2>1, <2>3, <2>4, <2>5, <2>6
  <1>3. QED
    BY <1>1, <1>2

\* Nothing but a commit from write-back changes mstatus.
LEMMA StatusKept ==
    ASSUME TypeOK, NEW iresp, NEW ok, NEW o, NEW lines, Tick(iresp, ok, o, lines),
           ~Pending(mem_wb)
    PROVE  csr'.mstatus = csr.mstatus
  <1>1. committing_trap = None /\ committing_wr = None
    BY DEF committing_trap, committing_wr, Pending
  <1>2. CsrCommit(None, mem_wb.pc, None) = csr /\ csr \in Csr
    BY DEF CsrCommit, TypeOK, CsrTypeOK, Csr
  <1>3. csr' = [csr EXCEPT !.priv = csr'.priv]
    BY <1>1, <1>2 DEF Tick, CsrTick, Csr
  <1>4. QED
    BY <1>2, <1>3 DEF Csr

LEMMA PrivilegeGivenTick ==
    ASSUME TypeOK, CoreInv, NEW iresp, NEW ok, NEW o, NEW lines,
           Inputs(iresp, ok, o, lines), Tick(iresp, ok, o, lines)
    PROVE  PrivilegeGiven'
  <1>1. PrivilegeGiven /\ Bubbles
    BY DEF CoreInv
  <1>2. CASE ~step
    <2>1. NoMove
      BY <1>2, StepFromInv
    <2>2. QED
      BY <1>1, <2>1 DEF NoMove, PrivilegeGiven, PrivOf
  <1>3. CASE step
    <2>1. /\ Moves
          /\ TrapMove(o) \/ IrqMove \/ RedirectMove(o) \/ NextMove(o)
      BY <1>3, StepFromInv
    <2>2. CASE TrapMove(o)
      <3>1. ~Pending(ex_mem) /\ ~Pending(mem_wb)
        BY <1>1, <2>2 DEF Bubbles, TrapMove
      <3>2. csr'.mstatus = csr.mstatus /\ mem_wb'.trap = None
        BY <2>1, <3>1, StatusKept DEF Moves, Pending
      <3>3. /\ ex_mem'.trap.mret = (id_ex.op = "mret")
            /\ csr'.priv = IF id_ex.op = "mret" THEN csr.mstatus.mpp ELSE M
        BY <2>2 DEF TrapMove
      <3>4. QED
        BY <3>2, <3>3 DEF PrivilegeGiven, PrivOf
    <2>3. CASE IrqMove
      BY <2>1, <2>3 DEF IrqMove, Moves, trap_in_progress, PrivilegeGiven, PrivOf
    <2>4. CASE RedirectMove(o) \/ NextMove(o)
      <3>1. TakesEX(o) /\ csr'.priv = PrivNext(committing_trap, FALSE, FALSE, FALSE)
        BY <2>4 DEF RedirectMove, NextMove
      <3>2. ex_mem'.trap = None /\ mem_wb'.trap = ex_mem.trap
        BY <2>1, <3>1 DEF TakesEX, Moves
      <3>3. ASSUME ex_mem.trap # None PROVE csr'.priv = csr.priv
        <4>1. committing_trap = None
          BY <1>1, <3>3 DEF Bubbles, Pending, committing_trap
        <4>2. QED
          BY <3>1, <4>1 DEF PrivNext
      <3>4. ASSUME ex_mem.trap # None, ex_mem.trap.mret PROVE csr'.mstatus = csr.mstatus
        BY <1>1, <3>4, StatusKept DEF Bubbles
      <3>5. QED
        BY <1>1, <3>2, <3>3, <3>4 DEF PrivilegeGiven, PrivOf
    <2>5. QED
      BY <2>1, <2>2, <2>3, <2>4
  <1>4. QED
    BY <1>2, <1>3

\* A step finds the multiply/divide unit at rest and leaves a result only behind
\* an instruction that a trap flushes.
LEMMA MdStep ==
    ASSUME TypeOK, CoreInv, NEW iresp, NEW ok, NEW o, NEW lines,
           Inputs(iresp, ok, o, lines), Tick(iresp, ok, o, lines)
           , step
    PROVE  ~md_busy' /\ (md_result_ready' => md_result_ready /\ Flush)
  <1>1. ~md_busy /\ (id_is_muldiv(id_ex) => md_result_ready) /\ step = TRUE
    BY Step, WireType DEF CoreInv
  <1>2. ~md_start(id_ex)
    BY <1>1 DEF md_start
  <1>3. MdTick(step, id_ex, o, interrupt_fire(o, lines))
    BY DEF Tick, ExecuteTick
  <1>4. CASE trap_fire(step, id_ex, o) \/ interrupt_fire(o, lines)
    <2>1. Flush
      BY <1>4 DEF Tick, DecodeTick, Flush
    <2>2. UNCHANGED <<md_busy, md_result_ready>>
      BY <1>3, <1>4, Zenon DEF MdTick
    <2>3. QED
      BY <1>1, <2>1, <2>2
  <1>5. CASE ~(trap_fire(step, id_ex, o) \/ interrupt_fire(o, lines))
    <2>1. /\ md_result_ready' = (md_result_ready /\ ~(step /\ id_is_muldiv(id_ex)))
          /\ UNCHANGED <<md_busy, md_count>>
      BY <1>1, <1>2, <1>3, <1>5 DEF MdTick
    <2>2. QED
      BY <1>1, <2>1 DEF CoreInv, ResultOwned
  <1>6. QED
    BY <1>4, <1>5

LEMMA MdTickInv ==
    ASSUME TypeOK, CoreInv, NEW iresp, NEW ok, NEW o, NEW lines,
           Inputs(iresp, ok, o, lines), Tick(iresp, ok, o, lines)
    PROVE  MdOwned' /\ ResultOwned'
  <1> USE DEF CoreInv, MdOwned, ResultOwned, id_is_muldiv
  <1>1. CASE ~step
    <2>1. id_ex' = id_ex
      BY <1>1, StepFromInv DEF NoMove
    <2>2. MdTick(step, id_ex, o, interrupt_fire(o, lines))
      BY DEF Tick, ExecuteTick
    <2>3. CASE md_start(id_ex)
      <3>1. id_ex.valid /\ id_is_muldiv(id_ex) /\ ~md_busy /\ ~md_result_ready
        BY <2>3 DEF md_start
      <3>2. UNCHANGED md_result_ready \/ md_result_ready' = FALSE
        BY <2>2, <2>3, <3>1 DEF MdTick
      <3>3. QED
        BY <2>1, <3>1, <3>2
    <2>4. CASE ~md_start(id_ex) /\ md_busy
      <3>1. id_ex.valid /\ id_is_muldiv(id_ex) /\ ~md_result_ready
        BY <2>4
      <3>2. \/ UNCHANGED <<md_busy, md_result_ready>>
            \/ /\ md_busy' = (md_count # 1)
               /\ md_result_ready' = (md_count = 1 \/ md_result_ready)
        BY <2>2, <2>4 DEF MdTick
      <3>3. md_busy' => ~md_result_ready'
        BY <3>1, <3>2
      <3>4. QED
        BY <2>1, <3>1, <3>3 DEF TypeOK, DecodeTypeOK
    <2>5. CASE ~md_start(id_ex) /\ ~md_busy
      <3>1. /\ UNCHANGED md_busy
            /\ \/ UNCHANGED md_result_ready
               \/ md_result_ready' = (md_result_ready /\ ~(step /\ id_is_muldiv(id_ex)))
        BY <2>2, <2>5, Zenon DEF MdTick
      <3>2. md_result_ready' => md_result_ready
        BY <3>1, Zenon
      <3>3. QED
        BY <2>1, <2>5, <3>1, <3>2
    <2>6. QED
      BY <2>3, <2>4, <2>5
  <1>2. CASE step
    BY <1>2, MdStep DEF Flush, id_is_muldiv, TypeOK, DecodeTypeOK, IdEx
  <1>3. QED
    BY <1>1, <1>2

LEMMA InitCoreInv == Init => CoreInv
  <1> SUFFICES ASSUME Init PROVE CoreInv
    OBVIOUS
  <1>1. FetchHandshake /\ DataHandshake /\ Bubbles /\ PrivilegeGiven
    BY DEF Init, FetchInit, DecodeInit, ExecuteInit, MemoryInit,
       FetchHandshake, DataHandshake, Bubbles, Pending, PrivilegeGiven
  <1>2. Resumes /\ MdOwned /\ ResultOwned /\ InOrder
    BY DEF Init, FetchInit, DecodeInit, ExecuteInit, MemoryInit, Resumes, NothingSkipped,
       IsIrq, MdOwned, ResultOwned, InOrder, AfterWB, AfterMEM, AfterEX, AfterID
  <1>3. QED
    BY <1>1, <1>2 DEF CoreInv

----------------------------------------------------------------------------
\* The theorems.

\* Every step keeps the inductive invariant.
LEMMA NextInvariant ==
    ASSUME TypeInv, CoreInv, [Next]_vars
    PROVE  (TypeInv /\ CoreInv)'
  <1>1. ASSUME TypeInv, CoreInv, Next PROVE (TypeInv /\ CoreInv)'
    <2>1. PICK iresp \in IBusResponses, ok \in DBusResponses,
               o \in EXOutcomes, lines \in LineSets : Tick(iresp, ok, o, lines)
      BY <1>1 DEF Next
    <2>2. Inputs(iresp, ok, o, lines) /\ TypeOK
      BY <1>1 DEF Inputs, TypeInv
    <2>3. TypeInv'
      BY <1>1, <2>1, TickTypeInv
    <2>4. FetchHandshake' /\ DataHandshake'
      BY <1>1, <2>1, <2>2, FetchHandshakeTick, DataHandshakeTick DEF CoreInv
    <2>5. Bubbles' /\ PrivilegeGiven' /\ Resumes'
      BY <1>1, <2>1, <2>2, BubblesTick, PrivilegeGivenTick, ResumesTick
    <2>6. MdOwned' /\ ResultOwned' /\ InOrder'
      BY <1>1, <2>1, <2>2, MdTickInv, InOrderTick
    <2>7. QED
      BY <2>3, <2>4, <2>5, <2>6 DEF CoreInv
  <1>2. ASSUME TypeInv, CoreInv, UNCHANGED vars PROVE (TypeInv /\ CoreInv)'
    <2> USE <1>2 DEF vars, fetchVars, executeVars, memoryVars
    <2>1. TypeInv'
      BY DEF TypeInv, TypeOK, MdCountInv, FetchTypeOK, DecodeTypeOK, ExecuteTypeOK,
         MemoryTypeOK, CsrTypeOK
    <2>2. FetchHandshake' /\ DataHandshake' /\ Bubbles' /\ PrivilegeGiven' /\ Resumes'
      BY DEF CoreInv, FetchHandshake, DataHandshake, Bubbles, Pending, PrivilegeGiven,
         PrivOf, Resumes, NothingSkipped, IsIrq
    <2>3. MdOwned' /\ ResultOwned' /\ InOrder'
      BY DEF CoreInv, MdOwned, ResultOwned, id_is_muldiv, InOrder, IsIrq,
         AfterWB, AfterMEM, AfterEX, AfterID
    <2>4. QED
      BY <2>1, <2>2, <2>3 DEF CoreInv
  <1>3. QED
    BY <1>1, <1>2

\* Every reachable state satisfies the inductive invariant.
THEOREM Invariant == Spec => [](TypeInv /\ CoreInv)
  <1>1. Init => TypeInv /\ CoreInv
    BY InitTypeInv, InitCoreInv
  <1>2. TypeInv /\ CoreInv /\ [Next]_vars => (TypeInv /\ CoreInv)'
    BY NextInvariant
  <1>3. QED
    BY <1>1, <1>2, PTL DEF Spec

\* For every program, bus timing and interrupt: the pipeline holds exactly the
\* instructions program order asks for (flushes, traps and returns in fetch.sv,
\* decode.sv and execute.sv lose and repeat none).
THEOREM ProgramOrder == Spec => []InOrder
  <1>1. CoreInv => InOrder
    BY DEF CoreInv
  <1>2. QED
    BY <1>1, Invariant, PTL

\* No instruction in EX sees a CSR, a trap vector or a privilege that an older
\* instruction is about to change (the flush of execute.sv suffices).
THEOREM CsrHazardFree == Spec => []NoStaleCsr
  <1>1. CoreInv => NoStaleCsr
    BY DEF CoreInv, Bubbles, NoStaleCsr
  <1>2. QED
    BY <1>1, Invariant, PTL

\* Pending traps do not nest in the pipeline (trap_in_progress of core.sv).
THEOREM TrapsDoNotNest == Spec => []OneTrap
  <1>1. CoreInv => OneTrap
    BY DEF CoreInv, Bubbles, OneTrap, Pending
  <1>2. QED
    BY <1>1, Invariant, PTL

\* No access reaches the data bus behind a trap (memory.sv).
THEOREM AccessesArePrecise == Spec => []PreciseMemory
  <1>1. CoreInv => PreciseMemory
    BY DEF CoreInv, Bubbles, DataHandshake, PreciseMemory
  <1>2. QED
    BY <1>1, Invariant, PTL

\* The address an interrupt saves loses no instruction (interrupt_save_pc of core.sv).
THEOREM InterruptsLoseNothing == Spec => []NothingSkipped
  <1>1. CoreInv => NothingSkipped
    BY DEF CoreInv, Resumes
  <1>2. QED
    BY <1>1, Invariant, PTL

\* The multiply/divide unit works for the instruction in EX (execute.sv).
THEOREM UnitIsOwned == Spec => []MdOwned
  <1>1. CoreInv => MdOwned
    BY DEF CoreInv
  <1>2. QED
    BY <1>1, Invariant, PTL

----------------------------------------------------------------------------
\* Action properties.

\* What a single edge does, for the action properties.
LEMMA NextInputs ==
    ASSUME TypeInv, CoreInv, Next
    PROVE  \E iresp, ok, o, lines :
               Inputs(iresp, ok, o, lines) /\ Tick(iresp, ok, o, lines) /\ TypeOK
  BY DEF Next, Inputs, TypeInv

\* A request stays on its bus unchanged until it is answered (fetch.sv, memory.sv).
THEOREM BusRule == Spec => RequestsStand
  <1> DEFINE A == /\ ireq.valid => ireq' = ireq \/ (if_id'.valid /\ if_id'.pc = ireq.addr)
                  /\ dreq.valid => dreq' = dreq \/ (req_completed' /\ ex_mem' = ex_mem)
  <1>1. ASSUME TypeInv, CoreInv, Next PROVE A
    <2>1. PICK iresp, ok, o, lines :
              Inputs(iresp, ok, o, lines) /\ Tick(iresp, ok, o, lines) /\ TypeOK
      BY <1>1, NextInputs
    <2>2. CASE step
      BY <1>1, <2>1, <2>2, Step DEF CoreInv, FetchHandshake
    <2>3. CASE ~step
      <3>1. NoMove /\ BusTick(FALSE, FALSE, ex_mem, ok)
        BY <2>1, <2>3, Stall
      <3>2. ASSUME NEW op, FetchResponse(op), ireq.valid
            PROVE  if_id'.valid /\ if_id'.pc = ireq.addr
        BY <1>1, <3>2 DEF FetchResponse, CoreInv, FetchHandshake
      <3>3. ireq.valid => ireq' = ireq \/ (if_id'.valid /\ if_id'.pc = ireq.addr)
        BY <3>1, <3>2 DEF NoMove, fetchVars
      <3>4. dreq.valid => dreq' = dreq \/ (req_completed' /\ ex_mem' = ex_mem)
        BY <1>1, <3>1 DEF NoMove, BusTick, CoreInv, DataHandshake
      <3>5. QED
        BY <3>3, <3>4
    <2>4. QED
      BY <2>2, <2>3
  <1>2. ASSUME UNCHANGED vars PROVE A
    BY <1>2 DEF vars, fetchVars, memoryVars
  <1>3. TypeInv /\ CoreInv /\ [Next]_vars => [A]_vars
    BY <1>1, <1>2
  <1>4. QED
    BY <1>3, Invariant, PTL DEF Spec, RequestsStand

\* The privilege and satp hold still while a request is out (csr_regfile.sv, mmu.sv).
THEOREM TranslationsSeeOneState == Spec => TranslationStable
  <1> DEFINE A == ireq.valid \/ dreq.valid => csr'.priv = csr.priv /\ csr'.satp = csr.satp
  <1>1. ASSUME TypeInv, CoreInv, Next PROVE A
    <2>1. PICK iresp, ok, o, lines :
              Inputs(iresp, ok, o, lines) /\ Tick(iresp, ok, o, lines) /\ TypeOK
      BY <1>1, NextInputs
    <2>2. CASE step
      BY <1>1, <2>1, <2>2, Step DEF CoreInv, FetchHandshake
    <2>3. CASE ~step
      BY <2>1, <2>3, Stall DEF NoMove
    <2>4. QED
      BY <2>2, <2>3
  <1>2. ASSUME UNCHANGED vars PROVE A
    BY <1>2 DEF vars
  <1>3. TypeInv /\ CoreInv /\ [Next]_vars => [A]_vars
    BY <1>1, <1>2
  <1>4. QED
    BY <1>3, Invariant, PTL DEF Spec, TranslationStable

\* The commit of a trap confirms the privilege that EX has given it (csr_regfile.sv).
THEOREM EarlyPrivilegeIsFinal == Spec => PrivilegeSettled
  <1> DEFINE A == trap_csr_commit => csr'.priv = csr.priv
  <1>1. ASSUME TypeInv, CoreInv, Next, trap_csr_commit PROVE csr'.priv = csr.priv
    <2>1. PICK iresp, ok, o, lines :
              Inputs(iresp, ok, o, lines) /\ Tick(iresp, ok, o, lines) /\ TypeOK
      BY <1>1, NextInputs
    <2>2. step /\ mem_wb.trap # None /\ committing_trap = mem_wb.trap
      BY <1>1 DEF trap_csr_commit, committing_trap
    <2>3. ~id_ex.valid /\ trap_in_progress
      BY <1>1, <2>2 DEF CoreInv, Bubbles, Pending, trap_in_progress
    <2>4. NextMove(o)
      BY <1>1, <2>1, <2>2, <2>3, Step DEF CoreInv, TrapMove, IrqMove, RedirectMove
    <2>5. csr'.priv = PrivOf(mem_wb.trap)
      BY <2>2, <2>4 DEF NextMove, PrivNext, PrivOf
    <2>6. QED
      BY <1>1, <2>2, <2>5 DEF CoreInv, PrivilegeGiven
  <1>2. ASSUME UNCHANGED vars PROVE A
    BY <1>2 DEF vars
  <1>3. TypeInv /\ CoreInv /\ [Next]_vars => [A]_vars
    BY <1>1, <1>2
  <1>4. QED
    BY <1>3, Invariant, PTL DEF Spec, PrivilegeSettled

\* A result of the multiply/divide unit is taken by its instruction or dropped
\* with it (execute.sv).
THEOREM ResultsAreNotReused == Spec => ResultNotReused
  <1> DEFINE A == md_result_ready /\ md_result_ready' /\ id_ex'.valid => id_ex' = id_ex
  <1>1. ASSUME TypeInv, CoreInv, Next PROVE A
    <2>1. PICK iresp, ok, o, lines :
              Inputs(iresp, ok, o, lines) /\ Tick(iresp, ok, o, lines) /\ TypeOK
      BY <1>1, NextInputs
    <2>2. CASE step
      <3>1. md_result_ready' => Flush
        BY <1>1, <2>1, <2>2, MdStep
      <3>2. Flush => ~id_ex'.valid
        BY <2>1 DEF Flush, TypeOK, DecodeTypeOK, IdEx
      <3>3. QED
        BY <3>1, <3>2
    <2>3. CASE ~step
      BY <2>1, <2>3, Stall DEF NoMove
    <2>4. QED
      BY <2>2, <2>3
  <1>2. ASSUME UNCHANGED vars PROVE A
    BY <1>2 DEF vars
  <1>3. TypeInv /\ CoreInv /\ [Next]_vars => [A]_vars
    BY <1>1, <1>2
  <1>4. QED
    BY <1>3, Invariant, PTL DEF Spec, ResultNotReused
----------------------------------------------------------------------------
\* How long the pipeline can stand still.

\* What each stage is waiting for: the answer to a fetch; the issue of an access and its
\* answer; the start of the multiply/divide unit and at most K iterations.
FetchWait == IF fetch_in_progress THEN 1 ELSE 0
DataWait == IF ~needs_access(ex_mem) THEN 0 ELSE IF mem_in_progress THEN 1 ELSE 2
UnitWait(K) == IF md_busy THEN md_count ELSE IF md_start(id_ex) THEN K + 1 ELSE 0
Wait(K) == FetchWait + DataWait + UnitWait(K)

\* The multiplication that was flushed before EX, which holds the pipeline for ever.
Held == id_is_muldiv(id_ex) /\ ~id_ex.valid

\* Each term of Wait is a natural number.
LEMMA WaitType ==
    ASSUME TypeOK, NEW K \in Nat
    PROVE  FetchWait \in 0..1 /\ DataWait \in 0..2 /\ UnitWait(K) \in Nat
  BY DEF FetchWait, DataWait, UnitWait, TypeOK, ExecuteTypeOK

\* The answer to a fetch ends its wait, and nothing else happens to fetch in a stall.
LEMMA FetchWaits ==
    ASSUME NoMove
    PROVE  UNCHANGED fetchVars \/ (FetchWait = 1 /\ FetchWait' = 0)
  BY DEF NoMove, FetchResponse, FetchWait

\* The memory stage issues its access, and is done with the answer.
LEMMA DataWaits ==
    ASSUME TypeOK, DataHandshake, NoMove, NEW ok \in BOOLEAN, BusTick(FALSE, FALSE, ex_mem, ok)
    PROVE  UNCHANGED <<mem_in_progress, dreq, req_completed>> \/ DataWait' < DataWait
  <1>1. ex_mem' = ex_mem /\ mem_in_progress \in BOOLEAN /\ req_completed \in BOOLEAN
    BY DEF NoMove, TypeOK, MemoryTypeOK
  <1>2. mem_in_progress => needs_access(ex_mem)
    BY DEF DataHandshake, needs_access, TypeOK, MemoryTypeOK
  <1>3. CASE mem_in_progress /\ ok
    <2>1. req_completed'
      BY <1>3 DEF BusTick
    <2>2. ~needs_access(ex_mem)'
      BY <2>1 DEF needs_access
    <2>3. QED
      BY <1>2, <1>3, <2>2 DEF DataWait
  <1>4. CASE ~mem_in_progress /\ needs_access(ex_mem)
    <2>1. mem_in_progress' /\ req_completed' = req_completed
      BY <1>1, <1>4 DEF BusTick
    <2>2. needs_access(ex_mem)' = needs_access(ex_mem)
      BY <1>1, <2>1 DEF needs_access
    <2>3. QED
      BY <1>4, <2>1, <2>2 DEF DataWait
  <1>5. CASE ~(mem_in_progress /\ ok) /\ ~(~mem_in_progress /\ needs_access(ex_mem))
    BY <1>1, <1>5 DEF BusTick
  <1>6. QED
    BY <1>3, <1>4, <1>5

\* The unit starts, or iterates, or has nothing to do.
LEMMA UnitWaits ==
    ASSUME TypeInv, MdOwned, NEW K \in Nat, \A n \in MdCounts : n <= K, id_ex' = id_ex,
           NEW o, NEW irq, ~irq, ~trap_fire(FALSE, id_ex, o), MdTick(FALSE, id_ex, o, irq)
    PROVE  \/ UNCHANGED <<md_busy, md_result_ready, md_count>>
           \/ UnitWait(K)' < UnitWait(K)
  <1>1. md_busy \in BOOLEAN /\ md_result_ready \in BOOLEAN /\ md_count \in Nat
        /\ (md_busy => md_count # 0)
    BY DEF TypeInv, TypeOK, ExecuteTypeOK, MdCountInv
  <1>2. CASE md_start(id_ex)
    <2>1. md_busy' = TRUE /\ md_count' \in MdCounts /\ ~md_busy
      BY <1>2 DEF MdTick, md_start
    <2>2. UnitWait(K)' = md_count' /\ UnitWait(K) = K + 1
      BY <1>2, <2>1 DEF UnitWait
    <2>3. md_count' \in Nat /\ md_count' <= K
      BY <2>1, MdCountsAssumption
    <2>4. md_count' < K + 1
      BY <2>3
    <2>5. QED
      BY <2>2, <2>4
  <1>3. CASE ~md_start(id_ex) /\ md_busy
    <2>1. /\ md_count' = md_count - 1 /\ md_busy' = (md_count # 1)
          /\ md_result_ready' = (md_count = 1 \/ md_result_ready)
      <3>1. ~(trap_fire(FALSE, id_ex, o) \/ irq)
        OBVIOUS
      <3>2. QED
        BY <1>3, <3>1, Zenon DEF MdTick
    <2>2. UnitWait(K) = md_count
      BY <1>3 DEF UnitWait
    <2>3. CASE md_count = 1
      <3>1. md_busy' = FALSE /\ md_result_ready' = TRUE
        BY <2>1, <2>3
      <3>2. UnitWait(K)' = 0
        BY <3>1 DEF UnitWait, md_start
      <3>3. QED
        BY <2>2, <2>3, <3>2
    <2>4. CASE md_count # 1
      <3>1. md_busy' = TRUE
        BY <2>1, <2>4
      <3>2. UnitWait(K)' = md_count - 1
        BY <2>1, <3>1 DEF UnitWait
      <3>3. QED
        BY <1>1, <2>2, <3>2
    <2>5. QED
      BY <2>3, <2>4
  <1>4. CASE ~md_start(id_ex) /\ ~md_busy
    <2>1. md_result_ready' = (md_result_ready /\ ~(FALSE /\ id_is_muldiv(id_ex)))
          /\ UNCHANGED <<md_busy, md_count>>
      BY <1>4 DEF MdTick
    <2>2. QED
      BY <1>1, <2>1
  <1>5. QED
    BY <1>2, <1>3, <1>4
\* The unit never has more than K iterations left.
LEMMA CountBounded ==
    ASSUME NEW K \in Nat, \A n \in MdCounts : n <= K
    PROVE  Spec => [](md_busy => md_count <= K)
  <1> DEFINE B == md_busy => md_count <= K
  <1>1. Init => B
    BY DEF Init, ExecuteInit
  <1>2. TypeInv /\ CoreInv /\ B /\ [Next]_vars => B'
    <2>1. SUFFICES ASSUME TypeInv, CoreInv, B, Next PROVE B'
      BY DEF vars, executeVars
    <2>2. PICK iresp, ok, o, lines :
              Inputs(iresp, ok, o, lines) /\ Tick(iresp, ok, o, lines) /\ TypeOK
      BY <2>1, NextInputs
    <2>3. MdTick(step, id_ex, o, interrupt_fire(o, lines))
      BY <2>2 DEF Tick, ExecuteTick
    <2>4. \/ md_count' \in MdCounts
          \/ md_busy /\ md_count' = md_count - 1
          \/ UNCHANGED <<md_busy, md_count>>
      BY <2>3 DEF MdTick
    <2>5. md_count \in Nat
      BY <2>2 DEF TypeOK, ExecuteTypeOK
    <2>6. CASE md_count' \in MdCounts
      BY <2>6
    <2>7. CASE md_busy /\ md_count' = md_count - 1
      <3>1. md_count <= K
        BY <2>1, <2>7
      <3>2. md_count' <= K
        BY <2>5, <2>7, <3>1
      <3>3. QED
        BY <3>2
    <2>8. CASE UNCHANGED <<md_busy, md_count>>
      BY <2>1, <2>8
    <2>9. QED
      BY <2>4, <2>6, <2>7, <2>8
  <1>3. QED
    BY <1>1, <1>2, Invariant, PTL DEF Spec

\* The pipeline stands still only for the answer of a bus, for an access it is about to issue, or
\* for the multiply/divide unit, and every change during a stall takes it nearer to the
\* next step: Wait, of at most K + 4, falls by an iteration, an issue or an answer.  The
\* exception is a flushed multiplication in EX.  This is README 4.2 and 8.4 but for
\* fairness, for any bound K on the iterations.
THEOREM StallsShrink ==
    ASSUME NEW K \in Nat, \A n \in MdCounts : n <= K
    PROVE  Spec => /\ [](Wait(K) \in 0..(K + 4))
                   /\ [](~step => \/ Held \/ ireq.valid \/ dreq.valid
                                  \/ needs_access(ex_mem) \/ md_busy \/ md_start(id_ex))
                   /\ [][~step => Wait(K)' < Wait(K)]_vars
  <1> DEFINE B == md_busy => md_count <= K
             S == ~step => \/ Held \/ ireq.valid \/ dreq.valid
                           \/ needs_access(ex_mem) \/ md_busy \/ md_start(id_ex)
             A == ~step => Wait(K)' < Wait(K)
  <1>1. TypeInv /\ CoreInv /\ B => Wait(K) \in 0..(K + 4)
    <2>1. SUFFICES ASSUME TypeInv, B PROVE Wait(K) \in 0..(K + 4)
      OBVIOUS
    <2>2. md_count \in Nat /\ TypeOK
      BY <2>1 DEF TypeInv, TypeOK, ExecuteTypeOK
    <2>3. UnitWait(K) \in 0..(K + 1)
      BY <2>1, <2>2 DEF UnitWait
    <2>4. QED
      BY <2>2, <2>3, WaitType DEF Wait
  <1>2. TypeInv /\ CoreInv => S
    <2>1. SUFFICES ASSUME TypeInv, CoreInv, ~step, ~ireq.valid, ~needs_access(ex_mem),
                          ~md_busy, ~md_start(id_ex)
                   PROVE  Held
      OBVIOUS
    <2>2. fetch_ok
      BY <2>1 DEF CoreInv, FetchHandshake, TypeInv, TypeOK, FetchTypeOK
    <2>3. ~execute_ok(id_ex)
      BY <2>1, <2>2 DEF step, decode_ok, writeback_ok, mem_ok
    <2>4. QED
      BY <2>1, <2>3 DEF execute_ok, md_start, Held
  <1>3. TypeInv /\ CoreInv /\ [Next]_vars => [A]_vars
    <2>1. SUFFICES ASSUME TypeInv, CoreInv, Next, ~step, vars' # vars PROVE Wait(K)' < Wait(K)
      OBVIOUS
    <2>2. PICK iresp, ok, o, lines :
              Inputs(iresp, ok, o, lines) /\ Tick(iresp, ok, o, lines) /\ TypeOK
      BY <2>1, NextInputs
    <2>3. NoMove /\ BusTick(FALSE, FALSE, ex_mem, ok)
      BY <2>1, <2>2, Stall
    <2>4. ok \in BOOLEAN
      BY <2>2 DEF Inputs, DBusResponses
    <2>5. UNCHANGED fetchVars \/ (FetchWait = 1 /\ FetchWait' = 0)
      BY <2>3, FetchWaits
    <2>6. UNCHANGED <<mem_in_progress, dreq, req_completed>> \/ DataWait' < DataWait
      BY <2>1, <2>2, <2>3, <2>4, DataWaits DEF CoreInv
    <2>7. UNCHANGED <<md_busy, md_result_ready, md_count>> \/ UnitWait(K)' < UnitWait(K)
      <3>1. step = FALSE /\ interrupt_fire(o, lines) = FALSE /\ ~trap_fire(FALSE, id_ex, o)
        BY <2>1, <2>2, WireType DEF interrupt_fire, trap_fire
      <3>2. MdTick(FALSE, id_ex, o, interrupt_fire(o, lines)) /\ id_ex' = id_ex
        BY <2>2, <2>3, <3>1 DEF Tick, ExecuteTick, NoMove
      <3>3. QED
        BY <2>1, <3>1, <3>2, UnitWaits DEF CoreInv
    <2>8. TypeOK'
      BY <2>1, <2>2, TickTypeInv DEF TypeInv, Inputs
    <2>9. /\ FetchWait \in Nat /\ DataWait \in Nat /\ UnitWait(K) \in Nat
           /\ FetchWait' \in Nat /\ DataWait' \in Nat /\ UnitWait(K)' \in Nat
      BY <2>2, <2>8, WaitType DEF FetchWait, DataWait, UnitWait, TypeOK, ExecuteTypeOK
    <2>10. /\ FetchWait' <= FetchWait /\ DataWait' <= DataWait /\ UnitWait(K)' <= UnitWait(K)
           /\ FetchWait' < FetchWait \/ DataWait' < DataWait \/ UnitWait(K)' < UnitWait(K)
      <3>1. UNCHANGED fetchVars => FetchWait' = FetchWait
        BY DEF fetchVars, FetchWait
      <3>2. UNCHANGED <<mem_in_progress, dreq, req_completed>> => DataWait' = DataWait
        BY <2>3 DEF NoMove, DataWait, needs_access
      <3> HIDE DEF A, B, S
      <3>3. UNCHANGED <<md_busy, md_result_ready, md_count>> => UnitWait(K)' = UnitWait(K)
        BY <2>3 DEF NoMove, UnitWait, md_start
      <3>4. ~(/\ UNCHANGED fetchVars /\ UNCHANGED <<mem_in_progress, dreq, req_completed>>
              /\ UNCHANGED <<md_busy, md_result_ready, md_count>>)
        BY <2>1, <2>3 DEF NoMove, vars, executeVars, memoryVars
      <3>5. QED
        BY <2>5, <2>6, <2>7, <2>9, <3>1, <3>2, <3>3, <3>4
    <2>11. QED
      BY <2>9, <2>10 DEF Wait
  <1>4. Spec => []B
    BY CountBounded
  <1>5. QED
    BY <1>1, <1>2, <1>3, <1>4, Invariant, PTL DEF Spec
=============================================================================

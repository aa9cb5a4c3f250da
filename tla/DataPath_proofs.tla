--------------------------- MODULE DataPath_proofs ---------------------------
(***************************************************************************)
(* Proofs about DataPath.tla: write-back and forwarding lose no register   *)
(* value, for every number of registers, values and operands.  They stand  *)
(* on the invariant of the pipeline control (Core_proofs.tla).             *)
(***************************************************************************)
EXTENDS DataPath, Core_proofs

Instr  == [rs: [Sources -> Reg], rd: Reg]
Result == [rd: Reg, reg_write: BOOLEAN, value: Val]

DataTypeOK ==
    /\ if_instr \in Instr
    /\ id_instr \in [rs: [Sources -> Reg], rd: Reg, data: [Sources -> Val]]
    /\ ex_result \in Result /\ wb_result \in Result
    /\ saved_rdata \in Val
    /\ REG \in [Regs -> Val] /\ arch \in [Regs -> Val]

\* The instruction in EX was read when it left ID, and the register file does not
\* change while it waits there.
ReadInDecode ==
    id_ex.valid => \A s \in Sources :
        id_instr.rs[s] \in Regs => id_instr.data[s] = REG[id_instr.rs[s]]

DataInv == DataTypeOK /\ RegsCatchUp /\ ReadInDecode

LEMMA InitDataInv == AllInit => DataInv
  <1> SUFFICES ASSUME AllInit PROVE DataInv
    OBVIOUS
  <1> USE ValAssumption DEF AllInit, DataInit
  <1>1. DataTypeOK
    BY DEF DataTypeOK, Instr, Result
  <1>2. RegsCatchUp
    BY DEF RegsCatchUp, MemWrites, WbWrites
  <1>3. ReadInDecode
    BY DEF Init, DecodeInit, ReadInDecode
  <1>4. QED
    BY <1>1, <1>2, <1>3 DEF DataInv

----------------------------------------------------------------------------
\* One edge of the clock.

\* The conjuncts of DataTick for the values it chooses.
DataMoves(ok, o, lines, result, rdata) ==
    LET irq      == interrupt_fire(o, lines)
        trapped  == trap_fire(step, id_ex, o) \/ irq
        redirect == redirect_valid(step, id_ex, o) \/ irq
        answered == mem_in_progress /\ ok
    IN  /\ result \in Val
        /\ rdata \in Val
        /\ ~(answered /\ ex_mem.mem = "load") => rdata = saved_rdata
        /\ FetchData
        /\ DecodeData(redirect \/ trapped)
        /\ ExecuteData(trapped, result)
        /\ MemoryData(rdata)
        /\ WritebackData
        /\ ArchTick(trapped, answered, result, rdata)

LEMMA DataTickMoves ==
    ASSUME DataTypeOK, NEW ok, NEW o, NEW lines, DataTick(ok, o, lines)
    PROVE  \E result, rdata : DataMoves(ok, o, lines, result, rdata)
  <1> DEFINE observed == step /\ id_ex.valid /\ id_instr.rd # 0
                              /\ reg_write(id_ex.op, id_instr.rd)
             loaded   == (mem_in_progress /\ ok) /\ ex_mem.mem = "load"
  <1>1. PICK result \in IF observed THEN Val ELSE {0},
             rdata \in IF loaded THEN Val ELSE {saved_rdata} :
            /\ FetchData
            /\ DecodeData(\/ redirect_valid(step, id_ex, o) \/ interrupt_fire(o, lines)
                          \/ trap_fire(step, id_ex, o) \/ interrupt_fire(o, lines))
            /\ ExecuteData(trap_fire(step, id_ex, o) \/ interrupt_fire(o, lines), result)
            /\ MemoryData(rdata)
            /\ WritebackData
            /\ ArchTick(trap_fire(step, id_ex, o) \/ interrupt_fire(o, lines),
                        mem_in_progress /\ ok, result, rdata)
    BY Zenon DEF DataTick
  <1>2. result \in Val /\ rdata \in Val /\ (~loaded => rdata = saved_rdata)
    BY ValAssumption DEF DataTypeOK
  <1>3. QED
    BY <1>1, <1>2 DEF DataMoves

\* The typing of the value fields.
LEMMA DataTypeTick ==
    ASSUME DataTypeOK, TypeOK, NEW ok, NEW o, NEW lines, NEW result, NEW rdata,
           DataMoves(ok, o, lines, result, rdata)
    PROVE  DataTypeOK'
  <1> USE DEF DataTypeOK, DataMoves
  <1>1. if_instr' \in Instr
    BY FieldsAssumption DEF FetchData, Instr
  <1>2. mem_value \in Val
    BY DEF mem_value, Result
  <1>3. \A r \in Reg : ReadRegister(r) \in Val
    BY ValAssumption DEF ReadRegister, Result, Regs
  <1>4. id_instr' \in [rs: [Sources -> Reg], rd: Reg, data: [Sources -> Val]]
    <2> DEFINE data == [s \in Sources |-> ReadRegister(if_instr.rs[s])]
    <2>1. data \in [Sources -> Val]
      BY <1>3 DEF Instr
    <2>2. id_instr' = id_instr \/ id_instr' = [rs |-> if_instr.rs, rd |-> if_instr.rd, data |-> data]
      BY DEF DecodeData
    <2> HIDE DEF data
    <2>3. QED
      BY <2>1, <2>2 DEF Instr
  <1>5. ex_result' \in Result
    <2>1. reg_write(id_ex.op, id_instr.rd) \in BOOLEAN
      BY DEF reg_write
    <2>2. QED
      BY <2>1 DEF ExecuteData, Result
  <1>6. wb_result' \in Result /\ saved_rdata' \in Val
    BY <1>2 DEF MemoryData, Result
  <1>7. REG' \in [Regs -> Val]
    BY DEF WritebackData, Result
  <1>8. arch' \in [Regs -> Val]
    BY DEF ArchTick
  <1>9. QED
    BY <1>1, <1>4, <1>5, <1>6, <1>7, <1>8

\* Without a step the only value that moves is the one a load brings.
LEMMA DataStall ==
    ASSUME TypeOK, CoreInv, DataInv, NEW iresp, NEW ok, NEW o, NEW lines, NEW result, NEW rdata,
           Inputs(iresp, ok, o, lines), Tick(iresp, ok, o, lines),
           DataMoves(ok, o, lines, result, rdata), ~step
    PROVE  RegsCatchUp' /\ ReadInDecode'
  <1> DEFINE loaded == (mem_in_progress /\ ok) /\ ex_mem.mem = "load"
  <1>1. NoMove /\ BusTick(FALSE, FALSE, ex_mem, ok)
    BY Stall
  <1>2. /\ ~trap_fire(step, id_ex, o) /\ ~interrupt_fire(o, lines) /\ ~reg_wen
    BY DEF trap_fire, interrupt_fire, reg_wen
  <1>3. /\ id_instr' = id_instr /\ ex_result' = ex_result /\ wb_result' = wb_result
        /\ REG' = REG /\ saved_rdata' = rdata
        /\ ~loaded => rdata = saved_rdata
        /\ arch' = [r \in Regs |-> IF loaded /\ MemWrites(r) THEN rdata ELSE arch[r]]
    BY <1>2 DEF DataMoves, DecodeData, ExecuteData, MemoryData, WritebackData, ArchTick
  <1>4. /\ id_ex' = id_ex /\ ex_mem' = ex_mem /\ mem_wb' = mem_wb
        /\ loaded => req_completed'
        /\ ~loaded /\ ex_mem.mem = "load" => req_completed' = req_completed
    BY <1>1 DEF NoMove, BusTick, TypeOK, MemoryTypeOK
  <1>5. ReadInDecode'
    BY <1>3, <1>4 DEF DataInv, ReadInDecode
  <1>6. ASSUME NEW r \in Regs
        PROVE  (arch[r] = IF MemWrites(r) /\ (ex_mem.mem = "load" => req_completed) THEN mem_value
                          ELSE IF WbWrites(r) THEN wb_result.value ELSE REG[r])'
    <2>1. MemWrites(r)' = MemWrites(r) /\ WbWrites(r)' = WbWrites(r)
      BY <1>3, <1>4 DEF MemWrites, WbWrites
    <2>2. CASE loaded
      BY <1>3, <1>4, <2>1, <2>2 DEF DataInv, RegsCatchUp, mem_value
    <2>3. CASE ~loaded
      BY <1>3, <1>4, <2>1, <2>3 DEF DataInv, RegsCatchUp, mem_value
    <2>4. QED
      BY <2>2, <2>3
  <1>7. QED
    BY <1>5, <1>6 DEF RegsCatchUp

\* At a step what EX/MEM holds is a value, a load included: the two stages behind EX
\* and the register file together hold every register.
LEMMA AtStep ==
    ASSUME TypeOK, CoreInv, DataInv, step
    PROVE  \A r \in Regs : arch[r] = IF MemWrites(r) THEN mem_value
                                     ELSE IF WbWrites(r) THEN wb_result.value
                                     ELSE REG[r]
  <1>1. ex_mem.valid /\ ex_mem.mem = "load" => req_completed
    BY DEF step, mem_ok, needs_access
  <1>2. QED
    BY <1>1 DEF DataInv, RegsCatchUp, MemWrites

\* A step writes the register file and moves the other values one stage on.
LEMMA DataStep ==
    ASSUME TypeOK, CoreInv, DataInv, NEW iresp, NEW ok, NEW o, NEW lines, NEW result, NEW rdata,
           Inputs(iresp, ok, o, lines), Tick(iresp, ok, o, lines),
           DataMoves(ok, o, lines, result, rdata), step
    PROVE  RegsCatchUp' /\ ReadInDecode'
  <1> DEFINE irq      == interrupt_fire(o, lines)
             trapped  == trap_fire(step, id_ex, o) \/ irq
             redirect == redirect_valid(step, id_ex, o) \/ irq
             executed == step /\ ~trapped /\ id_ex.valid /\ id_ex.op # "load"
                              /\ reg_write(id_ex.op, id_instr.rd)
  <1>1. ~mem_in_progress /\ (id_is_muldiv(id_ex) => md_result_ready)
    BY Step DEF CoreInv, DataHandshake
  <1>2. /\ mem_wb'.valid = ex_mem.valid
        /\ wb_result' = [ex_result EXCEPT !.value = mem_value]
        /\ REG' = IF reg_wen THEN [REG EXCEPT ![wb_result.rd] = wb_result.value] ELSE REG
        /\ req_completed' = FALSE
    BY <1>1 DEF Tick, MemoryTick, BusTick, DataMoves, MemoryData, WritebackData
  <1>3. arch' = [r \in Regs |-> IF executed /\ id_instr.rd = r THEN result ELSE arch[r]]
    BY <1>1 DEF DataMoves, ArchTick
  <1>4. \A r \in Regs : REG'[r] = IF WbWrites(r) THEN wb_result.value ELSE REG[r]
    BY <1>2 DEF reg_wen, WbWrites, DataInv, DataTypeOK, Regs
  <1>5. \A r \in Regs : arch[r] = IF WbWrites(r)' THEN wb_result'.value ELSE REG'[r]
    <2>1. \A r \in Regs : WbWrites(r)' = MemWrites(r)
      BY <1>2 DEF WbWrites, MemWrites, DataInv, DataTypeOK, Result
    <2>2. wb_result'.value = mem_value
      BY <1>2 DEF DataInv, DataTypeOK, Result
    <2>3. QED
      BY <1>4, <2>1, <2>2, AtStep
  <1>6. ReadInDecode'
    <2>1. CASE redirect \/ trapped
      <3>1. id_ex'.valid = FALSE
        BY <2>1 DEF Tick, DecodeTick, TypeOK, DecodeTypeOK, IdEx
      <3>2. QED
        BY <3>1 DEF ReadInDecode
    <2>2. CASE ~(redirect \/ trapped)
      <3>1. /\ id_instr'.rs = if_instr.rs
            /\ id_instr'.data = [s \in Sources |-> ReadRegister(if_instr.rs[s])]
        BY <2>2 DEF DataMoves, DecodeData
      <3>2. \A r \in Regs : ReadRegister(r) = REG'[r]
        BY <1>4 DEF ReadRegister, reg_wen, WbWrites, Regs
      <3>3. QED
        BY <3>1, <3>2 DEF ReadInDecode
    <2>3. QED
      BY <2>1, <2>2
  <1>7. CASE trapped
    <2>1. ex_result'.reg_write = FALSE
      BY <1>7 DEF DataMoves, ExecuteData, DataInv, DataTypeOK, Result
    <2>2. \A r \in Regs : ~MemWrites(r)' /\ arch'[r] = arch[r]
      BY <1>3, <1>7, <2>1 DEF MemWrites
    <2>3. QED
      BY <1>5, <1>6, <2>2 DEF RegsCatchUp
  <1>8. CASE ~trapped
    <2>1. /\ ex_result' = [rd |-> id_instr.rd, reg_write |-> reg_write(id_ex.op, id_instr.rd),
                           value |-> result]
          /\ ex_mem'.valid = id_ex.valid
          /\ ex_mem'.mem = IF id_ex.op \in {"load", "store"} THEN id_ex.op ELSE "none"
      BY <1>1, <1>8 DEF Tick, ExecuteTick, ExMemTick, DataMoves, ExecuteData
    <2>2. ASSUME NEW r \in Regs
          PROVE  (arch[r] = IF MemWrites(r) /\ (ex_mem.mem = "load" => req_completed) THEN mem_value
                            ELSE IF WbWrites(r) THEN wb_result.value ELSE REG[r])'
      <3>1. MemWrites(r)' = (id_ex.valid /\ reg_write(id_ex.op, id_instr.rd) /\ id_instr.rd = r)
        BY <2>1 DEF MemWrites, Regs
      <3>2. CASE id_ex.op = "load"
        BY <1>2, <1>3, <1>5, <2>1, <3>2
      <3>3. CASE id_ex.op # "load"
        BY <1>3, <1>5, <1>8, <2>1, <3>1, <3>3 DEF mem_value
      <3>4. QED
        BY <3>2, <3>3
    <2>3. QED
      BY <1>6, <2>2 DEF RegsCatchUp
  <1>9. QED
    BY <1>7, <1>8

----------------------------------------------------------------------------
\* The pipeline of values runs the pipeline of Core.tla, and the invariant is theirs
\* together.
LEMMA DataInvariant == DataSpec => [](TypeInv /\ CoreInv /\ DataInv)
  <1>1. AllInit => Init /\ DataInv
    BY InitDataInv DEF AllInit
  <1>2. [AllNext]_allVars => [Next]_vars
    BY DEF AllNext, Next, allVars
  <1>3. TypeInv /\ CoreInv /\ DataInv /\ [AllNext]_allVars => DataInv'
    <2> SUFFICES ASSUME TypeInv, CoreInv, DataInv, [AllNext]_allVars PROVE DataInv'
      OBVIOUS
    <2>1. CASE AllNext
      <3>1. PICK iresp \in IBusResponses, ok \in DBusResponses, o \in EXOutcomes,
                 lines \in LineSets : Tick(iresp, ok, o, lines) /\ DataTick(ok, o, lines)
        BY <2>1 DEF AllNext
      <3>2. Inputs(iresp, ok, o, lines) /\ TypeOK
        BY DEF Inputs, TypeInv
      <3>3. PICK result, rdata : DataMoves(ok, o, lines, result, rdata)
        BY <3>1, DataTickMoves DEF DataInv
      <3>4. RegsCatchUp' /\ ReadInDecode'
        BY <3>1, <3>2, <3>3, DataStall, DataStep
      <3>5. QED
        BY <3>2, <3>3, <3>4, DataTypeTick DEF DataInv
    <2>2. CASE UNCHANGED allVars
      <3>1. DataTypeOK' /\ ReadInDecode'
        BY <2>2 DEF DataInv, DataTypeOK, ReadInDecode, allVars, dataVars, vars
      <3>2. RegsCatchUp'
        BY <2>2 DEF DataInv, RegsCatchUp, MemWrites, WbWrites, mem_value, allVars, dataVars,
           vars, executeVars, memoryVars
      <3>3. QED
        BY <3>1, <3>2 DEF DataInv
    <2>3. QED
      BY <2>1, <2>2
  <1>4. QED
    BY <1>1, <1>2, <1>3, Invariant, PTL DEF DataSpec, Spec

\* Write-back: the register file with what MEM/WB and EX/MEM still owe it is what the
\* instructions have computed and the loads have read, whatever was stalled, flushed,
\* trapped or interrupted in between.
THEOREM NoResultIsLost == DataSpec => []RegsCatchUp
  <1>1. DataInv => RegsCatchUp
    BY DEF DataInv
  <1>2. QED
    BY DataInvariant, <1>1, PTL

\* Forwarding: every instruction leaves EX with the operands that the instructions
\* before it have left in the registers.
THEOREM ForwardingIsRight == DataSpec => []OperandsFresh
  <1>1. TypeInv /\ CoreInv /\ DataInv => OperandsFresh
    <2> SUFFICES ASSUME TypeInv, CoreInv, DataInv, step, id_ex.valid, NEW s \in Sources,
                        id_instr.rs[s] \in Regs
                 PROVE  operand(s) = arch[id_instr.rs[s]]
      BY DEF OperandsFresh
    <2>1. id_instr.data[s] = REG[id_instr.rs[s]]
      BY DEF DataInv, ReadInDecode
    <2>2. QED
      BY <2>1, AtStep DEF TypeInv, operand
  <1>2. QED
    BY DataInvariant, <1>1, PTL
=============================================================================

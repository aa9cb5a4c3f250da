------------------------------ MODULE DataPath ------------------------------
(***************************************************************************)
(* The operand values that Core.tla leaves out: regfile.sv,                *)
(* forward_unit.sv and the value fields of the pipeline registers.  The    *)
(* registers an instruction names are chosen when it is fetched; what an   *)
(* operation computes, and what a load reads, is any value.                *)
(***************************************************************************)
EXTENDS Core

CONSTANTS
    Val,       \* the values a register can hold; 0 is one of them
    Reg,       \* register numbers; 0 is x0
    Sources,   \* the operands of an instruction: rs1, rs2
    Fields     \* register fields the instructions of the program may have

VARIABLES
    if_instr,     \* register fields of the instruction in IF/ID
    id_instr,     \* ... in ID/EX, with rs1_data and rs2_data
    ex_result,    \* rd, reg_write and alu_result of EX/MEM
    wb_result,    \* rd, reg_write and the selected value of MEM/WB
    saved_rdata,  \* what the last data-bus transaction returned
    REG,          \* the register file
    md_op,        \* operands latched by the multiply/divide unit
    arch          \* the registers as the instructions that left EX, the load in
                  \* MEM once it is answered, have set them (not in the code)

dataVars == <<if_instr, id_instr, ex_result, wb_result, saved_rdata, REG, md_op, arch>>

ASSUME ValAssumption == 0 \in Val /\ 0 \in Reg
ASSUME FieldsAssumption == Fields \subseteq [rs: [Sources -> Reg], rd: Reg]

Regs == Reg \ {0}

DataInit ==
    /\ if_instr = [rs |-> [s \in Sources |-> 0], rd |-> 0]
    /\ id_instr = [rs |-> [s \in Sources |-> 0], rd |-> 0, data |-> [s \in Sources |-> 0]]
    /\ ex_result = [rd |-> 0, reg_write |-> FALSE, value |-> 0]
    /\ wb_result = ex_result
    /\ saved_rdata = 0
    /\ REG = [r \in Regs |-> 0] /\ arch = REG
    /\ md_op = [s \in Sources |-> 0]

----------------------------------------------------------------------------
\* Wires.

\* The instructions that write a register, as decode.sv sets reg_write.  FENCE and
\* HALT, which also have the class "alu", are those with rd = 0.
reg_write(op, rd) == op \in {"alu", "muldiv", "load", "jump"} \/ (op = "csr" /\ rd # 0)

\* Write-back writes the register file in the cycle of a step.
reg_wen == step /\ mem_wb.valid /\ wb_result.reg_write /\ wb_result.rd # 0

\* Mutant: the register file is read without the write of the same cycle.
ReadOldRegister(r) == IF r = 0 THEN 0 ELSE REG[r]

\* A read port of the register file: the value being written goes first.
ReadRegister(r) == IF r = 0 THEN 0
                   ELSE IF reg_wen /\ wb_result.rd = r THEN wb_result.value
                   ELSE REG[r]

\* The entry in EX/MEM, or in MEM/WB, writes register r.
MemWrites(r) == ex_mem.valid /\ ex_result.reg_write /\ ex_result.rd = r /\ r # 0
WbWrites(r)  == mem_wb.valid /\ wb_result.reg_write /\ wb_result.rd = r /\ r # 0

\* The value EX forwards from EX/MEM.
mem_value == IF ex_mem.mem = "load" THEN saved_rdata ELSE ex_result.value

\* The forwarding unit with the multiplexers of execute.sv: operand s in EX.
operand(s) ==
    LET r == id_instr.rs[s]
    IN  IF MemWrites(r) THEN mem_value
        ELSE IF WbWrites(r) THEN wb_result.value
        ELSE id_instr.data[s]

----------------------------------------------------------------------------
\* One clock edge of the value fields.

\* An instruction delivered by the instruction bus brings its register fields.
FetchData ==
    IF fetch_in_progress /\ ~fetch_in_progress' /\ if_id'.valid
    THEN if_instr' \in Fields
    ELSE UNCHANGED if_instr

DecodeData(flush) ==
    id_instr' = IF step /\ ~flush
                THEN [rs |-> if_instr.rs, rd |-> if_instr.rd,
                      data |-> [s \in Sources |-> ReadRegister(if_instr.rs[s])]]
                ELSE id_instr

\* The unit latches both operands in the cycle it starts.
MdData(trapped) ==
    md_op' = IF md_start(id_ex) /\ ~trapped THEN [s \in Sources |-> operand(s)] ELSE md_op

\* A result is any value; that of an entry nobody will read is left at 0.
ExecuteData(trapped, result) ==
    ex_result' = IF trapped THEN [ex_result EXCEPT !.reg_write = FALSE]
                 ELSE IF step
                 THEN [rd |-> id_instr.rd, reg_write |-> reg_write(id_ex.op, id_instr.rd),
                       value |-> result]
                 ELSE ex_result

\* Mutant: a load writes back its address.
MemoryDataAddress(rdata) ==
    /\ wb_result' = IF step THEN ex_result ELSE wb_result
    /\ saved_rdata' = rdata

MemoryData(rdata) ==
    /\ wb_result' = IF step THEN [ex_result EXCEPT !.value = mem_value] ELSE wb_result
    /\ saved_rdata' = rdata

WritebackData ==
    REG' = IF reg_wen THEN [REG EXCEPT ![wb_result.rd] = wb_result.value] ELSE REG

\* An instruction takes effect when it leaves EX, a load when it is answered.
ArchTick(trapped, answered, result, rdata) ==
    LET executed == step /\ ~trapped /\ id_ex.valid /\ id_ex.op # "load"
                         /\ reg_write(id_ex.op, id_instr.rd)
        loaded   == answered /\ ex_mem.mem = "load"
    IN  arch' = [r \in Regs |->
                    IF executed /\ id_instr.rd = r THEN result
                    ELSE IF loaded /\ MemWrites(r) THEN rdata
                    ELSE arch[r]]

DataTick(dresp_ok, o, lines) ==
    LET irq      == interrupt_fire(o, lines)
        trapped  == trap_fire(step, id_ex, o) \/ irq
        redirect == redirect_valid(step, id_ex, o) \/ irq
        answered == mem_in_progress /\ dresp_ok
        observed == step /\ id_ex.valid /\ id_instr.rd # 0
                         /\ reg_write(id_ex.op, id_instr.rd)
    IN  \E result \in IF observed THEN Val ELSE {0},
           rdata \in IF answered /\ ex_mem.mem = "load" THEN Val ELSE {saved_rdata} :
            /\ FetchData
            /\ DecodeData(redirect \/ trapped)
            /\ MdData(trapped)
            /\ ExecuteData(trapped, result)
            /\ MemoryData(rdata)
            /\ WritebackData
            /\ ArchTick(trapped, answered, result, rdata)

----------------------------------------------------------------------------
AllInit == Init /\ DataInit

AllNext == \E iresp \in IBusResponses, dresp_ok \in DBusResponses,
              o \in EXOutcomes, lines \in LineSets :
               Tick(iresp, dresp_ok, o, lines) /\ DataTick(dresp_ok, o, lines)

allVars == <<vars, dataVars>>

DataSpec == AllInit /\ [][AllNext]_allVars

----------------------------------------------------------------------------
\* Properties.

\* README 4.3: forwarding resolves the data hazards.  Whatever lies between two
\* instructions, the operands an instruction leaves EX with are the registers as
\* the instructions before it have left them.
OperandsFresh ==
    step /\ id_ex.valid =>
        \A s \in Sources : id_instr.rs[s] \in Regs => operand(s) = arch[id_instr.rs[s]]

\* No result is lost, doubled or written to another register on its way: the
\* register file, with what MEM/WB and then EX/MEM will still write, holds what
\* the instructions have computed and the loads have read.
RegsCatchUp ==
    \A r \in Regs :
        arch[r] = IF MemWrites(r) /\ (ex_mem.mem = "load" => req_completed) THEN mem_value
                  ELSE IF WbWrites(r) THEN wb_result.value
                  ELSE REG[r]

\* README 4.3, load-use hazards: an instruction behind the load whose result it
\* needs waits for it (mem_ok = 0).  The operands a multiplication works on are
\* the registers as the instructions before it have left them.
MulDivOperandsFresh ==
    id_ex.valid /\ id_is_muldiv(id_ex) /\ (md_busy \/ md_result_ready) =>
        \A s \in Sources : id_instr.rs[s] \in Regs => md_op[s] = arch[id_instr.rs[s]]
=============================================================================

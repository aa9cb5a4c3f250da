-------------------------------- MODULE Board --------------------------------
(***************************************************************************)
(* soc_top.sv: the processor (VTop.tla) with the crossbar, the block       *)
(* memory and the serial device of the Basys 3 board.  The processor and   *)
(* the memory have a slow clock, the device one that is Ratio times as     *)
(* fast, in phase with it (clk_wiz_0).  What the memory holds is not       *)
(* modelled, only which word answers.                                      *)
(***************************************************************************)
EXTENDS VTop, Bram, Device

CONSTANTS
    Ratio,    \* edges of clk in a cycle of cpu_clk (4 in the code)
    Devices   \* the device registers programs access: "tx", "finish", "other"

\* In a simulation there is one clock, and a device that is always ready: that is not
\* the system of this module.
ASSUME BoardAssumption ==
    Ratio \in Nat \ {0, 1} /\ Devices \subseteq {"tx", "finish", "other"}

VARIABLES
    phase,       \* edges of clk since the last edge of cpu_clk
    target,      \* what the data access on the bus addresses, and the character it stores
    device       \* the registers of device.sv

boardVars == <<topVars, bramVars, phase, target, device>>

Targets == [addr: {"ram"} \cup Devices, char: Char]
NoTarget == [addr |-> "ram", char |-> 0]

BoardTypeOK ==
    /\ TopTypeOK
    /\ counter \in 0..BRAM_DELAY /\ real_valid \in BOOLEAN /\ ready_read \in BOOLEAN
    /\ rdata \in CBusReq /\ phase \in 0..(Ratio - 1)
    /\ target \in Targets /\ device \in DeviceReg

BoardInit ==
    /\ TopInit /\ BramInit(NoReq)
    /\ phase = 0 /\ target = NoTarget /\ device = DeviceReset

----------------------------------------------------------------------------
\* cbus_crossbar.sv: bit 31 of the address tells memory from devices.  Programs are
\* fetched from memory.
writes == oreq.kind = "store"
to_ram == oreq.kind = "fetch" \/ target.addr = "ram"

ram_valid == oreq.valid /\ to_ram

device_req == [valid |-> oreq.valid /\ ~to_ram,
               store |-> IF writes THEN target.addr ELSE "none",
               char  |-> target.char]

\* The answer.  One without a request reaches nobody: the arbiter is not busy or the
\* MMU holds it back.
ready == oreq.valid /\ IF to_ram THEN ram_ready(writes) ELSE tx_ready(device)

\* A data access has one address from its first cycle to its last.
TargetTick ==
    target' \in IF ~dreq'.valid THEN {NoTarget}
                ELSE IF dreq.valid THEN {target}
                ELSE {t \in Targets : t.addr # "tx" => t.char = 0}

\* An edge of clk that is none of cpu_clk.
FastEdge ==
    /\ phase # Ratio - 1
    /\ phase' = phase + 1
    /\ device' = DeviceEdge(device, device_req)
    /\ UNCHANGED <<topVars, bramVars, target>>

\* An edge of both clocks.
SlowEdge(op, o, lines) ==
    /\ phase = Ratio - 1
    /\ phase' = 0
    /\ device' = DeviceEdge(device, device_req)
    /\ TopTick(ready, op, o, lines)
    /\ BramTick(ram_valid, writes, oreq)
    /\ TargetTick

BoardNext ==
    \/ FastEdge
    \/ \E op \in Ops, o \in EXOutcomes, lines \in LineSets : SlowEdge(op, o, lines)

BoardSpec == BoardInit /\ [][BoardNext]_boardVars

\* The clocks run.  Nothing is assumed of memory and device: they answer by themselves.
FairBoardSpec == BoardSpec /\ WF_boardVars(BoardNext)

----------------------------------------------------------------------------
\* Properties.

\* bram_wrapper.sv:60: the answer to a read is up for two cycles.  The word that is on
\* rdata when a fetch or a load is answered is the one it has asked for.
RamReadsOwnWord == ram_valid /\ ready /\ ~writes => rdata = oreq

\* README 10.5, problem 3: the device looks at the request lines of another clock, and
\* a pulse may be missed.  Each store to TX_DATA is answered when its character has
\* been sent, whole and once, and no frame is sent for anything else, until a program
\* ends (FINISH_ADDR) and the device sends its own text.
CharsSentOnce ==
    ~device.finish =>
        /\ stores_char(device_req) /\ ready /\ phase = Ratio - 1
               => device.sent = <<Frame(target.char)>>
        /\ device.txState # "RDY" => stores_char(device_req)
=============================================================================

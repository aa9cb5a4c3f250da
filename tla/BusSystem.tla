------------------------------ MODULE BusSystem ------------------------------
(***************************************************************************)
(* A master of the data bus and what answers it.  The master is a test     *)
(* that queues accesses (DBusPipelineGen), one that awaits each (DBusGen), *)
(* or a cache that moves lines in wrapping bursts (external).  It talks to *)
(* the simulated system on a chip of model.cpp (CBusDevice, router,        *)
(* memory, configuration registers, and their reader thread) or, through   *)
(* CBusToAXI, to an AXI memory.                                            *)
(*                                                                         *)
(* A cycle of the simulation: the response of the registers, the clock     *)
(* edge of the master that sees it, eval_req for the request lines, and    *)
(* the sync of CBusDevice and of Confreg.                                  *)
(***************************************************************************)
EXTENDS DBusPipeline, CBusDevice, CBusToAXI, SimMemory, Confreg

CONSTANTS
    Bursts,     \* the bursts the cache may request
    MaxOps      \* bound: accesses and bursts submitted

VARIABLES
    master,     \* "queue", "await" or "cache"
    slave,      \* "device" or "axi"
    burst,      \* the request lines of the cache
    submitted,  \* accesses and bursts submitted so far
    rx,         \* the characters that loads of UART_RXD have taken (not in the code)
    put         \* the characters that finished stores have sent to each of
                \* UART_TXD and VIRTUAL_UART (not in the code)

vars == <<pipelineVars, deviceVars, bridgeVars, memoryVars, confregVars,
          master, slave, burst, submitted, rx, put>>

Burst == [kind: {"get", "store"}, addr: Nat, width: Widths, vals: Seq(Word)]
ASSUME BurstsAssumption ==
    \A b \in Bursts : b \in Burst /\ Len(b.vals) - 1 \in Lengths /\ b.addr % b.width = 0

\* Tests stay within the address map, and a cache moves lines of the memory.
LineEnd(b) == LET line == b.width * Len(b.vals) IN b.addr - (b.addr % line) + line
ASSUME MapAssumption ==
    (\A a \in Accesses : a.addr \in Addresses) /\ (\A b \in Bursts : LineEnd(b) <= PageSize)

ASSUME MaxOpsAssumption == MaxOps \in Nat

OutputRegs == {UART_TXD, VIRTUAL_UART}

\* The accesses of a burst, one for each beat.
Beats(b) ==
    [k \in 1..Len(b.vals) |->
        [kind |-> b.kind, width |-> b.width, val |-> b.vals[k],
         addr |-> BeatAddress(b.addr, b.width, Len(b.vals), k - 1)]]

TypeOK ==
    /\ PipelineTypeOK /\ DeviceTypeOK /\ BridgeTypeOK /\ SimMemoryTypeOK /\ ConfregTypeOK
    /\ master \in {"queue", "await", "cache"} /\ slave \in {"device", "axi"}
    /\ burst \in CBusReq /\ submitted \in 0..MaxOps
    /\ rx \in Seq(Char) /\ put \in [OutputRegs -> Seq(Byte)]

Init ==
    /\ PipelineInit /\ DeviceInit /\ BridgeInit /\ SimMemoryInit /\ ConfregInit
    /\ master \in {"queue", "await", "cache"} /\ slave \in {"device", "axi"}
    /\ burst = NoReq /\ submitted = 0 /\ rx = << >>
    /\ put = [off \in OutputRegs |-> << >>]

----------------------------------------------------------------------------
\* The master.

req == IF master = "cache" THEN burst ELSE CBusWrapper(dbus)

\* The AXI memory has no boot window and no registers.
Reachable(addr) == slave = "axi" => addr < PageSize

SubmitAccess(a) ==
    /\ ~aborted /\ submitted < MaxOps /\ Reachable(a.addr)
    /\ \/ master = "queue" /\ a.kind # "get"
       \/ master = "await" /\ a.kind \in {"get", "store"} /\ ongoing = << >>
    /\ submit(a)
    /\ submitted' = submitted + 1
    /\ UNCHANGED <<deviceVars, bridgeVars, memoryVars, confregVars, master, slave, burst, rx, put>>

\* The cache starts a burst; it sends the data of one beat after the other.
SubmitBurst(b) ==
    /\ submitted < MaxOps /\ master = "cache" /\ ~burst.valid
    /\ ongoing' = [k \in 1..Len(b.vals) |-> TaskOf(Beats(b)[k])]
    /\ burst' = [valid |-> TRUE, is_write |-> b.kind = "store", size |-> b.width,
                 addr |-> b.addr, len |-> Len(b.vals) - 1,
                 strobe |-> ongoing'[1].strobe, data |-> ongoing'[1].data]
    /\ submitted' = submitted + 1
    /\ UNCHANGED <<dbus, dest, aborted, deviceVars, bridgeVars, memoryVars, confregVars,
                   master, slave, rx, put>>

CacheTick(resp) ==
    /\ IF resp.ready /\ burst.valid
       THEN LET u == Head(ongoing) IN
            /\ ongoing' = Tail(ongoing)
            /\ dest' = IF u.dest THEN applyTo(u.load_op, resp.data, ZeroWord) ELSE dest
            /\ burst' = IF resp.last \/ ongoing' = << >> THEN NoReq
                        ELSE [burst EXCEPT !.strobe = Head(ongoing').strobe,
                                           !.data = Head(ongoing').data]
       ELSE UNCHANGED <<ongoing, dest, burst>>
    /\ UNCHANGED <<dbus, aborted>>

MasterTick(resp) ==
    CASE master = "queue" -> PipelineTick(resp) /\ UNCHANGED burst
      [] master = "await" -> AwaitTick(resp) /\ UNCHANGED burst
      [] master = "cache" -> CacheTick(resp)

IsDevice(addr) == PageOf(addr) = 2

----------------------------------------------------------------------------
\* A cycle with the simulated system on a chip.

ConfAccess == IF ~answers \/ ~IsConf(tx.addr) THEN "none"
              ELSE IF tx.is_write THEN "store" ELSE "load"

Off == tx.addr % PageSize

\* A store of a character to the register at offset off.
sends(a, off) == a.kind = "store" /\ IsDevice(a.addr) /\ a.addr % PageSize = off

\* MemoryRouter::load.
WordAt(addr) == IF IsConf(addr) THEN LoadReg(addr % PageSize) ELSE load(translate(addr))

SocTick ==
    /\ ~aborted /\ slave = "device"
    /\ MasterTick(eval_resp(WordAt(tx.addr)))
    /\ DeviceTick(req)
    /\ IF stores /\ ~IsConf(tx.addr) THEN store(translate(tx.addr), req.data, req.strobe)
       ELSE UNCHANGED mem
    /\ ConfregTick(ConfAccess, Off, req.data)
    /\ rx' = IF ConfAccess = "load" /\ fetches(Off) THEN Append(rx, Head(ififo)) ELSE rx
    /\ put' = IF ongoing' = ongoing THEN put
              ELSE [off \in OutputRegs |->
                       IF sends(Head(ongoing).op, off)
                       THEN Append(put[off], Head(ongoing).op.val[0]) ELSE put[off]]
    /\ UNCHANGED <<saved_mem, bridgeVars, master, slave, submitted>>

\* reset of the model between tests: router, memory, registers and device.
ResetSoc ==
    /\ ~aborted /\ slave = "device" /\ ongoing = << >> /\ ~req.valid
    /\ DeviceReset /\ MemoryReset /\ ConfregReset
    /\ UNCHANGED <<pipelineVars, bridgeVars, master, slave, burst, submitted, rx, put>>

\* The terminal is attached in the runs of tests.
TerminalStep ==
    /\ slave = "device" /\ master # "cache"
    /\ Reader
    /\ UNCHANGED <<pipelineVars, deviceVars, bridgeVars, memoryVars,
                   master, slave, burst, submitted, rx, put>>

----------------------------------------------------------------------------
\* A cycle with CBusToAXI and its memory.

\* m after the write data the slave has received.
AfterWrites(m) ==
    LET upTo[k \in 0..Len(axi.wbuf)] ==
            IF k = 0 THEN m
            ELSE [upTo[k - 1] EXCEPT ![BeatAddress(saved_req.addr, saved_req.size,
                                                   saved_req.len + 1, k - 1) \div 8] =
                      Merge(@, axi.wbuf[k].data, axi.wbuf[k].strobe)]
    IN  upTo[Len(axi.wbuf)]

AxiTick(shake) ==
    /\ ~aborted /\ slave = "axi"
    /\ MasterTick(bridge_resp(shake, load(ReadAddress)))
    /\ BridgeTick(req, shake)
    /\ SlaveTick(req, shake)
    /\ mem' = IF commits(shake) THEN AfterWrites(mem) ELSE mem
    /\ UNCHANGED <<saved_mem, deviceVars, confregVars, master, slave, submitted, rx, put>>

AxiStep == \E shake \in SUBSET handshake(Offered) : AxiTick(shake)

----------------------------------------------------------------------------
Next ==
    \/ \E a \in Accesses : SubmitAccess(a)
    \/ \E b \in Bursts : SubmitBurst(b)
    \/ SocTick
    \/ ResetSoc
    \/ TerminalStep
    \/ AxiStep

Spec == Init /\ [][Next]_vars

\* Cycles go on, the device does not pause for ever (p_disable < 1), the reader
\* thread, once it has a character, is scheduled, and the AXI memory serves every
\* channel (external).  The user may stop typing.
Fairness ==
    /\ WF_vars(SocTick) /\ WF_vars(SocTick /\ enable')
    /\ WF_vars(reader.at # "fgetc" /\ TerminalStep)
    /\ WF_vars(AxiStep)
    /\ \A ch \in Channels :
           WF_vars(\E shake \in SUBSET handshake(Offered) : ch \in shake /\ AxiTick(shake))

FairSpec == Spec /\ Fairness

----------------------------------------------------------------------------
\* The bytes of the memory, with the write data an AXI transaction still holds.
BytesOf(m) == [p \in 0..(RamSize - 1) |-> m[p \div 8][p % 8]]

Bytes == BytesOf(IF slave = "axi" THEN AfterWrites(mem) ELSE mem)

\* Where a program finds a byte of the memory: at its address or in the boot window.
ByteAt(addr) == IF PageOf(addr) = 1 THEN addr - PageSize ELSE addr

Todo == [i \in DOMAIN ongoing |-> ongoing[i].op]

Abs == INSTANCE ByteMemory WITH
    Phys <- ByteAt, Device <- IsDevice,
    Batches <- {<<a>> : a \in Accesses} \cup {Beats(b) : b \in Bursts},
    bytes <- Bytes, todo <- Todo, image <- BytesOf(saved_mem)

\* Whatever the master, the slave, the pauses and the order of AXI handshakes: the
\* system is a memory of bytes that performs the accesses in order (memory.h: CBusDevice
\* should match the behaviour of CBusToAXI).
ImplementsByteMemory == Abs!Spec

\* The assertions of CBusDevice::eval_req never fail: a request is held, unchanged,
\* until its last beat.
SanityChecksHold == slave = "device" => sanity_checks(req)

\* A burst is over for the cache exactly when its last beat has been transferred.
LastBeatEndsBurst == master = "cache" => (burst.valid <=> ongoing # << >>)

\* The load of UART_RXD and sync read the front of a queue that is not empty, though
\* they decide by a flag of the cycle before and without the queue's lock.
FrontExists == ctx.uart_avail => ififo # << >>

\* The character the reader thread has read and not pushed.
InHand == IF reader.c = None THEN << >> ELSE <<reader.c>>

\* Characters reach the program once each, in the order typed, save those a reset
\* throws away.
CharsInOrder ==
    LET s == rx \o ififo \o InHand
    IN  /\ \A i, j \in DOMAIN s : i < j => s[i] < s[j]
        /\ {s[i] : i \in DOMAIN s} = (1..typed) \ dropped

\* The terminal and the console show the characters the program has stored, each
\* once and in order, at the end of the cycle in which its store is answered.
OutputInOrder ==
    opty = put[UART_TXD] /\ printed = put[VIRTUAL_UART]

\* Every access that was submitted is performed.
AllPerformed == ongoing # << >> ~> (ongoing = << >> \/ aborted)
=============================================================================

# A TLA+ model of the FudanArch26 CPU

The repository is a five-stage RISC-V RV64IM processor in SystemVerilog
(`src/vsrc`) with machine and user mode, interrupts, and Sv39 translation; a C++
Verilator harness with memory and devices (`src/verilate`); and an FPGA system
around the same core (`src/vivado`).  This directory models, in TLA+, the control of
the processor and the path of its operand values, the FPGA system around it, the
simulated memory and devices with the drivers that test them, and the parallel test
runner; TLC checks the models on small instances, and TLAPS proves every safety property
that those checks ask about for every instance.  Paths below are relative to the
repository; "README" with a section number is the repository's `README.md`.

## 1. The system

One clock edge is one step of everything.  The five stages share one wire,
`step` (`core.sv:152`), the conjunction of five "ok" wires: the pipeline moves as
a whole or not at all.  Between two steps only the two bus interfaces and the
multiply/divide unit make progress.

| component | state | operations | interacts through |
|---|---|---|---|
| fetch (`fetch.sv`) | `pc`, `req_pc`, `fetch_ok`, `fetch_in_progress`, `redirect_pending`, request register, IF/ID | start a fetch on a step, take the answer, redirect, trap | instruction bus; IF/ID read by decode; redirect wires from execute and the interrupt logic |
| decode (`decode.sv`) | ID/EX | take IF/ID on a step, flush | IF/ID, ID/EX |
| execute (`execute.sv`) | EX/MEM, the multiply/divide unit | resolve branches, detect exceptions, read CSRs, build a trap or interrupt entry, iterate | reads the CSR file; redirects fetch and flushes decode |
| memory (`memory.sv`) | handshake registers, request register, MEM/WB | one access per load or store | data bus |
| write-back (`writeback.sv`) | none | commit | register file, CSR file |
| CSR file (`csr_regfile.sv`) | CSRs and the privilege | commit a write, commit a trap, move the privilege early | MEM/WB, EX; drives the MMU |
| interrupt logic (`core.sv:154-172`) | none | take an interrupt at a step | all of the above |
| forwarding, register file (`forward_unit.sv`, `regfile.sv`) | 32 registers, `saved_rdata`, results in EX/MEM and MEM/WB | bypass, forward, write | EX, MEM, WB |
| arbiter (`util/CBusArbiter.sv`) | `busy`, `index` | grant, hold, release | both buses of the core, MMU |
| MMU (`mmu.sv`) | `mmu_state`, `pte_hold`, `saved_req`, `paddr` | pass through, walk, forward, answer | arbiter, memory, live `satp` and privilege |
| AXI bridge (`util/CBusToAXI.sv`) | `saved_req`, `count`, `in_issue` | issue, five channels in any order, answer, finish | no top in the repository instantiates it; `memory.h` calls it the model of `CBusDevice` |
| FPGA system (`src/vivado/src`) | counter and valid bits of the BRAM wrapper; transmitter, `putchar`, `finish`, `idx` of the device | answer reads and writes; send characters | core and memory at 25 MHz, device at 100 MHz |
| simulated memory (`cbus_device.cpp`, `memory.cpp`, `axi.h`) | AXI transaction, memory words, the image | bursts, pauses, reset | cache bus of the Verilated core |
| simulated registers (`confreg.cpp`) | flags of the cycle, UART queue, reader thread | load, store, sync, type | cache bus; the reader thread pushes into the queue |
| bus drivers (`bus.h`) | queue of tasks, request lines | submit, await, tick | cache bus |
| test runner (`testbench.cpp`) | counters, pipes, processes | fork, hand out, count, kill, reap | pipes, signals, `waitpid` |

Hard behaviours, and what makes each component correct:

* Two independent slow buses, redirects, exceptions, interrupts and the step may
  meet at one edge (`fetch.sv:44-84`, `memory.sv:83-140`).  Correct: every
  instruction in the pipeline is the one program order asks for, no access is made
  behind a trap, and a request on a bus is never withdrawn or changed.
* CSRs are read in EX, written in WB and never forwarded.  Correct: no instruction
  in EX sees a CSR that an older instruction is about to change.
* The privilege changes in EX, two steps before the trap that changes it commits,
  and the MMU uses it (and `satp`) live.  Correct: the commit agrees with the early
  value, and neither input of the MMU moves during a transaction.
* Interrupts arrive at any step.  Correct: nothing is lost or executed twice.
* The multiply/divide unit runs for up to 64 cycles beside flushes and traps.
  Correct: it starts from rest, works for the instruction in EX, its result goes to
  nobody else, and the result is the one the ISA defines.
* An operand may be in one of five places, and stalls and flushes leave stale register
  numbers in all of them.  Correct: it is the newest value.
* The multiply/divide unit latches its operands in its first cycle.  It would be correct if
  they were the newest values then; they are not (finding 5).
* On the FPGA the answer to a read stays up for a cycle after its end, and a device at
  100 MHz sees every request of the 25 MHz core several times.  Correct: every
  read gets its own word, every character is sent once.
* The simulated memory pauses at random, bursts wrap, an AXI slave accepts channels
  in any order, a write is answered before it is carried out.  Correct: the
  whole is a memory of bytes that performs each access once and in order.
* A thread pushes typed characters while the simulation reads the queue without its lock, by
  a flag of the cycle before; characters written are shown by looking at flags of
  the cycle.  Correct: nothing is lost, doubled or read from an empty queue.
* Test processes die at any time and inherit each other's pipes.  Correct: the verdict
  and the counts are right, nobody is left behind, and the runner returns.
* Everybody waits: the step for the buses, the buses for the arbiter, the arbiter
  for the memory.  Correct: the pipeline steps again and again.

`PROJECT.json` lists every component with its status and every hazard at its line.

## 2. Modules

`Core.tla` composes one module per stage, as `core.sv` instantiates them:

    CoreTypes <- Fetch, Decode, Execute, Memory, CsrRegfile <- Core <- MCCore, Core_proofs
    CoreTypes <- Mmu        Arbiter        Core, Arbiter, Mmu <- VTop <- MCVTop, VTop_proofs
    MulDiv <- MCMulDiv, MulDiv_proofs
    Core <- DataPath <- MCDataPath, DataPath_proofs (with Core_proofs)
    VTop, Bram, Device <- Board <- MCBoard, Board_proofs (with VTop_proofs)
    BusOps <- DBusPipeline, CBusDevice, CBusToAXI, SimMemory, Confreg <- BusSystem
    BusSystem <- MCBusSystem, BusSystem_proofs
    BusOps <- ByteMemory, the abstract memory that BusSystem implements
    Testbench <- MCTestbench, Testbench_proofs
    Induction <- MulDiv_proofs, BusSystem_proofs, Testbench_proofs

* **CoreTypes** - the pipeline registers.  An instruction is its control class
  (`AllOps`): what `decode.sv` makes of it as far as control is concerned.  An
  address is an element of `PC` with a successor function `pcPlus4`.  A CSR write is
  a register and a value; `satp` is cut to "mode is 8".  Operand values do not
  appear: whatever depends on them (is a branch taken, where to, is an address
  aligned, which value does a CSR instruction write) is an `Outcome`, chosen freely
  when the instruction leaves EX.
* **Fetch, Decode, Execute, Memory, CsrRegfile** - the registers of each stage and
  one operator `...Tick` with what one clock edge does to them, branch by branch in the
  order of the code.  Wires from other stages are parameters.
* **Core** - `step`, the interrupt condition, redirects and flushes; `Tick` is one
  edge with four inputs (instruction bus answer, data bus answer, outcome in EX,
  interrupt lines); `Next` ranges over the inputs that can occur.  `next` in EX/MEM
  and MEM/WB and the variable `retired` are bookkeeping that is not in the code:
  where program order continues after an instruction.
* **Arbiter, Mmu** - `CBusArbiter.sv` and `mmu.sv`, again one edge each.
* **VTop** - `VTop.sv`/`SimTop.sv`: the core, the bridges `DBusToCBus` and
  `IBusToCBus` (one word per transaction, so ready and last coincide), the arbiter
  with the data bus as master 0, and the MMU in front of a memory that answers
  whenever it likes while it is asked.  It *extends* Core and reuses `Tick`; the
  answers `Tick` gets are the wires that come back through MMU and arbiter.  `core.sv:71` gives the
  MMU the combinational `priv_mode`, VTop the registered one: by `TranslationStable` they are
  equal whenever a request is out, and otherwise the MMU is idle.
* **MulDiv** - the multiply/divide unit at bit precision for a width `W`
  (64 in the code): shift-and-add multiplication, restoring division, sign handling, the
  special cases decided outside the unit, and the handshake.  Powers of two are a function,
  `pow2`, so that the width can be any even number in a proof.
* **DataPath** - adds the values to Core: register numbers and operand data in the pipeline
  registers, the register file with its bypass, the forwarding multiplexers, the data of a
  load.  What an instruction computes is any value (so an ALU result and a loaded word are
  alike); `arch`, which is not in the code, has the registers as the instructions executed so
  far have left them, and gives "the newest value" its meaning.
* **Bram, Device, Board** - the FPGA system: `bram_wrapper.sv` above a generated block
  memory with registered read data (external), the serial transmitter of `device.sv` bit
  by bit, and `soc_top.sv` with the crossbar and the two clocks.  `Board` extends VTop:
  the memory that VTop leaves to answer whenever it likes is here two machines
  of which nothing is assumed.  `FastEdge` is an edge of the 100 MHz clock, `SlowEdge` one
  of both.  `mmu.sv` is compiled without its translation on the board; the MMU of VTop,
  which may translate, includes that.
* **BusOps** - words, byte lanes, bus records, and what `LoadOp` does with them.
* **DBusPipeline** - the queueing driver (`DBusPipelineGen`) and the awaiting one (`DBusGen`).
* **CBusDevice, SimMemory** - the simulated slave with its AXI transaction and pauses,
  and what is behind it: the address map of `model.cpp` with its boot window, and
  `BlockMemory`, its construction from an image included.
* **CBusToAXI** - the bridge, with an AXI memory (external) that takes each channel whenever
  it likes, provided it follows the rules of AXI.
* **Confreg** - `UART_RXD`, `UART_TXD`, `UART_LSR`, `VIRTUAL_UART` and one plain register;
  the reader thread in four steps (get, lock, push, unlock); `sync`, and the
  output of `checkout_confreg`.
* **ByteMemory** - the abstract specification: bytes, a list of accesses to do, done in
  order and once.
* **BusSystem** - one of three masters (a queueing test, an awaiting test, a cache that asks
  for bursts) above one of two slaves (the simulated system on a chip, the AXI memory
  behind the bridge), with resets and a typing user.
* **Testbench** - `run_parallel` and its workers: every system call is a step; pipes,
  inherited write ends, EOF, `SIGKILL` and `waitpid`.
* **Induction** - lemmas about natural numbers that three of the proof modules use.
* **MC...** - definitions for the configurations.

A definition whose comment begins with "Mutant" is not part of the model: it is a
plausible wrong version of the definition after it, which the listed property
must reject (`mutants` in `PROJECT.json`).

### State and code

Variables have the names of the registers they model.  `csr` is the record of the
`_q` registers that steer the pipeline.  A register field `trap` or `wr` equal to
`None` is `trap_pending` or `csr_pending` clear.  Reset is `Init`; no behaviour
of the processor resets again; `BusSystem` resets its slave at any time.

## 3. What is checked

The core runs use a program memory of two addresses closed to a cycle.  The instruction
the bus delivers for an address is chosen anew at each fetch, so a program of any length
and content, self-modifying code included, is among the behaviours.  Two addresses let
a flushed instruction and its replacement have the same or different addresses.
The pipeline holds at most five instructions and each run admits the classes whose
interplay it is about; a class a run leaves out behaves, in that run's question, like
one it has (a store like a load, an ALU instruction like a branch that is not taken, a
call or an illegal instruction like a misaligned access).  `MdCounts` is the number of
iterations, 1 or 2 for 32 or 64: a unit that is started, busy and done.

| run | question | result |
|---|---|---|
| `core` | `TypeOK`, `InOrder`, `PreciseMemory`, `NoStaleCsr`, `OneTrap`, `NothingSkipped`, `MdOwned`, `RequestsStand`, `PrivilegeSettled`, `ResultNotReused`: branches, CSR writes, returns, loads and multiplications on slow buses, with an interrupt line up at any step | holds, 328 000 states |
| `vtop_path` | `TopTypeOK`, `MmuBehindArbiter`, `TranslationStable`, `AnswersAreOwn`, `MemRequestStands` in the composed system while programs write `satp` and change privilege, and `ImplementsCore`: VTop with its fairness implements Core with its own | holds, 77 000 states |
| `muldiv` | `TypeOK`, `ResultRight`, `ProductInvariant`, `DivisionInvariant` for every instruction on all operands of `W = 6` bits, followed by a probing instruction | holds, 381 000 states |
| `datapath` | `OperandsFresh`, `RegsCatchUp`: loads, multiplications and trapping instructions that use two registers at any distance | holds, 170 000 states |
| `board` | `BoardTypeOK`, `RamReadsOwnWord`, `CharsSentOnce`, `StallsEnd`: fetches, stores and multiplications on the FPGA system | holds, 95 000 states |
| `bus_system` | `TypeOK`, `SanityChecksHold`, `LastBeatEndsBurst`, `FrontExists`, `CharsInOrder`, `OutputInOrder`, `ImplementsByteMemory`, `AllPerformed` for the six systems of three masters and two slaves | holds, 79 000 states |
| `testbench` | `TypeOK`, `CountIsHonest`, `VerdictIsRight`, `AnswersAreRead`, `NoOrphans`, `Returns` for three workers and four tests, two of which may fail | holds, 42 000 states |
| `core_hang`, `core_imprecise`, `core_disabled_irq`, `muldiv_unsigned`, `muldiv_stale` | see Findings | violated |

Bounds:

* `vtop_path` and `board` have no interrupts; the proofs of section 4 cover the safety
  properties for every set of lines.
* `muldiv`: `MaxStarts` ends a behaviour, so deadlock is not checked there.  `W = 6` gives the
  64-bit instructions as 6-bit ones and the 32-bit ones as 3-bit ones, with
  the extremes of both widths.
* `datapath`: one address (control is the question of `core`), one operand, two registers
  besides x0 and two values.  A writer of the register, a writer of
  another one and an instruction that writes nothing can stand in every stage.
* `board`: a character has one bit, so that a frame is start, data and stop bit, of two counts
  each.  What matters is that the length of a frame (7 edges of the device here, 104 171 in
  the code) and the ratio of the clocks have no common factor, so that a
  frame may end at any phase of the slow clock.  The memory waits one cycle
  (32 in the code), which tells "waiting", "done" and "still up" apart.  Programs fetch, store and
  multiply; the same properties hold with branches added (713 000 states) and with loads added
  (581 000 states), so that data reads as well as fetches meet the memory, and `RamAnswersRight`
  holds for every class of instruction.
* `bus_system`: two words of memory, one word of them seen through the boot window, and a page
  of registers; accesses of 1 to 8 bytes that overlap; bursts of two words
  and of four half words from the middle of their lines; two accesses or bursts
  (`MaxOps`), two typed characters.  With three accesses the properties hold as well
  (824 000 states).  A behaviour ends when all is performed, so deadlock is not checked;
  `AllPerformed` takes its place.
* `testbench`: three workers are the fewest of which one inherits from two others; with four
  tests a worker gets its second one while others ask for their first, and the tests
  run out.  The runner ends, so deadlock is not checked; `Returns` takes its place.

### Fairness

`FairSpec` assumes weak fairness of a clock edge (the clock runs) and of an answer
on each bus while a request stands on it.  The second is an assumption about
the environment of `core.sv`; `vtop_path` discharges it for the system in
`VTop.sv`: there only the clock and *one* memory are assumed fair
(`cbus_device.cpp` and the BRAM answer every request after finitely many cycles),
and TLC shows that the arbiter, which always prefers the data bus, starves neither
bus, because the core makes no further access until its fetch is answered.

`board` discharges that assumption too: there nothing but the clocks is fair, and TLC shows
that the memory and the device answer, so `StallsEnd` holds of the whole.

`BusSystem`: cycles go on; the simulated slave does not pause for ever (`p_disable` is
below 1); the reader thread, once it has a character, is scheduled (it may hold the lock that
`sync` waits for); the AXI memory serves each channel some day,
which is an assumption about external code.  No fairness for the master or the
user: they may stop.  `Testbench`: the operating system schedules every process,
and a test ends, by return or by failure (a test that runs for ever makes the runner wait
for ever, which is what the code says).

### Findings

1. `core_hang` (`execute.sv:62`): `execute_ok` looks at the class of the instruction
   in ID/EX but not at its valid bit, while `md_start` looks at both.  A multiplication
   fetched behind a taken jump is invalidated in IF/ID but its control signals
   travel on; `execute_ok` is then 0 and nothing ever starts the unit.
   This happens when the fetch behind the jump has been answered before the jump leaves
   EX, which with the global step is every time.  One of the repository's own test
   programs has such a sequence (`ready-to-run/lab6/lab6-test.S:1935`, a jump
   followed by `rem`), and README reports that test as passed, so the authors' simulation
   must differ from the reading of the code here in some way that cannot be
   determined from the sources; the counterexample was followed through
   `fetch.sv:51-58`, `decode.sv:275-306` and `execute.sv:60-62` line by line.
2. `core_imprecise` (`core.sv:171`): an interrupt saves the address of the
   instruction in MEM if there is one, and that instruction commits; it is executed twice.
   `NothingSkipped` is the part that does hold: never is an instruction lost.
3. `core_disabled_irq` (`core.sv:158`): the interrupt condition combines the old
   `mie` with the new `mstatus`.
4. `muldiv_unsigned` (`execute.sv:264`): unsigned division by a divisor above
   2^63 gives a wrong quotient; `ResultRight` excludes exactly these operands, so it
   also shows that nothing else is wrong at the checked widths.
5. `muldiv_stale` (`execute.sv:61`, `execute.sv:74`): the unit starts in the first cycle its
   instruction is in EX, when a load in MEM that produces its operand may not have its
   data.  The forwarded value is then `saved_rdata`, the data of the load before.  All
   other instructions look at their operands when the pipeline steps, which waits for the
   load; `OperandsFresh` shows that they are right then.

Also noticed, with no property of their own: README 11.3.3 reports a fix for an
exception in EX meeting a trap in WB, which `NoStaleCsr` shows cannot happen;
an interrupt at the edge at which a write of `mtvec` commits goes to the old handler
(`core.sv:166` takes `mtvec_q`; `NoStaleCsr` speaks of the instruction in EX, not of interrupts);
`redirect_pending` in `fetch.sv` is never set (`FetchHandshake`), so that branch is
dead in this core; the README gives the instruction bus priority while `VTop.sv`
wires the data bus to index 0, which the arbiter prefers; the README says only CSR
instructions that write redirect, the code redirects for all; `Lab4_report.md:68`
says the instruction behind a CSR instruction is fetched when the CSR has its new
value, but the redirect fires in EX and that fetch is on the bus two steps before the
write commits, so the fetch behind a `satp` write still uses the old `satp`.  README 10.5 (problem 3) says that
synchronisers were added between the clocks of the FPGA system, because the device might
miss the pulse of a store; `device.sv` and `soc_top.sv` have none, and `CharsSentOnce` shows that
with two clocks in phase (`clk_wiz_0`) a store, which is held until it is answered, is never
missed.  In a simulation of the FPGA system `ready` is constantly 1 (`device.sv:197`), so
that characters may be lost on the line, though `$write` shows them.  A program that stores
another character after the greeting that follows FINISH takes `idx` below 0, and the device
then sends without end; the newline of the greeting is sent twice.
In the test runner later workers inherit the write ends of the pipes to earlier ones, so
that closing the pipes ends no worker by itself; `-j 0` runs no test and reports 0 passed
ones, and a failed run has exit status 0.  The construction of a `BlockMemory`
(`memory.cpp:102`) clears bytes of the image it has just placed, because its mask is 32 bits wide.

## 4. What is proved

TLAPS checks every proof to the leaves; nothing is assumed beyond the ASSUMEs of the
modules, and every safety invariant and action property of every passing run is a theorem.
The ASSUMEs of `CoreTypes`, `Arbiter` and `VTop` say of the constants no more than that
`PCINIT` is an address, `pcPlus4` a function on addresses, the instruction classes,
CSR writes and counts are what their names say, `None` is no write and no trap, and
there are two masters.  The theorems hold for 2^64 addresses, any interrupt lines and
any program.  Those of the other modules are quoted with their theorems below.

`Core_proofs`:

* `TypeCorrect` - `TypeOK`, one lemma per stage.  Its strengthening `MdCountInv`
  says that a busy unit has iterations left, which keeps `md_count` natural.
* `Invariant` - the inductive invariant `TypeInv /\ CoreInv`.  The safety properties
  follow from it: `ProgramOrder`, `CsrHazardFree`, `TrapsDoNotNest`,
  `AccessesArePrecise`, `InterruptsLoseNothing`, `UnitIsOwned`; and the action
  properties `BusRule`, `TranslationsSeeOneState`, `EarlyPrivilegeIsFinal`,
  `ResultsAreNotReused`.
* `StallsShrink` - a stalled pipeline waits for an answer, for an access that is about to be
  issued, or for the unit, and every edge that changes something during a stall lowers `Wait`, which is
  at most `K + 4` if no multiplication needs more than `K` iterations (64 in the code).  This
  is `StallsEnd` without fairness: what is left is that the clock runs and the buses
  answer.  A flushed multiplication in EX (finding 1) is the exception, as in `StallsEnd`.

`InOrder` alone is not inductive.  What it needs, part by part:

* `FetchHandshake` - `fetch_ok` is exactly "no fetch in flight" and a redirect never
  meets one, so no answer is ever for a wrong path and `redirect_pending` stays clear.
* `DataHandshake` - the data bus works for the instruction in MEM; with `step`
  waiting for it, a trap never finds an access under way, so nothing is withdrawn.
* `Bubbles` - behind a pending CSR write or trap in MEM everything is empty, and
  behind one in WB the stage EX is: the distance the flush guarantees.  `NoStaleCsr`
  and `OneTrap` are its consequences.
* `PrivilegeGiven` - the privilege is already the one the pending trap asks for.
* `Resumes` - where an interrupt in MEM will resume, which carries `NothingSkipped`
  from the edge at which the address is saved to the one at which it is in WB.
* `MdOwned`, `ResultOwned` - the unit belongs to the instruction in EX.

The proof splits a tick into one that does not move the pipeline (`NoMove`) and a
step, and a step into a trap, an interrupt, a redirect and plain progress
(`TrapMove`, `IrqMove`, `RedirectMove`, `NextMove`); a lemma shows that these are all the
cases, and each is then followed through the parts of the invariant.

`VTop_proofs`:

* `TopInvariant` - the invariant of the core together with `MmuBehindArbiter`: the
  port is held by a master that is asking, and the MMU's saved request is the
  request of that master.  It needs `BusRule` and `TranslationStable` of the core:
  without them the MMU could change its mind in the middle of a walk.
* `RefinesCore` - `TopSpec => Spec`: each edge of the composed system is an edge of
  the core with answers that the two buses could have given.  Hence every
  theorem about Core holds of the system as built.  `TopTypeCorrect` and
  `MmuServesTheHolder` are read off the same invariant.
* `AnswersReachTheirOwner`, `MemoryRequestsStand` - the action properties of the path.

`DataPath_proofs`, for any number of registers, values and operands, above the invariant of Core:

* `NoResultIsLost` - `RegsCatchUp`: the register file with the results in WB and MEM laid over
  it is `arch`.  Inductive together with `ReadInDecode`: the data an instruction took along
  from ID are still those in the register file, which does not change while it waits in EX.
* `ForwardingIsRight` - `OperandsFresh` follows: the multiplexers pick the newest of the
  three.

`Board_proofs`, for any delay of the memory, length of a bit, and ratio of the clocks above one:

* `BoardRefinesTop` - `BoardSpec => TopSpec`, so every theorem about VTop and Core holds of the
  FPGA system.
* `BoardInvariant` - `RamInv`: `real_valid` is up for the request on the bus, and
  `ready_read` meets a request only when its word is there (an answer is followed by an idle
  cycle of the arbiter, `PortStep`); `DeviceInv`: a store to `TX_DATA` is waiting, being sent or
  sent, with `putchar` telling the first from the last.  `BoardTypeCorrect`,
  `RamAnswersRight` and `CharactersAreSentOnce` are read off it.

`MulDiv_proofs`, for every even width, of which 64 is one, all operands and any sequence of
instructions:

* `UnitTyped`, `Multiplies`, `Divides` - `TypeOK` and the loop invariants `ProductInvariant` and
  `DivisionInvariant` of the run.
* `RightResult` - `ResultRight`: what the ten instructions take is what the ISA asks for.  The
  operands of the finding `muldiv_unsigned` are excluded, as in the property; there are no others.

`ResultRight` looks at the moment the result is taken and is not inductive, and neither is
`DivisionInvariant`: it speaks of the dividend's bits to come as a word in a shift
register, whose top bit moves into the partial remainder.  The inductive invariant is
`TypeOK`, `ProductInvariant` and

* `Working` - a busy unit holds the divisor and the signs of the instruction in EX;
* `Dividing` - quotient, partial remainder and remaining bits as numbers: after the bits above
  `md_count`, quotient times divisor plus remainder is the dividend without the bits to come;
* `Results` - what is ready is the signed result, until it is taken.

One step of each loop is a lemma about numbers (`2a mod m`, a trial subtraction read by its top
bit); the last part compares the results with the ISA case by case: division by zero and the
signed overflow, which are decided on the operands, and the `*W` forms.

`BusSystem_proofs`, for every size of the memory and of its pages that `SimMemory` assumes (a
number of words; three pages below the bit that addresses drop), every image that fits, every
set of aligned accesses within the address map and of bursts within the memory
(`MapAssumption`), and any number of operations and of characters typed:

* `BusSystemTyped`, `RequestHeld`, `LastBeatAgreed`, `FrontTaken`, `CharactersInOrder`,
  `CharactersShown` - `TypeOK`, `SanityChecksHold`, `LastBeatEndsBurst`, `FrontExists`,
  `CharsInOrder`, `OutputInOrder`.
* `MemoryOfBytes` - `ImplementsByteMemory`: initial states map to initial states, and every step
  to an access performed at its turn, to accesses queued, to a reset or to a stutter.

The master knows its queue, the slave its transaction, and the bus lets each see one beat
of the other.  The invariant says that they are about the same thing: `DbusRight` and
`CacheRight` derive the request lines from the front of the queue; `DeviceRight` and
`BridgeRight` say that the transaction is the request that stands there, and that as many beats are
over on both sides; `ConfregRight` that a flag "available" means a character in the
queue.  The memory of the refinement is `Held`: a write
that the bridge has answered may still be on its way to the AXI memory, so what the master may
rely on is the memory with those beats carried out.  `map` and the writes of a burst are
defined by recursion over a number; that they are well defined is an application of
`Induction`.

`Testbench_proofs`, for any number of workers above none and of tests, and any set of tests that
may fail:

* `TestbenchTyped`, `HonestCount`, `RightVerdict`, `ReadAnswers`, `ReapedAll` - `TypeOK`,
  `CountIsHonest`, `VerdictIsRight`, `AnswersAreRead`, `NoOrphans`.
* `NeverStuck` - until the end the master or a worker has a step to take.
* `RunsAreBounded` - every step uses up some of `Left`, a natural number which is
  `6 * Total + 16 * NWorkers + 7` at the start.

The counts are sums over all workers, so the invariant has to follow every one:
`Protocol` says what a worker and its two pipes can be like, `Placed` that every test handed out is
in a pipe, running, finished or crashed, and in one place only, `Verdict` that the death of a
test leaves a worker that was never told to exit, `Progress` how far the master has come.
`NeverStuck` is where the inherited write ends matter: a worker that reads and gets no EOF
either has its last answer in the pipe or has been killed by the time the master waits for it.
The two last theorems are what `Returns` asks for, but for fairness: together they say that
the runner returns however the processes are scheduled, provided that every test ends.

`Induction`: the library states induction over numbers with an operator as a parameter, which no
installed prover can instantiate.  Its well-foundedness of `<`, which is about a relation, a set of
pairs, can be used: `Least`, `UpTo` and `Recursion` follow from it with sets in the place of predicates.

Only model-checked: what needs fairness (`StallsEnd`, `AllPerformed`, `Returns`, the
fairness part of `ImplementsCore`), which is out of reach of the prover; and the findings, which are
counterexamples.

## 5. Not modelled

* What the ALU, the decoder's bit patterns and the immediates compute, and the alignment of
  loaded data (`memory.sv:32-50`): DataPath takes any value for a result.
* `mip`, `mcause`, `mtval`, `mscratch`, `mcycle`, `mhartid`: nothing in the pipeline
  depends on them.
* The page table walk: `PTEHelper` is a simulator primitive, and a page fault is
  address 0 in `mmu.sv`.
* Bursts of the core: its bridges never ask for one.  The bursts of `bus_system` come from a cache that
  the repository expects and does not have.
* Counter, switches and LEDs of `device.sv`, the text of its greeting.
* The checks of `confreg.cpp` that end the program at a store to UART_LSR or of more than a byte to
  UART_TXD: such stores are not offered.
* Timer, trace and monitor switches of `confreg.cpp`, and the end of its reader thread; the timeouts
  of `await` and `fence`; the memory cells of `cell.h`, which are operators over
  `DBusGen`.  `run_serial` is a loop.  The macros and hooks of `testbench.h` are glue
  around tests that are not in this repository.
* `SimpleArbiter.sv`, `CBusMultiplexer.sv` are used nowhere.
* Tracing, logging, command line, vendored headers, test programs and Vivado IP carry no
  logic of the program.

Of the 12 918 lines of C and C++ in the repository 9 274 are two vendored headers
(`CLI11.hpp`, `nameof.hpp`).  What is left is the harness, 3 644 lines, of which the models stand for
1 380; the rest is tracing, terminal output, option parsing, operator sugar and declarations.
Most of what is modelled is SystemVerilog.

## 6. Plan

1. *Done*: Core, VTop, DataPath, Board, MulDiv, BusSystem with its refinement of ByteMemory, and
   Testbench, each with the proofs of all its safety properties.
2. That `MulDiv` implements the handshake that `Execute` abstracts it to.
3. A bound like `StallsShrink` for the whole board: how many edges its memory, arbiter and
   transmitter can take for an answer.
4. Loads and stores of the core by byte (`memory.sv:32-50`) against the lanes of `BusOps`.
5. Misaligned fetch targets and the legal values of `mtvec` and `mepc`.

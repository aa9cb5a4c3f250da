---------------------------- MODULE Board_proofs ----------------------------
(***************************************************************************)
(* Proofs about Board.tla: the processor on the board is the processor of  *)
(* VTop.tla above one memory, the block memory answers every read with its *)
(* own word, and the serial device sends every character once, for every   *)
(* delay of the memory, length of a bit and ratio of the clocks.           *)
(***************************************************************************)
EXTENDS Board, VTop_proofs, SequenceTheorems

Access == [valid: BOOLEAN, store: {"none", "ram", "tx", "finish", "other"}, char: Char]

----------------------------------------------------------------------------
\* The processor.

\* The board answers only what it is asked.
LEMMA ReadyIsAnswer == ready \in MemResponses
  <1>1. ready \in BOOLEAN
    BY DEF ready
  <1>2. QED
    BY <1>1 DEF ready, MemResponses

LEMMA BoardNextIsTopNext == ASSUME [BoardNext]_boardVars PROVE [TopNext]_topVars
  <1>1. CASE FastEdge
    BY <1>1 DEF FastEdge
  <1>2. ASSUME NEW op \in Ops, NEW o \in EXOutcomes, NEW lines \in LineSets,
               SlowEdge(op, o, lines)
        PROVE  TopNext
    BY <1>2, ReadyIsAnswer DEF SlowEdge, TopNext
  <1>3. CASE UNCHANGED boardVars
    BY <1>3 DEF boardVars
  <1>4. QED
    BY <1>1, <1>2, <1>3 DEF BoardNext

\* The block memory and the device are a memory as VTop.tla asks for: on the board the
\* processor has all the properties of TopSpec.
THEOREM BoardRefinesTop == BoardSpec => TopSpec
  <1>1. BoardInit => TopInit
    BY DEF BoardInit
  <1>2. [BoardNext]_boardVars => [TopNext]_topVars
    BY BoardNextIsTopNext
  <1>3. QED
    BY <1>1, <1>2, PTL DEF BoardSpec, TopSpec

\* The port of the memory: a request stands until it is answered, a data access with
\* its master's, and no request follows an answer at once (CBusArbiter.sv).
LEMMA PortStep ==
    ASSUME TypeOK, CoreInv, TopInv, NEW oresp \in MemResponses, NEW op \in Ops,
           NEW o \in EXOutcomes, NEW lines \in LineSets, TopTick(oresp, op, o, lines),
           oreq.valid
    PROVE  /\ ~oresp => oreq' = oreq /\ (oreq.kind # "fetch" => dreq.valid /\ dreq'.valid)
           /\ oresp => ~oreq'.valid
  <1>1. /\ oresp \in BOOLEAN
        /\ ArbiterTick(asking, resp_out(on, oresp)) /\ MmuTick(on, mmu_req, oresp)
    BY TopTickIsTick
  <1>2. /\ busy => csr' = csr
        /\ busy /\ ~resp_out(on, oresp) => /\ busy' /\ index' = index
                                           /\ ireqs'[index] = ireqs[index]
    BY HolderStands
  <1>3. busy /\ (on => mmu_state = "WAIT" /\ saved_req = ireqs[index])
    BY DEF oreq, req_out, mmu_req, NoReq, TopInv, MmuBehindArbiter
  <1>4. index \in {0, 1} /\ ireqs[index].valid /\ mmu_req = ireqs[index]
    BY <1>3, TheMasters DEF TopInv, ArbiterTypeOK, MmuBehindArbiter, mmu_req
  <1>5. resp_out(on, oresp) = oresp
    BY <1>1, <1>3 DEF resp_out
  <1>6. on' = on
    BY <1>2, <1>3 DEF on
  <1>7. CASE ~oresp
    <2>1. /\ mmu_req' = mmu_req /\ ireqs'[index] = ireqs[index]
      BY <1>2, <1>3, <1>5, <1>7 DEF mmu_req
    <2>2. on => UNCHANGED mmuVars
      BY <1>1, <1>3, <1>7 DEF MmuTick, mmuVars
    <2>3. oreq' = oreq
      BY <1>6, <2>1, <2>2 DEF oreq, req_out, mmuVars
    <2>4. ASSUME oreq.kind # "fetch" PROVE dreq.valid /\ dreq'.valid
      <3>1. ireqs[index].kind # "fetch"
        <4>1. ireqs[index] \in CBusReq
          BY <1>4, RequestType, TheMasters
        <4>2. oreq.kind = ireqs[index].kind
          BY <1>3, <1>4, <4>1 DEF oreq, req_out, CBusReq
        <4>3. QED
          BY <2>4, <4>2
      <3>2. index = 0
        BY <1>4, <3>1, TheMasters DEF icreq
      <3>3. ireqs'[0] = dcreq'
        BY TwoMasters DEF ireqs, Masters
      <3>4. QED
        BY <1>4, <2>1, <3>2, <3>3, TheMasters DEF dcreq
    <2>5. QED
      BY <1>7, <2>3, <2>4
  <1>8. CASE oresp
    <2>1. ~busy'
      BY <1>1, <1>3, <1>5, <1>8 DEF ArbiterTick
    <2>2. mmu_req' = NoReq
      BY <2>1 DEF mmu_req
    <2>3. on => mmu_state' = "IDLE"
      BY <1>1, <1>3, <1>8 DEF MmuTick
    <2>4. QED
      BY <1>6, <1>8, <2>2, <2>3 DEF oreq, req_out, NoReq
  <1>9. QED
    BY <1>1, <1>7, <1>8

----------------------------------------------------------------------------
\* The block memory.

BramTypeOK ==
    /\ counter \in 0..BRAM_DELAY /\ real_valid \in BOOLEAN /\ ready_read \in BOOLEAN
    /\ rdata \in CBusReq

\* real_valid is up for the request on the bus, and ready_read meets a request only when
\* the word it has asked for is there.
RamInv ==
    /\ real_valid => ram_valid /\ counter = BRAM_DELAY
    /\ ready_read /\ ram_valid => real_valid /\ ~writes /\ rdata = oreq

\* What a request is for.
ForInv == phase \in 0..(Ratio - 1) /\ target \in Targets

LEMMA RequestOut == ASSUME TypeOK, TopInv PROVE oreq \in CBusReq
  <1>1. mmu_req \in CBusReq
    BY RequestType, PCAssumption DEF mmu_req, TopInv, ArbiterTypeOK, NoReq, CBusReq
  <1>2. QED
    BY <1>1 DEF oreq, req_out, TopInv, MmuTypeOK, CBusReq

\* A request that is not answered goes where it went before.
LEMMA SlowPort ==
    ASSUME TypeOK, CoreInv, TopInv, NEW op \in Ops, NEW o \in EXOutcomes,
           NEW lines \in LineSets, SlowEdge(op, o, lines), oreq.valid
    PROVE  /\ ~ready => /\ oreq' = oreq /\ to_ram' = to_ram
                        /\ ~to_ram => device_req' = device_req /\ target' = target
           /\ ready => ~oreq'.valid
  <1>1. /\ ~ready => oreq' = oreq /\ (oreq.kind # "fetch" => dreq.valid /\ dreq'.valid)
        /\ ready => ~oreq'.valid
    BY ReadyIsAnswer, PortStep DEF SlowEdge
  <1>2. ASSUME ~ready PROVE oreq' = oreq /\ (oreq.kind # "fetch" => target' = target)
    BY <1>1, <1>2 DEF SlowEdge, TargetTick
  <1>3. ASSUME ~ready
        PROVE  /\ oreq' = oreq /\ to_ram' = to_ram
               /\ ~to_ram => device_req' = device_req /\ target' = target
    <2>1. CASE oreq.kind = "fetch"
      <3>1. to_ram /\ to_ram'
        BY <1>2, <1>3, <2>1 DEF to_ram
      <3>2. QED
        BY <1>2, <1>3, <3>1
    <2>2. CASE oreq.kind # "fetch"
      BY <1>2, <1>3, <2>2 DEF to_ram, device_req, writes
    <2>3. QED
      BY <2>1, <2>2
  <1>4. QED
    BY <1>1, <1>3

LEMMA RamSlow ==
    ASSUME TypeOK, CoreInv, TopInv, BramTypeOK, RamInv, NEW op \in Ops,
           NEW o \in EXOutcomes, NEW lines \in LineSets, SlowEdge(op, o, lines)
    PROVE  (BramTypeOK /\ RamInv)'
  <1>1. BramTick(ram_valid, writes, oreq)
    BY DEF SlowEdge
  <1>2. oreq \in CBusReq /\ BRAM_DELAY \in Nat
    BY RequestOut, BramDelayAssumption
  <1>3. BramTypeOK'
    BY <1>1, <1>2 DEF BramTick, BramTypeOK, ram_valid, ram_ready
  <1>4. ASSUME real_valid' PROVE ram_valid' /\ counter' = BRAM_DELAY
    <2>1. counter = BRAM_DELAY /\ ram_valid /\ ~ram_ready(writes)
      BY <1>1, <1>4 DEF BramTick
    <2>2. ~ready
      BY <2>1 DEF ready, ram_valid
    <2>3. ram_valid'
      BY <2>1, <2>2, SlowPort DEF ram_valid
    <2>4. counter' = counter
      BY <1>1, <2>1 DEF BramTick
    <2>5. QED
      BY <2>1, <2>3, <2>4
  <1>5. ASSUME ready_read', ram_valid' PROVE real_valid' /\ ~writes' /\ rdata' = oreq'
    <2>1. real_valid /\ ram_valid /\ counter = BRAM_DELAY
      BY <1>1, <1>5 DEF BramTick, RamInv
    <2>2. ~ready
      BY <1>5, <2>1, SlowPort DEF ram_valid
    <2>3. ~ram_ready(writes)
      BY <2>1, <2>2 DEF ready, ram_valid
    <2>4. ~writes /\ rdata' = oreq
      BY <1>1, <2>1, <2>3 DEF BramTick, ram_ready
    <2>5. oreq' = oreq /\ real_valid'
      BY <1>1, <2>1, <2>2, <2>3, SlowPort DEF BramTick, ram_valid
    <2>6. QED
      BY <2>4, <2>5 DEF writes
  <1>6. QED
    BY <1>3, <1>4, <1>5 DEF RamInv

----------------------------------------------------------------------------
\* The device.

\* A bit is loaded only when there is one left.
LoadsABit(d) == d.txState = "LOAD_BIT" => d.bitIndex < BIT_INDEX_MAX

\* The character c of a store: not looked at yet, on the line, and sent.
Waits(d) == d.txState = "RDY" /\ d.putchar /\ d.sent = << >>
IsSending(d, c) ==
    /\ d.txState # "RDY" /\ d.sent = << >> /\ d.txData = Frame(c)
    /\ Len(d.line) = d.bitIndex /\ \A k \in 1..d.bitIndex : d.line[k] = Frame(c)[k]
IsSent(d, c) == d.txState = "RDY" /\ ~d.putchar /\ d.sent = <<Frame(c)>>

LEMMA ThreeBits == BIT_INDEX_MAX = 3
  BY DEF BIT_INDEX_MAX, Frame

LEMMA FrameBits ==
    ASSUME NEW f \in {Frame(c) : c \in Char}, NEW k \in 0..2
    PROVE  f[k + 1] \in Char
  BY DeviceAssumption DEF Frame

LEMMA EdgeType ==
    ASSUME NEW d \in DeviceReg, NEW a \in Access, LoadsABit(d)
    PROVE  DeviceEdge(d, a) \in DeviceReg /\ LoadsABit(DeviceEdge(d, a))
  <1> DEFINE e == DeviceEdge(d, a)
  <1>1. /\ BIT_TMR_MAX \in Nat /\ Greeting \in Nat /\ BIT_INDEX_MAX = 3
        /\ 0 \in Char
    BY DeviceAssumption, ThreeBits
  <1>2. /\ d.txState \in {"RDY", "LOAD_BIT", "SEND_BIT"} /\ d.bitTmr \in 0..BIT_TMR_MAX
        /\ d.bitIndex \in 0..3 /\ d.txData \in {Frame(c) : c \in Char}
        /\ d.putchar \in BOOLEAN /\ d.finish \in BOOLEAN /\ d.idx \in -1..Greeting
        /\ d.line \in Seq(Char) /\ d.sent \in Seq(Seq(Char))
    BY <1>1 DEF DeviceReg
  <1>3. a.valid \in BOOLEAN /\ a.char \in Char
    BY DEF Access
  <1>4. txState_next(d, a) \in {"RDY", "LOAD_BIT", "SEND_BIT"}
    BY <1>2 DEF txState_next
  <1>5. (IF tx_ready(d) \/ bitDone(d) THEN 0 ELSE d.bitTmr + 1) \in 0..BIT_TMR_MAX
    BY <1>1, <1>2 DEF bitDone
  <1>6. (IF tx_ready(d) THEN 0 ELSE IF d.txState = "LOAD_BIT" THEN d.bitIndex + 1
                                    ELSE d.bitIndex) \in 0..3
    BY <1>1, <1>2 DEF LoadsABit
  <1>7. (IF send(d, a) THEN Frame(char_data(d, a)) ELSE d.txData) \in {Frame(c) : c \in Char}
    BY <1>1, <1>2, <1>3 DEF char_data
  <1>8. putchar_next(d, a) \in BOOLEAN
    BY <1>2 DEF putchar_next
  <1>9. (d.finish \/ (a.valid /\ a.store = "finish")) \in BOOLEAN
    OBVIOUS
  <1>10. (IF send(d, a) /\ d.finish /\ tx_ready(d) /\ d.idx # -1 THEN d.idx - 1
          ELSE d.idx) \in -1..Greeting
    BY <1>1, <1>2
  <1>11. (IF tx_ready(d) THEN << >>
          ELSE IF d.txState = "LOAD_BIT" THEN Append(d.line, d.txData[d.bitIndex + 1])
          ELSE d.line) \in Seq(Char)
    <2>1. d.txState = "LOAD_BIT" => d.txData[d.bitIndex + 1] \in Char
      BY <1>1, <1>2, FrameBits DEF LoadsABit
    <2>2. QED
      BY <1>2, <2>1
  <1>12. (IF ~a.valid THEN << >>
          ELSE IF ~tx_ready(d) /\ txState_next(d, a) = "RDY" /\ Len(d.sent) < 2
          THEN Append(d.sent, d.line) ELSE d.sent) \in Seq(Seq(Char))
    BY <1>2
  <1>13. e \in DeviceReg
    BY <1>1, <1>4, <1>5, <1>6, <1>7, <1>8, <1>9, <1>10, <1>11, <1>12 DEF DeviceEdge, DeviceReg
  <1>14. LoadsABit(e)
    <2>1. e.txState = txState_next(d, a)
          /\ e.bitIndex = IF tx_ready(d) THEN 0
                          ELSE IF d.txState = "LOAD_BIT" THEN d.bitIndex + 1 ELSE d.bitIndex
      BY DEF DeviceEdge
    <2>2. QED
      BY <1>1, <1>2, <2>1 DEF LoadsABit, txState_next, tx_ready
  <1>15. QED
    BY <1>13, <1>14

\* While its request lines are quiet the device rests, and is ready for a character.
LEMMA EdgeQuiet ==
    ASSUME NEW d \in DeviceReg, NEW a \in Access, d.txState = "RDY", ~d.finish,
           ~stores_char(a)
    PROVE  /\ DeviceEdge(d, a).txState = "RDY"
           /\ ~a.valid => Waits(DeviceEdge(d, a))
  BY DEF DeviceEdge, txState_next, send, Waits, putchar_next

\* A character that is held on the request lines is sent, and sent once.
LEMMA EdgeSends ==
    ASSUME NEW d \in DeviceReg, NEW a \in Access, LoadsABit(d), ~d.finish, stores_char(a)
    PROVE  /\ Waits(d) => IsSending(DeviceEdge(d, a), a.char)
           /\ IsSending(d, a.char) => \/ IsSending(DeviceEdge(d, a), a.char)
                                      \/ IsSent(DeviceEdge(d, a), a.char)
           /\ IsSent(d, a.char) => IsSent(DeviceEdge(d, a), a.char)
  <1> DEFINE e == DeviceEdge(d, a)
             c == a.char
  <1>1. /\ d.txState \in {"RDY", "LOAD_BIT", "SEND_BIT"} /\ d.bitIndex \in 0..3
        /\ d.idx \in -1..Greeting
    BY ThreeBits DEF DeviceReg
  <1>2. send(d, a) /\ char_data(d, a) = c /\ a.valid
    BY DEF send, char_data, stores_char
  <1>3. /\ e.txState = txState_next(d, a) /\ e.txData = Frame(c)
        /\ e.bitIndex = IF tx_ready(d) THEN 0
                        ELSE IF d.txState = "LOAD_BIT" THEN d.bitIndex + 1 ELSE d.bitIndex
        /\ e.line = IF tx_ready(d) THEN << >>
                    ELSE IF d.txState = "LOAD_BIT" THEN Append(d.line, d.txData[d.bitIndex + 1])
                    ELSE d.line
        /\ e.putchar = putchar_next(d, a)
        /\ e.sent = IF ~tx_ready(d) /\ txState_next(d, a) = "RDY" /\ Len(d.sent) < 2
                    THEN Append(d.sent, d.line) ELSE d.sent
    BY <1>2 DEF DeviceEdge
  <1>4. ASSUME Waits(d) PROVE IsSending(e, c)
    BY <1>2, <1>3, <1>4 DEF Waits, IsSending, txState_next, tx_ready
  <1>5. ASSUME IsSent(d, c) PROVE IsSent(e, c)
    BY <1>2, <1>3, <1>5 DEF IsSent, txState_next, tx_ready, putchar_next
  <1>6. ASSUME IsSending(d, c) PROVE IsSending(e, c) \/ IsSent(e, c)
    <2>1. CASE d.txState = "LOAD_BIT"
      <3>1. /\ e.txState = "SEND_BIT" /\ e.bitIndex = d.bitIndex + 1 /\ e.sent = << >>
            /\ e.line = Append(d.line, d.txData[d.bitIndex + 1]) /\ d.bitIndex \in 0..2
        BY <1>1, <1>3, <1>6, <2>1, ThreeBits DEF IsSending, txState_next, tx_ready, LoadsABit
      <3>2. d.txData = Frame(c) /\ Frame(c)[d.bitIndex + 1] \in Char
        BY <1>6, <3>1, FrameBits DEF IsSending, Access
      <3>3. /\ Len(e.line) = d.bitIndex + 1 /\ e.line[d.bitIndex + 1] = Frame(c)[d.bitIndex + 1]
            /\ \A k \in 1..d.bitIndex : e.line[k] = d.line[k]
        BY <1>6, <3>1, <3>2, AppendProperties DEF IsSending, DeviceReg
      <3>4. \A k \in 1..e.bitIndex : e.line[k] = Frame(c)[k]
        BY <1>6, <3>1, <3>3 DEF IsSending
      <3>5. QED
        BY <1>3, <3>1, <3>3, <3>4 DEF IsSending
    <2>2. CASE d.txState = "SEND_BIT" /\ txState_next(d, a) # "RDY"
      BY <1>3, <1>6, <2>2 DEF IsSending, tx_ready
    <2>3. CASE d.txState = "SEND_BIT" /\ txState_next(d, a) = "RDY"
      <3>1. d.bitIndex = 3 /\ d.line = Frame(c) /\ d.sent = << >>
        <4>1. d.bitIndex = 3 /\ d.sent = << >>
          BY <1>6, <2>3, ThreeBits DEF IsSending, txState_next
        <4>2. Frame(c) \in Seq(Char) /\ Len(Frame(c)) = 3
          BY DeviceAssumption DEF Frame, Access
        <4>3. d.line \in Seq(Char) /\ Len(d.line) = 3 /\ \A k \in 1..3 : d.line[k] = Frame(c)[k]
          BY <1>6, <4>1 DEF IsSending, DeviceReg
        <4>4. d.line = Frame(c)
          BY <4>2, <4>3, SeqEqual
        <4>5. QED
          BY <4>1, <4>4
      <3>2. e.txState = "RDY" /\ e.sent = <<Frame(c)>>
        BY <1>3, <2>3, <3>1 DEF tx_ready
      <3>3. ~e.putchar
        BY <1>2, <1>3, <2>3 DEF putchar_next, tx_ready
      <3>4. QED
        BY <3>2, <3>3 DEF IsSent
    <2>4. QED
      BY <1>1, <1>6, <2>1, <2>2, <2>3 DEF IsSending
  <1>7. QED
    BY <1>4, <1>5, <1>6

DeviceInv ==
    /\ device \in DeviceReg /\ LoadsABit(device)
    /\ ~device.finish =>
          /\ device.txState # "RDY" => stores_char(device_req)
          /\ stores_char(device_req) => \/ phase = 0 /\ Waits(device)
                                        \/ IsSending(device, target.char)
                                        \/ IsSent(device, target.char)

LEMMA AccessType == ASSUME ForInv PROVE device_req \in Access
  <1>1. device_req.valid \in BOOLEAN
    BY DEF device_req
  <1>2. target.addr \in {"ram", "tx", "finish", "other"} /\ target.char \in Char
    BY BoardAssumption DEF ForInv, Targets
  <1>3. QED
    BY <1>1, <1>2 DEF device_req, Access

\* What one edge of clk makes of the device, before its request changes.
LEMMA DeviceMoves ==
    ASSUME ForInv, DeviceInv, device' = DeviceEdge(device, device_req)
    PROVE  /\ device' \in DeviceReg /\ LoadsABit(device')
           /\ ~device'.finish => ~device.finish
           /\ ~device.finish /\ stores_char(device_req) =>
                 \/ IsSending(device', target.char)
                 \/ IsSent(device', target.char)
           /\ ~device.finish /\ ~stores_char(device_req) =>
                 device'.txState = "RDY" /\ (~device_req.valid => Waits(device'))
  <1>1. device \in DeviceReg /\ LoadsABit(device) /\ device_req \in Access
    BY AccessType DEF DeviceInv
  <1>2. device' \in DeviceReg /\ LoadsABit(device')
    BY <1>1, EdgeType
  <1>3. ~device'.finish => ~device.finish
    BY DEF DeviceEdge
  <1>4. device_req.char = target.char
    BY DEF device_req
  <1>5. ASSUME ~device.finish, stores_char(device_req)
        PROVE  IsSending(device', target.char) \/ IsSent(device', target.char)
    BY <1>1, <1>4, <1>5, EdgeSends DEF DeviceInv
  <1>6. ASSUME ~device.finish, ~stores_char(device_req)
        PROVE  device'.txState = "RDY" /\ (~device_req.valid => Waits(device'))
    BY <1>1, <1>6, EdgeQuiet DEF DeviceInv
  <1>7. QED
    BY <1>2, <1>3, <1>5, <1>6

LEMMA DeviceFast ==
    ASSUME ForInv, DeviceInv, FastEdge
    PROVE  (ForInv /\ DeviceInv)'
  <1>1. /\ device' = DeviceEdge(device, device_req) /\ target' = target
        /\ phase' = phase + 1 /\ phase # Ratio - 1
    BY DEF FastEdge
  <1>2. oreq' = oreq
    BY DEF FastEdge, topVars, vars, memoryVars, fetchVars, arbiterVars, mmuVars, oreq,
       req_out, on, mmu_req, ireqs, dcreq, icreq
  <1>3. device_req' = device_req
    BY <1>1, <1>2 DEF device_req, to_ram, writes
  <1>4. ForInv'
    BY <1>1, BoardAssumption DEF ForInv
  <1>5. DeviceInv'
    BY <1>1, <1>3, DeviceMoves DEF DeviceInv, IsSent
  <1>6. QED
    BY <1>4, <1>5

LEMMA DeviceSlow ==
    ASSUME TypeOK, CoreInv, TopInv, ForInv, DeviceInv, NEW op \in Ops,
           NEW o \in EXOutcomes, NEW lines \in LineSets, SlowEdge(op, o, lines)
    PROVE  (ForInv /\ DeviceInv)'
  <1>1. /\ device' = DeviceEdge(device, device_req)
        /\ phase = Ratio - 1 /\ phase' = 0 /\ TargetTick
    BY DEF SlowEdge
  <1>2. phase # 0 /\ ForInv'
    BY <1>1, BoardAssumption, DeviceAssumption DEF ForInv, TargetTick, Targets, NoTarget
  <1>3. /\ device' \in DeviceReg /\ LoadsABit(device')
        /\ ~device'.finish => ~device.finish
        /\ ~device.finish /\ stores_char(device_req) =>
              \/ IsSending(device', target.char)
              \/ IsSent(device', target.char)
        /\ ~device.finish /\ ~stores_char(device_req) =>
              device'.txState = "RDY" /\ (~device_req.valid => Waits(device'))
    BY <1>1, DeviceMoves
  <1>4. ASSUME ~device'.finish
        PROVE  /\ device'.txState # "RDY" => stores_char(device_req)'
               /\ stores_char(device_req)' => \/ phase' = 0 /\ Waits(device')
                                              \/ IsSending(device', target'.char)
                                              \/ IsSent(device', target'.char)
    <2>1. CASE stores_char(device_req)
      <3>1. oreq.valid /\ ~to_ram
        BY <2>1 DEF stores_char, device_req
      <3>2. CASE ready
        <4>1. IsSent(device, target.char)
          BY <1>2, <1>3, <1>4, <2>1, <3>1, <3>2
          DEF DeviceInv, ready, tx_ready, IsSending
        <4>2. device_req.char = target.char /\ device_req \in Access
          BY AccessType DEF device_req
        <4>3. IsSent(device', target.char)
          BY <1>1, <1>3, <1>4, <2>1, <4>1, <4>2, EdgeSends DEF DeviceInv
        <4>4. ~stores_char(device_req)'
          BY <3>1, <3>2, SlowPort DEF stores_char, device_req
        <4>5. QED
          BY <4>3, <4>4 DEF IsSent
      <3>3. CASE ~ready
        <4>1. device_req' = device_req /\ target' = target
          BY <3>1, <3>3, SlowPort
        <4>2. QED
          BY <1>3, <1>4, <2>1, <4>1
      <3>4. QED
        BY <3>2, <3>3
    <2>2. CASE ~stores_char(device_req)
      <3>1. device'.txState = "RDY"
        BY <1>3, <1>4, <2>2
      <3>2. ASSUME stores_char(device_req)' PROVE ~oreq.valid
        <4>1. oreq'.valid /\ ~to_ram'
          BY <3>2 DEF stores_char, device_req
        <4>2. QED
          BY <2>2, <3>2, <4>1, SlowPort
      <3>3. stores_char(device_req)' => Waits(device')
        BY <1>3, <1>4, <2>2, <3>2 DEF device_req
      <3>4. QED
        BY <1>1, <3>1, <3>3
    <2>3. QED
      BY <2>1, <2>2
  <1>5. QED
    BY <1>2, <1>3, <1>4 DEF DeviceInv

----------------------------------------------------------------------------
\* The invariant and what follows from it.

BoardInv == BramTypeOK /\ RamInv /\ ForInv /\ DeviceInv

LEMMA InitBoardInv == BoardInit => BoardInv
  <1> SUFFICES ASSUME BoardInit PROVE BoardInv
    OBVIOUS
  <1>1. BramTypeOK /\ RamInv
    <2>1. NoReq \in CBusReq /\ BRAM_DELAY \in Nat
      BY PCAssumption, BramDelayAssumption DEF NoReq, CBusReq
    <2>2. counter = 0 /\ real_valid = FALSE /\ ready_read = FALSE /\ rdata = NoReq
      BY DEF BoardInit, BramInit
    <2>3. BramTypeOK
      <3>1. 0 \in 0..BRAM_DELAY
        BY <2>1
      <3>2. QED
        BY <2>1, <2>2, <3>1, Zenon DEF BramTypeOK
    <2>4. ~real_valid /\ ~ready_read
      BY <2>2
    <2>5. QED
      BY <2>3, <2>4 DEF RamInv
  <1>2. ForInv
    BY BoardAssumption, DeviceAssumption DEF BoardInit, ForInv, Targets, NoTarget
  <1>3. device = DeviceReset /\ phase = 0
    BY DEF BoardInit
  <1>4. device \in DeviceReg
    <2>1. 0 \in Char /\ BIT_TMR_MAX \in Nat /\ Greeting \in Nat
      BY DeviceAssumption
    <2>2. QED
      BY <1>3, <2>1, ThreeBits DEF DeviceReset, DeviceReg
  <1>5. DeviceInv
    BY <1>3, <1>4 DEF DeviceInv, DeviceReset, LoadsABit, Waits
  <1>6. QED
    BY <1>1, <1>2, <1>5 DEF BoardInv

LEMMA BoardInvStep ==
    ASSUME TypeOK, CoreInv, TopInv, BoardInv, [BoardNext]_boardVars
    PROVE  BoardInv'
  <1>1. ASSUME UNCHANGED <<topVars, bramVars, target>>
        PROVE  (BramTypeOK /\ RamInv)' /\ oreq' = oreq /\ device_req' = device_req
    <2>1. oreq' = oreq
      BY <1>1 DEF topVars, vars, memoryVars, fetchVars, arbiterVars, mmuVars, oreq,
         req_out, on, mmu_req, ireqs, dcreq, icreq
    <2>2. QED
      BY <1>1, <2>1 DEF bramVars, BoardInv, BramTypeOK, RamInv, ram_valid, to_ram, writes,
         device_req
  <1>2. CASE FastEdge
    BY <1>1, <1>2, DeviceFast DEF FastEdge, BoardInv
  <1>3. ASSUME NEW op \in Ops, NEW o \in EXOutcomes, NEW lines \in LineSets,
               SlowEdge(op, o, lines)
        PROVE  BoardInv'
    BY <1>3, RamSlow, DeviceSlow DEF BoardInv
  <1>4. CASE UNCHANGED boardVars
    BY <1>1, <1>4 DEF boardVars, BoardInv, ForInv, DeviceInv
  <1>5. QED
    BY <1>2, <1>3, <1>4 DEF BoardNext

\* The inductive invariant of the board, above that of the processor.
THEOREM BoardInvariant == BoardSpec => []BoardInv
  <1>1. TypeInv => TypeOK
    BY DEF TypeInv
  <1>2. TypeInv /\ CoreInv /\ TopInv /\ BoardInv /\ [BoardNext]_boardVars => BoardInv'
    BY <1>1, BoardInvStep
  <1>3. QED
    BY <1>2, InitBoardInv, BoardRefinesTop, TopInvariant, PTL DEF BoardSpec

\* Every register of the board holds a value of its type.
THEOREM BoardTypeCorrect == BoardSpec => []BoardTypeOK
  <1>1. TopTypeOK /\ BoardInv => BoardTypeOK
    BY DEF BoardInv, BramTypeOK, ForInv, DeviceInv, BoardTypeOK
  <1>2. QED
    BY <1>1, BoardInvariant, BoardRefinesTop, TopTypeCorrect, PTL

\* A fetch or a load gets the word it has asked for, for every delay of the memory
\* (bram_wrapper.sv).
THEOREM RamAnswersRight == BoardSpec => []RamReadsOwnWord
  <1>1. BoardInv => RamReadsOwnWord
    BY DEF BoardInv, RamInv, RamReadsOwnWord, ready, ram_ready, ram_valid
  <1>2. QED
    BY <1>1, BoardInvariant, PTL

\* Every character stored to TX_DATA is sent whole and once before the store is answered,
\* for every length of a bit and every ratio of the clocks above one (device.sv).
THEOREM CharactersAreSentOnce == BoardSpec => []CharsSentOnce
  <1>1. ASSUME BoardInv PROVE CharsSentOnce
    <2>1. phase = Ratio - 1 => phase # 0
      BY BoardAssumption
    <2>2. stores_char(device_req) /\ ready => device.txState = "RDY"
      BY DEF stores_char, device_req, ready, tx_ready
    <2>3. QED
      BY <1>1, <2>1, <2>2 DEF BoardInv, DeviceInv, CharsSentOnce, IsSending, IsSent
  <1>2. QED
    BY <1>1, BoardInvariant, PTL
=============================================================================

-------------------------------- MODULE VTop --------------------------------
(***************************************************************************)
(* VTop.sv and SimTop.sv: the core, the bridges from its two buses to the  *)
(* cache bus, the arbiter and the MMU in front of one memory.  Every       *)
(* transaction has one word (DBusToCBus.sv: len = MLEN1), so the ready and *)
(* last signals of an answer come together.                                *)
(***************************************************************************)
EXTENDS Core, Arbiter, Mmu

ASSUME TwoMasters == NUM_INPUTS = 2

topVars == <<vars, arbiterVars, mmuVars>>

\* The bridges: the requests of the core as cache-bus requests.  The address of
\* a data access is not modelled.
dcreq == [valid |-> dreq.valid, kind |-> dreq.kind, addr |-> PCINIT,
          translated |-> FALSE]
icreq == [valid |-> ireq.valid, kind |-> "fetch", addr |-> ireq.addr,
          translated |-> FALSE]

\* ireqs({icreq, dcreq}): the data bus is master 0, the instruction bus master 1.
ireqs == [i \in Masters |-> IF i = 0 THEN dcreq ELSE icreq]
asking == {i \in Masters : ireqs[i].valid}

\* The wire is priv_mode, which is csr'.priv.  While a request is out it is csr.priv
\* (TranslationStable), and without one the MMU rests whatever the privilege.
on == mmu_on(csr.priv, csr.satp)

\* The request behind the arbiter and the request the memory sees.
mmu_req == IF busy THEN ireqs[index] ELSE NoReq
oreq    == req_out(on, mmu_req)

TopInit == Init /\ ArbiterInit /\ MmuInit

\* One clock edge.  oresp: the memory answers; op: the instruction it delivers
\* if the answer is for the instruction bus; o and lines as in Core.
TopTick(oresp, op, o, lines) ==
    LET mmu_resp == resp_out(on, oresp)
    IN  /\ Tick(IF iresps(1, mmu_resp) THEN {op} ELSE {}, iresps(0, mmu_resp), o, lines)
        /\ ArbiterTick(asking, mmu_resp)
        /\ MmuTick(on, mmu_req, oresp)

\* The memory answers only while it is asked.
MemResponses == IF oreq.valid THEN BOOLEAN ELSE {FALSE}

TopNext == \E oresp \in MemResponses, op \in Ops, o \in EXOutcomes, lines \in LineSets :
              TopTick(oresp, op, o, lines)

TopSpec == TopInit /\ [][TopNext]_topVars

MemAnswer == /\ oreq.valid
             /\ \E op \in Ops, o \in EXOutcomes, lines \in LineSets :
                   TopTick(TRUE, op, o, lines)

\* The clock never stops and the memory answers some day.
FairTopSpec == TopSpec /\ WF_topVars(TopNext) /\ WF_topVars(MemAnswer)

----------------------------------------------------------------------------
\* Properties.

\* Every register of the path holds a value of its type.
TopTypeOK == TypeOK /\ ArbiterTypeOK /\ MmuTypeOK

\* README 3.3: an answer reaches the bus that asked, for the address it asked,
\* translated exactly when the privilege and satp of the core say so.
AnswersAreOwn ==
    [][/\ fetch_in_progress /\ if_id'.valid /\ ~fetch_in_progress'
             => /\ oreq.valid /\ oreq.kind = "fetch" /\ oreq.addr = if_id'.pc
                /\ oreq.translated = (csr.priv # M /\ csr.satp)
       /\ mem_in_progress /\ ~mem_in_progress'
             => /\ oreq.valid /\ oreq.kind = ex_mem.mem
                /\ oreq.translated = (csr.priv # M /\ csr.satp)]_topVars

\* cbus_device.cpp asserts that the request does not change during a
\* transaction: once the memory sees it, it stays as it is until it is answered.
MemRequestStands ==
    [][oreq.valid => oreq' = oreq \/ (ireqs[index].valid /\ ~ireqs[index]'.valid)]_topVars

\* The core above the arbiter, the MMU and one slow memory behaves as the core
\* alone does above two independent buses that answer: neither bus starves.
ImplementsCore == FairSpec

\* The MMU works for the master that holds the port.
MmuBehindArbiter ==
    /\ busy => ireqs[index].valid
    /\ mmu_state # "IDLE" => on /\ busy /\ saved_req = ireqs[index]
    /\ mmu_state = "WAIT" => paddr = saved_req.addr
    /\ pte_hold => mmu_state = "PTE"
=============================================================================

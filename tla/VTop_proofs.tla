----------------------------- MODULE VTop_proofs -----------------------------
(***************************************************************************)
(* Proofs about VTop.tla: every behaviour of the core behind the arbiter   *)
(* and the MMU is a behaviour of the core alone, which makes the theorems  *)
(* of Core_proofs.tla available, and with them the answers are shown to    *)
(* reach the bus that asked.                                               *)
(***************************************************************************)
EXTENDS VTop, Core_proofs

TopInv == ArbiterTypeOK /\ MmuTypeOK /\ MmuBehindArbiter

\* The inputs the core sees when the memory answers oresp with instruction op.
IResp(oresp, op) == IF iresps(1, resp_out(on, oresp)) THEN {op} ELSE {}
DResp(oresp) == iresps(0, resp_out(on, oresp))

\* What the two masters ask.
LEMMA TheMasters ==
    /\ Masters = {0, 1} /\ ireqs[0] = dcreq /\ ireqs[1] = icreq
    /\ dcreq.valid = dreq.valid /\ icreq.valid = ireq.valid
  BY TwoMasters DEF Masters, ireqs, dcreq, icreq

\* The path never answers a bus that does not ask.
LEMMA AnswersAreInputs ==
    ASSUME TypeOK, TopInv, NEW oresp \in MemResponses, NEW op \in Ops,
           NEW o \in EXOutcomes, NEW lines \in LineSets
    PROVE  Inputs(IResp(oresp, op), DResp(oresp), o, lines)
  <1>1. oresp \in BOOLEAN
    BY DEF MemResponses
  <1>2. iresps(1, resp_out(on, oresp)) => ireq.valid
    BY TheMasters DEF iresps, TopInv, MmuBehindArbiter
  <1>3. iresps(0, resp_out(on, oresp)) => dreq.valid
    BY TheMasters DEF iresps, TopInv, MmuBehindArbiter
  <1>4. IResp(oresp, op) \in IBusResponses
    BY <1>2 DEF IResp, IBusResponses
  <1>5. DResp(oresp) \in BOOLEAN
    BY <1>1 DEF DResp, iresps, resp_out, TopInv, ArbiterTypeOK
  <1>6. DResp(oresp) \in DBusResponses
    BY <1>3, <1>5 DEF DResp, DBusResponses
  <1>7. QED
    BY <1>4, <1>6 DEF Inputs

\* A bus that is not answered keeps its request, and the MMU inputs hold still
\* while a request is out.
LEMMA Outstanding ==
    ASSUME TypeOK, CoreInv, NEW iresp, NEW ok \in BOOLEAN, NEW o, NEW lines,
           Inputs(iresp, ok, o, lines), Tick(iresp, ok, o, lines)
    PROVE  /\ ireq.valid /\ iresp = {} => ireq' = ireq /\ UNCHANGED fetchVars
           /\ ireq.valid /\ iresp # {} => ~ireq'.valid /\ if_id'.pc = ireq.addr
           /\ dreq.valid /\ ~ok => dreq' = dreq /\ mem_in_progress'
           /\ dreq.valid /\ ok => ~dreq'.valid
           /\ ireq.valid \/ dreq.valid => csr' = csr /\ ex_mem' = ex_mem
  <1>1. CASE step
    BY <1>1, Step DEF CoreInv, FetchHandshake
  <1>2. CASE ~step
    <2>1. NoMove /\ BusTick(FALSE, FALSE, ex_mem, ok)
      BY <1>2, Stall
    <2>2. /\ interrupt_fire(o, lines) = FALSE /\ trap_fire(step, id_ex, o) = FALSE
          /\ redirect_valid(step, id_ex, o) = FALSE /\ step = FALSE
      BY <1>2, WireType DEF interrupt_fire, trap_fire, redirect_valid
    <2>3. ASSUME ireq.valid, iresp = {} PROVE UNCHANGED fetchVars
      BY <2>2, <2>3 DEF Tick, FetchTick
    <2>4. ASSUME ireq.valid, iresp # {} PROVE ~ireq'.valid /\ if_id'.pc = ireq.addr
      <3>1. PICK op \in iresp : FetchResponse(op)
        BY <2>2, <2>4 DEF Tick, FetchTick, CoreInv, FetchHandshake
      <3>2. QED
        BY <2>4, <3>1 DEF FetchResponse, CoreInv, FetchHandshake, TypeOK, FetchTypeOK
    <2>5. dreq.valid => mem_in_progress
      BY DEF CoreInv, DataHandshake
    <2>6. dreq.valid /\ ~ok => dreq' = dreq /\ mem_in_progress'
      BY <2>1, <2>5 DEF BusTick
    <2>7. dreq.valid /\ ok => ~dreq'.valid
      BY <2>1, <2>5 DEF BusTick, TypeOK, MemoryTypeOK
    <2>8. QED
      BY <2>1, <2>3, <2>4, <2>6, <2>7 DEF NoMove, fetchVars
  <1>3. QED
    BY <1>1, <1>2

\* What one edge does to the path, written with the inputs the core sees.
LEMMA TopTickIsTick ==
    ASSUME TypeOK, CoreInv, TopInv, NEW oresp \in MemResponses, NEW op \in Ops,
           NEW o \in EXOutcomes, NEW lines \in LineSets, TopTick(oresp, op, o, lines)
    PROVE  /\ oresp \in BOOLEAN /\ resp_out(on, oresp) \in BOOLEAN
           /\ Inputs(IResp(oresp, op), DResp(oresp), o, lines)
           /\ Tick(IResp(oresp, op), DResp(oresp), o, lines)
           /\ ArbiterTick(asking, resp_out(on, oresp))
           /\ MmuTick(on, mmu_req, oresp)
  <1>1. oresp \in BOOLEAN /\ resp_out(on, oresp) \in BOOLEAN
    BY DEF MemResponses, resp_out, TopInv, MmuTypeOK
  <1>2. QED
    BY <1>1, AnswersAreInputs DEF TopTick, IResp, DResp

\* Every step of the composition is a step of the core alone.
LEMMA TopNextIsNext ==
    ASSUME TypeOK, CoreInv, TopInv, TopNext
    PROVE  Next
  <1>1. PICK oresp \in MemResponses, op \in Ops, o \in EXOutcomes, lines \in LineSets :
            TopTick(oresp, op, o, lines)
    BY DEF TopNext
  <1>2. /\ Inputs(IResp(oresp, op), DResp(oresp), o, lines)
        /\ Tick(IResp(oresp, op), DResp(oresp), o, lines)
    BY <1>1, TopTickIsTick
  <1>3. QED
    BY <1>2 DEF Next, Inputs

\* The request of the master that holds the port stands until it is answered; a
\* free port goes to a master whose request stands.
LEMMA HolderStands ==
    ASSUME TypeOK, CoreInv, TopInv, NEW oresp \in MemResponses, NEW op \in Ops,
           NEW o \in EXOutcomes, NEW lines \in LineSets, TopTick(oresp, op, o, lines)
    PROVE  /\ busy => csr' = csr
           /\ busy /\ ~resp_out(on, oresp) => /\ busy' /\ index' = index
                                              /\ ireqs'[index] = ireqs[index]
           /\ busy /\ resp_out(on, oresp) => ~busy'
           /\ busy' => ireqs'[index'].valid
  <1> DEFINE ir == IResp(oresp, op)
             dr == DResp(oresp)
             resp == resp_out(on, oresp)
  <1>1. /\ resp \in BOOLEAN /\ Inputs(ir, dr, o, lines) /\ Tick(ir, dr, o, lines)
        /\ ArbiterTick(asking, resp)
    BY TopTickIsTick
  <1>2. dr \in BOOLEAN
    BY <1>1 DEF DResp, iresps, TopInv, ArbiterTypeOK
  <1>3. /\ ireq.valid /\ ir = {} => ireq' = ireq
        /\ dreq.valid /\ ~dr => dreq' = dreq
        /\ ireq.valid \/ dreq.valid => csr' = csr
    BY <1>1, <1>2, Outstanding
  <1>4. /\ ~(busy /\ index = 1 /\ resp) => ir = {}
        /\ ~(busy /\ index = 0 /\ resp) => ~dr
    BY DEF IResp, DResp, iresps
  <1>5. busy => index \in {0, 1} /\ ireqs[index].valid
    BY TheMasters DEF TopInv, ArbiterTypeOK, MmuBehindArbiter
  <1>6. /\ ireqs' = [i \in Masters |-> IF i = 0 THEN dcreq' ELSE icreq']
        /\ ireqs'[0] = dcreq' /\ ireqs'[1] = icreq'
    BY TwoMasters DEF ireqs, Masters
  <1>7. /\ ireq' = ireq => icreq' = icreq
        /\ dreq' = dreq => dcreq' = dcreq
    BY DEF icreq, dcreq
  <1>8. ASSUME busy, ~resp PROVE busy' /\ index' = index /\ ireqs'[index] = ireqs[index]
    <2>1. busy' /\ index' = index
      BY <1>1, <1>8 DEF ArbiterTick
    <2>2. index = 0 => ireqs'[0] = ireqs[0]
      BY <1>3, <1>4, <1>5, <1>6, <1>7, <1>8, TheMasters
    <2>3. index = 1 => ireqs'[1] = ireqs[1]
      BY <1>3, <1>4, <1>5, <1>6, <1>7, <1>8, TheMasters
    <2>4. QED
      BY <1>5, <1>8, <2>1, <2>2, <2>3
  <1>9. ASSUME busy, resp PROVE ~busy'
    BY <1>1, <1>9 DEF ArbiterTick
  <1>10. ASSUME ~busy, busy' PROVE ireqs'[index'].valid
    <2>1. asking # {} /\ index' = select(asking)
      BY <1>1, <1>10 DEF ArbiterTick
    <2>2. asking \subseteq {0, 1} /\ asking = {i \in {0, 1} : ireqs[i].valid}
      BY TheMasters DEF asking
    <2>3. \E i \in asking : \A j \in asking : i <= j
      BY <2>1, <2>2
    <2>4. index' \in asking
      BY <2>1, <2>3 DEF select
    <2>5. ireqs'[0] = ireqs[0] \/ ~dreq.valid
      BY <1>3, <1>4, <1>6, <1>7, <1>10, TheMasters
    <2>6. ireqs'[1] = ireqs[1] \/ ~ireq.valid
      BY <1>3, <1>4, <1>6, <1>7, <1>10, TheMasters
    <2>7. QED
      BY <2>2, <2>4, <2>5, <2>6, TheMasters
  <1>11. busy => csr' = csr
    BY <1>3, <1>5, TheMasters
  <1>12. QED
    BY <1>5, <1>8, <1>9, <1>10, <1>11

----------------------------------------------------------------------------
\* The inductive invariant.

LEMMA InitTopInv == TopInit => TopInv
  <1> SUFFICES ASSUME TopInit PROVE TopInv
    OBVIOUS
  <1>1. ArbiterTypeOK
    BY TheMasters DEF TopInit, ArbiterInit, ArbiterTypeOK
  <1>2. MmuTypeOK /\ MmuBehindArbiter
    BY PCAssumption DEF TopInit, ArbiterInit, MmuInit, MmuTypeOK, MmuBehindArbiter,
       NoReq, CBusReq
  <1>3. QED
    BY <1>1, <1>2 DEF TopInv

\* What a master asks is a cache-bus request.
LEMMA RequestType ==
    ASSUME TypeOK, NEW i \in Masters
    PROVE  ireqs[i] \in CBusReq
  <1>1. dcreq \in CBusReq /\ icreq \in CBusReq
    BY PCAssumption DEF dcreq, icreq, CBusReq, TypeOK, FetchTypeOK, MemoryTypeOK
  <1>2. QED
    BY <1>1 DEF ireqs

LEMMA TopInvTick ==
    ASSUME TypeOK, CoreInv, TopInv, NEW oresp \in MemResponses, NEW op \in Ops,
           NEW o \in EXOutcomes, NEW lines \in LineSets, TopTick(oresp, op, o, lines)
    PROVE  TopInv'
  <1>1. /\ oresp \in BOOLEAN /\ resp_out(on, oresp) \in BOOLEAN
        /\ ArbiterTick(asking, resp_out(on, oresp))
        /\ MmuTick(on, mmu_req, oresp)
    BY TopTickIsTick
  <1>2. /\ busy => csr' = csr
        /\ busy /\ ~resp_out(on, oresp) => /\ busy' /\ index' = index
                                           /\ ireqs'[index] = ireqs[index]
        /\ busy /\ resp_out(on, oresp) => ~busy'
        /\ busy' => ireqs'[index'].valid
    BY HolderStands
  <1>3. on \in BOOLEAN /\ (busy => on' = on)
    BY <1>2 DEF on, mmu_on
  <1>4. /\ ArbiterTypeOK /\ MmuTypeOK
        /\ busy => ireqs[index].valid
        /\ mmu_state # "IDLE" => on /\ busy /\ saved_req = ireqs[index]
        /\ mmu_state = "WAIT" => paddr = saved_req.addr
        /\ pte_hold => mmu_state = "PTE"
    BY DEF TopInv, MmuBehindArbiter
  <1>5. ArbiterTypeOK'
    <2>1. select(asking) \in Masters
      <3>1. asking \subseteq {0, 1} /\ 0 \in Masters /\ Masters = {0, 1}
        BY TheMasters DEF asking
      <3>2. asking # {} => asking = {0} \/ asking = {1} \/ asking = {0, 1}
        BY <3>1
      <3>3. asking # {} => \E i \in asking : \A j \in asking : i <= j
        BY <3>2
      <3>4. QED
        BY <3>1, <3>3 DEF select
    <2>2. QED
      BY <1>1, <1>4, <2>1 DEF ArbiterTick, ArbiterTypeOK
  <1>6. mmu_req \in CBusReq /\ (busy => mmu_req = ireqs[index]) /\ (~busy => ~mmu_req.valid)
    <2>1. NoReq \in CBusReq /\ ~NoReq.valid
      BY PCAssumption DEF NoReq, CBusReq
    <2>2. QED
      BY <1>4, <2>1, RequestType DEF mmu_req, ArbiterTypeOK
  <1>7. MmuTypeOK'
    BY <1>1, <1>4, <1>6 DEF MmuTick, MmuTypeOK, mmuVars, CBusReq
  <1>8. mmu_state' # "IDLE" => /\ mmu_state \in {"IDLE", "PTE", "WAIT"} /\ on /\ busy
                               /\ ~resp_out(on, oresp) /\ saved_req' = ireqs[index]
    BY <1>1, <1>4, <1>6 DEF MmuTick, MmuTypeOK, resp_out
  <1>9. mmu_state' # "IDLE" => on' /\ busy' /\ saved_req' = ireqs'[index']
    BY <1>2, <1>3, <1>8
  <1>10. /\ mmu_state' = "WAIT" => paddr' = saved_req'.addr
         /\ pte_hold' => mmu_state' = "PTE"
    BY <1>1, <1>4 DEF MmuTick
  <1>11. MmuBehindArbiter'
    BY <1>2, <1>9, <1>10 DEF MmuBehindArbiter
  <1>12. QED
    BY <1>5, <1>7, <1>11 DEF TopInv

\* The path invariant together with the core's.  The core's step is known to be a
\* step of Core only under the path invariant, so the two are proved together.
THEOREM TopInvariant == TopSpec => [](TypeInv /\ CoreInv /\ TopInv)
  <1>1. TopInit => TypeInv /\ CoreInv /\ TopInv
    BY InitTypeInv, InitCoreInv, InitTopInv DEF TopInit
  <1>2. ASSUME TypeInv, CoreInv, TopInv, TopNext PROVE (TypeInv /\ CoreInv /\ TopInv)'
    <2>1. TypeOK
      BY <1>2 DEF TypeInv
    <2>2. PICK oresp \in MemResponses, op \in Ops, o \in EXOutcomes, lines \in LineSets :
              TopTick(oresp, op, o, lines)
      BY <1>2 DEF TopNext
    <2>3. Next
      BY <1>2, <2>1, TopNextIsNext
    <2>4. (TypeInv /\ CoreInv)'
      BY <1>2, <2>3, NextInvariant
    <2>5. TopInv'
      BY <1>2, <2>1, <2>2, TopInvTick
    <2>6. QED
      BY <2>4, <2>5
  <1>3. ASSUME TypeInv, CoreInv, TopInv, UNCHANGED topVars
        PROVE  (TypeInv /\ CoreInv /\ TopInv)'
    <2>1. UNCHANGED vars
      BY <1>3 DEF topVars
    <2>2. (TypeInv /\ CoreInv)'
      BY <1>3, <2>1, NextInvariant
    <2>3. TopInv'
      BY <1>3 DEF topVars, vars, fetchVars, memoryVars, arbiterVars, mmuVars, TopInv,
         ArbiterTypeOK, MmuTypeOK, MmuBehindArbiter, ireqs, dcreq, icreq, on
    <2>4. QED
      BY <2>2, <2>3
  <1>4. TypeInv /\ CoreInv /\ TopInv /\ [TopNext]_topVars => (TypeInv /\ CoreInv /\ TopInv)'
    BY <1>2, <1>3
  <1>5. QED
    BY <1>1, <1>4, PTL DEF TopSpec

\* Every register of the processor has its type (the structs of common.sv and core.sv).
THEOREM TopTypeCorrect == TopSpec => []TopTypeOK
  <1>1. TypeInv /\ TopInv => TopTypeOK
    BY DEF TypeInv, TopInv, TopTypeOK
  <1>2. QED
    BY <1>1, TopInvariant, PTL

\* The MMU works for the master that holds the port, and for its live request
\* (mmu.sv saves a copy, CBusArbiter.sv forwards the request itself).
THEOREM MmuServesTheHolder == TopSpec => []MmuBehindArbiter
  <1>1. TopInv => MmuBehindArbiter
    BY DEF TopInv
  <1>2. QED
    BY <1>1, TopInvariant, PTL

\* Above the arbiter, the MMU and one memory the core behaves as it does above
\* two independent buses (the safety part of ImplementsCore).
THEOREM RefinesCore == TopSpec => Spec
  <1>1. TopInit => Init
    BY DEF TopInit
  <1>2. TypeInv /\ CoreInv /\ TopInv /\ [TopNext]_topVars => [Next]_vars
    BY TopNextIsNext DEF TypeInv, topVars
  <1>3. QED
    BY <1>1, <1>2, TopInvariant, PTL DEF TopSpec, Spec

----------------------------------------------------------------------------
\* The answers.

\* An answer of the memory is for the request of the master that holds the port.
LEMMA OnTheBus ==
    ASSUME TypeOK, TopInv, NEW oresp \in MemResponses, busy, resp_out(on, oresp)
    PROVE  /\ oreq.valid /\ oreq.kind = ireqs[index].kind /\ oreq.addr = ireqs[index].addr
           /\ oreq.translated = (csr.priv # M /\ csr.satp)
  <1>1. /\ ireqs[index].valid /\ ireqs[index] \in CBusReq /\ ~ireqs[index].translated
        /\ mmu_req = ireqs[index]
    BY TheMasters, RequestType DEF TopInv, MmuBehindArbiter, ArbiterTypeOK, mmu_req, dcreq, icreq
  <1>2. csr.satp \in BOOLEAN
    BY DEF TypeOK, CsrTypeOK, Csr
  <1>3. CASE ~on
    <2>1. oreq = ireqs[index]
      BY <1>1, <1>3 DEF oreq, req_out
    <2>2. QED
      BY <1>1, <1>2, <1>3, <2>1 DEF on, mmu_on, CBusReq
  <1>4. CASE on
    <2>1. mmu_state = "WAIT" /\ saved_req = ireqs[index] /\ paddr = ireqs[index].addr
      BY <1>4 DEF resp_out, TopInv, MmuBehindArbiter
    <2>2. oreq = [ireqs[index] EXCEPT !.valid = TRUE, !.addr = paddr, !.translated = TRUE]
      BY <1>4, <2>1 DEF oreq, req_out
    <2>3. QED
      BY <1>1, <1>2, <1>4, <2>1, <2>2 DEF on, mmu_on, CBusReq
  <1>5. QED
    BY <1>3, <1>4

\* An answer reaches the bus that asked, for the address it asked, translated as
\* the privilege and satp say (CBusArbiter.sv, mmu.sv).
THEOREM AnswersReachTheirOwner == TopSpec => AnswersAreOwn
  <1> DEFINE A == /\ fetch_in_progress /\ if_id'.valid /\ ~fetch_in_progress'
                       => /\ oreq.valid /\ oreq.kind = "fetch" /\ oreq.addr = if_id'.pc
                          /\ oreq.translated = (csr.priv # M /\ csr.satp)
                  /\ mem_in_progress /\ ~mem_in_progress'
                       => /\ oreq.valid /\ oreq.kind = ex_mem.mem
                          /\ oreq.translated = (csr.priv # M /\ csr.satp)
  <1>1. ASSUME TypeInv, CoreInv, TopInv, TopNext PROVE A
    <2>1. TypeOK
      BY <1>1 DEF TypeInv
    <2>2. PICK oresp \in MemResponses, op \in Ops, o \in EXOutcomes, lines \in LineSets :
              TopTick(oresp, op, o, lines)
      BY <1>1 DEF TopNext
    <2>3. /\ Inputs(IResp(oresp, op), DResp(oresp), o, lines)
          /\ Tick(IResp(oresp, op), DResp(oresp), o, lines)
          /\ DResp(oresp) \in BOOLEAN
      BY <1>1, <2>1, <2>2, TopTickIsTick DEF DResp, iresps, TopInv, ArbiterTypeOK
    <2>4. /\ ireq.valid /\ IResp(oresp, op) = {} => UNCHANGED fetchVars
          /\ ireq.valid /\ IResp(oresp, op) # {} => if_id'.pc = ireq.addr
          /\ dreq.valid /\ ~DResp(oresp) => mem_in_progress'
      BY <1>1, <2>1, <2>3, Outstanding
    <2>5. ASSUME fetch_in_progress, ~fetch_in_progress'
          PROVE  /\ oreq.valid /\ oreq.kind = "fetch" /\ oreq.addr = if_id'.pc
                 /\ oreq.translated = (csr.priv # M /\ csr.satp)
      <3>1. ireq.valid
        BY <1>1, <2>5 DEF CoreInv, FetchHandshake
      <3>2. IResp(oresp, op) # {} /\ if_id'.pc = ireq.addr
        BY <2>4, <2>5, <3>1 DEF fetchVars
      <3>3. busy /\ index = 1 /\ resp_out(on, oresp)
        BY <3>2 DEF IResp, iresps
      <3>4. QED
        BY <1>1, <2>1, <3>2, <3>3, OnTheBus, TheMasters DEF icreq
    <2>6. ASSUME mem_in_progress, ~mem_in_progress'
          PROVE  /\ oreq.valid /\ oreq.kind = ex_mem.mem
                 /\ oreq.translated = (csr.priv # M /\ csr.satp)
      <3>1. dreq.valid /\ ex_mem.mem = dreq.kind
        BY <1>1, <2>6 DEF CoreInv, DataHandshake
      <3>2. busy /\ index = 0 /\ resp_out(on, oresp)
        BY <2>4, <2>6, <3>1 DEF DResp, iresps
      <3>3. QED
        BY <1>1, <2>1, <3>1, <3>2, OnTheBus, TheMasters DEF dcreq
    <2>7. QED
      BY <2>5, <2>6
  <1>2. TypeInv /\ CoreInv /\ TopInv /\ [TopNext]_topVars => [A]_topVars
    BY <1>1
  <1>3. QED
    BY <1>2, TopInvariant, PTL DEF TopSpec, AnswersAreOwn

\* The memory sees a request unchanged until it answers it (the assertions of
\* cbus_device.cpp).
THEOREM MemoryRequestsStand == TopSpec => MemRequestStands
  <1> DEFINE A == oreq.valid => oreq' = oreq \/ (ireqs[index].valid /\ ~ireqs[index]'.valid)
  <1>1. ASSUME TypeInv, CoreInv, TopInv, TopNext, oreq.valid
        PROVE  oreq' = oreq \/ (ireqs[index].valid /\ ~ireqs[index]'.valid)
    <2>1. TypeOK
      BY <1>1 DEF TypeInv
    <2>2. PICK oresp \in MemResponses, op \in Ops, o \in EXOutcomes, lines \in LineSets :
              TopTick(oresp, op, o, lines)
      BY <1>1 DEF TopNext
    <2>3. /\ Inputs(IResp(oresp, op), DResp(oresp), o, lines)
          /\ Tick(IResp(oresp, op), DResp(oresp), o, lines)
          /\ DResp(oresp) \in BOOLEAN /\ oresp \in BOOLEAN
          /\ ArbiterTick(asking, resp_out(on, oresp)) /\ MmuTick(on, mmu_req, oresp)
      BY <1>1, <2>1, <2>2, TopTickIsTick DEF DResp, iresps, TopInv, ArbiterTypeOK
    <2>4. /\ busy => csr' = csr
          /\ busy /\ ~resp_out(on, oresp) => /\ busy' /\ index' = index
                                             /\ ireqs'[index] = ireqs[index]
      BY <1>1, <2>1, <2>2, HolderStands
    <2>5. busy /\ (on => mmu_state = "WAIT")
      BY <1>1 DEF oreq, req_out, mmu_req, NoReq, TopInv, MmuBehindArbiter
    <2>6. index \in {0, 1} /\ ireqs[index].valid
      BY <1>1, <2>5, TheMasters DEF TopInv, ArbiterTypeOK, MmuBehindArbiter
    <2>7. CASE ~resp_out(on, oresp)
      <3>1. on' = on /\ mmu_req' = mmu_req
        BY <2>4, <2>5, <2>7 DEF on, mmu_req
      <3>2. on => ~oresp /\ UNCHANGED mmuVars
        BY <2>3, <2>5, <2>7 DEF resp_out, MmuTick, mmuVars
      <3>3. QED
        BY <3>1, <3>2, <2>5 DEF oreq, req_out, mmuVars
    <2>8. CASE resp_out(on, oresp)
      <3>1. index' = index
        BY <2>3, <2>5 DEF ArbiterTick
      <3>2. CASE index = 0
        <4>1. DResp(oresp) /\ dreq.valid
          BY <2>5, <2>6, <2>8, <3>2, TheMasters DEF DResp, iresps
        <4>2. ~dreq'.valid
          BY <1>1, <2>1, <2>3, <4>1, Outstanding
        <4>3. ireqs'[0] = dcreq'
          BY TwoMasters DEF ireqs, Masters
        <4>4. QED
          BY <2>6, <3>1, <3>2, <4>2, <4>3 DEF dcreq
      <3>3. CASE index = 1
        <4>1. IResp(oresp, op) # {} /\ ireq.valid
          BY <2>5, <2>6, <2>8, <3>3, TheMasters DEF IResp, iresps
        <4>2. ~ireq'.valid
          BY <1>1, <2>1, <2>3, <4>1, Outstanding
        <4>3. ireqs'[1] = icreq'
          BY TwoMasters DEF ireqs, Masters
        <4>4. QED
          BY <2>6, <3>1, <3>3, <4>2, <4>3 DEF icreq
      <3>4. QED
        BY <2>6, <3>2, <3>3
    <2>9. QED
      BY <2>7, <2>8
  <1>2. TypeInv /\ CoreInv /\ TopInv /\ [TopNext]_topVars => [A]_topVars
    BY <1>1
  <1>3. QED
    BY <1>2, TopInvariant, PTL DEF TopSpec, MemRequestStands

=============================================================================

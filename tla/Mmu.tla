--------------------------------- MODULE Mmu ---------------------------------
(***************************************************************************)
(* mmu.sv: Sv39 translation between the arbiter and the memory.  With      *)
(* translation off a request passes through; otherwise it is saved, its    *)
(* page table entry is awaited for two cycles and the saved request is put *)
(* on the bus with the physical address.  An address in PC stands for      *)
(* itself before and for its translation after the MMU ("translated");     *)
(* what the translation computes, a page fault's address 0 included, is    *)
(* left out.                                                               *)
(***************************************************************************)
EXTENDS CoreTypes

VARIABLES
    mmu_state,   \* "IDLE", "PTE" or "WAIT"
    pte_hold,    \* the second cycle of PTE
    saved_req,   \* the request being translated
    paddr        \* the result of the translation

mmuVars == <<mmu_state, pte_hold, saved_req, paddr>>

\* cbus_req_t without size, strobe, data, len and burst.
CBusReq == [valid: BOOLEAN, kind: {"fetch", "load", "store"}, addr: PC,
            translated: BOOLEAN]
NoReq == [valid |-> FALSE, kind |-> "load", addr |-> PCINIT, translated |-> FALSE]

MmuTypeOK == /\ mmu_state \in {"IDLE", "PTE", "WAIT"} /\ pte_hold \in BOOLEAN
             /\ saved_req \in CBusReq /\ paddr \in PC

MmuInit == /\ mmu_state = "IDLE" /\ pte_hold = FALSE
           /\ saved_req = NoReq /\ paddr = PCINIT

\* Translation applies outside machine mode while satp.mode is 8.
mmu_on(priv, satp) == priv # M /\ satp

\* Mutant: the address on the bus is the virtual one.
ForwardUntranslated(on, req_in) ==
    IF on /\ mmu_state # "WAIT" THEN [req_in EXCEPT !.valid = FALSE] ELSE req_in

req_out(on, req_in) ==
    IF ~on THEN req_in
    ELSE IF mmu_state = "WAIT"
    THEN [saved_req EXCEPT !.valid = TRUE, !.addr = paddr, !.translated = TRUE]
    ELSE [req_in EXCEPT !.valid = FALSE]

resp_out(on, resp_in) == resp_in /\ (on => mmu_state = "WAIT")

\* Mutant: the unit does not notice that its request has been answered.
MmuTickStays(on, req_in, resp_in) ==
    \/ ~on /\ mmu_state' = "IDLE" /\ pte_hold' = FALSE /\ UNCHANGED <<saved_req, paddr>>
    \/ /\ on /\ mmu_state = "IDLE" /\ pte_hold' = FALSE
       /\ saved_req' = req_in /\ mmu_state' = IF req_in.valid THEN "PTE" ELSE "IDLE"
       /\ UNCHANGED paddr
    \/ /\ on /\ mmu_state = "PTE" /\ paddr' = saved_req.addr
       /\ mmu_state' = IF pte_hold THEN "WAIT" ELSE "PTE"
       /\ pte_hold' = ~pte_hold /\ UNCHANGED saved_req
    \/ on /\ mmu_state = "WAIT" /\ UNCHANGED mmuVars

\* One clock edge.
MmuTick(on, req_in, resp_in) ==
    \/ /\ ~on
       /\ mmu_state' = "IDLE" /\ pte_hold' = FALSE
       /\ UNCHANGED <<saved_req, paddr>>
    \/ /\ on /\ mmu_state = "IDLE" /\ req_in.valid
       /\ saved_req' = req_in /\ mmu_state' = "PTE" /\ pte_hold' = FALSE
       /\ UNCHANGED paddr
    \/ /\ on /\ mmu_state = "IDLE" /\ ~req_in.valid
       /\ pte_hold' = FALSE
       /\ UNCHANGED <<mmu_state, saved_req, paddr>>
    \/ /\ on /\ mmu_state = "PTE" /\ ~pte_hold
       /\ pte_hold' = TRUE
       /\ UNCHANGED <<mmu_state, saved_req, paddr>>
    \/ /\ on /\ mmu_state = "PTE" /\ pte_hold
       /\ paddr' = saved_req.addr /\ mmu_state' = "WAIT" /\ pte_hold' = FALSE
       /\ UNCHANGED saved_req
    \/ /\ on /\ mmu_state = "WAIT"
       /\ mmu_state' = IF resp_in THEN "IDLE" ELSE "WAIT"
       /\ UNCHANGED <<pte_hold, saved_req, paddr>>
=============================================================================

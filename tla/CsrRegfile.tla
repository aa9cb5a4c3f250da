----------------------------- MODULE CsrRegfile -----------------------------
(***************************************************************************)
(* csr_regfile.sv: the CSRs that steer the pipeline and their next-state   *)
(* logic.  mip, mcause, mtval, mscratch, mcycle and mhartid steer nothing  *)
(* in the core and are left out.                                           *)
(***************************************************************************)
EXTENDS CoreTypes

VARIABLE csr             \* the _q registers

Csr == [mstatus: Mstatus, mtvec: PC, mepc: PC, mie: SUBSET Irqs,
        satp: BOOLEAN, priv: Priv]

CsrTypeOK == csr \in Csr

\* Reset: everything zero, machine mode.  mtvec and mepc are zero too; the
\* reset address stands for address zero.
CsrInit ==
    csr = [mstatus |-> [mie |-> FALSE, mpie |-> FALSE, mpp |-> U], mtvec |-> PCINIT,
           mepc |-> PCINIT, mie |-> {}, satp |-> FALSE, priv |-> M]

\* MRET reaching write-back.
MretStatus(s) == [mie |-> s.mpie, mpie |-> TRUE, mpp |-> U]

\* A trap taken at privilege p reaching write-back.
TrapStatus(s, p) == [mie |-> FALSE, mpie |-> s.mie, mpp |-> p]

\* The _d values without priv_mode_d.  trap is None or the trap that commits in
\* this cycle, with address trap_pc; wr is None or the CSR write that commits.
\* The write comes later in the code and wins.
CsrCommit(trap, trap_pc, wr) ==
    LET mret    == trap # None /\ trap.mret
        enters  == trap # None /\ ~trap.mret
        Is(reg) == wr # None /\ wr.reg = reg
    IN  [csr EXCEPT
            !.mstatus = IF Is("mstatus") THEN wr.val
                        ELSE IF mret THEN MretStatus(csr.mstatus)
                        ELSE IF enters THEN TrapStatus(csr.mstatus, trap.priv)
                        ELSE csr.mstatus,
            !.mepc    = IF Is("mepc") THEN wr.val
                        ELSE IF enters THEN trap_pc ELSE csr.mepc,
            !.mtvec   = IF Is("mtvec") THEN wr.val ELSE csr.mtvec,
            !.mie     = IF Is("mie") THEN wr.val ELSE csr.mie,
            !.satp    = IF Is("satp") THEN wr.val ELSE csr.satp]

\* Mutant: only an interrupt and the commit of a trap move the privilege.
PrivNextLate(trap, trap_fire_ex, trap_is_mret_ex, interrupt_taken) ==
    IF interrupt_taken THEN M
    ELSE IF trap = None THEN csr.priv
    ELSE IF trap.mret THEN csr.mstatus.mpp ELSE M

\* priv_mode_d: a trap in EX and an interrupt move the privilege before their
\* trap commits.
PrivNext(trap, trap_fire_ex, trap_is_mret_ex, interrupt_taken) ==
    IF interrupt_taken THEN M
    ELSE IF trap_fire_ex THEN IF trap_is_mret_ex THEN csr.mstatus.mpp ELSE M
    ELSE IF trap = None THEN csr.priv
    ELSE IF trap.mret THEN csr.mstatus.mpp ELSE M

CsrTick(trap, trap_pc, wr, trap_fire_ex, trap_is_mret_ex, interrupt_taken) ==
    csr' = [CsrCommit(trap, trap_pc, wr) EXCEPT
                !.priv = PrivNext(trap, trap_fire_ex, trap_is_mret_ex, interrupt_taken)]
=============================================================================

------------------------------- MODULE Fetch -------------------------------
(***************************************************************************)
(* fetch.sv: one instruction fetch per pipeline step over the instruction  *)
(* bus, with redirection by taken branches, CSR instructions and traps.    *)
(***************************************************************************)
EXTENDS CoreTypes

VARIABLES
    pc,                  \* address of the next fetch
    req_pc,              \* address of the fetch in flight
    fetch_ok,            \* the stage is ready for a step
    fetch_in_progress,
    redirect_pending,    \* a redirect arrived during a fetch
    pending_redirect_pc,
    ireq,                \* the request on the instruction bus
    if_id                \* IF/ID pipeline register

fetchVars == <<pc, req_pc, fetch_ok, fetch_in_progress, redirect_pending,
               pending_redirect_pc, ireq, if_id>>

FetchTypeOK ==
    /\ pc \in PC /\ req_pc \in PC /\ pending_redirect_pc \in PC
    /\ fetch_ok \in BOOLEAN /\ fetch_in_progress \in BOOLEAN
    /\ redirect_pending \in BOOLEAN
    /\ ireq \in [valid: BOOLEAN, addr: PC]
    /\ if_id \in IfId

FetchInit ==
    /\ pc = PCINIT /\ req_pc = PCINIT /\ pending_redirect_pc = PCINIT
    /\ fetch_ok = TRUE /\ fetch_in_progress = FALSE /\ redirect_pending = FALSE
    /\ ireq = [valid |-> FALSE, addr |-> PCINIT]
    /\ if_id = [valid |-> FALSE, pc |-> PCINIT, op |-> ZeroInstr]

\* The PC the stage reports for an interrupt that finds the later stages empty.
\* Mutant: an instruction waiting in IF/ID is overlooked.
CurrentPcFetchOnly == pc

current_pc == IF if_id.valid THEN if_id.pc ELSE pc

\* A trap drops whatever the stage is doing and restarts it at target.
FetchTrap(target) ==
    /\ fetch_ok' = TRUE
    /\ fetch_in_progress' = FALSE
    /\ redirect_pending' = FALSE
    /\ ireq' = [ireq EXCEPT !.valid = FALSE]
    /\ if_id' = [if_id EXCEPT !.valid = FALSE]
    /\ pc' = target
    /\ UNCHANGED <<req_pc, pending_redirect_pc>>

\* Mutant: a redirect leaves the instruction of the wrong path in IF/ID.
FetchRedirectKeepsEntry(target) ==
    /\ IF fetch_in_progress
       THEN redirect_pending' = TRUE /\ pending_redirect_pc' = target /\ pc' = pc
       ELSE pc' = target /\ UNCHANGED <<redirect_pending, pending_redirect_pc>>
    /\ UNCHANGED <<req_pc, fetch_ok, fetch_in_progress, ireq, if_id>>

\* A redirect waits for a fetch in flight, else takes effect at once.
FetchRedirect(target) ==
    /\ if_id' = [if_id EXCEPT !.valid = FALSE]
    /\ IF fetch_in_progress
       THEN redirect_pending' = TRUE /\ pending_redirect_pc' = target /\ pc' = pc
       ELSE pc' = target /\ UNCHANGED <<redirect_pending, pending_redirect_pc>>
    /\ UNCHANGED <<req_pc, fetch_ok, fetch_in_progress, ireq>>

\* A step puts the next address on the bus.
FetchStart ==
    /\ fetch_ok' = FALSE
    /\ fetch_in_progress' = TRUE
    /\ ireq' = [valid |-> TRUE, addr |-> pc]
    /\ req_pc' = pc
    /\ UNCHANGED <<pc, redirect_pending, pending_redirect_pc, if_id>>

\* The bus answers with an instruction of class op.
FetchResponse(op) ==
    /\ fetch_ok' = TRUE
    /\ fetch_in_progress' = FALSE
    /\ ireq' = [ireq EXCEPT !.valid = FALSE]
    /\ redirect_pending' = FALSE
    /\ IF redirect_pending
       THEN /\ if_id' = [if_id EXCEPT !.valid = FALSE]
            /\ pc' = pending_redirect_pc
       ELSE /\ if_id' = [valid |-> TRUE, pc |-> req_pc, op |-> op]
            /\ pc' = pcPlus4[req_pc]
    /\ UNCHANGED <<req_pc, pending_redirect_pc>>

\* One clock edge.  iresp is the set of instructions the bus delivers in this
\* cycle: none or one.  The branches are tried in the order of the code.
FetchTick(step, redirect_valid, redirect_pc, trap_fire, iresp) ==
    LET starts    == step /\ fetch_ok
        completes == ~fetch_ok /\ fetch_in_progress /\ iresp # {}
    IN  \/ trap_fire /\ FetchTrap(redirect_pc)
        \/ ~trap_fire /\ redirect_valid /\ FetchRedirect(redirect_pc)
        \/ ~trap_fire /\ ~redirect_valid /\ starts /\ FetchStart
        \/ /\ ~trap_fire /\ ~redirect_valid /\ ~starts /\ completes
           /\ \E op \in iresp : FetchResponse(op)
        \/ /\ ~trap_fire /\ ~redirect_valid /\ ~starts /\ ~completes
           /\ UNCHANGED fetchVars
=============================================================================

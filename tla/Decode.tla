------------------------------- MODULE Decode -------------------------------
(***************************************************************************)
(* decode.sv: the ID/EX register.  The decoder itself is the class op of   *)
(* the instruction, which travels with it.                                 *)
(***************************************************************************)
EXTENDS CoreTypes

VARIABLE id_ex           \* ID/EX pipeline register

DecodeTypeOK == id_ex \in IdEx

\* Reset clears every control signal, which is the class "alu".
DecodeInit == id_ex = [valid |-> FALSE, pc |-> PCINIT, op |-> "alu"]

\* The stage is always ready.
decode_ok == TRUE

\* Mutant: the instruction behind a taken branch or a trap is not flushed.
DecodeTickNoFlush(step, flush, ifid) ==
    id_ex' = IF step THEN [valid |-> ifid.valid, pc |-> ifid.pc, op |-> ifid.op]
             ELSE id_ex

\* One clock edge: a flush only invalidates the entry; a step takes over the
\* IF/ID entry, its control signals included even when it is not valid.
DecodeTick(step, flush, ifid) ==
    id_ex' = IF flush THEN [id_ex EXCEPT !.valid = FALSE]
             ELSE IF step THEN [valid |-> ifid.valid, pc |-> ifid.pc, op |-> ifid.op]
             ELSE id_ex
=============================================================================

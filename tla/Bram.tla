-------------------------------- MODULE Bram --------------------------------
(***************************************************************************)
(* bram_wrapper.sv: the block memory of the board behind the cache bus.    *)
(* It waits BRAM_DELAY cycles before it serves a request.  Only fixed      *)
(* bursts of one word reach it (IBusToCBus.sv, DBusToCBus.sv), for which   *)
(* last is ready and burst_counter stays 0.  bram_0 is generated and       *)
(* external: its read data are registered once (C_READ_LATENCY_A = 1).     *)
(***************************************************************************)
EXTENDS Integers

CONSTANT BRAM_DELAY

VARIABLES
    counter,     \* cycles the request has waited
    real_valid,  \* bram_0 is enabled, and a write is answered
    ready_read,  \* a read is answered
    rdata        \* the request whose word bram_0 has put on rdata

bramVars == <<counter, real_valid, ready_read, rdata>>

ASSUME BramDelayAssumption == BRAM_DELAY \in Nat

BramInit(noword) ==
    counter = 0 /\ real_valid = FALSE /\ ready_read = FALSE /\ rdata = noword

\* Mutant: a read is answered as early as a write.
ReadyEarly(writes) == real_valid

\* A write is answered in the cycle in which bram_0 carries it out, a read one
\* cycle later, when its data are there; it then stays answered for a cycle more.
ram_ready(writes) == IF writes THEN real_valid ELSE ready_read

\* One clock edge, for the request lines valid and writes and the word addressed.
BramTick(valid, writes, word) ==
    LET last == ram_ready(writes)
    IN  /\ counter' = IF ~valid \/ last THEN 0
                      ELSE IF counter # BRAM_DELAY THEN counter + 1 ELSE counter
        /\ real_valid' = (counter = BRAM_DELAY /\ valid /\ ~last)
        /\ ready_read' = real_valid
        /\ rdata' = IF real_valid THEN word ELSE rdata
=============================================================================

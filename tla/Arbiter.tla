------------------------------- MODULE Arbiter -------------------------------
(***************************************************************************)
(* CBusArbiter.sv: several cache-bus masters share one port.  A grant is   *)
(* registered, costs one cycle, and lasts until the last word of the       *)
(* answer.  saved_req is never used and is left out.                       *)
(***************************************************************************)
EXTENDS Integers

CONSTANT NUM_INPUTS

VARIABLES
    busy,    \* a master holds the port
    index    \* the master that holds it, or held it last

arbiterVars == <<busy, index>>

Masters == 0..(NUM_INPUTS - 1)

ASSUME NumInputsAssumption == NUM_INPUTS \in Nat \ {0}

ArbiterTypeOK == busy \in BOOLEAN /\ index \in Masters

ArbiterInit == busy = FALSE /\ index = 0

\* Mutant: the search runs past the last master when none asks.
SelectPastEnd(asking) == IF asking = {} THEN NUM_INPUTS
                         ELSE CHOOSE i \in asking : \A j \in asking : i <= j

\* The master with the smallest index among those that ask; 0 if none does.
select(asking) == IF asking = {} THEN 0
                  ELSE CHOOSE i \in asking : \A j \in asking : i <= j

\* iresps[i]: the answer goes to the master that holds the port.
iresps(i, oresp) == busy /\ index = i /\ oresp

\* Mutant: the port is given away in the middle of a transaction.
ArbiterTickReselects(asking, last) ==
    /\ busy' = (asking # {} /\ ~(busy /\ last))
    /\ index' = select(asking)

\* Mutant: a master keeps the port for ever.
ArbiterTickKeeps(asking, last) ==
    /\ busy' = (busy \/ asking # {})
    /\ index' = IF busy THEN index ELSE select(asking)

\* One clock edge: release the port with the last word, else keep it; hand out
\* a free port.
ArbiterTick(asking, last) ==
    \/ /\ busy
       /\ busy' = ~last
       /\ UNCHANGED index
    \/ /\ ~busy
       /\ busy' = (asking # {})
       /\ index' = select(asking)
=============================================================================

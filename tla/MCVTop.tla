------------------------------- MODULE MCVTop -------------------------------
(* VTop.tla on the two-address program memory of MCCore. *)
EXTENDS VTop

PC2 == 0..1
Plus4on2 == [p \in PC2 |-> (p + 1) % 2]
SatpWrites == {[reg |-> "satp", val |-> b] : b \in BOOLEAN}
=============================================================================

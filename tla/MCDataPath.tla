----------------------------- MODULE MCDataPath -----------------------------
(* DataPath.tla on one instruction address: where the program continues is a   *)
(* question of MCCore, which registers and values its instructions use is the  *)
(* question here.  Every instruction reads x1 and writes x1 or x2, or nothing  *)
(* when it is an ECALL, so that each reader follows writers of its register    *)
(* and of another one. *)
EXTENDS DataPath

PC1 == {0}
Plus4on1 == [p \in PC1 |-> 0]
MCVal == 0..1
MCReg == 0..2
MCFields == {[rs |-> [s \in Sources |-> 1], rd |-> r] : r \in {1, 2}}
=============================================================================

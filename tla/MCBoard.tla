------------------------------ MODULE MCBoard ------------------------------
(* Board.tla on two instruction addresses. *)
EXTENDS Board

PC2 == 0..1
Plus4on2 == [p \in PC2 |-> (p + 1) % 2]
=============================================================================

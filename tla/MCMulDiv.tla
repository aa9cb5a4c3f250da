------------------------------ MODULE MCMulDiv ------------------------------
(* MulDiv.tla on registers of six bits: any instruction on any operands first, *)
(* then one of a few whose result shows what the first may have left behind. *)
EXTENDS MulDiv

ProbesOn6 == {[op |-> "mul", a |-> 11, b |-> 58], [op |-> "div", a |-> 45, b |-> 5],
              [op |-> "remuw", a |-> 61, b |-> 10]}
=============================================================================

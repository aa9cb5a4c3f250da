---------------------------- MODULE MCTestbench ----------------------------
(* Values for model checking: four tests, two of which may fail.           *)
EXTENDS Testbench

Fragile == {1, 2}
=============================================================================

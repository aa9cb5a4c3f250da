------------------------------- MODULE MCCore -------------------------------
(* Core.tla on a program memory of two addresses that follow each other, so    *)
(* that a flushed instruction and its replacement can and cannot have the same *)
(* address. *)
EXTENDS Core

PC2 == 0..1
Plus4on2 == [p \in PC2 |-> (p + 1) % 2]

\* A program that enables an interrupt and returns to user mode,
IrqWrites  == {[reg |-> "mie", val |-> Irqs],
               [reg |-> "mstatus", val |-> [mie |-> TRUE, mpie |-> FALSE, mpp |-> U]]}
\* and one that disables it again.
IrqSwitches == IrqWrites \cup {[reg |-> "mie", val |-> {}]}
=============================================================================

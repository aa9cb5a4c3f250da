------------------------------- MODULE BusOps -------------------------------
(***************************************************************************)
(* bus.h, common.h: 64-bit words as eight byte lanes, and LoadOp, which    *)
(* moves a value of 1, 2, 4 or 8 bytes between the low lanes, where C++    *)
(* code keeps it, and the lanes of the bus its address selects.  A strobe  *)
(* or a byte mask is a set of lanes.                                       *)
(***************************************************************************)
EXTENDS Integers, Sequences

CONSTANTS
    Byte,    \* byte values; 0 is one of them
    HighBit  \* stands for bit 31 of an address, which the test bench sets

ASSUME ByteAssumption == 0 \in Byte /\ Byte \subseteq Nat

Lanes == 0..7
Word == [Lanes -> Byte]
ZeroWord == [l \in Lanes |-> 0]

Widths == {1, 2, 4, 8}

----------------------------------------------------------------------------
\* A LoadOp moves size bytes to or from the lanes that start at lane.
\* DISCARD moves none.
LoadOp == [size: Widths \cup {0}, lane: Lanes]

parse(width, addr) == [size |-> width, lane |-> (addr % 8) - (addr % width)]

\* The strobe bits of op, which are also the lanes of its 64-bit mask.
strobe(op) == op.lane .. (op.lane + op.size - 1)

\* A value of the low lanes, shifted up to the lanes of op.
place(op, data) == [l \in Lanes |-> IF l >= op.lane THEN data[l - op.lane] ELSE 0]

\* The lanes of op, shifted down to the low lanes.
apply(op, data) ==
    [l \in Lanes |-> IF op.size # 0 /\ l + op.lane \in Lanes THEN data[l + op.lane] ELSE 0]

\* apply, written to the low lanes of dest: the switch falls through from the
\* wider to the narrower stores, which leaves the size low bytes.
applyTo(op, data, dest) ==
    [l \in Lanes |-> IF l < op.size THEN apply(op, data)[l] ELSE dest[l]]

\* A word whose lanes in mask are taken from data.
Merge(old, data, mask) == [l \in Lanes |-> IF l \in mask THEN data[l] ELSE old[l]]

----------------------------------------------------------------------------
\* The cache bus.  size is in bytes, len is the number of beats minus one (AXILength).
Lengths == {0, 1, 3, 7, 15}
CBusReq == [valid: BOOLEAN, is_write: BOOLEAN, size: Widths, addr: Nat,
            strobe: SUBSET Lanes, data: Word, len: Lengths]
NoReq == [valid |-> FALSE, is_write |-> FALSE, size |-> 1, addr |-> 0,
          strobe |-> {}, data |-> ZeroWord, len |-> 0]

CBusResp(ready, last, data) == [ready |-> ready, last |-> last, data |-> data]
NoResp == CBusResp(FALSE, FALSE, ZeroWord)
=============================================================================

---------------------------- MODULE MCBusSystem ----------------------------
(* Values for model checking: two words of memory, a few bytes.            *)
EXTENDS BusSystem

MCByte == 0..7

\* Byte a of the image is a + 1, modulo 7, plus 1.
Image == [i \in 1..16 |-> ((i - 1) % 7) + 1]

Val(first) == [l \in Lanes |-> IF l + first \in MCByte THEN l + first ELSE 7]

A(kind, addr, width, first) ==
    [kind |-> kind, addr |-> addr, width |-> width, val |-> Val(first)]

\* Overlapping accesses of every width to memory, one word of it through the boot
\* window at 16, and to the registers at 32.
MemoryAccesses ==
    { A("store", 2, 2, 3), A("store", 0, 8, 0), A("store", 20, 4, 2),
      A("load", 4, 4, 0), A("load", 3, 1, 0), A("get", 0, 8, 0), A("get", 18, 2, 0),
      A("expect", 4, 4, 2) }

RegisterAccesses ==
    { A("load", 32, 1, 0), A("get", 32, 1, 0), A("store", 32, 1, 5),
      A("store", 40, 1, 6), A("load", 40, 1, 0), A("store", 44, 4, 1) }

MCAccesses == MemoryAccesses \cup RegisterAccesses

\* Lines of two words and of four half words, from their middle on.
MCBursts ==
    { [kind |-> "get", addr |-> 8, width |-> 8, vals |-> <<Val(0), Val(0)>>],
      [kind |-> "store", addr |-> 8, width |-> 8, vals |-> <<Val(1), Val(4)>>],
      [kind |-> "get", addr |-> 12, width |-> 4, vals |-> [k \in 1..4 |-> Val(0)]],
      [kind |-> "store", addr |-> 4, width |-> 2, vals |-> [k \in 1..4 |-> Val(k)]] }
=============================================================================

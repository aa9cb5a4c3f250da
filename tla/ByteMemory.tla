----------------------------- MODULE ByteMemory -----------------------------
(***************************************************************************)
(* What a program may rely on when it drives a memory over the data bus:   *)
(* accesses take effect one at a time, in the order in which they were     *)
(* submitted, on a memory of bytes; nothing is lost, repeated or torn.  A  *)
(* device page answers whatever it likes and leaves the memory alone.      *)
(***************************************************************************)
EXTENDS Integers, Sequences

CONSTANTS
    Byte,        \* byte values
    Addresses,   \* byte addresses of a program
    Phys(_),     \* the byte of memory at a program address
    Device(_),   \* the address belongs to a device
    Batches      \* sequences of accesses that may be submitted at once

VARIABLES
    bytes,       \* contents of the memory
    todo,        \* accesses submitted and not performed
    image,       \* contents after a reset
    dest,        \* what loads write to
    aborted      \* an expectation was not met

vars == <<bytes, todo, image, dest, aborted>>

Contents == [{Phys(a) : a \in {b \in Addresses : ~Device(b)}} -> Byte]

Init ==
    /\ bytes \in Contents /\ image = bytes
    /\ todo = << >> /\ dest = [l \in 0..7 |-> 0] /\ aborted = FALSE

----------------------------------------------------------------------------
\* The byte at offset l of the access a.
At(a, l) == bytes[Phys(a.addr + l)]

Offsets(a) == 0..(a.width - 1)

Stored(a) ==
    [p \in DOMAIN bytes |->
        IF \E l \in Offsets(a) : Phys(a.addr + l) = p
        THEN a.val[CHOOSE l \in Offsets(a) : Phys(a.addr + l) = p]
        ELSE bytes[p]]

\* dest after the bytes f arrive: a load keeps the rest of dest, a get clears it.
Arrived(a, f) ==
    [l \in 0..7 |-> IF l \in Offsets(a) THEN f[l] ELSE IF a.kind = "load" THEN dest[l] ELSE 0]

Load(a) ==
    /\ a.kind \in {"load", "get"} /\ ~Device(a.addr)
    /\ dest' = Arrived(a, [l \in Offsets(a) |-> At(a, l)])
    /\ UNCHANGED <<bytes, aborted>>

Store(a) ==
    /\ a.kind = "store" /\ ~Device(a.addr)
    /\ bytes' = Stored(a)
    /\ UNCHANGED <<dest, aborted>>

Expect(a) ==
    /\ a.kind = "expect" /\ ~Device(a.addr)
    /\ aborted' = \E l \in Offsets(a) : At(a, l) # a.val[l]
    /\ UNCHANGED <<bytes, dest>>

AccessDevice(a) ==
    /\ Device(a.addr)
    /\ dest' \in [0..7 -> Byte]
    /\ dest' = IF a.kind \in {"load", "get"} THEN Arrived(a, dest') ELSE dest
    /\ aborted' \in {FALSE, a.kind = "expect"}
    /\ UNCHANGED bytes

Perform ==
    /\ todo # << >> /\ ~aborted
    /\ todo' = Tail(todo)
    /\ LET a == Head(todo) IN Load(a) \/ Store(a) \/ Expect(a) \/ AccessDevice(a)
    /\ UNCHANGED image

Submit ==
    /\ ~aborted
    /\ \E b \in Batches : todo' = todo \o b
    /\ UNCHANGED <<bytes, image, dest, aborted>>

\* Between tests the memory returns to its image.
Reset ==
    /\ todo = << >>
    /\ bytes' = image
    /\ UNCHANGED <<todo, image, dest, aborted>>

Next == Perform \/ Submit \/ Reset

Spec == Init /\ [][Next]_vars
=============================================================================

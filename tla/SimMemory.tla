------------------------------ MODULE SimMemory ------------------------------
(***************************************************************************)
(* memory.cpp, and the address map of model.cpp: BlockMemory behind a      *)
(* MemoryRouter.  Addresses are scaled down: a page of PageSize bytes      *)
(* stands for each region of the map.                                      *)
(***************************************************************************)
EXTENDS BusOps

CONSTANTS
    RamSize,   \* bytes of the memory, a multiple of 8
    ImageFile  \* the bytes the memory is constructed with

VARIABLES
    mem,       \* the contents of the memory, word by word
    saved_mem  \* the contents after construction, to which reset returns

memoryVars == <<mem, saved_mem>>

ASSUME RamSizeAssumption == RamSize \in Nat /\ RamSize % 8 = 0 /\ RamSize > 0
ASSUME ImageAssumption == ImageFile \in Seq(Byte) /\ Len(ImageFile) <= RamSize

----------------------------------------------------------------------------
\* The address map: page 0 is memory, page 1 the boot window 0x1fc00000, page 2
\* the configuration registers 0x1faf0000.
PageSize == RamSize
BootBase == PageSize
ConfBase == 2 * PageSize
Addresses == 0 .. (3 * PageSize - 1)

ASSUME HighBitAssumption == HighBit \in Nat /\ HighBit >= 3 * PageSize

PageOf(addr) == addr \div PageSize

\* The entries of install_soc: a prefix, the device, what translate subtracts.
\* The last one has mask 0.
layout == << [prefix |-> {1}, dev |-> "mem", base |-> BootBase],
             [prefix |-> {2}, dev |-> "con", base |-> 0],
             [prefix |-> Nat, dev |-> "mem", base |-> 0] >>

\* The first entry that matches.
search(addr) ==
    LET hits == {i \in DOMAIN layout : PageOf(addr) \in layout[i].prefix}
    IN  layout[CHOOSE i \in hits : \A j \in hits : i <= j]

translate(addr) == addr - search(addr).base

IsConf(addr) == search(addr).dev = "con"

----------------------------------------------------------------------------
Words == 0 .. (RamSize \div 8 - 1)
Contents == [Words -> Word]

\* The byte of a 32-bit mask that ~(0xffu << shamt) clears.  Shifting by 32 or more
\* is undefined: the shift unit takes the count modulo 32, vector code yields 0.
Cleared(lane, overshift) ==
    IF lane < 4 THEN {lane} ELSE IF overshift = "wraps" THEN {lane - 4} ELSE {}

\* Byte b stored at lane: the mask is zero-extended, so lanes 4 to 7 are cleared too.
MapByte(w, lane, b, overshift) ==
    [l \in Lanes |-> IF l = lane THEN b
                     ELSE IF l >= 4 \/ l \in Cleared(lane, overshift) THEN 0 ELSE w[l]]

\* map(_offset, data): the bytes of data, one after the other.  The byte at a lane
\* above 3 is or-ed into what the mask left there, which is 0.
map(data, overshift) ==
    LET upTo[n \in 0..Len(data)] ==
            IF n = 0 THEN [i \in Words |-> ZeroWord]
            ELSE [upTo[n - 1] EXCEPT ![(n - 1) \div 8] =
                      MapByte(@, (n - 1) % 8, data[n], overshift)]
    IN  upTo[Len(data)]

SimMemoryTypeOK == mem \in Contents /\ saved_mem \in Contents

SimMemoryInit ==
    /\ \E overshift \in {"wraps", "zero"} : mem = map(ImageFile, overshift)
    /\ saved_mem = mem

\* The word at a translated address, whatever its low three bits.
load(paddr) == mem[paddr \div 8]

store(paddr, data, mask) ==
    mem' = [mem EXCEPT ![paddr \div 8] = Merge(@, data, mask)]

MemoryReset == mem' = saved_mem /\ UNCHANGED saved_mem
=============================================================================

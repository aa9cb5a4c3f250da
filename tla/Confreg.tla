------------------------------- MODULE Confreg -------------------------------
(***************************************************************************)
(* confreg.cpp, and checkout_confreg of model.cpp: the simulated           *)
(* configuration registers and their UART.  A background thread reads      *)
(* characters from a terminal into a queue; the simulation takes them out, *)
(* and looks at the queue without its lock.  Four registers stand for the  *)
(* register file: the UART's data and status registers, VIRTUAL_UART, and  *)
(* one that only keeps what is written (CR1, at 4 modulo 8).  The timer is *)
(* left out, no property reads it.                                         *)
(***************************************************************************)
EXTENDS BusOps

CONSTANT MaxTyped   \* characters typed at the terminal

VARIABLES
    ctx,        \* uart_avail, and the flags set since the last sync
    ctx0,       \* the flags of the last sync
    kept,       \* mem[VIRTUAL_UART] and mem[CR1]
    ififo,      \* characters received and not fetched
    lock,       \* uart.lock: "free" or "reader"
    reader,     \* the reader thread: what it does next, and the character it has
    typed,      \* characters typed so far; the n-th one is n
    opty,       \* characters sent to the terminal
    printed,    \* characters of VIRTUAL_UART printed by the model
    dropped     \* characters thrown away by a reset (not in the code)

confregVars == <<ctx, ctx0, kept, ififo, lock, reader, typed, opty, printed, dropped>>

ASSUME TypedAssumption == MaxTyped \in Nat /\ 0..MaxTyped \subseteq Byte

\* Offsets of the registers in their page.
UART_RXD == 0
UART_TXD == 0
UART_LSR == 4
VIRTUAL_UART == 8
CR1 == 12

\* The registers that keep what is written.
Kept == {VIRTUAL_UART, CR1}

None == -1   \* no character
Char == 1..MaxTyped

NoFlags == [uart_avail |-> FALSE, uart_written |-> None, vuart_written |-> None]

ConfregTypeOK ==
    /\ ctx \in [uart_avail: BOOLEAN, uart_written: Byte \cup {None},
                vuart_written: Byte \cup {None}]
    /\ ctx0 \in Byte \cup {None}
    /\ kept \in [Kept -> Word]
    /\ ififo \in Seq(Char) /\ lock \in {"free", "reader"}
    /\ reader \in [at: {"fgetc", "lock", "push", "unlock"}, c: Char \cup {None}]
    /\ typed \in 0..MaxTyped /\ opty \in Seq(Byte) /\ printed \in Seq(Byte)
    /\ dropped \in SUBSET Char

ConfregInit ==
    /\ ctx = NoFlags /\ ctx0 = None /\ kept = [off \in Kept |-> ZeroWord]
    /\ ififo = << >> /\ lock = "free"
    /\ reader = [at |-> "fgetc", c |-> None] /\ typed = 0
    /\ opty = << >> /\ printed = << >> /\ dropped = {}

----------------------------------------------------------------------------
\* The reader thread of uart_open_pty.

\* fgetc returns the next character.
ReaderGets ==
    /\ reader.at = "fgetc" /\ typed < MaxTyped
    /\ typed' = typed + 1
    /\ reader' = [at |-> "lock", c |-> typed + 1]
    /\ UNCHANGED <<ctx, ctx0, kept, ififo, lock, opty, printed, dropped>>

ReaderLocks ==
    /\ reader.at = "lock" /\ lock = "free"
    /\ lock' = "reader"
    /\ reader' = [reader EXCEPT !.at = "push"]
    /\ UNCHANGED <<ctx, ctx0, kept, ififo, typed, opty, printed, dropped>>

\* push_back; from here on the queue is seen to be non-empty.
ReaderPushes ==
    /\ reader.at = "push"
    /\ ififo' = Append(ififo, reader.c)
    /\ reader' = [at |-> "unlock", c |-> None]
    /\ UNCHANGED <<ctx, ctx0, kept, lock, typed, opty, printed, dropped>>

ReaderUnlocks ==
    /\ reader.at = "unlock"
    /\ lock' = "free"
    /\ reader' = [reader EXCEPT !.at = "fgetc"]
    /\ UNCHANGED <<ctx, ctx0, kept, ififo, typed, opty, printed, dropped>>

Reader == ReaderGets \/ ReaderLocks \/ ReaderPushes \/ ReaderUnlocks

----------------------------------------------------------------------------
\* A value in the low bits of a word, which is where load puts a byte.
LowByte(b) == [ZeroWord EXCEPT ![0] = b]

\* A load of UART_RXD takes the front of the queue when a character was available
\* at the last sync.
fetches(off) == off = UART_RXD /\ ctx.uart_avail

LoadReg(off) ==
    CASE off = UART_LSR     -> LowByte(IF ctx.uart_avail THEN 1 ELSE 0)
      [] off = UART_RXD     -> IF fetches(off) THEN LowByte(Head(ififo)) ELSE ZeroWord
      [] off \in Kept       -> kept[off]
      [] OTHER              -> ZeroWord

\* The flags after a store of data: a store to the status register panics, as one of
\* more than a byte to UART_TXD does; they are not offered.
Written(off, data) ==
    [ctx EXCEPT !.uart_written  = IF off = UART_TXD THEN data[0] ELSE @,
                !.vuart_written = IF off = VIRTUAL_UART THEN data[0] ELSE @]

\* Mutant: the availability of a character is sampled before the fetched one is removed.
SyncSamplesEarly(fetched, c) ==
    /\ fetched => lock = "free"
    /\ ififo' = IF fetched THEN Tail(ififo) ELSE ififo
    /\ opty' = IF c.uart_written # None THEN Append(opty, c.uart_written) ELSE opty
    /\ ctx0' = c.vuart_written
    /\ ctx' = [NoFlags EXCEPT !.uart_avail = (ififo # << >>)]
    /\ printed' = IF ctx0' # None THEN Append(printed, ctx0') ELSE printed

\* Mutant: the flag of a character for the terminal is not reset.
SyncKeepsWritten(fetched, c) ==
    /\ fetched => lock = "free"
    /\ ififo' = IF fetched THEN Tail(ififo) ELSE ififo
    /\ opty' = IF c.uart_written # None THEN Append(opty, c.uart_written) ELSE opty
    /\ ctx0' = c.vuart_written
    /\ ctx' = [NoFlags EXCEPT !.uart_avail = (ififo' # << >>), !.uart_written = c.uart_written]
    /\ printed' = IF ctx0' # None THEN Append(printed, ctx0') ELSE printed

\* Mutant: the fetched character stays in the queue.
SyncPeeks(fetched, c) ==
    /\ fetched => lock = "free"
    /\ ififo' = ififo
    /\ opty' = IF c.uart_written # None THEN Append(opty, c.uart_written) ELSE opty
    /\ ctx0' = c.vuart_written
    /\ ctx' = [NoFlags EXCEPT !.uart_avail = (ififo' # << >>)]
    /\ printed' = IF ctx0' # None THEN Append(printed, ctx0') ELSE printed

\* sync with the flags c: remove the fetched character under the lock, send, then
\* look at the queue without it; the model prints what ctx0 holds.
sync(fetched, c) ==
    /\ fetched => lock = "free"
    /\ ififo' = IF fetched THEN Tail(ififo) ELSE ififo
    /\ opty' = IF c.uart_written # None THEN Append(opty, c.uart_written) ELSE opty
    /\ ctx0' = c.vuart_written
    /\ ctx' = [NoFlags EXCEPT !.uart_avail = (ififo' # << >>)]
    /\ printed' = IF ctx0' # None THEN Append(printed, ctx0') ELSE printed

\* One cycle of the device.  access: what the bus does to it, "load", "store" or "none".
ConfregTick(access, off, data) ==
    /\ sync(access = "load" /\ fetches(off),
            IF access = "store" THEN Written(off, data) ELSE ctx)
    /\ kept' = IF access = "store" /\ off \in Kept
               THEN [kept EXCEPT ![off] = IF off = VIRTUAL_UART THEN LowByte(data[0]) ELSE data]
               ELSE kept
    /\ UNCHANGED <<lock, reader, typed, dropped>>

\* reset, under the lock of the queue.
ConfregReset ==
    /\ lock = "free"
    /\ ctx' = NoFlags /\ ctx0' = None /\ kept' = [off \in Kept |-> ZeroWord] /\ ififo' = << >>
    /\ dropped' = dropped \cup {ififo[i] : i \in DOMAIN ififo}
    /\ UNCHANGED <<lock, reader, typed, opty, printed>>
=============================================================================

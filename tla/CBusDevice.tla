----------------------------- MODULE CBusDevice -----------------------------
(***************************************************************************)
(* cbus_device.cpp, axi.h: the slave end of the simulated cache bus.  It   *)
(* accepts a request in one cycle, answers one beat in each later one, and *)
(* may pause in any cycle (p_disable).  Responses depend on registers      *)
(* only.  ntx, _strobe and _data live for one cycle: eval_req writes them, *)
(* sync consumes them, and between cycles ntx equals tx.                   *)
(***************************************************************************)
EXTENDS BusOps

CONSTANT MayPause  \* p_disable > 0

VARIABLES
    enable,   \* the device takes part in this cycle
    tx        \* the transaction in progress (AXITransaction)

deviceVars == <<enable, tx>>

----------------------------------------------------------------------------
\* AXITransaction: the address of beat N of a wrapping burst.

Transaction == [busy: BOOLEAN, is_write: BOOLEAN, aligned: BOOLEAN, N: 0..16, addr: Nat,
                Start_Address: Nat, Number_Bytes: Nat, Burst_Length: Nat]

\* memset to zero.
Idle == [busy |-> FALSE, is_write |-> FALSE, aligned |-> FALSE, N |-> 0, addr |-> 0,
         Start_Address |-> 0, Number_Bytes |-> 0, Burst_Length |-> 0]

init(addr, size, len, is_write) ==
    [busy |-> TRUE, is_write |-> is_write, aligned |-> FALSE, N |-> 1, addr |-> addr,
     Start_Address |-> addr, Number_Bytes |-> size, Burst_Length |-> len + 1]

dtsize(t) == t.Number_Bytes * t.Burst_Length
Aligned_Address(t) == t.Start_Address - (t.Start_Address % t.Number_Bytes)
Lower_Wrap_Boundry(t) == t.Start_Address - (t.Start_Address % dtsize(t))
Upper_Wrap_Boundry(t) == Lower_Wrap_Boundry(t) + dtsize(t)

\* sync: on to the next beat.
Advance(t) ==
    LET up == (IF t.aligned THEN t.addr ELSE Aligned_Address(t)) + t.Number_Bytes
    IN  [t EXCEPT !.N = @ + 1, !.aligned = TRUE,
                  !.addr = IF up >= Upper_Wrap_Boundry(t) THEN Lower_Wrap_Boundry(t) ELSE up]

\* Mutant: a burst ends one beat early.
LastEarly(t) == t.N + 1 >= t.Burst_Length

last(t) == t.N = t.Burst_Length

----------------------------------------------------------------------------
DeviceTypeOK == enable \in BOOLEAN /\ tx \in Transaction

DeviceInit == enable = TRUE /\ tx = Idle

\* A beat is transferred in this cycle.
answers == enable /\ tx.busy

\* word is what the memory holds at tx.addr.
eval_resp(word) ==
    IF answers THEN CBusResp(TRUE, last(tx), IF tx.is_write THEN ZeroWord ELSE word)
    ELSE NoResp

\* Mutant: the end of a transaction is not noticed.
EvalReqNoLast(req) ==
    IF ~enable THEN tx
    ELSE IF tx.busy THEN Advance(tx)
    ELSE IF req.valid THEN init(req.addr, req.size, req.len, req.is_write)
    ELSE tx

\* The transaction of the next cycle (ntx) for the request lines req.
eval_req(req) ==
    IF ~enable THEN tx
    ELSE IF tx.busy THEN (IF last(tx) THEN Idle ELSE Advance(tx))
    ELSE IF req.valid THEN init(req.addr, req.size, req.len, req.is_write)
    ELSE tx

\* What the assertions of eval_req demand of the master.
sanity_checks(req) ==
    answers => /\ req.valid /\ req.is_write = tx.is_write
               /\ req.size = tx.Number_Bytes /\ req.addr = tx.Start_Address
               /\ req.len + 1 = tx.Burst_Length

\* sync writes memory in this cycle.
stores == answers /\ tx.is_write

\* The clock edge: take over ntx and draw whether to pause next.
DeviceTick(req) ==
    /\ tx' = eval_req(req)
    /\ enable' \in (IF MayPause THEN BOOLEAN ELSE {TRUE})

\* reset does not touch enable.
DeviceReset == tx' = Idle /\ UNCHANGED enable
=============================================================================

---------------------------- MODULE DBusPipeline ----------------------------
(***************************************************************************)
(* bus.h, cell.h: the two ways a C++ testbench drives the data bus.        *)
(* DBusPipelineGen queues tasks and keeps the front one on the bus until   *)
(* it is answered; DBusGen issues one access and awaits it.  Both place    *)
(* data with LoadOp.                                                       *)
(*                                                                         *)
(* An access of the program is an operation on byte addresses: it loads    *)
(* width bytes at addr into a destination ("load") or as a value ("get"),  *)
(* stores the low width bytes of val, or expects them there.  A task       *)
(* carries its access as op, for the properties.                           *)
(***************************************************************************)
EXTENDS BusOps

CONSTANT Accesses   \* the accesses a test may make

VARIABLES
    ongoing,    \* the queue of tasks; an awaited access of DBusGen is one of them
    dbus,       \* the request lines of the data bus
    dest,       \* what the loads of the test write to
    aborted     \* an assertion of the test has failed

pipelineVars == <<ongoing, dbus, dest, aborted>>

Access == [kind: {"load", "get", "store", "expect"}, addr: Nat, width: Widths, val: Word]

\* The helpers assert that an access is aligned.
ASSUME AccessesAssumption ==
    \A a \in Accesses : a \in Access /\ a.addr % a.width = 0 /\ a.addr < HighBit

DBusReq == [valid: BOOLEAN, addr: Nat, size: Widths, strobe: SUBSET Lanes, data: Word]
Quiet == [valid |-> FALSE, addr |-> 0, size |-> 1, strobe |-> {}, data |-> ZeroWord]

Task == [addr: Nat, size: Widths, data: Word, strobe: SUBSET Lanes,
         dest: BOOLEAN, load_op: LoadOp, op: Access]

----------------------------------------------------------------------------
\* loadd .. loadb, stored .. storeb, expectd .. expectb: an access as a task.
TaskOf(a) ==
    LET op == parse(a.width, a.addr)
    IN  [addr    |-> a.addr,
         size    |-> a.width,
         data    |-> IF a.kind \in {"load", "get"} THEN ZeroWord ELSE place(op, a.val),
         strobe  |-> IF a.kind = "store" THEN strobe(op) ELSE {},
         dest    |-> a.kind \in {"load", "get"},
         load_op |-> IF a.kind = "store" THEN [size |-> 8, lane |-> 0] ELSE op,
         op      |-> a]

is_load(t) == t.strobe = {}

busy == dbus.valid

issue(t) == [valid |-> TRUE, addr |-> t.addr + HighBit, size |-> t.size,
             strobe |-> IF is_load(t) THEN {} ELSE t.strobe,
             data |-> IF is_load(t) THEN ZeroWord ELSE t.data]

\* apply_assert fails: the lanes of the mask do not hold what is expected.
mismatch(t, value) == \E l \in strobe(t.load_op) : t.data[l] # value[l]

\* The CBusWrapper over DBusToCBus: bit 31 is dropped again, one beat.
CBusWrapper(d) ==
    [valid |-> d.valid, is_write |-> d.strobe # {}, size |-> d.size,
     addr |-> d.addr % HighBit, strobe |-> d.strobe, data |-> d.data, len |-> 0]

----------------------------------------------------------------------------
PipelineTypeOK ==
    /\ ongoing \in Seq(Task) /\ dbus \in DBusReq
    /\ dest \in Word /\ aborted \in BOOLEAN

PipelineInit ==
    /\ ongoing = << >> /\ dbus = Quiet
    /\ dest = ZeroWord /\ aborted = FALSE

\* Mutant: a task is issued even while another one is on the bus.
SubmitAlwaysIssues(a) ==
    /\ ongoing' = Append(ongoing, TaskOf(a))
    /\ dbus' = issue(TaskOf(a))
    /\ UNCHANGED <<dest, aborted>>

\* submit: the task goes on the bus when that is free.
submit(a) ==
    /\ ongoing' = Append(ongoing, TaskOf(a))
    /\ dbus' = IF busy THEN dbus ELSE issue(TaskOf(a))
    /\ UNCHANGED <<dest, aborted>>

\* What the front task does with the data it is answered with.
applied(u, data) == IF u.dest THEN applyTo(u.load_op, data, dest) ELSE dest
failed(u, data) == ~u.dest /\ is_load(u) /\ mismatch(u, data)

\* tick, around the clock edge: an answer seen before the edge completes the front
\* task; the new front task, or nothing, goes on the bus.
PipelineTick(resp) ==
    /\ IF resp.ready /\ resp.last /\ busy
       THEN /\ ongoing' = Tail(ongoing)
            /\ dest' = applied(Head(ongoing), resp.data)
            /\ aborted' = failed(Head(ongoing), resp.data)
       ELSE UNCHANGED <<ongoing, dest, aborted>>
    /\ dbus' = IF ongoing' = << >> THEN Quiet ELSE issue(Head(ongoing'))

\* await of DBusGen: the answer clears the request, and the value is what the
\* caller gets, with zeros above its width.
AwaitTick(resp) ==
    /\ IF resp.ready /\ resp.last /\ busy
       THEN LET u == Head(ongoing) IN
            /\ ongoing' = << >> /\ dbus' = Quiet
            /\ dest' = IF u.dest THEN applyTo(u.load_op, resp.data, ZeroWord) ELSE dest
       ELSE UNCHANGED <<ongoing, dbus, dest>>
    /\ UNCHANGED aborted
=============================================================================

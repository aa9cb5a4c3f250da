------------------------------ MODULE Testbench ------------------------------
(***************************************************************************)
(* testbench.cpp: run_parallel, the master process that forks workers and  *)
(* hands out the tests over pipes, and run_worker, what a worker does.  A  *)
(* test that fails ends its worker (abort).  Pipes carry one byte for each *)
(* request and one integer for each answer; a read ends with EOF when no   *)
(* process holds the write end any more.                                   *)
(***************************************************************************)
EXTENDS Integers, Sequences, FiniteSets

CONSTANTS
    Total,      \* number of tests (test_list.size())
    NWorkers,   \* number of workers
    MayFail     \* the tests that may fail

ASSUME TestbenchAssumption ==
    Total \in Nat /\ NWorkers \in Nat \ {0} /\ MayFail \subseteq 0..(Total - 1)

VARIABLES
    at,          \* what the master does next
    i,           \* its loop index
    ready,       \* the workers of select's result that are not served yet
    first,       \* first[j]: worker j has made no request
    dispatched, exited, passed, failed,   \* as in the code
    hung_up,     \* workers whose request pipe the master has closed (worker[j] = -1)
    closed,      \* workers whose answer pipe the master has closed
    proc,        \* state of each worker process
    task,        \* the test a worker runs
    requests,    \* bytes in the pipe from each worker
    answers,     \* integers in the pipe to each worker
    starts,      \* how often each test was started (not in the code)
    finished, crashed   \* tests that returned, and that failed (not in the code)

counters == <<dispatched, exited, passed, failed>>
masterVars == <<at, i, ready, first, counters, hung_up, closed>>
workerVars == <<proc, task, requests, answers, starts, finished, crashed>>
vars == <<masterVars, workerVars>>

Tests == 0..(Total - 1)
Workers == 0..(NWorkers - 1)
Exit == -1

TypeOK ==
    /\ at \in {"spawn", "select", "serve", "close", "poll", "kill", "wait", "done"}
    /\ i \in 0..NWorkers /\ ready \in SUBSET Workers /\ first \in [Workers -> BOOLEAN]
    /\ dispatched \in 0..Total /\ exited \in 0..NWorkers /\ passed \in 0..Total
    /\ failed \in BOOLEAN /\ hung_up \in SUBSET Workers /\ closed \in SUBSET Workers
    /\ proc \in [Workers -> {"none", "ask", "read", "run", "zombie", "reaped"}]
    /\ task \in [Workers -> Tests \cup {Exit}]
    /\ requests \in [Workers -> 0..1] /\ answers \in [Workers -> Seq(Tests \cup {Exit})]
    /\ starts \in [Tests -> Nat] /\ finished \in SUBSET Tests /\ crashed \in SUBSET Tests

Init ==
    /\ at = "spawn" /\ i = 0 /\ ready = {} /\ first = [w \in Workers |-> TRUE]
    /\ dispatched = 0 /\ exited = 0 /\ passed = 0 /\ failed = FALSE
    /\ hung_up = {} /\ closed = {}
    /\ proc = [w \in Workers |-> "none"] /\ task = [w \in Workers |-> Exit]
    /\ requests = [w \in Workers |-> 0] /\ answers = [w \in Workers |-> << >>]
    /\ starts = [t \in Tests |-> 0] /\ finished = {} /\ crashed = {}

Alive(w) == proc[w] \in {"ask", "read", "run"}

----------------------------------------------------------------------------
\* Workers.

\* Somebody holds the write end of the pipe to w: the master, or a worker forked
\* later, which inherits it and does not close it.
HasWriter(w) == w \notin closed \/ \E v \in Workers : v > w /\ Alive(v)

\* A dummy char requests a task.
Ask(w) ==
    /\ proc[w] = "ask"
    /\ requests' = [requests EXCEPT ![w] = @ + 1]
    /\ proc' = [proc EXCEPT ![w] = "read"]
    /\ UNCHANGED <<masterVars, task, answers, starts, finished, crashed>>

\* Mutant: the next task is requested before this one has run.
ReceiveAsksAhead(w) ==
    /\ proc[w] = "read" /\ answers[w] # << >>
    /\ answers' = [answers EXCEPT ![w] = Tail(@)]
    /\ LET t == Head(answers[w]) IN
       /\ task' = [task EXCEPT ![w] = t]
       /\ proc' = [proc EXCEPT ![w] = IF t < 0 THEN "zombie" ELSE "run"]
       /\ starts' = IF t < 0 THEN starts ELSE [starts EXCEPT ![t] = @ + 1]
       /\ requests' = IF t < 0 THEN requests ELSE [requests EXCEPT ![w] = @ + 1]
    /\ UNCHANGED <<masterVars, finished, crashed>>

\* The answer to the request: a test, or -1 to exit.
Receive(w) ==
    /\ proc[w] = "read" /\ answers[w] # << >>
    /\ answers' = [answers EXCEPT ![w] = Tail(@)]
    /\ LET t == Head(answers[w]) IN
       /\ task' = [task EXCEPT ![w] = t]
       /\ proc' = [proc EXCEPT ![w] = IF t < 0 THEN "zombie" ELSE "run"]
       /\ starts' = IF t < 0 THEN starts ELSE [starts EXCEPT ![t] = @ + 1]
    /\ UNCHANGED <<masterVars, requests, finished, crashed>>

\* read returns 0.
ReceiveEOF(w) ==
    /\ proc[w] = "read" /\ answers[w] = << >> /\ ~HasWriter(w)
    /\ proc' = [proc EXCEPT ![w] = "zombie"]
    /\ UNCHANGED <<masterVars, task, requests, answers, starts, finished, crashed>>

TestReturns(w) ==
    /\ proc[w] = "run"
    /\ proc' = [proc EXCEPT ![w] = "ask"]
    /\ finished' = finished \cup {task[w]}
    /\ UNCHANGED <<masterVars, task, requests, answers, starts, crashed>>

TestFails(w) ==
    /\ proc[w] = "run" /\ task[w] \in MayFail
    /\ proc' = [proc EXCEPT ![w] = "zombie"]
    /\ crashed' = crashed \cup {task[w]}
    /\ UNCHANGED <<masterVars, task, requests, answers, starts, finished>>

\* run_worker: every step is a system call or the test.
run_worker(w) == Ask(w) \/ Receive(w) \/ ReceiveEOF(w) \/ TestReturns(w) \/ TestFails(w)

----------------------------------------------------------------------------
\* The master.

Spawn ==
    /\ at = "spawn"
    /\ proc' = [proc EXCEPT ![i] = "ask"]
    /\ i' = i + 1
    /\ at' = IF i + 1 < NWorkers THEN "spawn" ELSE "select"
    /\ UNCHANGED <<ready, first, counters, hung_up, closed,
                   task, requests, answers, starts, finished, crashed>>

\* Mutant: the master keeps the write end of the worker's pipe, and never sees EOF.
ReadableKeptOpen(w) == w \notin hung_up /\ requests[w] > 0

\* A request or EOF can be read from worker w without blocking.
Readable(w) == w \notin hung_up /\ (requests[w] > 0 \/ ~Alive(w))

\* The head of the loop, and select, which waits for a worker.
Select ==
    /\ at = "select"
    /\ IF failed \/ exited = NWorkers
       THEN at' = "close" /\ UNCHANGED ready
       ELSE /\ ready' = {w \in Workers : Readable(w)}
            /\ ready' # {}
            /\ at' = "serve"
    /\ UNCHANGED <<i, first, counters, hung_up, closed, workerVars>>

\* Mutant: the first request counts as a passed test as well.
CountedFirst(j) == passed' = passed + 1 /\ first' = [first EXCEPT ![j] = FALSE]

\* A request that is not the first one reports a passed test.
Counted(j) ==
    /\ passed' = IF first[j] THEN passed ELSE passed + 1
    /\ first' = [first EXCEPT ![j] = FALSE]

\* Mutant: the counter of dispatched tests is not advanced.
DispatchSame(j) ==
    IF dispatched < Total
    THEN answers' = [answers EXCEPT ![j] = Append(@, dispatched)]
         /\ UNCHANGED <<dispatched, hung_up, exited>>
    ELSE /\ answers' = [answers EXCEPT ![j] = Append(@, Exit)]
         /\ hung_up' = hung_up \cup {j}
         /\ exited' = exited + 1
         /\ UNCHANGED dispatched

\* Mutant: the last test is never handed out.
DispatchShort(j) ==
    IF dispatched < Total - 1
    THEN /\ answers' = [answers EXCEPT ![j] = Append(@, dispatched)]
         /\ dispatched' = dispatched + 1
         /\ UNCHANGED <<hung_up, exited>>
    ELSE /\ answers' = [answers EXCEPT ![j] = Append(@, Exit)]
         /\ hung_up' = hung_up \cup {j}
         /\ exited' = exited + 1
         /\ UNCHANGED dispatched

\* The next test, or -1, and then the worker's pipe is not looked at any more.
Dispatch(j) ==
    IF dispatched < Total
    THEN /\ answers' = [answers EXCEPT ![j] = Append(@, dispatched)]
         /\ dispatched' = dispatched + 1
         /\ UNCHANGED <<hung_up, exited>>
    ELSE /\ answers' = [answers EXCEPT ![j] = Append(@, Exit)]
         /\ hung_up' = hung_up \cup {j}
         /\ exited' = exited + 1
         /\ UNCHANGED dispatched

\* The scan of the workers, in order: the first one left of select's result.
Serve(j) ==
    /\ at = "serve" /\ j \in ready /\ \A k \in ready : j <= k
    /\ IF requests[j] = 0
       THEN \* EOF: the child failed.
            /\ failed' = TRUE /\ ready' = {}
            /\ UNCHANGED <<first, dispatched, exited, passed, hung_up, answers, requests>>
       ELSE /\ requests' = [requests EXCEPT ![j] = @ - 1]
            /\ Counted(j) /\ Dispatch(j)
            /\ ready' = ready \ {j}
            /\ UNCHANGED failed
    /\ at' = IF ready' = {} THEN "select" ELSE "serve"
    /\ UNCHANGED <<i, closed, proc, task, starts, finished, crashed>>

CloseAll ==
    /\ at = "close"
    /\ closed' = Workers
    /\ at' = "poll" /\ i' = 0
    /\ UNCHANGED <<ready, first, counters, hung_up, workerVars>>

\* waitpid with WNOHANG, which reaps a worker that has ended.
Poll ==
    /\ at = "poll"
    /\ at' = IF failed /\ Alive(i) THEN "kill" ELSE "wait"
    /\ proc' = IF failed /\ proc[i] = "zombie" THEN [proc EXCEPT ![i] = "reaped"] ELSE proc
    /\ UNCHANGED <<i, ready, first, counters, hung_up, closed,
                   task, requests, answers, starts, finished, crashed>>

\* SIGKILL.
Kill ==
    /\ at = "kill"
    /\ proc' = IF Alive(i) THEN [proc EXCEPT ![i] = "zombie"] ELSE proc
    /\ at' = "wait"
    /\ UNCHANGED <<i, ready, first, counters, hung_up, closed,
                   task, requests, answers, starts, finished, crashed>>

\* Mutant: waitpid does not wait.
WaitNoHang ==
    /\ at = "wait"
    /\ proc' = IF Alive(i) THEN proc ELSE [proc EXCEPT ![i] = "reaped"]
    /\ i' = i + 1
    /\ at' = IF i + 1 < NWorkers THEN "poll" ELSE "done"
    /\ UNCHANGED <<ready, first, counters, hung_up, closed,
                   task, requests, answers, starts, finished, crashed>>

\* waitpid, which waits for the worker; it fails at once when there is none to reap.
Wait ==
    /\ at = "wait" /\ ~Alive(i)
    /\ proc' = [proc EXCEPT ![i] = "reaped"]
    /\ i' = i + 1
    /\ at' = IF i + 1 < NWorkers THEN "poll" ELSE "done"
    /\ UNCHANGED <<ready, first, counters, hung_up, closed,
                   task, requests, answers, starts, finished, crashed>>

Master ==
    Spawn \/ Select \/ (\E j \in Workers : Serve(j)) \/ CloseAll \/ Poll \/ Kill \/ Wait

Next == Master \/ \E w \in Workers : run_worker(w)

Spec == Init /\ [][Next]_vars

\* The processes are scheduled, and a test ends.
FairSpec == Spec /\ WF_vars(Master) /\ \A w \in Workers : WF_vars(run_worker(w))

----------------------------------------------------------------------------
\* No test is started twice, and no test that has failed or was cut off counts as
\* passed: every counted test has returned, and those that have returned and are not
\* counted yet are being reported.
CountIsHonest ==
    /\ \A t \in Tests : starts[t] <= 1
    /\ LET unreported == {w \in Workers : ~first[w] /\ (proc[w] = "ask" \/ requests[w] > 0)}
       IN  /\ passed + Cardinality(unreported) <= Cardinality(finished)
           /\ ~failed => passed + Cardinality(unreported) = Cardinality(finished)

\* The run is reported as failed exactly when a worker died of a test, and then only;
\* without a failure all the tests have returned and are counted.
VerdictIsRight ==
    at = "done" => /\ failed <=> crashed # {}
                   /\ ~failed => finished = Tests /\ passed = Total

\* The master never writes to a pipe that nobody reads, which would end it with SIGPIPE:
\* a worker with a request in its pipe is still there to read the answer.
AnswersAreRead ==
    at \in {"spawn", "select", "serve"} =>
        \A w \in Workers : requests[w] > 0 => proc[w] = "read" /\ answers[w] = << >>

\* When run_parallel returns, none of its workers is left.
NoOrphans == at = "done" => \A w \in Workers : proc[w] = "reaped"

\* run_parallel returns, also when a failing test leaves other workers in the middle of
\* their tests or waiting on a pipe whose write end a later worker has inherited.
Returns == <>(at = "done")
=============================================================================

-------------------------- MODULE Testbench_proofs --------------------------
(***************************************************************************)
(* Proofs about the parallel runner of testbench.cpp, for any number of    *)
(* tests and workers and any set of tests that may fail.                   *)
(*                                                                         *)
(* The invariant IInv follows each worker through its protocol with the    *)
(* master (Protocol, Hold), says where every test that was handed out is   *)
(* (Given, Placed), which worker the death of a test has left behind       *)
(* (Verdict), and how far the closing loop has come (Progress).            *)
(*                                                                         *)
(* The last part is about termination: until the end somebody has a step   *)
(* to take (NeverStuck), and every step uses up some of Left, a number     *)
(* (RunsAreBounded).                                                       *)
(***************************************************************************)
EXTENDS Testbench, Induction, FiniteSetTheorems, SequenceTheorems, TLAPS

\* Before the pipes are closed, and after.
Running == at \in {"spawn", "select", "serve"}
Closing == at \in {"poll", "kill", "wait", "done"}
Dead(w) == proc[w] \in {"zombie", "reaped"}

\* The workers whose last test has returned and is not counted yet.
Unreported == {w \in Workers : ~first[w] /\ (proc[w] = "ask" \/ requests[w] > 0)}

\* The test that worker w has been handed and has not finished, or Exit.
Given(w) == IF answers[w] # << >> THEN Head(answers[w])
            ELSE IF proc[w] = "run" THEN task[w] ELSE Exit

\* Everything but the counters is in its type.
Typed ==
    /\ at \in {"spawn", "select", "serve", "close", "poll", "kill", "wait", "done"}
    /\ i \in 0..NWorkers /\ ready \in SUBSET Workers /\ first \in [Workers -> BOOLEAN]
    /\ dispatched \in 0..Total /\ exited \in Nat /\ passed \in Nat
    /\ failed \in BOOLEAN /\ hung_up \in SUBSET Workers /\ closed \in SUBSET Workers
    /\ proc \in [Workers -> {"none", "ask", "read", "run", "zombie", "reaped"}]
    /\ task \in [Workers -> Tests \cup {Exit}]
    /\ requests \in [Workers -> 0..1] /\ answers \in [Workers -> Seq(Tests \cup {Exit})]
    /\ starts \in [Tests -> Nat] /\ finished \in SUBSET Tests /\ crashed \in SUBSET Tests

\* Where the master is.
Progress ==
    /\ at = "spawn" => i < NWorkers
    /\ at \in {"poll", "kill", "wait"} => i < NWorkers
    /\ at = "done" => i = NWorkers
    /\ at # "serve" => ready = {}
    /\ ready \cap hung_up = {}
    /\ at = "spawn" => hung_up = {}
    /\ Running \/ at = "close" => closed = {}
    /\ at \in {"spawn", "serve"} => ~failed
    /\ at = "kill" => failed
    /\ at = "close" \/ Closing => failed \/ hung_up = Workers
    /\ Closing => \A w \in Workers : w < i => proc[w] = "reaped"
    /\ \A w \in Workers : proc[w] = "none" <=> (at = "spawn" /\ w >= i)
    /\ Running \/ at = "close" => \A w \in Workers : proc[w] # "reaped"

\* What worker w and its pipes can be like.
Protocol(w) ==
    /\ Len(answers[w]) <= 1
    /\ answers[w] # << >> => /\ proc[w] = "read" \/ (Closing /\ Dead(w))
                             /\ (Head(answers[w]) = Exit <=> w \in hung_up)
    /\ answers[w] # << >> \/ proc[w] = "run" => requests[w] = 0 /\ ~first[w]
    /\ requests[w] = 1 => /\ proc[w] = "read" \/ (Closing /\ Dead(w))
                          /\ w \notin hung_up
    /\ proc[w] = "read" => answers[w] # << >> \/ requests[w] = 1
    /\ proc[w] \in {"none", "ask", "run"} => w \notin hung_up
    /\ proc[w] = "none" => first[w]
    /\ proc[w] = "run" => task[w] # Exit
    /\ w \in hung_up => dispatched = Total

\* Where the tests are.
Placed ==
    /\ \A w \in Workers : Given(w) # Exit => Given(w) < dispatched /\ Given(w) \notin finished
    /\ \A w, v \in Workers : w # v /\ Given(w) # Exit => Given(w) # Given(v)
    /\ \A t \in Tests : starts[t] <= 1
    /\ \A t \in Tests : t >= dispatched => starts[t] = 0 /\ t \notin finished
    /\ \A w \in Workers : answers[w] # << >> /\ Head(answers[w]) # Exit
                              => starts[Head(answers[w])] = 0
    /\ ~failed => \A t \in Tests : t < dispatched =>
                      t \in finished \cup crashed \/ \E w \in Workers : Given(w) = t

\* What a failed test leaves behind.
Verdict ==
    /\ crashed # {} => \E w \in Workers : w \notin hung_up /\ Dead(w)
    /\ Running => \A w \in Workers : Dead(w) /\ w \notin hung_up => crashed # {}
    /\ failed => crashed # {}
    /\ \A w \in ready : requests[w] = 0 => Dead(w)

Counts ==
    /\ exited = Cardinality(hung_up)
    /\ passed + Cardinality(Unreported) <= Cardinality(finished)
    /\ ~failed => passed + Cardinality(Unreported) = Cardinality(finished)

IInv == Typed /\ Progress /\ (\A w \in Workers : Protocol(w)) /\ Placed /\ Verdict /\ Counts

----------------------------------------------------------------------------
\* Pipes hold one integer at most: what is left when it is read, and what is there
\* when it is written.
LEMMA TailOfOne ==
    ASSUME NEW S, NEW s \in Seq(S), s # << >>, Len(s) <= 1
    PROVE  Tail(s) = << >> /\ Head(s) \in S /\ Tail(s) \in Seq(S)
  <1>1. Tail(s) \in Seq(S) /\ Len(Tail(s)) = Len(s) - 1 /\ Head(s) \in S
    BY HeadTailProperties
  <1>2. Len(s) \in Nat
    BY LenProperties
  <1>3. Tail(s) # << >> => Len(Tail(s)) \in Nat \ {0}
    BY <1>1, EmptySeq
  <1>4. QED
    BY <1>1, <1>2, <1>3

LEMMA AppendToEmpty ==
    ASSUME NEW S, NEW s \in Seq(S), s = << >>, NEW e \in S
    PROVE  /\ Append(s, e) \in Seq(S) /\ Append(s, e) # << >>
           /\ Len(Append(s, e)) <= 1 /\ Head(Append(s, e)) = e
  <1>1. Len(s) = 0
    BY EmptySeq
  <1>2. Head(Append(s, e)) = e
    BY HeadTailAppend
  <1>3. QED
    BY <1>1, <1>2, AppendProperties

\* The sets that are counted are finite.
LEMMA Finite ==
    /\ IsFiniteSet(Workers) /\ Cardinality(Workers) = NWorkers
    /\ IsFiniteSet(Tests) /\ Cardinality(Tests) = Total
    /\ \A T \in SUBSET Tests : IsFiniteSet(T) /\ Cardinality(T) \in Nat
                               /\ Cardinality(T) <= Total
                               /\ (Cardinality(T) = Total => T = Tests)
    /\ \A T \in SUBSET Workers : IsFiniteSet(T) /\ Cardinality(T) \in Nat
                                 /\ Cardinality(T) <= NWorkers
                                 /\ (Cardinality(T) = NWorkers => T = Workers)
  <1>1. IsFiniteSet(Workers) /\ Cardinality(Workers) = NWorkers
    BY TestbenchAssumption, FS_Interval DEF Workers
  <1>2. IsFiniteSet(Tests) /\ Cardinality(Tests) = Total
    BY TestbenchAssumption, FS_Interval DEF Tests
  <1>3. ASSUME NEW S, IsFiniteSet(S), NEW T \in SUBSET S
        PROVE  IsFiniteSet(T) /\ Cardinality(T) \in Nat /\ Cardinality(T) <= Cardinality(S)
               /\ (Cardinality(T) = Cardinality(S) => T = S)
    BY <1>3, FS_Subset, FS_CardinalityType
  <1>4. QED
    BY <1>1, <1>2, <1>3

LEMMA InitIInv == Init => IInv
  <1> SUFFICES ASSUME Init PROVE IInv
    OBVIOUS
  <1> USE TestbenchAssumption
  <1>1. Typed
    <2>1. << >> \in Seq(Tests \cup {Exit})
      BY EmptySeq
    <2>2. Exit \in Tests \cup {Exit} /\ 0 \in 0..NWorkers /\ 0 \in 0..Total /\ 0 \in 0..1
      OBVIOUS
    <2>3. QED
      BY <2>1, <2>2 DEF Init, Typed
  <1>2. Progress
    BY DEF Init, Progress, Running, Closing, Workers
  <1>3. ASSUME NEW w \in Workers PROVE Protocol(w)
    BY EmptySeq DEF Init, Protocol
  <1>4. \A w \in Workers : Given(w) = Exit
    BY DEF Init, Given
  <1>5. Placed
    BY <1>4 DEF Init, Placed, Tests
  <1>6. Verdict
    BY DEF Init, Verdict, Dead
  <1>7. Counts
    <2>1. Unreported = {}
      BY DEF Init, Unreported
    <2>2. QED
      BY <2>1, FS_EmptySet DEF Init, Counts
  <1>8. QED
    BY <1>1, <1>2, <1>3, <1>5, <1>6, <1>7 DEF IInv

----------------------------------------------------------------------------
\* Each step of a worker keeps the invariant.
LEMMA AskStep ==
    ASSUME IInv, NEW w \in Workers, Ask(w)
    PROVE  IInv'
  <1> USE TestbenchAssumption
  <1>0. Typed /\ Progress /\ Placed /\ Verdict /\ Counts /\ \A v \in Workers : Protocol(v)
    BY DEF IInv
  <1>1. Typed'
    <2>0. requests[w] # 1
      BY <1>0 DEF Ask, Protocol, Dead
    <2>1. requests[w] = 0
      BY <1>0, <2>0 DEF Typed
    <2>2. requests' \in [Workers -> 0..1]
      BY <1>0, <2>1 DEF Ask, Typed
    <2>3. QED
      BY <1>0, <2>2 DEF Ask, Typed, masterVars, counters
  <1>2. Progress'
    BY <1>0 DEF Ask, Typed, Progress, Running, Closing, masterVars, counters
  <1>3. ASSUME NEW v \in Workers PROVE Protocol(v)'
    BY <1>0 DEF Ask, Typed, Protocol, Closing, Dead, masterVars, counters
  <1>4. \A v \in Workers : Given(v)' = Given(v)
    BY <1>0 DEF Ask, Typed, Given, Protocol
  <1>5. Placed'
    BY <1>0, <1>4 DEF Ask, Typed, Placed, masterVars, counters
  <1>6. Verdict'
    BY <1>0 DEF Ask, Typed, Verdict, Running, Dead, masterVars, counters
  <1>7. Counts'
    <2>1. Unreported' = Unreported
      BY <1>0 DEF Ask, Typed, Unreported, Protocol, masterVars, counters
    <2>2. QED
      BY <1>0, <2>1 DEF Ask, Counts, masterVars, counters
  <1>8. QED
    BY <1>1, <1>2, <1>3, <1>5, <1>6, <1>7 DEF IInv

LEMMA ReceiveStep ==
    ASSUME IInv, NEW w \in Workers, Receive(w)
    PROVE  IInv'
  <1> DEFINE t == Head(answers[w])
  <1> USE TestbenchAssumption
  <1>0. Typed /\ Progress /\ Placed /\ Verdict /\ Counts /\ \A v \in Workers : Protocol(v)
    BY DEF IInv
  <1>a. /\ Tail(answers[w]) = << >> /\ Tail(answers[w]) \in Seq(Tests \cup {Exit})
        /\ t \in Tests \cup {Exit}
    <2>1. /\ answers[w] \in Seq(Tests \cup {Exit}) /\ answers[w] # << >>
          /\ Len(answers[w]) <= 1
      BY <1>0 DEF Typed, Receive, Protocol
    <2>2. QED
      BY <2>1, TailOfOne
  <1>b. /\ t < 0 <=> t = Exit
        /\ t = Exit <=> w \in hung_up
        /\ requests[w] = 0 /\ ~first[w]
        /\ t # Exit => t \in Tests /\ starts[t] = 0
    BY <1>0, <1>a DEF Typed, Receive, Protocol, Placed, Tests, Exit
  <1> HIDE DEF t
  <1>c. /\ proc[w] = "read" /\ answers[w] # << >>
        /\ answers' = [answers EXCEPT ![w] = << >>]
        /\ task' = [task EXCEPT ![w] = t]
        /\ proc' = [proc EXCEPT ![w] = IF t = Exit THEN "zombie" ELSE "run"]
        /\ starts' = IF t = Exit THEN starts ELSE [starts EXCEPT ![t] = @ + 1]
        /\ UNCHANGED <<masterVars, requests, finished, crashed>>
    BY <1>a, <1>b DEF Receive, t
  <1>1. Typed'
    BY <1>0, <1>a, <1>b, <1>c, EmptySeq DEF Typed, masterVars, counters
  <1>2. Progress'
    BY <1>0, <1>c DEF Typed, Progress, Running, Closing, masterVars, counters
  <1>3. ASSUME NEW v \in Workers PROVE Protocol(v)'
    BY <1>0, <1>b, <1>c, EmptySeq DEF Typed, Protocol, Closing, Dead, masterVars, counters
  <1>4. \A v \in Workers : Given(v)' = Given(v)
    BY <1>0, <1>c DEF Typed, Given, t
  <1>5. Placed'
    <2>1. t # Exit => Given(w) = t
      BY <1>c DEF Given, t
    <2>2. \A u \in Tests : starts'[u] <= 1
      BY <1>0, <1>b, <1>c DEF Typed, Placed
    <2>3. \A u \in Tests : u >= dispatched => starts'[u] = 0
      BY <1>0, <1>b, <1>c, <2>1 DEF Typed, Placed, Tests
    <2>4. ASSUME NEW v \in Workers, answers'[v] # << >>, Head(answers'[v]) # Exit
          PROVE  starts'[Head(answers'[v])] = 0
      <3>1. v # w /\ answers'[v] = answers[v] /\ answers[v] # << >> /\ Head(answers[v]) # Exit
        BY <1>0, <1>c, <2>4 DEF Typed
      <3>2. Given(v) = Head(answers[v]) /\ Given(v) # Exit /\ starts[Given(v)] = 0
        BY <1>0, <3>1 DEF Placed, Given
      <3>3. Given(v) # t
        BY <1>0, <2>1, <3>1, <3>2 DEF Placed
      <3>4. Given(v) \in Tests
        BY <1>0, <3>1, <3>2, HeadTailProperties DEF Typed
      <3>5. QED
        BY <1>0, <1>b, <1>c, <3>1, <3>2, <3>3, <3>4 DEF Typed
    <2>5. QED
      BY <1>0, <1>c, <1>4, <2>2, <2>3, <2>4 DEF Placed, masterVars, counters
  <1>6. Verdict'
    BY <1>0, <1>b, <1>c DEF Typed, Verdict, Running, Dead, masterVars, counters
  <1>7. Counts'
    <2>1. Unreported' = Unreported
      BY <1>0, <1>b, <1>c DEF Typed, Unreported, masterVars, counters
    <2>2. QED
      BY <1>0, <1>c, <2>1 DEF Counts, masterVars, counters
  <1>8. QED
    BY <1>1, <1>2, <1>3, <1>5, <1>6, <1>7 DEF IInv

LEMMA ReceiveEOFStep ==
    ASSUME IInv, NEW w \in Workers, ReceiveEOF(w)
    PROVE  IInv'
  <1> USE TestbenchAssumption
  <1>0. Typed /\ Progress /\ Placed /\ Verdict /\ Counts /\ \A v \in Workers : Protocol(v)
    BY DEF IInv
  <1>a. Closing /\ failed
    BY <1>0 DEF ReceiveEOF, HasWriter, Typed, Progress, Protocol, Running, Closing
  <1>1. Typed'
    BY <1>0 DEF ReceiveEOF, Typed, masterVars, counters
  <1>2. Progress'
    BY <1>0 DEF ReceiveEOF, Typed, Progress, Running, Closing, masterVars, counters
  <1>3. ASSUME NEW v \in Workers PROVE Protocol(v)'
    BY <1>0, <1>a DEF ReceiveEOF, Typed, Protocol, Closing, Dead, masterVars, counters
  <1>4. \A v \in Workers : Given(v)' = Given(v)
    BY <1>0 DEF ReceiveEOF, Typed, Given
  <1>5. Placed'
    BY <1>0, <1>4 DEF ReceiveEOF, Typed, Placed, masterVars, counters
  <1>6. Verdict'
    BY <1>0, <1>a DEF ReceiveEOF, Typed, Verdict, Running, Closing, Dead, masterVars, counters
  <1>7. Counts'
    <2>1. Unreported' = Unreported
      BY <1>0 DEF ReceiveEOF, Typed, Unreported, masterVars, counters
    <2>2. QED
      BY <1>0, <2>1 DEF ReceiveEOF, Counts, masterVars, counters
  <1>8. QED
    BY <1>1, <1>2, <1>3, <1>5, <1>6, <1>7 DEF IInv

LEMMA TestReturnsStep ==
    ASSUME IInv, NEW w \in Workers, TestReturns(w)
    PROVE  IInv'
  <1> USE TestbenchAssumption
  <1>0. Typed /\ Progress /\ Placed /\ Verdict /\ Counts /\ \A v \in Workers : Protocol(v)
    BY DEF IInv
  <1>a. /\ answers[w] = << >> /\ requests[w] = 0 /\ ~first[w] /\ w \notin hung_up
        /\ task[w] \in Tests /\ Given(w) = task[w]
    BY <1>0 DEF TestReturns, Typed, Protocol, Closing, Dead, Given
  <1>b. Given(w) < dispatched /\ Given(w) \notin finished /\ Given(w) # Exit
    BY <1>0, <1>a DEF Placed, Tests, Exit
  <1>1. Typed'
    BY <1>0, <1>a DEF TestReturns, Typed, masterVars, counters
  <1>2. Progress'
    BY <1>0 DEF TestReturns, Typed, Progress, Running, Closing, masterVars, counters
  <1>3. ASSUME NEW v \in Workers PROVE Protocol(v)'
    BY <1>0, <1>a DEF TestReturns, Typed, Protocol, Closing, Dead, masterVars, counters
  <1>4. /\ Given(w)' = Exit
        /\ \A v \in Workers : v # w => Given(v)' = Given(v)
    BY <1>0, <1>a DEF TestReturns, Typed, Given
  <1>5. Placed'
    <2>1. \A v \in Workers : Given(v)' # Exit => Given(v)' < dispatched /\ Given(v)' \notin finished'
      BY <1>0, <1>a, <1>4 DEF TestReturns, Placed
    <2>2. \A v, u \in Workers : v # u /\ Given(v)' # Exit => Given(v)' # Given(u)'
      BY <1>0, <1>4 DEF Placed
    <2>3. \A t \in Tests : t >= dispatched => starts[t] = 0 /\ t \notin finished'
      <3>1. ~(task[w] >= dispatched)
        BY <1>0, <1>a, <1>b DEF Typed, Tests
      <3>2. QED
        BY <1>0, <3>1 DEF TestReturns, Placed
    <2>4. ~failed => \A t \in Tests : t < dispatched =>
                      t \in finished' \cup crashed \/ \E v \in Workers : Given(v)' = t
      BY <1>0, <1>a, <1>4 DEF TestReturns, Placed
    <2>5. QED
      BY <1>0, <2>1, <2>2, <2>3, <2>4 DEF TestReturns, Placed, masterVars, counters
  <1>6. Verdict'
    BY <1>0 DEF TestReturns, Typed, Verdict, Running, Dead, masterVars, counters
  <1>7. Counts'
    <2>1. Unreported' = Unreported \cup {w} /\ w \notin Unreported
      BY <1>0, <1>a DEF TestReturns, Typed, Unreported, masterVars, counters
    <2>2. /\ Cardinality(Unreported') = Cardinality(Unreported) + 1
          /\ Cardinality(Unreported) \in Nat
      BY <2>1, Finite, FS_AddElement DEF Unreported
    <2>3. Cardinality(finished') = Cardinality(finished) + 1 /\ Cardinality(finished) \in Nat
      <3>1. IsFiniteSet(finished) /\ Cardinality(finished) \in Nat
        BY <1>0, Finite DEF Typed
      <3>2. finished' = finished \cup {task[w]} /\ task[w] \notin finished
        BY <1>a, <1>b DEF TestReturns
      <3>3. QED
        BY <3>1, <3>2, FS_AddElement
    <2>4. passed' = passed /\ failed' = failed /\ exited' = exited /\ hung_up' = hung_up
      BY DEF TestReturns, masterVars, counters
    <2>5. passed' + Cardinality(Unreported') <= Cardinality(finished')
      BY <1>0, <2>2, <2>3, <2>4 DEF Typed, Counts
    <2>6. ~failed' => passed' + Cardinality(Unreported') = Cardinality(finished')
      BY <1>0, <2>2, <2>3, <2>4 DEF Typed, Counts
    <2>7. QED
      BY <1>0, <2>4, <2>5, <2>6 DEF Counts
  <1>8. QED
    BY <1>1, <1>2, <1>3, <1>5, <1>6, <1>7 DEF IInv

LEMMA TestFailsStep ==
    ASSUME IInv, NEW w \in Workers, TestFails(w)
    PROVE  IInv'
  <1> USE TestbenchAssumption
  <1>0. Typed /\ Progress /\ Placed /\ Verdict /\ Counts /\ \A v \in Workers : Protocol(v)
    BY DEF IInv
  <1>a. /\ answers[w] = << >> /\ requests[w] = 0 /\ ~first[w] /\ w \notin hung_up
        /\ task[w] \in Tests /\ Given(w) = task[w]
    BY <1>0 DEF TestFails, Typed, Protocol, Closing, Dead, Given
  <1>b. Given(w) < dispatched /\ Given(w) \notin finished /\ Given(w) # Exit
    BY <1>0, <1>a DEF Placed, Tests, Exit
  <1>1. Typed'
    BY <1>0, <1>a DEF TestFails, Typed, masterVars, counters
  <1>2. Progress'
    BY <1>0 DEF TestFails, Typed, Progress, Running, Closing, masterVars, counters
  <1>3. ASSUME NEW v \in Workers PROVE Protocol(v)'
    BY <1>0, <1>a DEF TestFails, Typed, Protocol, Closing, Dead, masterVars, counters
  <1>4. /\ Given(w)' = Exit
        /\ \A v \in Workers : v # w => Given(v)' = Given(v)
    BY <1>0, <1>a DEF TestFails, Typed, Given
  <1>5. Placed'
    <2>1. \A v \in Workers : Given(v)' # Exit => Given(v)' < dispatched /\ Given(v)' \notin finished
      BY <1>0, <1>4 DEF Placed
    <2>2. \A v, u \in Workers : v # u /\ Given(v)' # Exit => Given(v)' # Given(u)'
      BY <1>0, <1>4 DEF Placed
    <2>4. ~failed => \A t \in Tests : t < dispatched =>
                      t \in finished \cup crashed' \/ \E v \in Workers : Given(v)' = t
      BY <1>0, <1>a, <1>4 DEF TestFails, Placed
    <2>5. QED
      BY <1>0, <2>1, <2>2, <2>4 DEF TestFails, Placed, masterVars, counters
  <1>6. Verdict'
    BY <1>0, <1>a DEF TestFails, Typed, Verdict, Running, Dead, masterVars, counters
  <1>7. Counts'
    <2>1. Unreported' = Unreported
      BY <1>0, <1>a DEF TestFails, Typed, Unreported, masterVars, counters
    <2>4. QED
      BY <1>0, <2>1 DEF TestFails, Counts, masterVars, counters
  <1>8. QED
    BY <1>1, <1>2, <1>3, <1>5, <1>6, <1>7 DEF IInv

----------------------------------------------------------------------------
\* Each step of the master keeps the invariant.
LEMMA SpawnStep == IInv /\ Spawn => IInv'
  <1> SUFFICES ASSUME IInv, Spawn PROVE IInv'
    OBVIOUS
  <1> USE TestbenchAssumption
  <1>0. Typed /\ Progress /\ Placed /\ Verdict /\ Counts /\ \A v \in Workers : Protocol(v)
    BY DEF IInv
  <1>a. /\ i \in Workers /\ proc[i] = "none" /\ i < NWorkers /\ ~failed /\ at = "spawn"
        /\ \A v \in Workers : proc[v] = "none" <=> v >= i
    BY <1>0 DEF Spawn, Typed, Progress, Workers
  <1>b. answers[i] = << >> /\ requests[i] = 0 /\ requests[i] # 1
    <2>1. answers[i] = << >> /\ requests[i] # 1
      BY <1>0, <1>a DEF Protocol, Dead
    <2>2. QED
      BY <1>0, <1>a, <2>1 DEF Typed
  <1>1. Typed'
    BY <1>0, <1>a DEF Spawn, Typed, counters
  <1>2. Progress'
    <2>1. \A v \in Workers : proc'[v] = "none" <=> (at' = "spawn" /\ v >= i')
      BY <1>0, <1>a DEF Spawn, Typed, Workers
    <2>2. \A v \in Workers : proc'[v] # "reaped"
      BY <1>0, <1>a DEF Spawn, Typed, Progress, Running
    <2>3. at' \in {"spawn", "select"} /\ (at' = "spawn" => i' < NWorkers)
      BY DEF Spawn
    <2>4. UNCHANGED <<ready, hung_up, closed, failed>>
      BY DEF Spawn, counters
    <2>5. QED
      BY <1>0, <1>a, <2>1, <2>2, <2>3, <2>4 DEF Progress, Running, Closing
  <1>3. ASSUME NEW v \in Workers PROVE Protocol(v)'
    BY <1>0, <1>a, <1>b DEF Spawn, Typed, Progress, Protocol, Closing, Dead, counters
  <1>4. \A v \in Workers : Given(v)' = Given(v)
    BY <1>0, <1>a DEF Spawn, Typed, Given
  <1>5. Placed'
    BY <1>0, <1>4 DEF Spawn, Typed, Placed, counters
  <1>6. Verdict'
    BY <1>0, <1>a DEF Spawn, Typed, Verdict, Running, Dead, counters
  <1>7. Counts'
    <2>0. first[i]
      BY <1>0, <1>a DEF Protocol
    <2>1. Unreported' = Unreported
      BY <1>0, <1>a, <1>b, <2>0 DEF Spawn, Typed, Unreported, counters
    <2>2. QED
      BY <1>0, <2>1 DEF Spawn, Counts, counters
  <1>8. QED
    BY <1>1, <1>2, <1>3, <1>5, <1>6, <1>7 DEF IInv

LEMMA SelectStep == IInv /\ Select => IInv'
  <1> SUFFICES ASSUME IInv, Select PROVE IInv'
    OBVIOUS
  <1> USE TestbenchAssumption
  <1>0. Typed /\ Progress /\ Placed /\ Verdict /\ Counts /\ \A v \in Workers : Protocol(v)
    BY DEF IInv
  <1>a. exited = NWorkers => hung_up = Workers
    BY <1>0, Finite DEF Typed, Counts
  <1>b. \A v \in ready' : v \in Workers /\ v \notin hung_up /\ (requests[v] > 0 \/ ~Alive(v))
    BY <1>0 DEF Select, Readable, Progress
  <1>1. Typed'
    BY <1>0, <1>b DEF Select, Typed, counters, workerVars
  <1>2. Progress'
    BY <1>0, <1>a, <1>b DEF Select, Typed, Progress, Running, Closing, counters, workerVars
  <1>3. ASSUME NEW v \in Workers PROVE Protocol(v)'
    BY <1>0 DEF Select, Typed, Protocol, Closing, Dead, counters, workerVars
  <1>4. \A v \in Workers : Given(v)' = Given(v)
    BY <1>0 DEF Select, Given, workerVars
  <1>5. Placed'
    BY <1>0, <1>4 DEF Select, Placed, counters, workerVars
  <1>6. Verdict'
    <2>1. ASSUME NEW v \in ready', requests[v] = 0 PROVE Dead(v)
      <3>1. v \in Workers /\ ~Alive(v)
        BY <1>b, <2>1
      <3>2. proc[v] # "none" /\ proc[v] \in {"none", "ask", "read", "run", "zombie", "reaped"}
        BY <1>0, <3>1 DEF Select, Typed, Progress
      <3>3. QED
        BY <3>1, <3>2 DEF Alive, Dead
    <2>2. QED
      BY <1>0, <2>1 DEF Select, Verdict, Running, Dead, counters, workerVars
  <1>7. Counts'
    <2>1. Unreported' = Unreported
      BY <1>0 DEF Select, Unreported, counters, workerVars
    <2>2. QED
      BY <1>0, <2>1 DEF Select, Counts, counters, workerVars
  <1>8. QED
    BY <1>1, <1>2, <1>3, <1>5, <1>6, <1>7 DEF IInv

\* The master reads EOF: the worker died of a test.
LEMMA ServeEOFStep ==
    ASSUME IInv, NEW j \in Workers, Serve(j), requests[j] = 0
    PROVE  IInv'
  <1> USE TestbenchAssumption
  <1>0. Typed /\ Progress /\ Placed /\ Verdict /\ Counts /\ \A v \in Workers : Protocol(v)
    BY DEF IInv
  <1>a. /\ at = "serve" /\ j \in ready /\ failed' = TRUE /\ ready' = {} /\ at' = "select"
        /\ UNCHANGED <<i, closed, proc, task, starts, finished, crashed>>
        /\ UNCHANGED <<first, dispatched, exited, passed, hung_up, answers, requests>>
    BY DEF Serve
  <1>b. crashed # {}
    BY <1>0, <1>a DEF Progress, Verdict, Running
  <1>1. Typed'
    BY <1>0, <1>a DEF Typed
  <1>2. Progress'
    BY <1>0, <1>a DEF Progress, Running, Closing
  <1>3. ASSUME NEW v \in Workers PROVE Protocol(v)'
    BY <1>0, <1>a DEF Protocol, Closing, Dead
  <1>4. \A v \in Workers : Given(v)' = Given(v)
    BY <1>a DEF Given
  <1>5. Placed'
    BY <1>0, <1>a, <1>4 DEF Placed
  <1>6. Verdict'
    BY <1>0, <1>a, <1>b DEF Verdict, Running, Dead
  <1>7. Counts'
    <2>1. Unreported' = Unreported
      BY <1>a DEF Unreported
    <2>2. QED
      BY <1>0, <1>a, <2>1 DEF Counts
  <1>8. QED
    BY <1>1, <1>2, <1>3, <1>5, <1>6, <1>7 DEF IInv

\* The master reads a request: it counts it, unless it is the first one, and answers.
LEMMA ServeRequestStep ==
    ASSUME IInv, NEW j \in Workers, Serve(j), requests[j] # 0
    PROVE  IInv'
  <1> DEFINE e == IF dispatched < Total THEN dispatched ELSE Exit
  <1> USE TestbenchAssumption
  <1>0. Typed /\ Progress /\ Placed /\ Verdict /\ Counts /\ \A v \in Workers : Protocol(v)
    BY DEF IInv
  <1>a. /\ at = "serve" /\ j \in ready /\ requests[j] = 1 /\ proc[j] = "read"
        /\ answers[j] = << >> /\ j \notin hung_up /\ ~failed /\ closed = {}
    BY <1>0 DEF Serve, Typed, Progress, Protocol, Running, Closing, Dead
  <1>b. /\ e \in Tests \cup {Exit}
        /\ e = Exit <=> ~(dispatched < Total)
        /\ e # Exit => e = dispatched /\ e \in Tests
        /\ e = Exit => dispatched = Total
    BY <1>0 DEF Typed, Tests, Exit
  <1>c. /\ Append(answers[j], e) \in Seq(Tests \cup {Exit}) /\ Append(answers[j], e) # << >>
        /\ Len(Append(answers[j], e)) <= 1 /\ Head(Append(answers[j], e)) = e
    <2>1. answers[j] \in Seq(Tests \cup {Exit})
      BY <1>0 DEF Typed
    <2>2. QED
      BY <1>a, <1>b, <2>1, AppendToEmpty
  <1>d. /\ answers' = [answers EXCEPT ![j] = Append(@, e)]
        /\ dispatched' = IF e = Exit THEN dispatched ELSE dispatched + 1
        /\ hung_up' = IF e = Exit THEN hung_up \cup {j} ELSE hung_up
        /\ exited' = IF e = Exit THEN exited + 1 ELSE exited
    BY <1>b DEF Serve, Dispatch
  <1> HIDE DEF e
  <1>e. /\ requests' = [requests EXCEPT ![j] = 0]
        /\ passed' = IF first[j] THEN passed ELSE passed + 1
        /\ first' = [first EXCEPT ![j] = FALSE]
        /\ ready' = ready \ {j} /\ failed' = failed
        /\ at' = IF ready' = {} THEN "select" ELSE "serve"
        /\ UNCHANGED <<i, closed, proc, task, starts, finished, crashed>>
    BY <1>0, <1>a DEF Serve, Counted, Typed
  <1>1. Typed'
    <2>1. answers' \in [Workers -> Seq(Tests \cup {Exit})]
      BY <1>0, <1>c, <1>d DEF Typed
    <2>2. dispatched' \in 0..Total
      BY <1>0, <1>b, <1>d DEF Typed
    <2>3. QED
      BY <1>0, <1>d, <1>e, <2>1, <2>2 DEF Typed
  <1>2. Progress'
    BY <1>0, <1>a, <1>d, <1>e DEF Typed, Progress, Running, Closing
  <1>3. ASSUME NEW v \in Workers PROVE Protocol(v)'
    <2>1. CASE v = j
      BY <1>0, <1>a, <1>b, <1>c, <1>d, <1>e, <2>1 DEF Typed, Protocol
    <2>2. CASE v # j
      <3>1. /\ answers'[v] = answers[v] /\ requests'[v] = requests[v] /\ first'[v] = first[v]
            /\ proc' = proc /\ task' = task /\ (v \in hung_up' <=> v \in hung_up)
        BY <1>0, <1>a, <1>d, <1>e, <2>2 DEF Typed
      <3>4. ~Closing /\ ~Closing'
        BY <1>a, <1>e DEF Closing
      <3>2. v \in hung_up' => dispatched' = Total
        BY <1>0, <1>b, <1>d, <3>1 DEF Protocol, Typed
      <3>3. QED
        <4>1. Protocol(v)
          BY <1>0
        <4>2. Dead(v)' <=> Dead(v)
          BY <3>1 DEF Dead
        <4>3. QED
          BY <3>1, <3>2, <3>4, <4>1, <4>2 DEF Protocol
    <2>3. QED
      BY <2>1, <2>2
  <1>4. /\ Given(j)' = e /\ Given(j) = Exit
        /\ \A v \in Workers : v # j => Given(v)' = Given(v)
    BY <1>0, <1>a, <1>c, <1>d, <1>e DEF Typed, Given
  <1>5. Placed'
    <2>0. dispatched \in Nat /\ dispatched' \in Nat /\ dispatched <= dispatched'
          /\ (e # Exit => e < dispatched' /\ e \notin finished /\ starts[e] = 0)
      BY <1>0, <1>b, <1>d DEF Typed, Placed, Tests
    <2>1. ASSUME NEW v \in Workers, Given(v)' # Exit
          PROVE  Given(v)' < dispatched' /\ Given(v)' \notin finished
      <3>1. CASE v = j
        BY <1>4, <2>0, <2>1, <3>1
      <3>2. CASE v # j
        <4>1. Given(v) < dispatched /\ Given(v) \notin finished /\ Given(v) \in Tests \cup {Exit}
          BY <1>0, <1>4, <2>1, <3>2, HeadTailProperties DEF Placed, Given, Typed
        <4>2. QED
          BY <1>4, <2>0, <3>2, <4>1 DEF Tests, Exit
      <3>3. QED
        BY <3>1, <3>2
    <2>2. ASSUME NEW v \in Workers, NEW u \in Workers, v # u, Given(v)' # Exit
          PROVE  Given(v)' # Given(u)'
      <3>1. \A x \in Workers : Given(x) # dispatched \/ dispatched = Exit
        BY <1>0, <2>0 DEF Placed
      <3>2. dispatched # Exit
        BY <2>0 DEF Exit
      <3>3. QED
        BY <1>0, <1>4, <1>b, <2>2, <3>1, <3>2 DEF Placed
    <2>3. \A t \in Tests : t >= dispatched' => starts[t] = 0 /\ t \notin finished
      BY <1>0, <2>0 DEF Placed, Tests
    <2>4. \A v \in Workers : answers'[v] # << >> /\ Head(answers'[v]) # Exit
                                 => starts[Head(answers'[v])] = 0
      BY <1>0, <1>a, <1>c, <1>d, <2>0 DEF Typed, Placed
    <2>5. ASSUME NEW t \in Tests, t < dispatched'
          PROVE  t \in finished \cup crashed \/ \E v \in Workers : Given(v)' = t
      <3>1. t < dispatched \/ t = e
        BY <1>0, <1>b, <1>d, <2>0, <2>5 DEF Tests
      <3>2. CASE t < dispatched
        <4>1. t \in finished \cup crashed \/ \E v \in Workers : Given(v) = t
          BY <1>0, <1>a, <3>2 DEF Placed
        <4>2. t # Exit
          BY DEF Tests, Exit
        <4>3. QED
          BY <1>4, <4>1, <4>2
      <3>3. QED
        BY <1>4, <3>1, <3>2
    <2>6. QED
      BY <1>0, <1>e, <2>1, <2>2, <2>3, <2>4, <2>5 DEF Placed
  <1>6. Verdict'
    BY <1>0, <1>a, <1>d, <1>e DEF Typed, Verdict, Running, Dead
  <1>7. Counts'
    <2>1. exited' = Cardinality(hung_up')
      BY <1>0, <1>a, <1>d, Finite, FS_AddElement DEF Typed, Counts
    <2>2. CASE first[j]
      <3>1. Unreported' = Unreported
        BY <1>0, <1>a, <1>e, <2>2 DEF Typed, Unreported
      <3>2. QED
        BY <1>0, <1>e, <2>1, <2>2, <3>1 DEF Counts
    <2>3. CASE ~first[j]
      <3>1. Unreported' = Unreported \ {j} /\ j \in Unreported
        BY <1>0, <1>a, <1>e, <2>3 DEF Typed, Unreported
      <3>2. Unreported \in SUBSET Workers /\ IsFiniteSet(Unreported) /\ Cardinality(Unreported) \in Nat
        BY Finite DEF Unreported
      <3>3. Cardinality(Unreported') = Cardinality(Unreported) - 1
        BY <3>1, <3>2, FS_RemoveElement
      <3>4. passed' = passed + 1 /\ finished' = finished /\ failed' = failed
        BY <1>e, <2>3
      <3>5. passed' + Cardinality(Unreported') = passed + Cardinality(Unreported)
        BY <1>0, <3>2, <3>3, <3>4 DEF Typed
      <3>6. QED
        BY <1>0, <2>1, <3>4, <3>5 DEF Counts
    <2>4. QED
      BY <2>2, <2>3
  <1>8. QED
    BY <1>1, <1>2, <1>3, <1>5, <1>6, <1>7 DEF IInv

LEMMA CloseStep == IInv /\ CloseAll => IInv'
  <1> SUFFICES ASSUME IInv, CloseAll PROVE IInv'
    OBVIOUS
  <1> USE TestbenchAssumption
  <1>0. Typed /\ Progress /\ Placed /\ Verdict /\ Counts /\ \A v \in Workers : Protocol(v)
    BY DEF IInv
  <1>1. Typed'
    BY <1>0 DEF CloseAll, Typed, counters, workerVars
  <1>2. Progress'
    BY <1>0 DEF CloseAll, Typed, Progress, Running, Closing, counters, workerVars, Workers
  <1>3. ASSUME NEW v \in Workers PROVE Protocol(v)'
    BY <1>0 DEF CloseAll, Protocol, Closing, Dead, counters, workerVars
  <1>4. \A v \in Workers : Given(v)' = Given(v)
    BY <1>0 DEF CloseAll, Given, workerVars
  <1>5. Placed'
    BY <1>0, <1>4 DEF CloseAll, Placed, counters, workerVars
  <1>6. Verdict'
    BY <1>0 DEF CloseAll, Verdict, Running, Dead, counters, workerVars
  <1>7. Counts'
    <2>1. Unreported' = Unreported
      BY <1>0 DEF CloseAll, Unreported, counters, workerVars
    <2>2. QED
      BY <1>0, <2>1 DEF CloseAll, Counts, counters, workerVars
  <1>8. QED
    BY <1>1, <1>2, <1>3, <1>5, <1>6, <1>7 DEF IInv

LEMMA PollStep == IInv /\ Poll => IInv'
  <1> SUFFICES ASSUME IInv, Poll PROVE IInv'
    OBVIOUS
  <1> USE TestbenchAssumption
  <1>0. Typed /\ Progress /\ Placed /\ Verdict /\ Counts /\ \A v \in Workers : Protocol(v)
    BY DEF IInv
  <1>a. i \in Workers /\ at = "poll" /\ at' \in {"kill", "wait"} /\ (at' = "kill" => failed)
    BY <1>0 DEF Poll, Typed, Progress, Workers
  <1>b. /\ proc' \in [Workers -> {"none", "ask", "read", "run", "zombie", "reaped"}]
        /\ \A v \in Workers : proc'[v] = proc[v] \/ (proc[v] = "zombie" /\ proc'[v] = "reaped")
    BY <1>0, <1>a DEF Poll, Typed
  <1>1. Typed'
    BY <1>0, <1>a, <1>b DEF Poll, Typed, counters
  <1>2. Progress'
    <2>1. \A v \in Workers : v < i => proc'[v] = "reaped"
      BY <1>0, <1>a, <1>b DEF Progress, Closing
    <2>2. \A v \in Workers : proc'[v] # "none"
      BY <1>0, <1>a, <1>b DEF Progress
    <2>3. QED
      BY <1>0, <1>a, <2>1, <2>2 DEF Poll, Progress, Running, Closing, counters
  <1>3. ASSUME NEW v \in Workers PROVE Protocol(v)'
    BY <1>0, <1>a, <1>b DEF Poll, Protocol, Closing, Dead, counters
  <1>4. \A v \in Workers : Given(v)' = Given(v)
    BY <1>0, <1>b DEF Poll, Given
  <1>5. Placed'
    BY <1>0, <1>4 DEF Poll, Placed, counters
  <1>6. Verdict'
    BY <1>0, <1>a, <1>b DEF Poll, Verdict, Running, Dead, Progress, Typed, counters
  <1>7. Counts'
    <2>1. Unreported' = Unreported
      BY <1>0, <1>b DEF Poll, Unreported, counters
    <2>2. QED
      BY <1>0, <2>1 DEF Poll, Counts, counters
  <1>8. QED
    BY <1>1, <1>2, <1>3, <1>5, <1>6, <1>7 DEF IInv

\* SIGKILL may strike a worker in the middle of a test, or between a test and its report.
LEMMA KillStep == IInv /\ Kill => IInv'
  <1> SUFFICES ASSUME IInv, Kill PROVE IInv'
    OBVIOUS
  <1> USE TestbenchAssumption
  <1>0. Typed /\ Progress /\ Placed /\ Verdict /\ Counts /\ \A v \in Workers : Protocol(v)
    BY DEF IInv
  <1>a. i \in Workers /\ at = "kill" /\ at' = "wait" /\ failed
    BY <1>0 DEF Kill, Typed, Progress, Workers
  <1>b. /\ proc' \in [Workers -> {"none", "ask", "read", "run", "zombie", "reaped"}]
        /\ \A v \in Workers : proc'[v] = proc[v]
                              \/ (proc[v] \in {"ask", "read", "run"} /\ proc'[v] = "zombie")
    BY <1>0, <1>a DEF Kill, Typed, Alive
  <1>1. Typed'
    BY <1>0, <1>a, <1>b DEF Kill, Typed, counters
  <1>2. Progress'
    <2>1. \A v \in Workers : v < i => proc'[v] = "reaped"
      BY <1>0, <1>a, <1>b DEF Progress, Closing
    <2>2. \A v \in Workers : proc'[v] # "none"
      BY <1>0, <1>a, <1>b DEF Progress
    <2>3. QED
      BY <1>0, <1>a, <2>1, <2>2 DEF Kill, Progress, Running, Closing, counters
  <1>3. ASSUME NEW v \in Workers PROVE Protocol(v)'
    BY <1>0, <1>a, <1>b DEF Kill, Protocol, Closing, Dead, counters
  <1>4. \A v \in Workers : Given(v)' = Given(v) \/ Given(v)' = Exit
    BY <1>0, <1>b DEF Kill, Given
  <1>5. Placed'
    <2>1. \A v \in Workers : Given(v)' # Exit => Given(v)' < dispatched /\ Given(v)' \notin finished
      BY <1>0, <1>4 DEF Placed
    <2>2. \A v, u \in Workers : v # u /\ Given(v)' # Exit => Given(v)' # Given(u)'
      BY <1>0, <1>4 DEF Placed
    <2>3. QED
      BY <1>0, <1>a, <2>1, <2>2 DEF Kill, Placed, counters
  <1>6. Verdict'
    BY <1>0, <1>a, <1>b DEF Kill, Verdict, Running, Dead, Progress, Typed, counters
  <1>7. Counts'
    <2>1. Unreported' \subseteq Unreported
      BY <1>0, <1>b DEF Kill, Unreported, counters
    <2>2. /\ Cardinality(Unreported') <= Cardinality(Unreported)
          /\ Cardinality(Unreported') \in Nat /\ Cardinality(Unreported) \in Nat
      <3>1. Unreported \in SUBSET Workers
        BY DEF Unreported
      <3>2. QED
        BY <2>1, <3>1, Finite, FS_Subset
    <2>3. UNCHANGED <<exited, passed, hung_up, finished, failed>>
      BY DEF Kill, counters
    <2>4. Cardinality(finished) \in Nat
      BY <1>0, Finite DEF Typed
    <2>5. passed' + Cardinality(Unreported') <= Cardinality(finished')
      BY <1>0, <2>2, <2>3, <2>4 DEF Counts, Typed
    <2>6. QED
      BY <1>0, <1>a, <2>3, <2>5 DEF Counts
  <1>8. QED
    BY <1>1, <1>2, <1>3, <1>5, <1>6, <1>7 DEF IInv

LEMMA WaitStep == IInv /\ Wait => IInv'
  <1> SUFFICES ASSUME IInv, Wait PROVE IInv'
    OBVIOUS
  <1> USE TestbenchAssumption
  <1>0. Typed /\ Progress /\ Placed /\ Verdict /\ Counts /\ \A v \in Workers : Protocol(v)
    BY DEF IInv
  <1>a. /\ i \in Workers /\ at = "wait" /\ i < NWorkers /\ i' = i + 1 /\ i' \in 0..NWorkers
        /\ at' \in {"poll", "done"} /\ (at' = "poll" => i' < NWorkers)
        /\ (at' = "done" => i' = NWorkers)
    BY <1>0 DEF Wait, Typed, Progress, Workers
  <1>b. /\ proc' \in [Workers -> {"none", "ask", "read", "run", "zombie", "reaped"}]
        /\ proc'[i] = "reaped" /\ Dead(i)
        /\ \A v \in Workers : v # i => proc'[v] = proc[v]
    BY <1>0, <1>a DEF Wait, Typed, Alive, Dead, Progress
  <1>1. Typed'
    BY <1>0, <1>a, <1>b DEF Wait, Typed, counters
  <1>2. Progress'
    <2>1. \A v \in Workers : v < i' => proc'[v] = "reaped"
      BY <1>0, <1>a, <1>b DEF Progress, Closing, Workers
    <2>2. \A v \in Workers : proc'[v] # "none"
      BY <1>0, <1>a, <1>b DEF Progress
    <2>3. QED
      BY <1>0, <1>a, <2>1, <2>2 DEF Wait, Progress, Running, Closing, counters
  <1>3. ASSUME NEW v \in Workers PROVE Protocol(v)'
    BY <1>0, <1>a, <1>b DEF Wait, Protocol, Closing, Dead, counters
  <1>4. \A v \in Workers : Given(v)' = Given(v)
    BY <1>0, <1>b DEF Wait, Given, Dead
  <1>5. Placed'
    BY <1>0, <1>4 DEF Wait, Placed, counters
  <1>6. Verdict'
    BY <1>0, <1>a, <1>b DEF Wait, Verdict, Running, Dead, Progress, Typed, counters
  <1>7. Counts'
    <2>1. Unreported' = Unreported
      BY <1>0, <1>b DEF Wait, Unreported, Dead, counters
    <2>2. QED
      BY <1>0, <2>1 DEF Wait, Counts, counters
  <1>8. QED
    BY <1>1, <1>2, <1>3, <1>5, <1>6, <1>7 DEF IInv

LEMMA NextIInv == IInv /\ [Next]_vars => IInv'
  <1> SUFFICES ASSUME IInv, [Next]_vars PROVE IInv'
    OBVIOUS
  <1>1. ASSUME NEW w \in Workers, run_worker(w) PROVE IInv'
    BY <1>1, AskStep, ReceiveStep, ReceiveEOFStep, TestReturnsStep, TestFailsStep DEF run_worker
  <1>2. ASSUME NEW j \in Workers, Serve(j) PROVE IInv'
    BY <1>2, ServeEOFStep, ServeRequestStep
  <1>3. CASE UNCHANGED vars
    BY <1>3 DEF vars, masterVars, workerVars, counters, IInv, Typed, Progress, Protocol, Placed,
                Verdict, Counts, Running, Closing, Dead, Given, Unreported
  <1>4. QED
    BY <1>1, <1>2, <1>3, SpawnStep, SelectStep, CloseStep, PollStep, KillStep, WaitStep
       DEF Next, Master

LEMMA Invariance == Spec => []IInv
  BY InitIInv, NextIInv, PTL DEF Spec

----------------------------------------------------------------------------
\* Type correctness of the runner, the ranges of its counters included: it never reports
\* more tests than there are, nor counts more hung-up workers than it has started.
THEOREM TestbenchTyped == Spec => []TypeOK
  <1>1. IInv => TypeOK
    <2> SUFFICES ASSUME IInv PROVE TypeOK
      OBVIOUS
    <2>1. Typed /\ Counts
      BY DEF IInv
    <2>2. exited \in 0..NWorkers
      BY <2>1, Finite, TestbenchAssumption DEF Typed, Counts
    <2>3. passed \in 0..Total
      <3>1. Cardinality(finished) \in Nat /\ Cardinality(finished) <= Total
        BY <2>1, Finite DEF Typed
      <3>2. Cardinality(Unreported) \in Nat
        BY Finite DEF Unreported
      <3>3. passed \in Nat /\ passed + Cardinality(Unreported) <= Cardinality(finished)
        BY <2>1 DEF Typed, Counts
      <3>4. QED
        BY <3>1, <3>2, <3>3, TestbenchAssumption
    <2>4. QED
      BY <2>1, <2>2, <2>3 DEF Typed, TypeOK
  <1>2. QED
    BY <1>1, Invariance, PTL

\* testbench.cpp, run_parallel: whatever the number of workers and the order in which
\* they ask, no test is started twice, and the tests counted as passed are tests that have
\* returned; as long as no worker has died, exactly the reports under way are missing.
THEOREM HonestCount == Spec => []CountIsHonest
  <1>1. IInv => CountIsHonest
    BY DEF IInv, Placed, Counts, CountIsHonest, Unreported
  <1>2. QED
    BY <1>1, Invariance, PTL

\* The run fails exactly when a worker died of a test, and otherwise every test has
\* returned and is counted: no failure is lost, also when it comes after the last test
\* was handed out.
THEOREM RightVerdict == Spec => []VerdictIsRight
  <1>1. IInv => VerdictIsRight
    <2> SUFFICES ASSUME IInv, at = "done"
                 PROVE  (failed <=> crashed # {}) /\ (~failed => finished = Tests /\ passed = Total)
      BY DEF VerdictIsRight
    <2>0. Typed /\ Progress /\ Placed /\ Verdict /\ Counts /\ \A v \in Workers : Protocol(v)
      BY DEF IInv
    <2>1. failed \/ hung_up = Workers
      BY <2>0 DEF Progress, Closing
    <2>2. crashed # {} => failed
      BY <2>0, <2>1 DEF Verdict
    <2>3. ASSUME ~failed PROVE finished = Tests /\ passed = Total
      <3>1. hung_up = Workers /\ crashed = {}
        BY <2>0, <2>1, <2>2, <2>3
      <3>2. 0 \in Workers
        BY TestbenchAssumption DEF Workers
      <3>3. dispatched = Total
        BY <2>0, <3>1, <3>2 DEF Protocol
      <3>4. \A w \in Workers : Given(w) = Exit
        BY <2>0, <3>1 DEF Protocol, Given
      <3>5. ASSUME NEW t \in Tests PROVE t \in finished
        <4>1. t < dispatched /\ t # Exit
          BY <3>3, TestbenchAssumption DEF Tests, Exit
        <4>2. t \in finished \cup crashed \/ \E w \in Workers : Given(w) = t
          BY <2>0, <2>3, <4>1 DEF Placed
        <4>3. QED
          BY <3>1, <3>4, <4>1, <4>2
      <3>6. finished = Tests
        BY <2>0, <3>5 DEF Typed
      <3>7. Unreported = {}
        <4>1. ASSUME NEW w \in Workers PROVE proc[w] # "ask" /\ ~(requests[w] > 0)
          <5>1. proc[w] # "ask" /\ requests[w] # 1
            BY <2>0, <3>1 DEF Protocol
          <5>2. QED
            BY <2>0, <5>1 DEF Typed
        <4>2. QED
          BY <4>1 DEF Unreported
      <3>8. passed + 0 = Total
        BY <2>0, <2>3, <3>6, <3>7, Finite, FS_EmptySet DEF Counts
      <3>9. QED
        BY <2>0, <3>6, <3>8 DEF Typed
    <2>4. QED
      BY <2>0, <2>2, <2>3 DEF Verdict
  <1>2. QED
    BY <1>1, Invariance, PTL

\* The master does not write into a pipe that has no reader: until it closes the pipes, a
\* worker with a request in its pipe waits for the answer.
THEOREM ReadAnswers == Spec => []AnswersAreRead
  <1>1. IInv => AnswersAreRead
    <2> SUFFICES ASSUME IInv, Running, NEW w \in Workers, requests[w] > 0
                 PROVE  proc[w] = "read" /\ answers[w] = << >>
      BY DEF AnswersAreRead, Running
    <2>1. Typed /\ Protocol(w)
      BY DEF IInv
    <2>2. requests[w] = 1 /\ requests[w] # 0
      BY <2>1 DEF Typed
    <2>3. ~Closing
      BY DEF Running, Closing
    <2>4. QED
      BY <2>1, <2>2, <2>3 DEF Protocol
  <1>2. QED
    BY <1>1, Invariance, PTL

\* Every worker has been waited for when run_parallel returns.
THEOREM ReapedAll == Spec => []NoOrphans
  <1>1. IInv => NoOrphans
    BY TestbenchAssumption DEF IInv, Progress, Closing, NoOrphans, Workers
  <1>2. QED
    BY <1>1, Invariance, PTL
----------------------------------------------------------------------------
\* Nobody waits for ever.

\* The guards of the master's actions, ...
MasterCanMove ==
    \/ at \in {"spawn", "close", "poll", "kill"}
    \/ at = "select" /\ (failed \/ exited = NWorkers \/ \E w \in Workers : Readable(w))
    \/ at = "serve" /\ \E j \in ready : \A k \in ready : j <= k
    \/ at = "wait" /\ ~Alive(i)

\* ... and of a worker's.
WorkerCanMove(w) ==
    \/ proc[w] \in {"ask", "run"}
    \/ proc[w] = "read" /\ (answers[w] # << >> \/ ~HasWriter(w))

\* The master serves somebody, and after a failure it waits only for the dead.
Waits ==
    /\ at = "serve" => ready # {}
    /\ at = "wait" /\ failed => Dead(i)

LEMMA WaitsInvariant == Spec => []Waits
  <1>1. Init => Waits
    BY DEF Init, Waits
  <1>2. IInv /\ Waits /\ [Next]_vars => Waits'
    <2> SUFFICES ASSUME IInv, Waits, [Next]_vars PROVE Waits'
      OBVIOUS
    <2>0. Typed /\ Progress
      BY DEF IInv
    <2>1. ASSUME NEW w \in Workers, run_worker(w) PROVE Waits'
      <3>1. UNCHANGED <<at, i, ready, failed>>
        BY <2>1 DEF run_worker, Ask, Receive, ReceiveEOF, TestReturns, TestFails, masterVars,
                    counters
      <3>2. \A v \in Workers : Dead(v) => proc'[v] = proc[v]
        BY <2>0, <2>1 DEF run_worker, Ask, Receive, ReceiveEOF, TestReturns, TestFails, Dead, Typed
      <3>3. at = "wait" => i \in Workers
        BY <2>0, TestbenchAssumption DEF Progress, Typed, Workers
      <3>4. QED
        BY <3>1, <3>2, <3>3 DEF Waits, Dead
    <2>2. ASSUME NEW j \in Workers, Serve(j) PROVE Waits'
      BY <2>2 DEF Serve, Waits
    <2>3. CASE Spawn \/ Select \/ CloseAll \/ Wait
      BY <2>3 DEF Spawn, Select, CloseAll, Wait, Waits
    <2>4. CASE Poll
      <3>1. i \in Workers /\ proc[i] # "none"
        BY <2>0, <2>4, TestbenchAssumption DEF Poll, Progress, Typed, Workers
      <3>2. at' = "wait" /\ failed => proc'[i] \in {"zombie", "reaped"}
        BY <2>0, <2>4, <3>1 DEF Poll, Alive, Typed
      <3>3. QED
        BY <2>4, <3>2 DEF Poll, Waits, Dead, counters
    <2>5. CASE Kill
      <3>1. i \in Workers /\ proc[i] # "none"
        BY <2>0, <2>5, TestbenchAssumption DEF Kill, Progress, Typed, Workers
      <3>2. proc'[i] \in {"zombie", "reaped"}
        BY <2>0, <2>5, <3>1 DEF Kill, Alive, Typed
      <3>3. QED
        BY <2>5, <3>2 DEF Kill, Waits, Dead
    <2>6. CASE UNCHANGED vars
      BY <2>6 DEF vars, masterVars, workerVars, counters, Waits, Dead
    <2>7. QED
      BY <2>1, <2>2, <2>3, <2>4, <2>5, <2>6 DEF Next, Master
  <1>3. QED
    BY <1>1, <1>2, Invariance, PTL DEF Spec

\* run_parallel cannot get stuck, for any number of workers: until it returns, the master or
\* some worker has a step to take.  A worker that reads from a pipe whose write end later
\* workers have inherited, and would get no EOF, either has its last answer in the pipe or
\* has been killed by the time the master waits for it.
THEOREM NeverStuck ==
    Spec => [](at # "done" => MasterCanMove \/ \E w \in Workers : WorkerCanMove(w))
  <1>1. IInv /\ Waits => (at # "done" => MasterCanMove \/ \E w \in Workers : WorkerCanMove(w))
    <2>1. SUFFICES ASSUME IInv, Waits, at # "done", \A w \in Workers : ~WorkerCanMove(w)
                   PROVE  MasterCanMove
      OBVIOUS
    <2>2. Typed /\ Progress /\ Counts /\ \A w \in Workers : Protocol(w)
      BY <2>1 DEF IInv
    <2>3. ASSUME NEW w \in Workers, Alive(w) PROVE proc[w] = "read" /\ answers[w] = << >>
      BY <2>1, <2>3 DEF Alive, WorkerCanMove
    <2>4. ASSUME NEW w \in Workers, Alive(w) PROVE requests[w] = 1 /\ w \notin hung_up
      BY <2>2, <2>3, <2>4 DEF Protocol
    <2>5. CASE at = "select"
      <3>1. SUFFICES ASSUME exited # NWorkers PROVE \E w \in Workers : Readable(w)
        BY <2>5 DEF MasterCanMove
      <3>2. PICK w \in Workers : w \notin hung_up
        BY <2>2, <3>1, Finite DEF Counts, Typed
      <3>3. Readable(w)
        <4>1. CASE Alive(w)
          BY <2>4, <3>2, <4>1 DEF Readable
        <4>2. CASE ~Alive(w)
          BY <3>2, <4>2 DEF Readable
        <4>3. QED
          BY <4>1, <4>2
      <3>4. QED
        BY <3>3
    <2>6. CASE at = "serve"
      <3>1. ready # {} /\ ready \in SUBSET Nat
        BY <2>1, <2>2, <2>6, TestbenchAssumption DEF Waits, Typed, Workers
      <3>2. \E j \in ready : \A k \in ready : j <= k
        BY <3>1, Least
      <3>3. QED
        BY <2>6, <3>2 DEF MasterCanMove
    <2>7. CASE at = "wait"
      <3>1. i \in Workers
        BY <2>2, <2>7, TestbenchAssumption DEF Progress, Typed, Workers
      <3>2. failed => ~Alive(i)
        BY <2>1, <2>7 DEF Waits, Dead, Alive
      <3>3. ~failed => i \in hung_up
        BY <2>2, <2>7, <3>1 DEF Progress, Closing
      <3>4. ~Alive(i)
        BY <2>4, <3>1, <3>2, <3>3
      <3>5. QED
        BY <2>7, <3>4 DEF MasterCanMove
    <2>8. QED
      BY <2>1, <2>2, <2>5, <2>6, <2>7 DEF Typed, MasterCanMove
  <1>2. QED
    BY <1>1, Invariance, WaitsInvariant, PTL

----------------------------------------------------------------------------
\* A bound on the length of a run.

\* The steps worker w can still take with the tests handed out so far, its share of the
\* master's kill included; an answer that has not been read is worth those of its test.
Weights ==
    [w \in Workers |->
        CASE proc[w] = "none" -> 7
          [] proc[w] = "ask" -> 6
          [] proc[w] = "read" /\ answers[w] = << >> -> 5
          [] proc[w] = "read" /\ answers[w] # << >> -> 8
          [] proc[w] = "run" -> 7
          [] OTHER -> 0]

\* As many elements as the sum of the weights W.
Tokens(W) == {p \in Workers \X (1..8) : p[2] <= W[p[1]]}

\* How far the master is from the end of run_parallel, not counting its rounds of select.
Phase ==
    CASE at \in {"spawn", "select"} -> 3 * NWorkers + 3
      [] at = "serve" -> 3 * NWorkers + 2
      [] at = "close" -> 3 * NWorkers + 1
      [] at = "poll" -> 3 * (NWorkers - i)
      [] at = "kill" -> 3 * (NWorkers - i) - 1
      [] at = "wait" -> 3 * (NWorkers - i) - 2
      [] OTHER -> 0

\* The answers the master has not given.
Owed == 6 * (Total - dispatched) + 6 * (NWorkers - exited)

\* What is left of a run.
Left == Cardinality(Tokens(Weights)) + Owed + (IF failed THEN 0 ELSE 4) + Phase

\* Tokens are finite.
LEMMA TokensFinite ==
    ASSUME NEW W \in [Workers -> 0..8]
    PROVE  IsFiniteSet(Tokens(W)) /\ Cardinality(Tokens(W)) \in Nat
  <1>1. IsFiniteSet(Workers) /\ IsFiniteSet(1..8)
    <2>1. 1 \in Int /\ 8 \in Int
      OBVIOUS
    <2>2. QED
      BY <2>1, Finite, FS_Interval
  <1>2. IsFiniteSet(Workers \X (1..8))
    BY <1>1, FS_Product
  <1>3. Tokens(W) \subseteq Workers \X (1..8)
    BY DEF Tokens
  <1>4. QED
    BY <1>2, <1>3, FS_Subset, FS_CardinalityType

\* Less weight is fewer tokens.
LEMMA FewerTokens ==
    ASSUME NEW W \in [Workers -> 0..8], NEW V \in [Workers -> 0..8],
           \A w \in Workers : V[w] <= W[w]
    PROVE  /\ Cardinality(Tokens(V)) <= Cardinality(Tokens(W))
           /\ (\E w \in Workers : V[w] < W[w])
                  => Cardinality(Tokens(V)) < Cardinality(Tokens(W))
  <1>1. IsFiniteSet(Tokens(W)) /\ Cardinality(Tokens(W)) \in Nat
        /\ Cardinality(Tokens(V)) \in Nat
    BY TokensFinite
  <1>2. Tokens(V) \subseteq Tokens(W)
    <2>1. SUFFICES ASSUME NEW p \in Workers \X (1..8), p[2] <= V[p[1]] PROVE p[2] <= W[p[1]]
      BY DEF Tokens
    <2>2. p[1] \in Workers /\ p[2] \in 1..8
      OBVIOUS
    <2>3. V[p[1]] \in 0..8 /\ W[p[1]] \in 0..8 /\ V[p[1]] <= W[p[1]]
      BY <2>2
    <2>4. QED
      BY <2>1, <2>2, <2>3
  <1>3. ASSUME NEW w \in Workers, V[w] < W[w]
        PROVE  Tokens(V) # Tokens(W)
    <2>1. W[w] \in 1..8 /\ V[w] \in 0..8
      BY <1>3
    <2>2. <<w, W[w]>> \in Tokens(W)
      BY <2>1 DEF Tokens
    <2>3. <<w, W[w]>> \notin Tokens(V)
      BY <1>3, <2>1 DEF Tokens
    <2>4. QED
      BY <2>2, <2>3
  <1>4. /\ Cardinality(Tokens(V)) <= Cardinality(Tokens(W))
        /\ Cardinality(Tokens(V)) = Cardinality(Tokens(W)) => Tokens(V) = Tokens(W)
    BY <1>1, <1>2, FS_Subset
  <1>5. QED
    BY <1>1, <1>3, <1>4

\* A worker that gets its answer has three tokens more.
LEMMA MoreTokens ==
    ASSUME NEW W \in [Workers -> 0..8], NEW j \in Workers, W[j] = 5
    PROVE  Cardinality(Tokens([W EXCEPT ![j] = 8])) <= Cardinality(Tokens(W)) + 3
  <1> DEFINE V == [W EXCEPT ![j] = 8]
             A == Tokens(W) \cup {<<j, 6>>}
             B == A \cup {<<j, 7>>}
             C == B \cup {<<j, 8>>}
  <1>1. Tokens(V) = C
    <2>1. ASSUME NEW w \in Workers, NEW n \in 1..8
          PROVE  n <= V[w] <=> n <= W[w] \/ (w = j /\ n \in {6, 7, 8})
      <3>1. W[w] \in 0..8
        OBVIOUS
      <3>2. V[w] = IF w = j THEN 8 ELSE W[w]
        OBVIOUS
      <3>3. QED
        BY <3>1, <3>2
    <2>2. ASSUME NEW w \in Workers, NEW n \in 1..8
          PROVE  <<w, n>> \in Tokens(V) <=> <<w, n>> \in C
      BY <2>1, <2>2 DEF Tokens
    <2>3. Tokens(V) \subseteq Workers \X (1..8) /\ C \subseteq Workers \X (1..8)
      BY DEF Tokens
    <2>4. ASSUME NEW p \in Workers \X (1..8) PROVE p \in Tokens(V) <=> p \in C
      <3>1. p = <<p[1], p[2]>> /\ p[1] \in Workers /\ p[2] \in 1..8
        OBVIOUS
      <3> HIDE DEF V, C
      <3>2. QED
        BY <2>2, <3>1
    <2> HIDE DEF V, C
    <2>5. QED
      BY <2>3, <2>4
  <1>2. IsFiniteSet(Tokens(W)) /\ Cardinality(Tokens(W)) \in Nat
    BY TokensFinite
  <1>3. ASSUME NEW S, IsFiniteSet(S), NEW x
        PROVE  /\ IsFiniteSet(S \cup {x}) /\ Cardinality(S \cup {x}) \in Nat
               /\ Cardinality(S) \in Nat
               /\ Cardinality(S \cup {x}) <= Cardinality(S) + 1
    <2>1. /\ IsFiniteSet(S \cup {x})
          /\ Cardinality(S \cup {x}) = IF x \in S THEN Cardinality(S) ELSE Cardinality(S) + 1
      BY <1>3, FS_AddElement
    <2>2. Cardinality(S) \in Nat
      BY <1>3, FS_CardinalityType
    <2>3. QED
      BY <2>1, <2>2
  <1>4. IsFiniteSet(A) /\ Cardinality(A) \in Nat /\ Cardinality(A) <= Cardinality(Tokens(W)) + 1
    BY <1>2, <1>3
  <1>5. IsFiniteSet(B) /\ Cardinality(B) \in Nat /\ Cardinality(B) <= Cardinality(A) + 1
    BY <1>3, <1>4
  <1>6. Cardinality(C) \in Nat /\ Cardinality(C) <= Cardinality(B) + 1
    BY <1>3, <1>5
  <1> HIDE DEF A, B, C, V
  <1>7. QED
    BY <1>1, <1>2, <1>4, <1>5, <1>6 DEF V

\* The tokens before anything has happened.
LEMMA AllTokens == Cardinality(Tokens([w \in Workers |-> 7])) = 7 * NWorkers
  <1>1. Tokens([w \in Workers |-> 7]) = Workers \X (1..7)
    BY DEF Tokens
  <1>2. IsFiniteSet(1..7) /\ Cardinality(1..7) = 7
    <2>1. 1 \in Int /\ 7 \in Int /\ ~(1 > 7) /\ 7 - 1 + 1 = 7
      OBVIOUS
    <2>2. IsFiniteSet(1..7) /\ Cardinality(1..7) = 7 - 1 + 1
      BY <2>1, FS_Interval, Zenon
    <2>3. QED
      BY <2>1, <2>2
  <1>3. Cardinality(Workers \X (1..7)) = Cardinality(Workers) * Cardinality(1..7)
    BY <1>2, Finite, FS_Product
  <1>4. NWorkers * 7 = 7 * NWorkers
    BY TestbenchAssumption
  <1>5. QED
    BY <1>1, <1>2, <1>3, <1>4, Finite
\* The weights are small, before a step and after it.
LEMMA WeightsType == Weights \in [Workers -> 0..8] /\ Weights' \in [Workers -> 0..8]
  BY DEF Weights

\* A step that gives no worker weight takes tokens away or leaves them.
LEMMA TokensFall ==
    ASSUME \A w \in Workers : Weights'[w] <= Weights[w]
    PROVE  /\ Cardinality(Tokens(Weights')) <= Cardinality(Tokens(Weights))
           /\ (\E w \in Workers : Weights'[w] < Weights[w])
                  => Cardinality(Tokens(Weights')) < Cardinality(Tokens(Weights))
  BY WeightsType, FewerTokens

\* The terms of Left.
LEMMA LeftType ==
    ASSUME IInv
    PROVE  /\ Phase \in Nat /\ Owed \in Nat /\ Left \in Nat /\ Cardinality(Tokens(Weights)) \in Nat
           /\ Total \in Nat /\ dispatched \in Nat /\ NWorkers \in Nat /\ exited \in Nat
           /\ failed \in BOOLEAN
  <1>0. Typed /\ Progress /\ Counts
    BY DEF IInv
  <1>1. Phase \in Nat
    <2>1. /\ i \in Nat /\ i <= NWorkers /\ NWorkers \in Nat
          /\ (at \in {"poll", "kill", "wait"} => i < NWorkers)
      BY <1>0, TestbenchAssumption DEF Typed, Progress
    <2>2. NWorkers - i \in Nat /\ (at \in {"poll", "kill", "wait"} => NWorkers - i \in Nat \ {0})
      BY <2>1
    <2>3. QED
      BY <2>1, <2>2 DEF Phase
  <1>2. Cardinality(Tokens(Weights)) \in Nat
    BY WeightsType, TokensFinite
  <1>3. /\ Total - dispatched \in Nat /\ NWorkers - exited \in Nat
        /\ Total \in Nat /\ dispatched \in Nat /\ NWorkers \in Nat /\ exited \in Nat
        /\ failed \in BOOLEAN
    BY <1>0, Finite, TestbenchAssumption DEF Typed, Counts
  <1>4. Owed \in Nat
    BY <1>3 DEF Owed
  <1>5. QED
    BY <1>1, <1>2, <1>3, <1>4 DEF Left

\* A step of a worker takes tokens away and changes nothing else of Left.
LEMMA WorkerUsesUp ==
    ASSUME IInv, NEW w \in Workers, run_worker(w)
    PROVE  Left' < Left
  <1>0. Typed /\ Protocol(w)
    BY DEF IInv
  <1>1. UNCHANGED <<at, i, dispatched, exited, failed>>
    BY DEF run_worker, Ask, Receive, ReceiveEOF, TestReturns, TestFails, masterVars, counters
  <1>2. /\ \A v \in Workers : v # w => proc'[v] = proc[v] /\ answers'[v] = answers[v]
        /\ proc[w] = "ask" => proc'[w] = "read" /\ answers'[w] = answers[w]
        /\ proc[w] = "read" /\ answers[w] # << >> => proc'[w] \in {"run", "zombie"}
        /\ proc[w] = "read" /\ answers[w] = << >> => proc'[w] = "zombie"
        /\ proc[w] = "run" => proc'[w] \in {"ask", "zombie"}
        /\ proc[w] \in {"ask", "read", "run"}
    BY <1>0 DEF run_worker, Ask, Receive, ReceiveEOF, TestReturns, TestFails, Typed
  <1>3. \A v \in Workers : v # w => Weights'[v] = Weights[v]
    BY <1>2 DEF Weights
  <1>4. proc[w] = "ask" => answers[w] = << >>
    BY <1>0 DEF Protocol, Closing, Dead
  <1>5. Weights'[w] < Weights[w]
    <2>1. CASE proc[w] = "ask"
      BY <1>2, <1>4, <2>1 DEF Weights
    <2>2. CASE proc[w] = "read"
      BY <1>2, <2>2 DEF Weights
    <2>3. CASE proc[w] = "run"
      BY <1>2, <2>3 DEF Weights
    <2>4. QED
      BY <1>2, <2>1, <2>2, <2>3
  <1>6. Cardinality(Tokens(Weights')) < Cardinality(Tokens(Weights))
    <2>1. \A v \in Workers : Weights'[v] <= Weights[v]
      BY <1>3, <1>5, WeightsType
    <2>2. QED
      BY <1>5, <2>1, TokensFall
  <1>7. Phase' = Phase /\ Cardinality(Tokens(Weights')) \in Nat
    BY <1>1, WeightsType, TokensFinite DEF Phase
  <1>8. QED
    BY <1>1, <1>6, <1>7, LeftType DEF Left, Owed

\* A served worker costs the master a test, a worker or its health.
LEMMA ServeUsesUp ==
    ASSUME IInv, IInv', NEW j \in Workers, Serve(j)
    PROVE  Left' < Left
  <1>0. Typed /\ Progress /\ Protocol(j)
    BY DEF IInv
  <1>1. /\ Phase \in Nat /\ Phase' \in Nat /\ Phase' <= Phase + 1
        /\ proc' = proc /\ failed = FALSE
    <2>1. at = "serve" /\ at' \in {"select", "serve"} /\ proc' = proc
      BY DEF Serve
    <2>2. ~failed /\ failed \in BOOLEAN
      BY <1>0, <2>1 DEF Progress, Typed
    <2>3. Phase = 3 * NWorkers + 2 /\ Phase' \in {3 * NWorkers + 2, 3 * NWorkers + 3}
      BY <2>1 DEF Phase
    <2>4. QED
      BY <2>1, <2>2, <2>3, TestbenchAssumption
  <1>2. Cardinality(Tokens(Weights')) \in Nat
    BY WeightsType, TokensFinite
  <1>3. CASE requests[j] = 0
    <2>1. answers' = answers /\ dispatched' = dispatched /\ exited' = exited /\ failed' = TRUE
      BY <1>3 DEF Serve
    <2>2. Weights' = Weights
      BY <1>1, <2>1 DEF Weights
    <2>3. QED
      BY <1>1, <2>1, <2>2, LeftType DEF Left, Owed
  <1>4. CASE requests[j] # 0
    <2>1. /\ proc[j] = "read" /\ answers[j] = << >>
      BY <1>0, <1>4 DEF Serve, Typed, Protocol, Closing
    <2>2. /\ failed' = failed
          /\ \/ dispatched' = dispatched + 1 /\ exited' = exited
             \/ dispatched' = dispatched /\ exited' = exited + 1
          /\ \E e \in Tests \cup {Exit} : answers' = [answers EXCEPT ![j] = Append(@, e)]
      <3>1. dispatched < Total => dispatched \in Tests
        BY <1>0, TestbenchAssumption DEF Typed, Tests
      <3>2. QED
        BY <1>4, <3>1 DEF Serve, Dispatch
    <2>3. answers'[j] # << >> /\ \A v \in Workers : v # j => answers'[v] = answers[v]
      BY <1>0, <2>1, <2>2, AppendToEmpty DEF Typed
    <2>4. Weights[j] = 5 /\ Weights' = [Weights EXCEPT ![j] = 8]
      <3>1. Weights[j] = 5 /\ Weights'[j] = 8
        BY <1>1, <2>1, <2>3 DEF Weights
      <3>2. \A v \in Workers : v # j => Weights'[v] = Weights[v]
        BY <1>1, <2>3 DEF Weights
      <3>3. QED
        BY <3>1, <3>2, WeightsType
    <2>5. Cardinality(Tokens(Weights')) <= Cardinality(Tokens(Weights)) + 3
      BY <2>4, WeightsType, MoreTokens
    <2>6. Owed' = Owed - 6
      <3>1. /\ Total \in Int /\ dispatched \in Int /\ NWorkers \in Int /\ exited \in Int
            /\ \/ dispatched' = dispatched + 1 /\ exited' = exited
               \/ dispatched' = dispatched /\ exited' = exited + 1
        BY <2>2, LeftType
      <3>2. QED
        BY ONLY <3>1 DEF Owed
    <2>7. /\ Cardinality(Tokens(Weights)) \in Nat /\ Owed \in Nat
          /\ failed = FALSE /\ failed' = FALSE
      BY <1>1, <2>2, LeftType
    <2>8. QED
      BY ONLY <1>1, <1>2, <2>5, <2>6, <2>7 DEF Left
  <1>5. QED
    BY <1>3, <1>4

\* The other steps of the master.
LEMMA MasterUsesUp ==
    ASSUME IInv, Spawn \/ Select \/ CloseAll \/ Poll \/ Kill \/ Wait
    PROVE  Left' < Left
  <1>0. Typed /\ Progress
    BY DEF IInv
  <1>1. UNCHANGED <<dispatched, exited, failed, answers>>
    BY DEF Spawn, Select, CloseAll, Poll, Kill, Wait, counters, workerVars
  <1>2. CASE Spawn
    <2>1. i \in Workers /\ proc[i] = "none" /\ proc' = [proc EXCEPT ![i] = "ask"]
      BY <1>0, <1>2, TestbenchAssumption DEF Spawn, Progress, Typed, Workers
    <2>2. \A v \in Workers : Weights'[v] <= Weights[v]
      <3>1. \A v \in Workers : v # i => Weights'[v] = Weights[v]
        BY <1>0, <1>1, <2>1 DEF Weights, Typed
      <3>2. Weights'[i] = 6 /\ Weights[i] = 7
        BY <1>0, <1>1, <2>1 DEF Weights, Typed
      <3>3. QED
        BY <3>1, <3>2, WeightsType
    <2>3. Weights'[i] < Weights[i]
      BY <1>0, <1>1, <2>1 DEF Weights, Typed
    <2>4. Cardinality(Tokens(Weights')) < Cardinality(Tokens(Weights))
      BY <2>1, <2>2, <2>3, TokensFall
    <2>5. Phase' = Phase /\ Cardinality(Tokens(Weights')) \in Nat
      BY <1>2, WeightsType, TokensFinite DEF Spawn, Phase
    <2>6. QED
      BY <1>1, <2>4, <2>5, LeftType DEF Left, Owed
  <1>3. CASE Select \/ CloseAll \/ Poll \/ Kill \/ Wait
    <2>1. \A v \in Workers : proc'[v] = proc[v] \/ proc'[v] \in {"zombie", "reaped"}
      BY <1>0, <1>3 DEF Select, CloseAll, Poll, Kill, Wait, workerVars, Typed
    <2>2. \A v \in Workers : Weights'[v] <= Weights[v]
      <3>1. \A v \in Workers : proc'[v] = proc[v] => Weights'[v] = Weights[v]
        BY <1>1 DEF Weights
      <3>2. \A v \in Workers : proc'[v] \in {"zombie", "reaped"} => Weights'[v] = 0
        BY DEF Weights
      <3>3. QED
        BY <2>1, <3>1, <3>2, WeightsType
    <2>3. Cardinality(Tokens(Weights')) <= Cardinality(Tokens(Weights))
          /\ Cardinality(Tokens(Weights')) \in Nat
      BY <2>2, TokensFall, WeightsType, TokensFinite
    <2>4. Phase' < Phase /\ Phase' \in Nat
      <3>0. i \in Nat /\ i <= NWorkers /\ NWorkers \in Nat
            /\ (at \in {"poll", "kill", "wait"} => i < NWorkers)
        BY <1>0, TestbenchAssumption DEF Typed, Progress
      <3>1. CASE Select
        BY <3>0, <3>1 DEF Select, Phase
      <3>2. CASE CloseAll
        BY <3>0, <3>2 DEF CloseAll, Phase
      <3>3. CASE Poll
        BY <3>0, <3>3 DEF Poll, Phase
      <3>4. CASE Kill
        BY <3>0, <3>4 DEF Kill, Phase
      <3>5. CASE Wait
        BY <3>0, <3>5 DEF Wait, Phase
      <3>6. QED
        BY <1>3, <3>1, <3>2, <3>3, <3>4, <3>5
    <2>5. QED
      BY <1>1, <2>3, <2>4, LeftType DEF Left, Owed
  <1>4. QED
    BY <1>2, <1>3

\* run_parallel ends after a bounded number of steps of the master and its workers, however
\* they are scheduled: every step uses up some of what is left, which is at the start
\* 6 for each test and 16 for each worker, and 7.
THEOREM RunsAreBounded ==
    Spec => Left = 6 * Total + 16 * NWorkers + 7 /\ [](Left \in Nat) /\ [][Left' < Left]_vars
  <1>1. Init => Left = 6 * Total + 16 * NWorkers + 7
    <2>1. SUFFICES ASSUME Init PROVE Left = 6 * Total + 16 * NWorkers + 7
      OBVIOUS
    <2>2. Weights = [w \in Workers |-> 7]
      BY <2>1 DEF Init, Weights
    <2>3. Cardinality(Tokens(Weights)) = 7 * NWorkers
      BY <2>2, AllTokens
    <2>4. Phase = 3 * NWorkers + 3 /\ dispatched = 0 /\ exited = 0 /\ failed = FALSE
      BY <2>1 DEF Init, Phase
    <2>5. QED
      BY <2>3, <2>4, TestbenchAssumption DEF Left, Owed
  <1>2. IInv => Left \in Nat
    BY LeftType
  <1>3. IInv /\ IInv' /\ [Next]_vars => [Left' < Left]_vars
    <2>1. SUFFICES ASSUME IInv, IInv', Next PROVE Left' < Left
      OBVIOUS
    <2>2. CASE \E j \in Workers : Serve(j)
      BY <2>1, <2>2, ServeUsesUp
    <2>3. CASE Spawn \/ Select \/ CloseAll \/ Poll \/ Kill \/ Wait
      BY <2>1, <2>3, MasterUsesUp
    <2>4. CASE \E w \in Workers : run_worker(w)
      BY <2>1, <2>4, WorkerUsesUp
    <2>5. QED
      BY <2>1, <2>2, <2>3, <2>4 DEF Next, Master
  <1>4. QED
    BY <1>1, <1>2, <1>3, Invariance, PTL DEF Spec
=============================================================================

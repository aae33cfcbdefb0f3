------------------------- MODULE WorkerPool_proofs -------------------------
(* Proofs about WorkerPool, for every number of tests and of workers: first   *)
(* the conversation on the pipes, then what the counters and the deaths say   *)
(* about the outcome of the tests, and that the pool refines TestRun.         *)
EXTENDS WorkerPool, FiniteSetTheorems, SequenceTheorems, TLAPS

(* A worker and the master speak in turn: at most one char or one number is   *)
(* under way, and only to or from a worker that waits for the answer.         *)
Quiet(w) == req[w] = 0 /\ resp[w] = <<>>
Asked(w) == req[w] = 1 /\ resp[w] = <<>>
Answered(w) == req[w] = 0 /\ Len(resp[w]) = 1

Turn(w) == /\ wpc[w] \in {"unborn", "asking", "testing"} => Quiet(w)
           /\ wpc[w] = "reading" => Asked(w) \/ Answered(w)
           /\ wpc[w] = "gone" /\ mpc \in {"spawn", "serving"} => req[w] = 0

(* The workers the master has not reached yet.                                *)
Unborn == mpc = "spawn" => \A w \in Worker : w >= i => wpc[w] = "unborn"
InTest == mpc = "test" => dispatched < NTests

(* The master has not written to a worker that is gone.                       *)
Unbroken == mpc # "broken"

IInv == /\ TypeOK /\ Unbroken /\ Unborn /\ InTest
        /\ \A w \in Worker : Turn(w)

LEMMA PoolIsPositive == n \in PoolSizes => n \in Nat /\ n > 0
BY PoolAssumption

LEMMA InitIInv == Init => IInv
<1> SUFFICES ASSUME Init PROVE IInv
  OBVIOUS
<1>1. n \in Nat /\ n > 0
  BY PoolIsPositive DEF Init
<1>2. TypeOK
  <2>1. resp \in [Worker -> Seq(Tests \cup {Stop})]
    BY DEF Init
  <2>2. i \in 0 .. n /\ dispatched \in 0 .. NTests
    BY <1>1, TestAssumption DEF Init
  <2> QED
    BY <2>1, <2>2 DEF Init, TypeOK
<1>3. Unbroken /\ Unborn /\ InTest
  BY <1>1 DEF Init, Unbroken, Unborn, InTest
<1>4. \A w \in Worker : Turn(w)
  BY <1>1 DEF Init, Turn, Quiet, Worker
<1> QED
  BY <1>2, <1>3, <1>4 DEF IInv

----------------------------------------------------------------------------
(* The workers' steps.                                                        *)
LEMMA WorkerKeeps ==
    ASSUME IInv, NEW w \in Worker, WorkerStep(w)
    PROVE  IInv'
<1>1. /\ n \in PoolSizes /\ n' = n /\ mpc' = mpc /\ i' = i /\ ready' = ready
      /\ UNCHANGED book
  BY DEF WorkerStep, IInv, TypeOK
<1>2. Worker' = Worker /\ Worker \subseteq Nat
  BY <1>1, PoolIsPositive DEF Worker
<1>3. wpc[w] \in {"asking", "reading", "testing"}
  BY DEF WorkerStep, Ask, TakeTest, TakeStop, ReadEnd, PassTest, FailTest, EndTest
<1>4. TypeOK'
  <2> USE <1>1, <1>2 DEF IInv, TypeOK, book
  <2>1. CASE Ask(w)
    BY <2>1 DEF Ask
  <2>2. CASE TakeTest(w)
    BY <2>2 DEF TakeTest
  <2>3. CASE TakeStop(w)
    BY <2>3 DEF TakeStop
  <2>4. CASE ReadEnd(w)
    BY <2>4 DEF ReadEnd
  <2>5. CASE PassTest(w)
    BY <2>5 DEF PassTest, EndTest
  <2>6. CASE FailTest(w)
    BY <2>6 DEF FailTest, EndTest
  <2> QED
    BY <2>1, <2>2, <2>3, <2>4, <2>5, <2>6 DEF WorkerStep
<1>5. Unbroken' /\ InTest'
  BY <1>1 DEF IInv, Unbroken, InTest, book
<1>6. Unborn'
  BY <1>1, <1>2, <1>3 DEF IInv, TypeOK, Unborn, WorkerStep, Ask, TakeTest, TakeStop,
     ReadEnd, PassTest, FailTest, EndTest
<1>7. \A v \in Worker' : Turn(v)'
  <2> SUFFICES ASSUME NEW v \in Worker PROVE Turn(v)'
    BY <1>2
  <2>1. Turn(v) /\ Turn(w)
    BY DEF IInv
  <2> USE <1>1, <1>2, <2>1 DEF IInv, TypeOK, Turn, Quiet, Asked, Answered
  <2>2. CASE Ask(w)
    BY <2>2 DEF Ask
  <2>3. CASE TakeTest(w)
    BY <2>3 DEF TakeTest
  <2>4. CASE TakeStop(w)
    BY <2>4 DEF TakeStop
  <2>5. CASE ReadEnd(w)
    BY <2>5 DEF ReadEnd, AllClosed
  <2>6. CASE PassTest(w)
    BY <2>6 DEF PassTest, EndTest
  <2>7. CASE FailTest(w)
    BY <2>7 DEF FailTest, EndTest
  <2> QED
    BY <2>2, <2>3, <2>4, <2>5, <2>6, <2>7 DEF WorkerStep
<1> QED
  BY <1>4, <1>5, <1>6, <1>7 DEF IInv
----------------------------------------------------------------------------
(* The master's steps, first those that leave the pipes alone.                *)
LEMMA QuietMasterKeeps ==
    ASSUME IInv, Select \/ Skip \/ NoticeDeath \/ Close \/ Finish \/ SerialStart
                 \/ SerialEnd \/ SerialDone
    PROVE  IInv'
<1>1. n \in PoolSizes /\ n' = n /\ n \in Nat /\ UNCHANGED <<wpc, task, req, resp>>
  BY PoolIsPositive DEF IInv, TypeOK, Select, Skip, NoticeDeath, Close, Finish,
     SerialStart, SerialEnd, SerialDone, pool
<1>2. Worker' = Worker
  BY <1>1 DEF Worker
<1>3. TypeOK' /\ Unbroken' /\ InTest'
  <2> USE <1>1, <1>2, TestAssumption DEF IInv, TypeOK, Unbroken, InTest, book
  <2>1. CASE Select
    BY <2>1 DEF Select
  <2>2. CASE Skip
    BY <2>2 DEF Skip
  <2>3. CASE NoticeDeath
    BY <2>3 DEF NoticeDeath
  <2>4. CASE Close
    BY <2>4 DEF Close
  <2>5. CASE Finish
    BY <2>5 DEF Finish
  <2>6. CASE SerialStart
    BY <2>6 DEF SerialStart
  <2>7. CASE SerialEnd
    <3>1. dispatched < NTests /\ dispatched' = dispatched + 1 /\ mpc = "test"
      BY <2>7 DEF SerialEnd
    <3>2. dispatched' \in 0 .. NTests
      BY <3>1
    <3>3. passed' \in Nat /\ mpc' \in {"serial", "aborted"}
      BY <2>7 DEF SerialEnd
    <3>4. outcome' \in [Tests -> {"waiting", "running", "passed", "failed", "killed"}]
      BY <2>7, <3>1 DEF SerialEnd
    <3> QED
      BY <2>7, <3>2, <3>3, <3>4 DEF SerialEnd
  <2>8. CASE SerialDone
    BY <2>8 DEF SerialDone
  <2> QED
    BY <2>1, <2>2, <2>3, <2>4, <2>5, <2>6, <2>7, <2>8
<1>4. mpc' # "spawn"
  BY DEF IInv, TypeOK, Select, Skip, NoticeDeath, Close, Finish, SerialStart,
     SerialEnd, SerialDone
<1>5. mpc' = "serving" => mpc \in {"spawn", "serving"}
  BY DEF Select, Skip, NoticeDeath, Close, Finish, SerialStart, SerialEnd, SerialDone
<1>6. \A v \in Worker' : Turn(v)'
  BY <1>1, <1>2, <1>4, <1>5 DEF IInv, Turn, Quiet, Asked, Answered
<1> QED
  BY <1>3, <1>4, <1>6 DEF IInv, Unborn

LEMMA SpawnKeeps ==
    ASSUME IInv, Spawn PROVE IInv'
<1>1. n \in PoolSizes /\ n' = n /\ n \in Nat /\ Worker' = Worker /\ i \in Worker
  BY PoolIsPositive DEF IInv, TypeOK, Spawn, Worker
<1>2. TypeOK' /\ Unbroken' /\ InTest'
  BY <1>1 DEF IInv, TypeOK, Unbroken, InTest, Spawn
<1>3. Unborn'
  BY <1>1 DEF IInv, TypeOK, Unborn, Spawn, Worker
<1>4. \A v \in Worker' : Turn(v)'
  BY <1>1 DEF IInv, TypeOK, Unborn, Spawn, Turn, Quiet, Asked, Answered
<1> QED
  BY <1>2, <1>3, <1>4 DEF IInv

(* The number goes to a worker that has asked, so to a living one.            *)
LEMMA ServeFacts ==
    ASSUME IInv, Serve
    PROVE  /\ n \in PoolSizes /\ n' = n /\ n \in Nat /\ Worker' = Worker /\ i \in Worker
           /\ mpc = "serving" /\ req[i] > 0 /\ wpc[i] = "reading" /\ Asked(i)
           /\ mpc' = "serving"
           /\ resp' = [resp EXCEPT ![i] =
                          Append(@, IF MoreTests THEN dispatched ELSE Stop)]
           /\ MoreTests => dispatched \in Tests
<1>1. /\ n \in PoolSizes /\ n' = n /\ n \in Nat /\ Worker' = Worker /\ i \in Worker
      /\ mpc = "serving" /\ req[i] > 0
  BY PoolIsPositive DEF IInv, TypeOK, Serve, HasChar, Worker
<1>2. wpc[i] = "reading" /\ Asked(i)
  <2>1. Turn(i) /\ req[i] \in Nat
    BY <1>1 DEF IInv, TypeOK
  <2> QED
    BY <1>1, <2>1 DEF IInv, TypeOK, Turn, Quiet, Asked, Answered
<1>3. Alive(i)
  BY <1>2 DEF Alive
<1>4. MoreTests => dispatched \in Tests
  BY TestAssumption DEF IInv, TypeOK, MoreTests, Tests
<1> QED
  BY <1>1, <1>2, <1>3, <1>4 DEF Serve, Send

LEMMA ServeKeeps ==
    ASSUME IInv, Serve PROVE IInv'
<1>1. /\ n \in PoolSizes /\ n' = n /\ n \in Nat /\ Worker' = Worker /\ i \in Worker
      /\ mpc = "serving" /\ req[i] > 0
  BY ServeFacts
<1>2. wpc[i] = "reading" /\ Asked(i)
  BY ServeFacts
<1>3. \E v \in Tests \cup {Stop} :
         /\ resp' = [resp EXCEPT ![i] = Append(@, v)]
         /\ mpc' = "serving"
  BY ServeFacts
<1>4. TypeOK'
  <2>1. resp' \in [Worker -> Seq(Tests \cup {Stop})] /\ mpc' = "serving"
    BY <1>1, <1>3 DEF IInv, TypeOK
  <2>2. /\ open' \in [Worker -> BOOLEAN] /\ dispatched' \in 0 .. NTests
        /\ exited' \in Nat
    <3>1. CASE MoreTests
      <4>1. dispatched' = dispatched + 1 /\ UNCHANGED <<open, exited>>
        BY <3>1 DEF Serve
      <4>2. dispatched \in 0 .. NTests /\ dispatched < NTests
        BY <3>1 DEF IInv, TypeOK, MoreTests
      <4> QED
        BY <4>1, <4>2, TestAssumption DEF IInv, TypeOK
    <3>2. CASE ~MoreTests
      <4>1. /\ exited' = exited + 1 /\ UNCHANGED dispatched
            /\ open' = [open EXCEPT ![i] = FALSE]
        BY <3>2 DEF Serve, StopCounted
      <4>2. /\ open \in [Worker -> BOOLEAN] /\ dispatched \in 0 .. NTests
            /\ exited \in Nat
        BY DEF IInv, TypeOK
      <4>3. open' \in [Worker -> BOOLEAN]
        BY <4>1, <4>2
      <4> QED
        BY <4>1, <4>2, <4>3
    <3> QED
      BY <3>1, <3>2
  <2>3. passed' \in Nat
    BY <1>1 DEF IInv, TypeOK, Serve, Count
  <2>4. /\ req' \in [Worker -> Nat] /\ first' \in [Worker -> BOOLEAN]
        /\ i' \in 0 .. n
    BY <1>1 DEF IInv, TypeOK, Serve, Worker
  <2> QED
    BY <1>1, <2>1, <2>2, <2>3, <2>4 DEF IInv, TypeOK, Serve
<1>5. Unbroken' /\ InTest' /\ Unborn'
  BY <1>3 DEF Unbroken, InTest, Unborn
<1>6. \A v \in Worker' : Turn(v)'
  <2> SUFFICES ASSUME NEW v \in Worker PROVE Turn(v)'
    BY <1>1
  <2>1. wpc' = wpc /\ req' = [req EXCEPT ![i] = @ - 1]
    BY DEF Serve
  <2>2. CASE v = i
    <3>1. req'[i] = 0 /\ Len(resp'[i]) = 1
      BY <1>1, <1>2, <1>3, <2>1 DEF IInv, TypeOK, Asked
    <3> QED
      BY <1>2, <2>1, <2>2, <3>1 DEF Turn, Answered
  <2>3. CASE v # i
    <3>1. req'[v] = req[v] /\ resp'[v] = resp[v]
      BY <1>1, <1>3, <2>1, <2>3 DEF IInv, TypeOK
    <3> QED
      BY <1>1, <2>1, <3>1 DEF IInv, Turn, Quiet, Asked, Answered
  <2> QED
    BY <2>2, <2>3
<1> QED
  BY <1>4, <1>5, <1>6 DEF IInv

LEMMA ReapKeeps ==
    ASSUME IInv, Reap PROVE IInv'
<1>1. /\ n \in PoolSizes /\ n' = n /\ n \in Nat /\ Worker' = Worker /\ i \in Worker
      /\ mpc' = "reaping"
  BY PoolIsPositive DEF IInv, TypeOK, Reap, Worker
<1>2. TypeOK'
  BY <1>1 DEF IInv, TypeOK, Reap, Worker, book
<1>3. Unbroken' /\ InTest' /\ Unborn'
  BY <1>1 DEF Unbroken, InTest, Unborn
<1>4. \A v \in Worker' : Turn(v)'
  BY <1>1 DEF IInv, TypeOK, Reap, Turn, Quiet, Asked, Answered
<1> QED
  BY <1>2, <1>3, <1>4 DEF IInv

----------------------------------------------------------------------------
LEMMA StutterKeeps == ASSUME IInv, UNCHANGED vars PROVE IInv'
<1>1. Worker' = Worker
  BY DEF vars, Worker
<1> QED
  BY <1>1 DEF IInv, TypeOK, Unbroken, Unborn, InTest, Turn, Quiet, Asked, Answered,
     vars, pool, book

LEMMA NextKeeps == ASSUME IInv, [Next]_vars PROVE IInv'
<1>1. CASE MasterStep
  BY <1>1, SpawnKeeps, QuietMasterKeeps, ServeKeeps, ReapKeeps DEF MasterStep
<1>2. CASE \E w \in Worker : WorkerStep(w)
  BY <1>2, WorkerKeeps
<1>3. CASE UNCHANGED vars
  BY <1>3, StutterKeeps
<1> QED
  BY <1>1, <1>2, <1>3 DEF Next, Ended

(* The master and each worker speak in turn, for any pool and any tests.      *)
THEOREM Conversation == Spec => []IInv
BY InitIInv, NextKeeps, PTL DEF Spec

(* Every variable of the runner keeps its type: the counters stay in bounds,  *)
(* and only numbers of tests are handed out.                                  *)
THEOREM TypesHold == Spec => []TypeOK
BY Conversation, PTL DEF IInv

----------------------------------------------------------------------------
(* The bookkeeping.  What a worker has been offered, and is gone.             *)
Offer(w) == IF resp[w] = <<>> THEN Stop ELSE Head(resp[w])
Gone(w) == wpc[w] = "gone"
Places == {"unborn", "asking", "reading", "testing", "gone"}
Outcomes == {"waiting", "running", "passed", "failed", "killed"}

(* One worker runs the tests in the master; more are forked and reaped.       *)
PhaseSide ==
    /\ mpc \in {"serial", "test", "aborted"} => n = 1
    /\ mpc \in {"spawn", "serving", "closing", "reaping"} => n # 1
    /\ n = 1 => ~failed /\ \A w \in Worker : wpc[w] = "unborn"
    /\ n # 1 /\ mpc # "spawn" => \A w \in Worker : wpc[w] # "unborn"
    /\ mpc = "spawn" => \A w \in Worker : w < i => wpc[w] # "unborn"
    /\ mpc = "reaping" => \A w \in Worker : w < i => Gone(w)
    /\ mpc = "done" /\ n # 1 => \A w \in Worker : Gone(w)

(* A test is with one worker at most: offered to it, or run by it.            *)
TaskSide ==
    /\ \A w \in Worker : task[w] = NoTask <=> wpc[w] # "testing"
    /\ \A w \in Worker : task[w] # NoTask => outcome[task[w]] = "running"
    /\ \A w \in Worker : Offer(w) # Stop =>
          Offer(w) < dispatched /\ outcome[Offer(w)] = "waiting"
    /\ \A v, w \in Worker : v # w =>
          /\ task[v] = task[w] => task[v] = NoTask
          /\ Offer(v) = Offer(w) => Offer(v) = Stop
    /\ \A w \in Worker : first[w] => task[w] = NoTask /\ resp[w] = <<>>
    /\ \A w \in Worker : wpc[w] = "unborn" => first[w]

(* What the outcome of a test tells about who has it.                         *)
OutcomeSide ==
    /\ \A t \in Tests : t >= dispatched /\ mpc # "test" => outcome[t] = "waiting"
    /\ \A t \in Tests : t > dispatched => outcome[t] = "waiting"
    /\ mpc = "test" => outcome[dispatched] = "running"
    /\ n = 1 /\ mpc # "aborted" =>
          \A t \in Tests : t < dispatched => outcome[t] = "passed"
    /\ n # 1 => \A t \in Tests :
          /\ t < dispatched /\ outcome[t] = "waiting" => \E w \in Worker : Offer(w) = t
          /\ outcome[t] = "running" => \E w \in Worker : task[w] = t
          /\ outcome[t] = "killed" => failed
    /\ mpc = "done" /\ n = 1 => dispatched = NTests

(* A worker whose pipe the master has closed was told to stop; the workers    *)
(* select returned have a char or are dead.                                   *)
PipeSide ==
    /\ \A w \in Worker : w \in ready /\ mpc = "serving" /\ w >= i =>
          open[w] /\ (req[w] > 0 \/ Gone(w))
    /\ mpc = "spawn" => exited = 0 /\ \A w \in Worker : open[w] <=> w < i
    /\ mpc # "spawn" => \A w \in Worker : ~open[w] /\ n # 1 =>
          /\ req[w] = 0 /\ Offer(w) = Stop
          /\ Gone(w) \/ (wpc[w] = "reading" /\ resp[w] = <<Stop>>)
          /\ dispatched = NTests
    /\ \A w \in Worker : resp[w] # <<>> /\ Head(resp[w]) = Stop => ~open[w]

(* A failure is a dead worker whose pipe is open, until it is noticed.        *)
DeathSide ==
    /\ \A w \in Worker : open[w] /\ Gone(w) /\ mpc \in {"spawn", "serving"} =>
          \E t \in Tests : outcome[t] = "failed"
    /\ failed => \E t \in Tests : outcome[t] = "failed"
    /\ n # 1 /\ ~failed => \A t \in Tests : outcome[t] = "failed" =>
          \E w \in Worker : open[w] /\ Gone(w)
    /\ n # 1 /\ ~failed /\ mpc \in {"closing", "reaping", "done"} =>
          \A w \in Worker : ~open[w]

(* The counters: workers told to stop, passed tests asked for again.          *)
Told == {w \in Worker : ~open[w]}
Due == {w \in Worker : ~first[w] /\ (wpc[w] = "asking" \/ req[w] = 1)}
PassedTests == {t \in Tests : outcome[t] = "passed"}
CountSide ==
    /\ n # 1 /\ mpc # "spawn" => exited = Cardinality(Told)
    /\ passed + Cardinality(Due) <= Cardinality(PassedTests)
    /\ ~failed => passed + Cardinality(Due) = Cardinality(PassedTests)

RInv == /\ IInv /\ PhaseSide /\ TaskSide /\ OutcomeSide /\ PipeSide /\ DeathSide
        /\ CountSide

----------------------------------------------------------------------------
LEMMA Facts ==
    ASSUME IInv
    PROVE  /\ n \in Nat /\ n > 0 /\ NTests \in Nat /\ dispatched \in 0 .. NTests
           /\ Worker \subseteq Nat /\ Stop \notin Tests /\ NoTask \notin Tests
           /\ \A w \in Worker : Offer(w) \in Tests \cup {Stop}
           /\ \A w \in Worker : task[w] \in Tests \cup {NoTask}
<1>1. n \in Nat /\ n > 0 /\ NTests \in Nat
  BY PoolIsPositive, TestAssumption DEF IInv, TypeOK
<1>2. \A w \in Worker : Offer(w) \in Tests \cup {Stop}
  <2> SUFFICES ASSUME NEW w \in Worker, resp[w] # <<>>
               PROVE  Head(resp[w]) \in Tests \cup {Stop}
    BY DEF Offer
  <2>1. resp[w] \in Seq(Tests \cup {Stop})
    BY DEF IInv, TypeOK
  <2> QED
    BY <2>1
<1>3. Worker \subseteq Nat /\ Stop \notin Tests /\ NoTask \notin Tests
  BY <1>1 DEF Worker, Tests, Stop, NoTask
<1> QED
  BY <1>1, <1>2, <1>3 DEF IInv, TypeOK

LEMMA SetsAreFinite ==
    ASSUME IInv
    PROVE  /\ IsFiniteSet(Worker) /\ Cardinality(Worker) = n
           /\ IsFiniteSet(Tests) /\ Cardinality(Tests) = NTests
           /\ IsFiniteSet(Told) /\ Cardinality(Told) \in Nat
           /\ IsFiniteSet(Due) /\ Cardinality(Due) \in Nat
           /\ IsFiniteSet(PassedTests) /\ Cardinality(PassedTests) \in Nat
<1>1. n \in Nat /\ n > 0 /\ NTests \in Nat
  BY Facts
<1>2. IsFiniteSet(Worker) /\ Cardinality(Worker) = n
  BY <1>1, FS_Interval DEF Worker
<1>3. IsFiniteSet(Tests) /\ Cardinality(Tests) = NTests
  BY <1>1, FS_Interval DEF Tests
<1>4. Told \subseteq Worker /\ Due \subseteq Worker /\ PassedTests \subseteq Tests
  BY DEF Told, Due, PassedTests
<1>5. IsFiniteSet(Told) /\ IsFiniteSet(Due) /\ IsFiniteSet(PassedTests)
  BY <1>2, <1>3, <1>4, FS_Subset
<1> QED
  BY <1>2, <1>3, <1>5, FS_CardinalityType

LEMMA TailOfOne ==
    ASSUME NEW S, NEW s \in Seq(S), Len(s) = 1
    PROVE  Tail(s) = <<>>
<1>1. Tail(s) \in Seq(S) /\ Len(Tail(s)) = 0
  OBVIOUS
<1> QED
  BY <1>1, EmptySeq

LEMMA InitRInv == Init => RInv
<1> SUFFICES ASSUME Init PROVE RInv
  OBVIOUS
<1>1. IInv
  BY InitIInv
<1>2. /\ n \in Nat /\ n > 0 /\ NTests \in Nat
      /\ Worker \subseteq Nat /\ Stop \notin Tests /\ NoTask \notin Tests
  BY <1>1, Facts
<1>3. \A w \in Worker : Offer(w) = Stop
  BY DEF Init, Offer
<1>4. PhaseSide
  BY <1>2 DEF Init, PhaseSide
<1>5. TaskSide
  BY <1>2, <1>3 DEF Init, TaskSide
<1>6. OutcomeSide
  <2>1. \A t \in Tests : outcome[t] = "waiting" /\ ~(t < dispatched)
    BY <1>2 DEF Init, Tests
  <2> QED
    BY <2>1 DEF Init, OutcomeSide
<1>7. PipeSide
  BY <1>2 DEF Init, PipeSide
<1>8. DeathSide
  BY DEF Init, DeathSide, Gone
<1>9. CountSide
  <2>1. Due = {} /\ PassedTests = {}
    BY DEF Init, Due, PassedTests
  <2> QED
    BY <2>1, FS_EmptySet DEF Init, CountSide
<1> QED
  BY <1>1, <1>4, <1>5, <1>6, <1>7, <1>8, <1>9 DEF RInv

----------------------------------------------------------------------------
(* The steps of a worker.                                                     *)
LEMMA AskKeeps ==
    ASSUME RInv, NEW w \in Worker, WorkerStep(w), Ask(w) PROVE RInv'
<1> USE DEF RInv
<1>1. IInv /\ IInv'
  BY NextKeeps DEF Next
<1>2. /\ UNCHANGED <<n, mpc, i, ready, open, first, dispatched, exited, passed, failed>>
      /\ UNCHANGED <<task, resp, outcome>> /\ Worker' = Worker
  BY DEF WorkerStep, Ask, book, Worker
<1>3. /\ wpc \in [Worker -> Places] /\ wpc[w] = "asking"
      /\ wpc' = [wpc EXCEPT ![w] = "reading"]
      /\ req[w] = 0 /\ req' = [req EXCEPT ![w] = 1] /\ req \in [Worker -> Nat]
      /\ Turn(w)
  <2>1. Turn(w) /\ wpc[w] = "asking" /\ req \in [Worker -> Nat]
    BY <1>1 DEF Ask, IInv, TypeOK
  <2>2. req[w] = 0
    BY <2>1 DEF Turn, Quiet
  <2>3. req' = [req EXCEPT ![w] = req[w] + 1]
    BY DEF Ask
  <2> QED
    BY <1>1, <2>1, <2>2, <2>3 DEF Places, Ask, IInv, TypeOK
<1>4. \A v \in Worker : Offer(v)' = Offer(v) /\ Gone(v)' = Gone(v)
  BY <1>2, <1>3 DEF Offer, Gone
<1>5. PhaseSide'
  BY <1>2, <1>3, <1>4 DEF PhaseSide
<1>6. TaskSide'
  BY <1>2, <1>3, <1>4 DEF TaskSide
<1>7. OutcomeSide'
  BY <1>2, <1>4 DEF OutcomeSide
<1>8. PipeSide'
  <2>1. n # 1
    BY <1>3 DEF PhaseSide
  <2>2. mpc # "spawn" => open[w]
    BY <1>3, <2>1 DEF PipeSide, Gone
  <2> QED
    BY <1>2, <1>3, <1>4, <2>2 DEF PipeSide
<1>9. DeathSide'
  BY <1>2, <1>4 DEF DeathSide
<1>10. CountSide'
  <2>1. Told' = Told /\ Due' = Due /\ PassedTests' = PassedTests
    BY <1>2, <1>3 DEF Told, Due, PassedTests
  <2> QED
    BY <1>2, <2>1 DEF CountSide
<1> QED
  BY <1>1, <1>5, <1>6, <1>7, <1>8, <1>9, <1>10

LEMMA TakeTestKeeps ==
    ASSUME RInv, NEW w \in Worker, WorkerStep(w), TakeTest(w) PROVE RInv'
<1> USE DEF RInv
<1>1. IInv /\ IInv'
  BY NextKeeps DEF Next
<1>2. /\ UNCHANGED <<n, mpc, i, ready, open, first, dispatched, exited, passed, failed>>
      /\ UNCHANGED req /\ Worker' = Worker
  BY DEF WorkerStep, TakeTest, book, Worker
<1>3. /\ wpc \in [Worker -> Places] /\ wpc[w] = "reading"
      /\ wpc' = [wpc EXCEPT ![w] = "testing"]
      /\ resp[w] # <<>> /\ Turn(w) /\ req[w] = 0 /\ Len(resp[w]) = 1
      /\ task \in [Worker -> Tests \cup {NoTask}]
      /\ outcome \in [Tests -> Outcomes]
  BY <1>1 DEF Places, Outcomes, TakeTest, IInv, TypeOK, Turn, Asked, Answered
<1>4. /\ Offer(w) \in Tests /\ Offer(w) < dispatched /\ outcome[Offer(w)] = "waiting"
      /\ task' = [task EXCEPT ![w] = Offer(w)]
      /\ outcome' = [outcome EXCEPT ![Offer(w)] = "running"]
  BY <1>1, <1>3, Facts DEF TakeTest, Offer, TaskSide
<1>5. /\ resp' = [resp EXCEPT ![w] = <<>>]
      /\ resp \in [Worker -> Seq(Tests \cup {Stop})]
  <2>1. resp' = [resp EXCEPT ![w] = Tail(resp[w])]
    BY DEF TakeTest
  <2>2. resp \in [Worker -> Seq(Tests \cup {Stop})]
    BY <1>1 DEF IInv, TypeOK
  <2>3. Tail(resp[w]) = <<>>
    BY <1>3, <2>2, TailOfOne
  <2> QED
    BY <2>1, <2>2, <2>3
<1>6. \A v \in Worker : /\ Offer(v)' = IF v = w THEN Stop ELSE Offer(v)
                        /\ Gone(v)' = Gone(v)
  BY <1>3, <1>5 DEF Offer, Gone
<1>7. Stop \notin Tests /\ NoTask \notin Tests /\ n # 1 /\ mpc # "test"
      /\ Tests \subseteq Int /\ dispatched \in Int
  BY <1>1, <1>3, Facts DEF PhaseSide, Tests
<1>8. PhaseSide'
  BY <1>2, <1>3, <1>6 DEF PhaseSide
<1>9. TaskSide'
  <2>1. \A v \in Worker : v # w => task[v] # Offer(w)
    BY <1>4, <1>7 DEF TaskSide
  <2>2. \A v \in Worker : v # w => Offer(v) # Offer(w)
    BY <1>4, <1>7 DEF TaskSide
  <2>3. ~first[w]
    BY <1>3 DEF TaskSide
  <2> QED
    BY <1>2, <1>3, <1>4, <1>5, <1>6, <1>7, <2>1, <2>2, <2>3 DEF TaskSide
<1>10. OutcomeSide'
  <2>1. ASSUME NEW t \in Tests, outcome'[t] = "waiting", t < dispatched
        PROVE  \E v \in Worker : Offer(v)' = t
    <3>1. t # Offer(w) /\ outcome[t] = "waiting"
      BY <1>3, <1>4, <2>1
    <3>2. PICK v \in Worker : Offer(v) = t
      BY <1>7, <2>1, <3>1 DEF OutcomeSide
    <3> QED
      BY <1>6, <3>1, <3>2
  <2>2. ASSUME NEW t \in Tests, outcome'[t] = "running"
        PROVE  \E v \in Worker : task'[v] = t
    <3>1. CASE t = Offer(w)
      BY <1>3, <1>4, <3>1
    <3>2. CASE t # Offer(w)
      <4>1. PICK v \in Worker : task[v] = t
        BY <1>3, <1>4, <1>7, <2>2, <3>2 DEF OutcomeSide
      <4>2. v # w
        BY <1>3, <1>7, <4>1 DEF TaskSide
      <4> QED
        BY <1>3, <1>4, <4>1, <4>2
    <3> QED
      BY <3>1, <3>2
  <2>3. \A t \in Tests : t # Offer(w) => outcome'[t] = outcome[t]
    BY <1>3, <1>4
  <2>4. outcome'[Offer(w)] = "running"
    BY <1>3, <1>4
  <2> QED
    BY <1>2, <1>4, <1>7, <2>1, <2>2, <2>3, <2>4 DEF OutcomeSide
<1>11. PipeSide'
  <2>1. mpc # "spawn" => open[w]
    BY <1>3, <1>4, <1>7 DEF PipeSide, Gone, Offer
  <2> QED
    BY <1>2, <1>3, <1>5, <1>6, <2>1 DEF PipeSide
<1>12. DeathSide'
  <2>1. \A t \in Tests : outcome'[t] = "failed" <=> outcome[t] = "failed"
    BY <1>3, <1>4
  <2> QED
    BY <1>2, <1>6, <2>1 DEF DeathSide
<1>13. CountSide'
  <2>1. Told' = Told /\ Due' = Due /\ PassedTests' = PassedTests
    BY <1>2, <1>3, <1>4 DEF Told, Due, PassedTests
  <2> QED
    BY <1>2, <2>1 DEF CountSide
<1> QED
  BY <1>1, <1>8, <1>9, <1>10, <1>11, <1>12, <1>13

LEMMA TakeStopKeeps ==
    ASSUME RInv, NEW w \in Worker, WorkerStep(w), TakeStop(w) PROVE RInv'
<1> USE DEF RInv
<1>1. IInv /\ IInv'
  BY NextKeeps DEF Next
<1>2. /\ UNCHANGED <<n, mpc, i, ready, open, first, dispatched, exited, passed, failed>>
      /\ UNCHANGED <<req, task, outcome>> /\ Worker' = Worker
  BY DEF WorkerStep, TakeStop, book, Worker
<1>3. /\ wpc \in [Worker -> Places] /\ wpc[w] = "reading"
      /\ wpc' = [wpc EXCEPT ![w] = "gone"]
      /\ resp[w] # <<>> /\ Head(resp[w]) = Stop /\ req[w] = 0 /\ Len(resp[w]) = 1
  BY <1>1 DEF Places, TakeStop, IInv, TypeOK, Turn, Asked, Answered
<1>4. /\ resp' = [resp EXCEPT ![w] = <<>>]
      /\ resp \in [Worker -> Seq(Tests \cup {Stop})]
  <2>1. resp' = [resp EXCEPT ![w] = Tail(resp[w])]
    BY DEF TakeStop
  <2>2. resp \in [Worker -> Seq(Tests \cup {Stop})]
    BY <1>1 DEF IInv, TypeOK
  <2>3. Tail(resp[w]) = <<>>
    BY <1>3, <2>2, TailOfOne
  <2> QED
    BY <2>1, <2>2, <2>3
<1>5. \A v \in Worker : /\ Offer(v)' = Offer(v)
                        /\ Gone(v)' <=> Gone(v) \/ v = w
  BY <1>3, <1>4 DEF Offer, Gone
<1>6. ~open[w] /\ n # 1
  BY <1>3 DEF PipeSide, PhaseSide
<1>7. PhaseSide'
  BY <1>2, <1>3, <1>5 DEF PhaseSide
<1>8. TaskSide'
  BY <1>2, <1>3, <1>4, <1>5 DEF TaskSide
<1>9. OutcomeSide'
  BY <1>2, <1>5 DEF OutcomeSide
<1>10. PipeSide'
  BY <1>2, <1>3, <1>4, <1>5 DEF PipeSide
<1>11. DeathSide'
  BY <1>2, <1>5, <1>6 DEF DeathSide
<1>12. CountSide'
  <2>1. Told' = Told /\ Due' = Due /\ PassedTests' = PassedTests
    BY <1>2, <1>3 DEF Told, Due, PassedTests
  <2> QED
    BY <1>2, <2>1 DEF CountSide
<1> QED
  BY <1>1, <1>7, <1>8, <1>9, <1>10, <1>11, <1>12

LEMMA ReadEndKeeps ==
    ASSUME RInv, NEW w \in Worker, WorkerStep(w), ReadEnd(w) PROVE RInv'
<1> USE DEF RInv
<1>1. IInv /\ IInv'
  BY NextKeeps DEF Next
<1>2. /\ UNCHANGED <<n, mpc, i, ready, open, first, dispatched, exited, passed, failed>>
      /\ UNCHANGED <<req, resp, task, outcome>> /\ Worker' = Worker
  BY DEF WorkerStep, ReadEnd, book, Worker
<1>3. /\ wpc \in [Worker -> Places] /\ wpc[w] = "reading"
      /\ wpc' = [wpc EXCEPT ![w] = "gone"]
      /\ resp[w] = <<>> /\ req[w] = 1 /\ mpc \in {"closing", "reaping"}
  BY <1>1 DEF Places, ReadEnd, AllClosed, IInv, TypeOK, Turn, Asked, Answered
<1>4. \A v \in Worker : /\ Offer(v)' = Offer(v)
                        /\ Gone(v)' <=> Gone(v) \/ v = w
  BY <1>2, <1>3 DEF Offer, Gone
<1>5. PhaseSide'
  BY <1>2, <1>3, <1>4 DEF PhaseSide
<1>6. TaskSide'
  BY <1>2, <1>3, <1>4 DEF TaskSide
<1>7. OutcomeSide'
  BY <1>2, <1>4 DEF OutcomeSide
<1>8. PipeSide'
  BY <1>2, <1>3, <1>4 DEF PipeSide
<1>9. DeathSide'
  BY <1>2, <1>3, <1>4 DEF DeathSide
<1>10. CountSide'
  <2>1. Told' = Told /\ Due' = Due /\ PassedTests' = PassedTests
    BY <1>2, <1>3 DEF Told, Due, PassedTests
  <2> QED
    BY <1>2, <2>1 DEF CountSide
<1> QED
  BY <1>1, <1>5, <1>6, <1>7, <1>8, <1>9, <1>10

(* The end of a test, by success or by abort.                                 *)
LEMMA EndFacts ==
    ASSUME RInv, NEW w \in Worker, NEW to \in {"asking", "gone"},
           NEW result \in {"passed", "failed"}, WorkerStep(w), EndTest(w, to, result)
    PROVE  /\ UNCHANGED <<n, mpc, i, ready, open, first, dispatched, exited, passed,
                          failed, req, resp>>
           /\ Worker' = Worker /\ n # 1 /\ mpc # "test" /\ ~first[w]
           /\ wpc \in [Worker -> Places] /\ wpc[w] = "testing"
           /\ wpc' = [wpc EXCEPT ![w] = to] /\ req[w] = 0
           /\ task \in [Worker -> Tests \cup {NoTask}] /\ task[w] \in Tests
           /\ task' = [task EXCEPT ![w] = NoTask]
           /\ outcome \in [Tests -> Outcomes] /\ outcome[task[w]] = "running"
           /\ outcome' = [outcome EXCEPT ![task[w]] = result]
           /\ open[w]
           /\ PhaseSide' /\ TaskSide' /\ OutcomeSide' /\ PipeSide'
<1> USE DEF RInv
<1>1. /\ UNCHANGED <<n, mpc, i, ready, open, first, dispatched, exited, passed,
                     failed, req, resp>>
      /\ Worker' = Worker
  BY DEF WorkerStep, EndTest, book, Worker
<1>2. /\ wpc \in [Worker -> Places] /\ wpc[w] = "testing"
      /\ wpc' = [wpc EXCEPT ![w] = to] /\ Turn(w)
      /\ task \in [Worker -> Tests \cup {NoTask}]
      /\ task' = [task EXCEPT ![w] = NoTask]
      /\ outcome \in [Tests -> Outcomes]
      /\ outcome' = [outcome EXCEPT ![task[w]] = result]
  BY DEF EndTest, IInv, TypeOK, Places, Outcomes
<1>3. /\ task[w] \in Tests /\ outcome[task[w]] = "running" /\ ~first[w]
      /\ req[w] = 0 /\ resp[w] = <<>>
  BY <1>2 DEF TaskSide, Turn, Quiet
<1>4. n # 1 /\ mpc # "test"
  BY <1>2 DEF PhaseSide
<1>5. open[w]
  <2>1. mpc = "spawn" => w < i
    <3>1. Worker \subseteq Nat /\ i \in Nat
      BY Facts DEF IInv, TypeOK
    <3> QED
      BY <1>2, <3>1 DEF IInv, Unborn
  <2> QED
    BY <1>2, <1>4, <2>1 DEF PipeSide, Gone
<1>6. \A v \in Worker : /\ Offer(v)' = Offer(v)
                        /\ Gone(v) => Gone(v)'
                        /\ v # w => (Gone(v)' <=> Gone(v))
  BY <1>1, <1>2 DEF Offer, Gone
<1>7. /\ Stop \notin Tests /\ NoTask \notin Tests
      /\ Tests \subseteq Int /\ dispatched \in Int
  BY Facts DEF Tests
<1>8. PhaseSide'
  BY <1>1, <1>2, <1>4, <1>6 DEF PhaseSide, Gone
<1>9. TaskSide'
  <2>1. \A v \in Worker : v # w => task[v] # task[w]
    BY <1>3, <1>7 DEF TaskSide
  <2>2. \A v \in Worker : Offer(v) # Stop => Offer(v) # task[w]
    BY <1>3 DEF TaskSide
  <2>3. \A v \in Worker : Offer(v) \in Tests \cup {Stop}
    BY Facts
  <2> QED
    BY <1>1, <1>2, <1>3, <1>6, <1>7, <2>1, <2>2, <2>3 DEF TaskSide
<1>10. OutcomeSide'
  <2>1. \A t \in Tests : t # task[w] => outcome'[t] = outcome[t]
    BY <1>2, <1>3
  <2>2. outcome'[task[w]] = result
    BY <1>2, <1>3
  <2>3. \A t \in Tests : t > dispatched \/ t >= dispatched => t # task[w]
    BY <1>3, <1>4, <1>7 DEF OutcomeSide
  <2>4. ASSUME NEW t \in Tests, outcome'[t] = "running"
        PROVE  \E v \in Worker : task'[v] = t
    <3>1. t # task[w] /\ outcome[t] = "running"
      BY <2>1, <2>2, <2>4
    <3>2. PICK v \in Worker : task[v] = t
      BY <1>4, <3>1 DEF OutcomeSide
    <3> QED
      BY <1>2, <3>1, <3>2
  <2> QED
    BY <1>1, <1>4, <1>6, <2>1, <2>2, <2>3, <2>4 DEF OutcomeSide
<1>11. PipeSide'
  BY <1>1, <1>2, <1>5, <1>6 DEF PipeSide
<1> QED
  BY <1>1, <1>2, <1>3, <1>4, <1>5, <1>8, <1>9, <1>10, <1>11

LEMMA PassTestKeeps ==
    ASSUME RInv, NEW w \in Worker, WorkerStep(w), PassTest(w) PROVE RInv'
<1> USE DEF RInv
<1>1. IInv /\ IInv'
  BY NextKeeps DEF Next
<1>2. /\ UNCHANGED <<n, mpc, i, ready, open, first, dispatched, exited, passed,
                     failed, req, resp>>
      /\ Worker' = Worker /\ ~first[w]
      /\ wpc \in [Worker -> Places] /\ wpc[w] = "testing"
      /\ wpc' = [wpc EXCEPT ![w] = "asking"] /\ req[w] = 0
      /\ task[w] \in Tests
      /\ outcome \in [Tests -> Outcomes] /\ outcome[task[w]] = "running"
      /\ outcome' = [outcome EXCEPT ![task[w]] = "passed"]
      /\ PhaseSide' /\ TaskSide' /\ OutcomeSide' /\ PipeSide'
  BY EndFacts DEF PassTest
<1>3. DeathSide'
  <2>1. \A t \in Tests : outcome'[t] = "failed" <=> outcome[t] = "failed"
    BY <1>2
  <2>2. \A v \in Worker : Gone(v)' <=> Gone(v)
    BY <1>2 DEF Gone
  <2> QED
    BY <1>2, <2>1, <2>2 DEF DeathSide
<1>4. CountSide'
  <2>1. Told' = Told /\ Due' = Due \cup {w} /\ PassedTests' = PassedTests \cup {task[w]}
    BY <1>2 DEF Told, Due, PassedTests
  <2>2. w \notin Due /\ task[w] \notin PassedTests
    BY <1>2 DEF Due, PassedTests
  <2>3. /\ Cardinality(Due') = Cardinality(Due) + 1
        /\ Cardinality(PassedTests') = Cardinality(PassedTests) + 1
        /\ Cardinality(Due) \in Nat /\ Cardinality(PassedTests) \in Nat
    BY <2>1, <2>2, SetsAreFinite, FS_AddElement
  <2>4. passed \in Nat
    BY <1>1 DEF IInv, TypeOK
  <2> QED
    BY <1>2, <2>1, <2>3, <2>4 DEF CountSide
<1> QED
  BY <1>1, <1>2, <1>3, <1>4

LEMMA FailTestKeeps ==
    ASSUME RInv, NEW w \in Worker, WorkerStep(w), FailTest(w) PROVE RInv'
<1> USE DEF RInv
<1>1. IInv /\ IInv'
  BY NextKeeps DEF Next
<1>2. /\ UNCHANGED <<n, mpc, i, ready, open, first, dispatched, exited, passed,
                     failed, req, resp>>
      /\ Worker' = Worker /\ open[w]
      /\ wpc \in [Worker -> Places] /\ wpc[w] = "testing"
      /\ wpc' = [wpc EXCEPT ![w] = "gone"] /\ req[w] = 0
      /\ task[w] \in Tests
      /\ outcome \in [Tests -> Outcomes] /\ outcome[task[w]] = "running"
      /\ outcome' = [outcome EXCEPT ![task[w]] = "failed"]
      /\ PhaseSide' /\ TaskSide' /\ OutcomeSide' /\ PipeSide'
  BY EndFacts DEF FailTest
<1>3. DeathSide'
  <2>1. outcome'[task[w]] = "failed"
    BY <1>2
  <2>2. \A t \in Tests : t # task[w] => outcome'[t] = outcome[t]
    BY <1>2
  <2>3. \A v \in Worker : Gone(v)' <=> Gone(v) \/ v = w
    BY <1>2 DEF Gone
  <2> QED
    BY <1>2, <2>1, <2>2, <2>3 DEF DeathSide
<1>4. CountSide'
  <2>1. Told' = Told /\ Due' = Due /\ PassedTests' = PassedTests
    BY <1>2 DEF Told, Due, PassedTests
  <2> QED
    BY <1>2, <2>1 DEF CountSide
<1> QED
  BY <1>1, <1>2, <1>3, <1>4

LEMMA WorkersKeep ==
    ASSUME RInv, NEW w \in Worker, WorkerStep(w) PROVE RInv'
BY AskKeeps, TakeTestKeeps, TakeStopKeeps, ReadEndKeeps, PassTestKeeps, FailTestKeeps
   DEF WorkerStep

----------------------------------------------------------------------------
(* The steps of the master that leave the workers and the tests alone.        *)
LEMMA StillWorkers ==
    ASSUME RInv, UNCHANGED <<n, pool, outcome, first, dispatched>>
    PROVE  /\ Worker' = Worker /\ UNCHANGED <<n, wpc, task, req, resp>>
           /\ \A w \in Worker : Offer(w)' = Offer(w) /\ Gone(w)' = Gone(w)
           /\ TaskSide' /\ Due' = Due /\ PassedTests' = PassedTests
<1>1. UNCHANGED <<n, wpc, task, req, resp>>
  BY DEF pool
<1>2. Worker' = Worker
  BY <1>1 DEF Worker
<1>3. \A w \in Worker : Offer(w)' = Offer(w) /\ Gone(w)' = Gone(w)
  BY <1>1 DEF Offer, Gone
<1>4. TaskSide'
  BY <1>1, <1>2, <1>3 DEF RInv, TaskSide
<1>5. Due' = Due /\ PassedTests' = PassedTests
  BY <1>1, <1>2 DEF Due, PassedTests
<1> QED
  BY <1>1, <1>2, <1>3, <1>4, <1>5

LEMMA SelectKeeps ==
    ASSUME RInv, Select PROVE RInv'
<1> USE DEF RInv
<1>1. IInv /\ IInv'
  BY NextKeeps DEF Next, MasterStep
<1>2. /\ UNCHANGED <<n, pool, outcome, first, dispatched, open, exited, passed, failed>>
      /\ mpc \in {"spawn", "serving"} /\ i = n /\ i' = 0 /\ mpc' \in {"closing", "serving"}
  BY DEF Select, book
<1>3. /\ Worker' = Worker /\ UNCHANGED <<wpc, task, req, resp>>
      /\ \A w \in Worker : Offer(w)' = Offer(w) /\ Gone(w)' = Gone(w)
      /\ TaskSide' /\ Due' = Due /\ PassedTests' = PassedTests
  BY <1>2, StillWorkers
<1>4. n \in Nat /\ n > 0 /\ Worker \subseteq Nat /\ \A w \in Worker : w < n
  BY <1>1, Facts DEF Worker
<1>5. n # 1 /\ \A w \in Worker : wpc[w] # "unborn"
  BY <1>2, <1>4 DEF PhaseSide
<1>6. mpc = "spawn" => exited = 0 /\ \A w \in Worker : open[w]
  BY <1>2, <1>4 DEF PipeSide
<1>7. PhaseSide'
  BY <1>2, <1>3, <1>5 DEF PhaseSide
<1>8. OutcomeSide'
  BY <1>2, <1>3, <1>5 DEF OutcomeSide
<1>9. PipeSide'
  <2>1. \A w \in Worker : w \in ready' => open[w] /\ (req[w] > 0 \/ Gone(w))
    BY <1>2, <1>5 DEF Select, Readable, Alive, Gone
  <2> QED
    BY <1>2, <1>3, <1>6, <2>1 DEF PipeSide
<1>10. exited = Cardinality(Told)
  <2>1. CASE mpc = "spawn"
    <3>1. Told = {}
      BY <1>6, <2>1 DEF Told
    <3> QED
      BY <1>6, <2>1, <3>1, FS_EmptySet
  <2>2. CASE mpc # "spawn"
    BY <1>5, <2>2 DEF CountSide
  <2> QED
    BY <2>1, <2>2
<1>11. DeathSide'
  <2>1. mpc' = "closing" /\ ~failed => Told = Worker
    <3> SUFFICES ASSUME mpc' = "closing", ~failed PROVE Told = Worker
      OBVIOUS
    <3>1. exited = n
      BY DEF Select
    <3>2. Told \in SUBSET Worker
      BY DEF Told
    <3> QED
      BY <1>1, <1>10, <3>1, <3>2, SetsAreFinite, FS_Subset
  <2>2. \A w \in Worker : Told = Worker => ~open[w]
    BY DEF Told
  <2> QED
    BY <1>2, <1>3, <2>1, <2>2 DEF DeathSide
<1>12. CountSide'
  <2>1. Told' = Told
    BY <1>2, <1>3 DEF Told
  <2> QED
    BY <1>2, <1>3, <1>10, <2>1 DEF CountSide
<1> QED
  BY <1>1, <1>3, <1>7, <1>8, <1>9, <1>11, <1>12

LEMMA SkipKeeps ==
    ASSUME RInv, Skip PROVE RInv'
<1> USE DEF RInv
<1>1. IInv /\ IInv'
  BY NextKeeps DEF Next, MasterStep
<1>2. /\ UNCHANGED <<n, pool, outcome, first, dispatched, open, exited, passed, failed>>
      /\ UNCHANGED <<mpc, ready>> /\ mpc = "serving" /\ i' = i + 1 /\ i \in Nat
  BY <1>1 DEF Skip, book, IInv, TypeOK
<1>3. /\ Worker' = Worker /\ UNCHANGED <<wpc, task, req, resp>>
      /\ \A w \in Worker : Offer(w)' = Offer(w) /\ Gone(w)' = Gone(w)
      /\ TaskSide' /\ Due' = Due /\ PassedTests' = PassedTests
  BY <1>2, StillWorkers
<1>4. Told' = Told /\ Worker \subseteq Nat
  BY <1>1, <1>2, <1>3, Facts DEF Told
<1>5. PhaseSide' /\ OutcomeSide' /\ DeathSide' /\ CountSide'
  BY <1>2, <1>3, <1>4 DEF PhaseSide, OutcomeSide, DeathSide, CountSide
<1>6. PipeSide'
  <2>1. \A w \in Worker : w >= i' => w >= i
    BY <1>2, <1>4
  <2>2. \A w \in Worker : w \in ready /\ w >= i => open[w] /\ (req[w] > 0 \/ Gone(w))
    BY <1>2 DEF PipeSide
  <2> QED
    BY <1>2, <1>3, <2>1, <2>2 DEF PipeSide
<1> QED
  BY <1>1, <1>3, <1>5, <1>6

(* An end of file the loop comes to is the death of a worker in a test.       *)
LEMMA NoticeDeathKeeps ==
    ASSUME RInv, NoticeDeath PROVE RInv'
<1> USE DEF RInv
<1>1. IInv /\ IInv'
  BY NextKeeps DEF Next, MasterStep
<1>2. /\ UNCHANGED <<n, pool, outcome, first, dispatched, open, exited, passed>>
      /\ UNCHANGED <<mpc, ready>> /\ mpc = "serving" /\ i' = n
      /\ failed' = TRUE /\ i \in ready /\ ready \subseteq Worker /\ req[i] = 0
  BY <1>1 DEF NoticeDeath, IInv, TypeOK
<1>3. /\ Worker' = Worker /\ UNCHANGED <<wpc, task, req, resp>>
      /\ \A w \in Worker : Offer(w)' = Offer(w) /\ Gone(w)' = Gone(w)
      /\ TaskSide' /\ Due' = Due /\ PassedTests' = PassedTests
  BY <1>2, StillWorkers
<1>4. /\ Told' = Told /\ n \in Nat /\ Worker \subseteq Nat
      /\ \A w \in Worker : ~(w >= n)
  BY <1>1, <1>2, <1>3, Facts DEF Told, Worker
<1>5. \E t \in Tests : outcome[t] = "failed"
  <2>1. i \in Worker /\ i >= i
    BY <1>2, <1>4
  <2>2. open[i] /\ Gone(i)
    BY <1>2, <2>1 DEF PipeSide
  <2> QED
    BY <1>2, <2>1, <2>2 DEF DeathSide
<1>6. PhaseSide' /\ OutcomeSide' /\ CountSide'
  BY <1>2, <1>3, <1>4 DEF PhaseSide, OutcomeSide, CountSide
<1>7. DeathSide'
  BY <1>2, <1>3, <1>5 DEF DeathSide
<1>8. PipeSide'
  BY <1>2, <1>3, <1>4 DEF PipeSide
<1> QED
  BY <1>1, <1>3, <1>6, <1>7, <1>8

LEMMA CloseKeeps ==
    ASSUME RInv, Close \/ Finish PROVE RInv'
<1> USE DEF RInv
<1>1. IInv /\ IInv'
  BY NextKeeps DEF Next, MasterStep
<1>2. /\ UNCHANGED <<n, pool, outcome, first, dispatched, open, exited, passed, failed>>
      /\ UNCHANGED ready /\ mpc \in {"closing", "reaping"}
      /\ mpc' \in {"closing", "reaping", "done"}
      /\ mpc' = "reaping" => i' = 0
      /\ mpc' = "done" => mpc = "reaping" /\ i = n
  BY DEF Close, Finish, book
<1>3. /\ Worker' = Worker /\ UNCHANGED <<wpc, task, req, resp>>
      /\ \A w \in Worker : Offer(w)' = Offer(w) /\ Gone(w)' = Gone(w)
      /\ TaskSide' /\ Due' = Due /\ PassedTests' = PassedTests
  BY <1>2, StillWorkers
<1>4. /\ Told' = Told /\ n \in Nat /\ Worker \subseteq Nat
      /\ \A w \in Worker : w < n /\ ~(w < 0)
  BY <1>1, <1>2, <1>3, Facts DEF Told, Worker
<1>5. n # 1
  BY <1>2 DEF PhaseSide
<1>6. PhaseSide'
  BY <1>2, <1>3, <1>4, <1>5 DEF PhaseSide
<1>7. OutcomeSide' /\ CountSide' /\ DeathSide'
  BY <1>2, <1>3, <1>4, <1>5 DEF OutcomeSide, CountSide, DeathSide
<1>8. PipeSide'
  BY <1>2, <1>3 DEF PipeSide
<1> QED
  BY <1>1, <1>3, <1>6, <1>7, <1>8

LEMMA SpawnKeepsMore ==
    ASSUME RInv, Spawn PROVE RInv'
<1> USE DEF RInv
<1>1. IInv /\ IInv'
  BY NextKeeps DEF Next, MasterStep
<1>2. /\ UNCHANGED <<n, mpc, task, req, resp, ready, first, dispatched, exited, passed,
                     failed, outcome>>
      /\ mpc = "spawn" /\ i' = i + 1 /\ i \in Nat /\ i < n
      /\ wpc \in [Worker -> Places] /\ wpc' = [wpc EXCEPT ![i] = "asking"]
      /\ open \in [Worker -> BOOLEAN] /\ open' = [open EXCEPT ![i] = TRUE]
  BY <1>1 DEF Spawn, IInv, TypeOK, Places
<1>3. /\ Worker' = Worker /\ Worker \subseteq Nat /\ i \in Worker /\ n # 1
  BY <1>1, <1>2, Facts DEF Worker, PhaseSide
<1>4. wpc[i] = "unborn" /\ first[i] /\ resp[i] = <<>>
  <2>1. wpc[i] = "unborn"
    BY <1>1, <1>2, <1>3 DEF IInv, Unborn
  <2> QED
    BY <1>1, <1>3, <2>1 DEF TaskSide, IInv, Turn, Quiet
<1>5. \A w \in Worker : Offer(w)' = Offer(w) /\ Gone(w)' = Gone(w)
  BY <1>2, <1>3, <1>4 DEF Offer, Gone
<1>6. PhaseSide'
  BY <1>2, <1>3 DEF PhaseSide
<1>7. TaskSide'
  <2>1. \A w \in Worker : /\ wpc'[w] = "testing" <=> wpc[w] = "testing"
                          /\ wpc'[w] = "unborn" => wpc[w] = "unborn"
    BY <1>2, <1>3, <1>4
  <2>2. /\ \A w \in Worker : /\ task[w] = NoTask <=> wpc[w] # "testing"
                             /\ task[w] # NoTask => outcome[task[w]] = "running"
                             /\ first[w] => task[w] = NoTask /\ resp[w] = <<>>
                             /\ wpc[w] = "unborn" => first[w]
    BY DEF TaskSide
  <2>3. /\ \A w \in Worker : Offer(w)' # Stop =>
              Offer(w)' < dispatched /\ outcome[Offer(w)'] = "waiting"
        /\ \A v, w \in Worker : v # w =>
              /\ task[v] = task[w] => task[v] = NoTask
              /\ Offer(v)' = Offer(w)' => Offer(v)' = Stop
    BY <1>5 DEF TaskSide
  <2> QED
    BY <1>2, <1>3, <2>1, <2>2, <2>3 DEF TaskSide
<1>8. OutcomeSide'
  BY <1>2, <1>3, <1>5 DEF OutcomeSide
<1>9. PipeSide'
  BY <1>2, <1>3, <1>4, <1>5 DEF PipeSide
<1>10. DeathSide'
  <2>1. ~Gone(i)
    BY <1>4 DEF Gone
  <2> QED
    BY <1>2, <1>3, <1>5, <2>1 DEF DeathSide
<1>11. CountSide'
  <2>1. Due' = Due /\ PassedTests' = PassedTests
    BY <1>2, <1>3, <1>4 DEF Due, PassedTests
  <2> QED
    BY <1>2, <2>1 DEF CountSide
<1> QED
  BY <1>1, <1>6, <1>7, <1>8, <1>9, <1>10, <1>11

(* An answer: a test not yet handed out, or the number that tells the worker  *)
(* to stop; what is asked for again has passed.                               *)
LEMMA ServeKeepsMore ==
    ASSUME RInv, Serve PROVE RInv'
<1> USE DEF RInv
<1>1. IInv /\ IInv'
  BY NextKeeps DEF Next, MasterStep
<1>2. /\ UNCHANGED <<n, wpc, task, ready, failed, outcome>> /\ Worker' = Worker
      /\ mpc = "serving" /\ mpc' = "serving" /\ i \in Worker /\ i' = i + 1
      /\ i \in ready /\ wpc[i] = "reading"
      /\ req \in [Worker -> Nat] /\ req[i] = 1 /\ req' = [req EXCEPT ![i] = 0]
      /\ first \in [Worker -> BOOLEAN] /\ first' = [first EXCEPT ![i] = FALSE]
      /\ open \in [Worker -> BOOLEAN]
  <2>1. wpc[i] = "reading" /\ Asked(i) /\ i \in Worker
    BY <1>1, ServeFacts
  <2>2. req[i] = 1 /\ req' = [req EXCEPT ![i] = req[i] - 1]
    BY <2>1 DEF Asked, Serve
  <2>3. /\ UNCHANGED <<n, wpc, task, ready, failed, outcome>> /\ i' = i + 1 /\ i \in ready
        /\ first' = [first EXCEPT ![i] = FALSE]
    BY DEF Serve
  <2>4. /\ req \in [Worker -> Nat] /\ first \in [Worker -> BOOLEAN]
        /\ open \in [Worker -> BOOLEAN]
    BY <1>1 DEF IInv, TypeOK
  <2>5. Worker' = Worker /\ mpc = "serving" /\ mpc' = "serving"
    BY <1>1, ServeFacts
  <2> QED
    BY <2>1, <2>2, <2>3, <2>4, <2>5
<1>3. /\ Worker \subseteq Nat /\ i \in Nat /\ n # 1
      /\ Stop \notin Tests /\ NoTask \notin Tests
      /\ NTests \in Nat /\ dispatched \in 0 .. NTests
  BY <1>1, <1>2, Facts DEF PhaseSide
<1>4. open[i]
  BY <1>2, <1>3 DEF PipeSide
<1> DEFINE v == IF MoreTests THEN dispatched ELSE Stop
<1>5. resp' = [resp EXCEPT ![i] = <<v>>]
  <2>1. resp[i] = <<>> /\ resp \in [Worker -> Seq(Tests \cup {Stop})]
    BY <1>1, ServeFacts DEF Asked, IInv, TypeOK
  <2>2. Append(resp[i], v) = <<v>>
    BY <2>1
  <2> QED
    BY <1>1, <2>2, ServeFacts
<1>6. \A w \in Worker : /\ Offer(w)' = IF w = i THEN v ELSE Offer(w)
                        /\ Gone(w)' = Gone(w)
  <2>1. resp \in [Worker -> Seq(Tests \cup {Stop})] /\ <<v>> # <<>> /\ Head(<<v>>) = v
    BY <1>1 DEF IInv, TypeOK
  <2> QED
    BY <1>2, <1>5, <2>1 DEF Offer, Gone
<1>7. /\ MoreTests => /\ dispatched' = dispatched + 1 /\ UNCHANGED <<open, exited>>
                      /\ dispatched \in Tests /\ outcome[dispatched] = "waiting"
      /\ ~MoreTests => /\ dispatched' = dispatched /\ dispatched = NTests
                       /\ exited' = exited + 1 /\ open' = [open EXCEPT ![i] = FALSE]
  <2>1. MoreTests => dispatched \in Tests
    BY <1>1, ServeFacts
  <2>2. dispatched \in Tests => outcome[dispatched] = "waiting"
    BY <1>2, <1>3 DEF OutcomeSide
  <2>3. ~MoreTests => dispatched = NTests
    BY <1>3 DEF MoreTests
  <2> QED
    BY <2>1, <2>2, <2>3 DEF Serve, StopCounted
<1>8. /\ \A w \in Worker : Offer(w) # Stop => Offer(w) \in Tests /\ Offer(w) < dispatched
      /\ task[i] = NoTask
  BY <1>1, <1>2, Facts DEF TaskSide
<1>9. PhaseSide'
  BY <1>2, <1>3, <1>6 DEF PhaseSide
<1> HIDE DEF v
<1>10. v \in Tests \cup {Stop} /\ (v # Stop => MoreTests /\ v = dispatched)
       /\ (MoreTests => v = dispatched)
  BY <1>7 DEF v
<1>11. TaskSide'
  <2>1. \A w \in Worker : w # i => resp'[w] = resp[w] /\ first'[w] = first[w]
    BY <1>1, <1>2, <1>5 DEF IInv, TypeOK
  <2>2. ~first'[i]
    BY <1>2
  <2>3. \A w \in Worker : Offer(w) # v \/ v = Stop
    BY <1>3, <1>8, <1>10
  <2>4. dispatched' >= dispatched
    BY <1>3, <1>7
  <2>5. \A w \in Worker : Offer(w)' # Stop =>
            Offer(w)' < dispatched' /\ outcome[Offer(w)'] = "waiting"
    <3> SUFFICES ASSUME NEW w \in Worker, Offer(w)' # Stop
                 PROVE  Offer(w)' < dispatched' /\ outcome[Offer(w)'] = "waiting"
      OBVIOUS
    <3>1. CASE w = i
      BY <1>3, <1>6, <1>7, <1>10, <3>1
    <3>2. CASE w # i
      <4>1. Offer(w)' = Offer(w) /\ Offer(w) # Stop
        BY <1>6, <3>2
      <4>2. Offer(w) < dispatched /\ outcome[Offer(w)] = "waiting" /\ Offer(w) \in Tests
        BY <1>8, <4>1 DEF TaskSide
      <4>3. Offer(w) < dispatched'
        BY <1>3, <1>7, <4>2 DEF Tests
      <4> QED
        BY <4>1, <4>2, <4>3
    <3> QED
      BY <3>1, <3>2
  <2>6. \A u, w \in Worker : u # w => (Offer(u)' = Offer(w)' => Offer(u)' = Stop)
    BY <1>6, <2>3 DEF TaskSide
  <2>7. \A w \in Worker : first'[w] => task[w] = NoTask /\ resp'[w] = <<>>
    BY <2>1, <2>2 DEF TaskSide
  <2>8. \A w \in Worker : wpc[w] = "unborn" => first'[w]
    <3>1. \A w \in Worker : wpc[w] = "unborn" => w # i
      BY <1>2
    <3> QED
      BY <2>1, <3>1 DEF TaskSide
  <2>9. \A u, w \in Worker : u # w => (task[u] = task[w] => task[u] = NoTask)
    BY DEF TaskSide
  <2>10. \A w \in Worker : /\ task[w] = NoTask <=> wpc[w] # "testing"
                           /\ task[w] # NoTask => outcome[task[w]] = "running"
    BY DEF TaskSide
  <2> QED
    BY <1>2, <2>5, <2>6, <2>7, <2>8, <2>9, <2>10 DEF TaskSide
<1>12. OutcomeSide'
  <2>1. \A t \in Tests : t \in Int
    BY DEF Tests
  <2>2. ASSUME NEW t \in Tests, outcome[t] = "waiting", t < dispatched'
        PROVE  \E w \in Worker : Offer(w)' = t
    <3>1. CASE t < dispatched
      <4>1. PICK w \in Worker : Offer(w) = t
        BY <1>3, <2>2, <3>1 DEF OutcomeSide
      <4>2. w # i
        BY <1>1, <1>2, <1>3, <4>1, ServeFacts DEF Offer, Asked
      <4> QED
        BY <1>6, <4>1, <4>2
    <3>2. CASE ~(t < dispatched)
      <4>1. MoreTests /\ t = dispatched
        BY <1>3, <1>7, <2>1, <2>2, <3>2
      <4> QED
        BY <1>2, <1>6, <1>10, <4>1
    <3> QED
      BY <3>1, <3>2
  <2>3. \A t \in Tests : t >= dispatched' => outcome[t] = "waiting"
    BY <1>2, <1>3, <1>7, <2>1 DEF OutcomeSide
  <2>4. \A t \in Tests : t > dispatched' => t >= dispatched'
    BY <1>3, <1>7, <2>1
  <2> QED
    BY <1>2, <1>3, <2>2, <2>3, <2>4 DEF OutcomeSide
<1>13. PipeSide'
  <2>1. ASSUME NEW w \in Worker, w \in ready, w >= i + 1
        PROVE  open'[w] /\ (req'[w] > 0 \/ Gone(w)')
    <3>1. w # i /\ w >= i
      BY <1>3, <2>1
    <3>2. open[w] /\ (req[w] > 0 \/ Gone(w))
      BY <1>2, <2>1, <3>1 DEF PipeSide
    <3> QED
      BY <1>2, <1>6, <1>7, <3>1, <3>2
  <2>2. ASSUME NEW w \in Worker, ~open'[w]
        PROVE  /\ req'[w] = 0 /\ dispatched' = NTests /\ Offer(w)' = Stop
               /\ Gone(w)' \/ (wpc[w] = "reading" /\ resp'[w] = <<Stop>>)
    <3>1. CASE w = i
      <4>1. ~MoreTests /\ v = Stop
        BY <1>4, <1>7, <1>10, <2>2, <3>1
      <4>2. resp'[w] = <<Stop>>
        BY <1>1, <1>2, <1>5, <3>1, <4>1 DEF IInv, TypeOK
      <4> QED
        BY <1>2, <1>6, <1>7, <3>1, <4>1, <4>2
    <3>2. CASE w # i
      <4>1. ~open[w] /\ resp'[w] = resp[w] /\ req'[w] = req[w]
        BY <1>1, <1>2, <1>5, <1>7, <2>2, <3>2 DEF IInv, TypeOK
      <4>2. /\ req[w] = 0 /\ dispatched = NTests /\ Offer(w) = Stop
            /\ Gone(w) \/ (wpc[w] = "reading" /\ resp[w] = <<Stop>>)
        BY <1>2, <1>3, <4>1 DEF PipeSide
      <4>3. dispatched' = NTests
        BY <1>3, <1>7, <4>2 DEF MoreTests
      <4> QED
        BY <1>6, <3>2, <4>1, <4>2, <4>3
    <3> QED
      BY <3>1, <3>2
  <2>3. ASSUME NEW w \in Worker, resp'[w] # <<>>, Head(resp'[w]) = Stop
        PROVE  ~open'[w]
    <3>1. CASE w = i
      <4>1. v = Stop
        BY <1>6, <2>3, <3>1 DEF Offer
      <4> QED
        BY <1>2, <1>3, <1>7, <1>10, <3>1, <4>1
    <3>2. CASE w # i
      <4>1. resp'[w] = resp[w] /\ open'[w] = open[w]
        BY <1>1, <1>2, <1>5, <1>7, <3>2 DEF IInv, TypeOK
      <4> QED
        BY <2>3, <4>1 DEF PipeSide
    <3> QED
      BY <3>1, <3>2
  <2> QED
    BY <1>2, <2>1, <2>2, <2>3 DEF PipeSide
<1>14. DeathSide'
  <2>1. ~Gone(i)
    BY <1>2 DEF Gone
  <2>2. \A w \in Worker : w # i => open'[w] = open[w]
    BY <1>2, <1>7
  <2> QED
    BY <1>2, <1>6, <2>1, <2>2 DEF DeathSide
<1>15. PassedTests' = PassedTests /\ Due' = Due \ {i} /\ (i \in Due <=> ~first[i])
  BY <1>2 DEF PassedTests, Due
<1>16. CountSide'
  <2>1. exited' = Cardinality(Told')
    <3>1. exited = Cardinality(Told) /\ i \notin Told
      BY <1>2, <1>3, <1>4 DEF CountSide, Told
    <3>2. CASE MoreTests
      <4>1. Told' = Told
        BY <1>2, <1>7, <3>2 DEF Told
      <4> QED
        BY <1>7, <3>1, <3>2, <4>1
    <3>3. CASE ~MoreTests
      <4>1. Told' = Told \cup {i}
        BY <1>2, <1>7, <3>3 DEF Told
      <4> QED
        BY <1>1, <1>7, <3>1, <3>3, <4>1, SetsAreFinite, FS_AddElement
    <3> QED
      BY <3>2, <3>3
  <2>2. passed \in Nat /\ passed' = IF first[i] THEN passed ELSE passed + 1
    BY <1>1 DEF IInv, TypeOK, Serve, Count
  <2>3. /\ Cardinality(Due') = IF first[i] THEN Cardinality(Due) ELSE Cardinality(Due) - 1
        /\ Cardinality(Due) \in Nat /\ Cardinality(PassedTests) \in Nat
    BY <1>1, <1>15, SetsAreFinite, FS_RemoveElement
  <2> QED
    BY <1>2, <1>15, <2>1, <2>2, <2>3 DEF CountSide
<1> QED
  BY <1>1, <1>9, <1>11, <1>12, <1>13, <1>14, <1>16

(* Waiting for a worker kills it only if a test has failed.                   *)
LEMMA ReapFacts ==
    ASSUME RInv, Reap
    PROVE  /\ UNCHANGED <<n, req, resp, mpc, ready, open, first, dispatched, exited,
                          passed, failed>>
           /\ Worker' = Worker /\ Worker \subseteq Nat /\ i \in Worker /\ i' = i + 1
           /\ mpc = "reaping" /\ n # 1
           /\ wpc \in [Worker -> Places] /\ wpc' = [wpc EXCEPT ![i] = "gone"]
           /\ task \in [Worker -> Tests \cup {NoTask}]
           /\ task' = [task EXCEPT ![i] = NoTask]
           /\ outcome \in [Tests -> Outcomes]
           /\ wpc[i] # "gone" => failed
           /\ task[i] = NoTask => outcome' = outcome
           /\ task[i] # NoTask =>
                 /\ failed /\ task[i] \in Tests /\ outcome[task[i]] = "running"
                 /\ outcome' = [outcome EXCEPT ![task[i]] = "killed"]
<1> USE DEF RInv
<1>1. i \in Worker /\ Worker \subseteq Nat /\ Worker' = Worker
  BY Facts DEF Reap, IInv, TypeOK, Worker
<1>2. n # 1 /\ wpc[i] # "unborn"
  BY <1>1 DEF Reap, PhaseSide
<1>3. wpc[i] # "gone" => failed
  BY <1>2 DEF Reap, Killed, Alive
<1>4. task[i] # NoTask => /\ failed /\ task[i] \in Tests
                          /\ outcome[task[i]] = "running"
  BY <1>1, <1>3, Facts DEF TaskSide
<1>5. /\ wpc \in [Worker -> Places] /\ task \in [Worker -> Tests \cup {NoTask}]
      /\ outcome \in [Tests -> Outcomes]
  BY DEF IInv, TypeOK, Places, Outcomes
<1> QED
  BY <1>1, <1>2, <1>3, <1>4, <1>5 DEF Reap, book

LEMMA ReapKeepsMore ==
    ASSUME RInv, Reap PROVE RInv'
<1> USE DEF RInv
<1>1. IInv /\ IInv'
  BY NextKeeps DEF Next, MasterStep
<1>2. /\ UNCHANGED <<n, req, resp, mpc, ready, open, first, dispatched, exited,
                     passed, failed>>
      /\ Worker' = Worker /\ Worker \subseteq Nat /\ i \in Worker /\ i' = i + 1
      /\ mpc = "reaping" /\ n # 1
      /\ wpc \in [Worker -> Places] /\ wpc' = [wpc EXCEPT ![i] = "gone"]
      /\ task \in [Worker -> Tests \cup {NoTask}]
      /\ task' = [task EXCEPT ![i] = NoTask]
      /\ outcome \in [Tests -> Outcomes]
      /\ wpc[i] # "gone" => failed
      /\ task[i] = NoTask => outcome' = outcome
      /\ task[i] # NoTask =>
            /\ failed /\ task[i] \in Tests /\ outcome[task[i]] = "running"
            /\ outcome' = [outcome EXCEPT ![task[i]] = "killed"]
  BY ReapFacts
<1>3. \A w \in Worker : /\ Offer(w)' = Offer(w)
                        /\ Gone(w)' <=> Gone(w) \/ w = i
  BY <1>2 DEF Offer, Gone
<1>4. \A t \in Tests : t # task[i] => outcome'[t] = outcome[t]
  BY <1>2
<1>5. \A t \in Tests : task[i] = t => outcome[t] = "running" /\ outcome'[t] = "killed"
  BY <1>1, <1>2, Facts
<1>6. PhaseSide'
  <2>1. \A w \in Worker : w < i + 1 => w < i \/ w = i
    BY <1>2
  <2> QED
    BY <1>2, <1>3, <2>1 DEF PhaseSide
<1>7. TaskSide'
  <2>1. \A w \in Worker : w # i /\ task[w] # NoTask => task[w] # task[i]
    BY <1>2 DEF TaskSide
  <2>2. \A w \in Worker : Offer(w) # Stop => Offer(w) # task[i] /\ Offer(w) \in Tests
    BY <1>1, <1>2, Facts DEF TaskSide
  <2>3. \A w \in Worker : w # i => task'[w] = task[w] /\ wpc'[w] = wpc[w]
    BY <1>2
  <2>4. task'[i] = NoTask /\ wpc'[i] = "gone"
    BY <1>2
  <2>5. \A w \in Worker : task'[w] # NoTask => outcome'[task'[w]] = "running"
    <3> SUFFICES ASSUME NEW w \in Worker, task'[w] # NoTask
                 PROVE  outcome'[task'[w]] = "running"
      OBVIOUS
    <3>1. w # i /\ task'[w] = task[w] /\ task[w] \in Tests /\ task[w] # task[i]
      BY <1>1, <2>1, <2>3, <2>4, Facts
    <3> QED
      BY <1>4, <3>1 DEF TaskSide
  <2> QED
    BY <1>2, <1>3, <1>4, <2>2, <2>3, <2>4, <2>5 DEF TaskSide
<1>8. OutcomeSide'
  <2>1. ASSUME NEW t \in Tests, outcome'[t] = "running"
        PROVE  \E w \in Worker : task'[w] = t
    <3>1. t # task[i] /\ outcome[t] = "running"
      BY <1>4, <1>5, <2>1
    <3>2. PICK w \in Worker : task[w] = t
      BY <1>2, <3>1 DEF OutcomeSide
    <3> QED
      BY <1>2, <3>1, <3>2
  <2>2. \A t \in Tests : /\ outcome'[t] = "waiting" <=> outcome[t] = "waiting"
                         /\ outcome'[t] = "killed" => outcome[t] = "killed" \/ failed
    BY <1>2, <1>4, <1>5
  <2> QED
    BY <1>2, <1>3, <2>1, <2>2 DEF OutcomeSide
<1>9. PipeSide'
  BY <1>2, <1>3 DEF PipeSide
<1>10. DeathSide'
  <2>1. \A t \in Tests : outcome'[t] = "failed" <=> outcome[t] = "failed"
    BY <1>4, <1>5
  <2> QED
    BY <1>2, <1>3, <2>1 DEF DeathSide
<1>11. CountSide'
  <2>1. Told' = Told /\ PassedTests' = PassedTests
    BY <1>2, <1>4, <1>5 DEF Told, PassedTests
  <2>2. Due' \subseteq Due /\ (~failed => Due' = Due)
    BY <1>2 DEF Due
  <2>3. /\ Cardinality(Due') <= Cardinality(Due) /\ Cardinality(Due) \in Nat
        /\ Cardinality(Due') \in Nat /\ Cardinality(PassedTests) \in Nat
    BY <1>1, <2>2, SetsAreFinite, FS_Subset, FS_CardinalityType
  <2>4. passed \in Nat
    BY <1>1 DEF IInv, TypeOK
  <2> QED
    BY <1>2, <2>1, <2>2, <2>3, <2>4 DEF CountSide
<1> QED
  BY <1>1, <1>6, <1>7, <1>8, <1>9, <1>10, <1>11

(* The tests in the master itself.                                            *)
LEMMA SerialKeeps ==
    ASSUME RInv, SerialStart \/ SerialEnd \/ SerialDone PROVE RInv'
<1> USE DEF RInv
<1>1. IInv /\ IInv'
  BY NextKeeps DEF Next, MasterStep
<1>2. /\ UNCHANGED <<n, pool, i, ready, open, first, exited, failed>>
      /\ mpc \in {"serial", "test"} /\ mpc' \in {"serial", "test", "aborted", "done"}
  BY DEF SerialStart, SerialEnd, SerialDone, book
<1>3. /\ n = 1 /\ ~failed /\ \A w \in Worker : wpc[w] = "unborn"
  BY <1>2 DEF PhaseSide
<1>4. /\ Worker' = Worker /\ UNCHANGED <<wpc, task, req, resp>>
      /\ \A w \in Worker : Offer(w)' = Offer(w) /\ Gone(w)' = Gone(w)
      /\ \A w \in Worker : ~Gone(w) /\ Offer(w) = Stop /\ task[w] = NoTask
  BY <1>1, <1>2, <1>3 DEF pool, Worker, Offer, Gone, IInv, Turn, Quiet, TaskSide
<1>5. /\ outcome \in [Tests -> Outcomes] /\ passed \in Nat /\ NTests \in Nat
      /\ dispatched \in 0 .. NTests /\ \A t \in Tests : t \in Int
  BY <1>1, Facts DEF IInv, TypeOK, Outcomes, Tests
<1>6. PhaseSide' /\ TaskSide' /\ PipeSide' /\ DeathSide'
  BY <1>2, <1>3, <1>4 DEF PhaseSide, TaskSide, PipeSide, DeathSide
<1>7. Due' = Due
  BY <1>2, <1>4 DEF Due
<1>8. CASE SerialStart
  <2>1. /\ dispatched \in Tests /\ outcome' = [outcome EXCEPT ![dispatched] = "running"]
        /\ UNCHANGED <<dispatched, passed>> /\ mpc = "serial" /\ mpc' = "test"
    BY <1>5, <1>8 DEF SerialStart, book, Tests
  <2>2. outcome[dispatched] = "waiting"
    BY <1>5, <2>1 DEF OutcomeSide
  <2>3. OutcomeSide'
    BY <1>2, <1>3, <1>5, <2>1 DEF OutcomeSide
  <2>4. PassedTests' = PassedTests
    BY <1>5, <2>1, <2>2 DEF PassedTests
  <2> QED
    BY <1>1, <1>2, <1>3, <1>6, <1>7, <2>1, <2>3, <2>4 DEF CountSide
<1>9. CASE SerialEnd
  <2>1. /\ mpc = "test" /\ dispatched' = dispatched + 1 /\ dispatched \in Tests
        /\ outcome[dispatched] = "running"
    BY <1>1, <1>5, <1>9 DEF SerialEnd, IInv, InTest, OutcomeSide, Tests
  <2>2. CASE mpc' = "serial"
    <3>1. outcome' = [outcome EXCEPT ![dispatched] = "passed"] /\ passed' = passed + 1
      BY <1>9, <2>2 DEF SerialEnd
    <3>2. OutcomeSide'
      BY <1>2, <1>3, <1>5, <2>1, <2>2, <3>1 DEF OutcomeSide
    <3>3. PassedTests' = PassedTests \cup {dispatched} /\ dispatched \notin PassedTests
      BY <1>5, <2>1, <3>1 DEF PassedTests
    <3>4. /\ Cardinality(PassedTests') = Cardinality(PassedTests) + 1
          /\ Cardinality(PassedTests) \in Nat /\ Cardinality(Due) \in Nat
      BY <1>1, <3>3, SetsAreFinite, FS_AddElement
    <3>5. CountSide'
      BY <1>2, <1>3, <1>5, <1>7, <3>1, <3>4 DEF CountSide
    <3> QED
      BY <1>1, <1>6, <3>2, <3>5
  <2>3. CASE mpc' # "serial"
    <3>1. /\ outcome' = [outcome EXCEPT ![dispatched] = "failed"]
          /\ mpc' = "aborted" /\ passed' = passed
      BY <1>9, <2>3 DEF SerialEnd
    <3>2. OutcomeSide'
      BY <1>2, <1>3, <1>5, <2>1, <3>1 DEF OutcomeSide
    <3>3. PassedTests' = PassedTests
      BY <1>5, <2>1, <3>1 DEF PassedTests
    <3>4. CountSide'
      BY <1>2, <1>3, <1>7, <3>1, <3>3 DEF CountSide
    <3> QED
      BY <1>1, <1>6, <3>2, <3>4
  <2> QED
    BY <2>2, <2>3
<1>10. CASE SerialDone
  <2>1. /\ UNCHANGED <<outcome, dispatched, passed>> /\ dispatched = NTests
        /\ mpc = "serial" /\ mpc' = "done"
    BY <1>10 DEF SerialDone, book
  <2>2. OutcomeSide'
    BY <1>2, <1>3, <2>1 DEF OutcomeSide
  <2>3. PassedTests' = PassedTests
    BY <2>1 DEF PassedTests
  <2> QED
    BY <1>1, <1>2, <1>3, <1>6, <1>7, <2>1, <2>2, <2>3 DEF CountSide
<1> QED
  BY <1>8, <1>9, <1>10

LEMMA StutterKeepsMore ==
    ASSUME RInv, UNCHANGED vars PROVE RInv'
<1> USE DEF RInv
<1>1. IInv'
  BY NextKeeps
<1>2. /\ UNCHANGED <<n, pool, outcome, first, dispatched, mpc, i, ready, open, exited,
                     passed, failed>>
  BY DEF vars, book
<1>3. /\ Worker' = Worker /\ UNCHANGED <<wpc, task, req, resp>>
      /\ \A w \in Worker : Offer(w)' = Offer(w) /\ Gone(w)' = Gone(w)
      /\ TaskSide' /\ Due' = Due /\ PassedTests' = PassedTests
  BY <1>2, StillWorkers
<1>4. Told' = Told
  BY <1>2, <1>3 DEF Told
<1> QED
  BY <1>1, <1>2, <1>3, <1>4 DEF PhaseSide, OutcomeSide, PipeSide, DeathSide, CountSide

LEMMA RInvKeeps == ASSUME RInv, [Next]_vars PROVE RInv'
<1>1. CASE MasterStep
  BY <1>1, SpawnKeepsMore, SelectKeeps, SkipKeeps, ServeKeepsMore, NoticeDeathKeeps,
     CloseKeeps, ReapKeepsMore, SerialKeeps DEF MasterStep
<1>2. CASE \E w \in Worker : WorkerStep(w)
  BY <1>2, WorkersKeep
<1>3. CASE UNCHANGED vars
  BY <1>3, StutterKeepsMore
<1> QED
  BY <1>1, <1>2, <1>3 DEF Next, Ended

(* The bookkeeping of the master and the outcomes of the tests agree.         *)
THEOREM BooksAreRight == Spec => []RInv
BY InitRInv, RInvKeeps, PTL DEF Spec

(* No pipe is written to whose reader is gone, whatever tests abort and when: *)
(* the master does not write to a dead worker, and a worker that asks has a   *)
(* pipe the master still reads, because a worker whose pipe is closed has     *)
(* been told to stop.                                                         *)
THEOREM PipesHold == Spec => []NoBrokenPipe
<1>1. RInv => NoBrokenPipe
  <2> SUFFICES ASSUME RInv, NEW w \in Worker, wpc[w] = "asking" PROVE open[w]
    BY DEF RInv, IInv, Unbroken, NoBrokenPipe
  <2>1. n # 1 /\ ~Gone(w) /\ wpc[w] \notin {"unborn", "reading"}
    BY DEF RInv, PhaseSide, Gone
  <2>2. CASE mpc = "spawn"
    <3>1. w < i <=> ~(w >= i)
      BY <2>2 DEF RInv, IInv, TypeOK, Worker
    <3> QED
      BY <2>1, <2>2, <3>1 DEF RInv, IInv, Unborn, PipeSide
  <2>3. CASE mpc # "spawn"
    BY <2>1, <2>3 DEF RInv, PipeSide
  <2> QED
    BY <2>2, <2>3
<1> QED
  BY <1>1, BooksAreRight, PTL

(* "some tests failed" is printed exactly when one did, for any number of     *)
(* workers and tests.                                                         *)
THEOREM FailuresAreReported == Spec => []FailureReported
<1>1. RInv => FailureReported
  BY Facts DEF RInv, FailureReported, PhaseSide, OutcomeSide, DeathSide, Tests
<1> QED
  BY <1>1, BooksAreRight, PTL

----------------------------------------------------------------------------
(* The refinement: a worker that takes a test starts it, its end passes or    *)
(* fails it, waiting for it after a failure kills it, and the end of the run  *)
(* reports; everything else is a stutter.                                     *)
LEMMA SameTests == Run!Tests = Tests
BY DEF Run!Tests, Tests

LEMMA SameCardinality == ASSUME NEW S PROVE Run!Cardinality(S) = Cardinality(S)
BY DEF Run!Cardinality, Cardinality

LEMMA InitRefines == Init => Run!Init
BY SameTests DEF Init, Run!Init, Run!NotYet

LEMMA MoveRefines ==
    ASSUME NEW t \in Tests, NEW from, NEW to, mpc # "done", mpc' # "done",
           outcome[t] = from, outcome' = [outcome EXCEPT ![t] = to]
    PROVE  Run!Move(t, from, to)
BY DEF Run!Move, Run!NotYet

LEMMA AllPassed ==
    ASSUME RInv, Finish \/ SerialDone, \A t \in Tests : outcome[t] # "failed"
    PROVE  passed = NTests
<1> USE DEF RInv
<1>1. ~failed /\ Worker \subseteq Nat /\ NTests \in Nat /\ n \in Nat /\ n > 0
  BY Facts DEF DeathSide
<1>2. CASE SerialDone
  <2>1. n = 1 /\ dispatched = NTests /\ mpc = "serial"
    BY <1>2 DEF SerialDone, PhaseSide
  <2>2. \A w \in Worker : req[w] = 0 /\ wpc[w] # "asking"
    BY <2>1 DEF PhaseSide, IInv, Turn, Quiet
  <2>3. Due = {}
    BY <2>2 DEF Due
  <2>4. PassedTests = Tests
    BY <1>1, <2>1 DEF PassedTests, OutcomeSide, Tests
  <2> QED
    BY <1>1, <2>3, <2>4, SetsAreFinite, FS_EmptySet DEF CountSide, IInv, TypeOK
<1>3. CASE Finish
  <2>1. mpc = "reaping" /\ n # 1 /\ \A w \in Worker : w < i <=> TRUE
    BY <1>1, <1>3 DEF Finish, PhaseSide, Worker
  <2>2. \A w \in Worker : /\ Gone(w) /\ ~open[w] /\ req[w] = 0 /\ Offer(w) = Stop
                          /\ dispatched = NTests
    BY <1>1, <2>1 DEF PhaseSide, DeathSide, PipeSide
  <2>3. Due = {}
    BY <2>2 DEF Due, Gone
  <2>4. dispatched = NTests
    <3>1. 0 \in Worker
      BY <1>1 DEF Worker
    <3> QED
      BY <2>2, <3>1
  <2>5. \A t \in Tests : outcome[t] = "passed"
    <3> SUFFICES ASSUME NEW t \in Tests PROVE outcome[t] = "passed"
      OBVIOUS
    <3>1. outcome[t] \in Outcomes /\ t < dispatched /\ t # Stop /\ t # NoTask
      BY <1>1, <2>4 DEF IInv, TypeOK, Outcomes, Tests, Stop, NoTask
    <3>2. outcome[t] # "waiting"
      BY <2>1, <2>2, <3>1 DEF OutcomeSide
    <3>3. outcome[t] # "running"
      <4>1. \A w \in Worker : task[w] = NoTask
        BY <2>2 DEF TaskSide, Gone
      <4> QED
        BY <2>1, <3>1, <4>1 DEF OutcomeSide
    <3>4. outcome[t] # "killed"
      BY <1>1, <2>1 DEF OutcomeSide
    <3> QED
      BY <3>1, <3>2, <3>3, <3>4 DEF Outcomes
  <2>6. PassedTests = Tests
    BY <2>5 DEF PassedTests
  <2> QED
    BY <1>1, <2>3, <2>6, SetsAreFinite, FS_EmptySet DEF CountSide, IInv, TypeOK
<1> QED
  BY <1>2, <1>3

LEMMA ReportRefines ==
    ASSUME RInv, Finish \/ SerialDone PROVE Run!Next
<1> USE DEF RInv
<1>1. UNCHANGED <<outcome, passed>> /\ mpc \in {"reaping", "serial"} /\ mpc' = "done"
  BY DEF Finish, SerialDone, book
<1>2. /\ Cardinality(PassedTests) \in Nat /\ Cardinality(Due) \in Nat /\ passed \in Nat
      /\ n \in Nat /\ NTests \in Nat /\ NoTask \notin Tests
  BY SetsAreFinite, Facts DEF IInv, TypeOK
<1>3. passed \in 0 .. Cardinality(PassedTests)
  BY <1>2 DEF CountSide
<1>4. \A t \in Tests : outcome[t] # "running"
  <2>1. CASE SerialDone
    <3>1. n = 1 /\ dispatched = NTests /\ mpc = "serial"
      BY <2>1 DEF SerialDone, PhaseSide
    <3> QED
      BY <1>2, <3>1 DEF OutcomeSide, Tests
  <2>2. CASE Finish
    <3>1. n # 1 /\ \A w \in Worker : Gone(w)
      BY <1>2, <2>2 DEF Finish, PhaseSide, Worker
    <3> QED
      BY <1>2, <3>1 DEF OutcomeSide, TaskSide, Gone
  <2> QED
    BY <2>1, <2>2
<1>5. Run!Having("passed") = PassedTests
  BY SameTests DEF Run!Having, PassedTests
<1>6. Run!Having("running") = {}
  BY <1>4, SameTests DEF Run!Having
<1>7. Run!Having("failed") = {} => \A t \in Tests : outcome[t] # "failed"
  BY SameTests DEF Run!Having
<1>8. Run!Report
  <2>1. Run!Having("failed") = {} => passed = NTests
    BY <1>7, AllPassed
  <2>2. (IF mpc = "done" THEN passed ELSE -1) = Run!NotYet
    BY <1>1 DEF Run!NotYet
  <2>3. (IF mpc = "done" THEN passed ELSE -1)' = passed
    BY <1>1
  <2>4. passed \in 0 .. Run!Cardinality(Run!Having("passed"))
    BY <1>3, <1>5, SameCardinality
  <2> QED
    BY <1>1, <1>6, <2>1, <2>2, <2>3, <2>4 DEF Run!Report
<1> QED
  BY <1>8 DEF Run!Next

(* A test moves only while the run goes on.                                   *)
LEMMA WorkerRefines ==
    ASSUME RInv, NEW w \in Worker, WorkerStep(w) PROVE Run!Next \/ UNCHANGED Run!vars
<1> USE DEF RInv
<1>1. /\ UNCHANGED <<mpc, passed>>
      /\ wpc[w] \in {"asking", "reading", "testing"}
  BY DEF WorkerStep, book, Ask, TakeTest, TakeStop, ReadEnd, PassTest, FailTest, EndTest
<1>2. mpc # "done"
  BY <1>1 DEF PhaseSide, Gone
<1>3. CASE Ask(w) \/ TakeStop(w) \/ ReadEnd(w)
  BY <1>1, <1>3 DEF Ask, TakeStop, ReadEnd, Run!vars
<1>4. CASE TakeTest(w)
  <2>1. /\ Offer(w) \in Tests /\ outcome[Offer(w)] = "waiting"
        /\ outcome' = [outcome EXCEPT ![Offer(w)] = "running"]
    BY <1>4, Facts DEF TakeTest, Offer, TaskSide
  <2>2. Run!Start(Offer(w))
    BY <1>1, <1>2, <2>1, MoveRefines DEF Run!Start
  <2> QED
    BY <2>1, <2>2, SameTests DEF Run!Next
<1>5. CASE PassTest(w)
  <2>1. /\ task[w] \in Tests /\ outcome[task[w]] = "running"
        /\ outcome' = [outcome EXCEPT ![task[w]] = "passed"]
    BY <1>5, EndFacts DEF PassTest
  <2>2. Run!Pass(task[w])
    BY <1>1, <1>2, <2>1, MoveRefines DEF Run!Pass
  <2> QED
    BY <2>1, <2>2, SameTests DEF Run!Next
<1>6. CASE FailTest(w)
  <2>1. /\ task[w] \in Tests /\ outcome[task[w]] = "running"
        /\ outcome' = [outcome EXCEPT ![task[w]] = "failed"]
    BY <1>6, EndFacts DEF FailTest
  <2>2. Run!Fail(task[w])
    BY <1>1, <1>2, <2>1, MoveRefines DEF Run!Fail
  <2> QED
    BY <2>1, <2>2, SameTests DEF Run!Next
<1> QED
  BY <1>3, <1>4, <1>5, <1>6 DEF WorkerStep

LEMMA MasterRefines ==
    ASSUME RInv, MasterStep PROVE Run!Next \/ UNCHANGED Run!vars
<1> USE DEF RInv
<1>1. CASE Spawn \/ Select \/ Skip \/ NoticeDeath \/ Close
  <2>1. UNCHANGED outcome /\ mpc # "done" /\ mpc' # "done"
    BY <1>1 DEF Spawn, Select, Skip, NoticeDeath, Close
  <2> QED
    BY <2>1 DEF Run!vars
<1>2. CASE Serve
  <2>1. UNCHANGED outcome /\ mpc # "done" /\ mpc' # "done"
    BY <1>2, ServeFacts DEF Serve
  <2> QED
    BY <2>1 DEF Run!vars
<1>3. CASE Reap
  <2>1. mpc = "reaping" /\ mpc' = "reaping"
    BY <1>3, ReapFacts
  <2>2. CASE task[i] = NoTask
    BY <1>3, <2>1, <2>2, ReapFacts DEF Run!vars
  <2>3. CASE task[i] # NoTask
    <3>1. /\ failed /\ task[i] \in Tests /\ outcome[task[i]] = "running"
          /\ outcome' = [outcome EXCEPT ![task[i]] = "killed"]
      BY <1>3, <2>3, ReapFacts
    <3>2. Run!Having("failed") # {}
      BY <3>1, SameTests DEF DeathSide, Run!Having
    <3>3. Run!Kill(task[i])
      BY <2>1, <3>1, <3>2, MoveRefines DEF Run!Kill
    <3> QED
      BY <3>1, <3>3, SameTests DEF Run!Next
  <2> QED
    BY <2>2, <2>3
<1>4. CASE Finish \/ SerialDone
  BY <1>4, ReportRefines
<1>5. CASE SerialStart
  <2>1. /\ dispatched \in Tests /\ outcome' = [outcome EXCEPT ![dispatched] = "running"]
        /\ mpc = "serial" /\ mpc' = "test"
    BY <1>5, Facts DEF SerialStart, Tests
  <2>2. outcome[dispatched] = "waiting"
    BY <2>1, Facts DEF OutcomeSide
  <2>3. Run!Start(dispatched)
    BY <2>1, <2>2, MoveRefines DEF Run!Start
  <2> QED
    BY <2>1, <2>3, SameTests DEF Run!Next
<1>6. CASE SerialEnd
  <2>1. dispatched \in Tests /\ outcome[dispatched] = "running" /\ mpc = "test"
    BY <1>6, Facts DEF SerialEnd, IInv, InTest, OutcomeSide, Tests
  <2>2. \/ outcome' = [outcome EXCEPT ![dispatched] = "passed"] /\ mpc' = "serial"
        \/ outcome' = [outcome EXCEPT ![dispatched] = "failed"] /\ mpc' = "aborted"
    BY <1>6 DEF SerialEnd
  <2>3. Run!Pass(dispatched) \/ Run!Fail(dispatched)
    BY <2>1, <2>2, MoveRefines DEF Run!Pass, Run!Fail
  <2> QED
    BY <2>1, <2>3, SameTests DEF Run!Next
<1> QED
  BY <1>1, <1>2, <1>3, <1>4, <1>5, <1>6 DEF MasterStep

(* Every run of the pool is a run the test bench promises: no test is started *)
(* twice, and the number printed counts tests that passed, all of them when   *)
(* none failed, for any number of workers and tests.                          *)
THEOREM PoolRefinesTestRun == Spec => ImplementsTestRun
<1>1. RInv /\ [Next]_vars => [Run!Next]_Run!vars
  <2> SUFFICES ASSUME RInv, [Next]_vars PROVE Run!Next \/ UNCHANGED Run!vars
    OBVIOUS
  <2>1. CASE MasterStep
    BY <2>1, MasterRefines
  <2>2. CASE \E w \in Worker : WorkerStep(w)
    BY <2>2, WorkerRefines
  <2>3. CASE UNCHANGED vars
    BY <2>3 DEF vars, book, Run!vars
  <2> QED
    BY <2>1, <2>2, <2>3 DEF Next, Ended
<1> QED
  BY <1>1, InitRefines, BooksAreRight, PTL DEF Spec, ImplementsTestRun, Run!Spec
=============================================================================

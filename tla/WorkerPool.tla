----------------------------- MODULE WorkerPool -----------------------------
(* The runner of the test bench, verilate/vsrc/testbench.cpp: the master      *)
(* process forks workers, hands out test numbers over a pair of pipes per     *)
(* worker, notices a worker that died in a test by the end of file on its     *)
(* pipe, and at the end closes the pipes, kills what is left and waits.  One  *)
(* worker means no pool: the tests run one after the other in the master.     *)
(*                                                                            *)
(* A pipe is a queue; its readers see the end of file when it is empty and    *)
(* no process has its writing end.  A worker forked later inherits the        *)
(* master's writing ends of the pipes made before (pm[1]); the writing end    *)
(* of a worker's own pipe (pw[1]) is the worker's alone, because the master   *)
(* closes its copy before it forks again.                                     *)
EXTENDS Integers, Sequences, FiniteSets

CONSTANTS NTests,      \* test_list.size()
          PoolSizes    \* values of --num-workers

ASSUME TestAssumption == NTests \in Nat
ASSUME PoolAssumption == PoolSizes \subseteq Nat \ {0}

VARIABLES
    n,                          \* n_workers
    wpc, task,                  \* each worker: where it is, its test
    req, resp,                  \* its pipes: dummy chars, test numbers
    open, first,                \* worker[w] >= 0 and first[w] in the master
    mpc, i, ready,              \* the master: where, its loop index, the set
    dispatched, exited, passed, failed,
    outcome                     \* history: what became of each test

pool == <<wpc, task, req, resp>>
book == <<open, first, dispatched, exited, passed, failed>>
vars == <<n, pool, mpc, i, ready, book, outcome>>

Worker == 0 .. n - 1
Tests  == 0 .. NTests - 1
NoTask == -1
Stop   == -1     \* the number that tells a worker to exit

Init == /\ n \in PoolSizes
        /\ wpc = [w \in Worker |-> "unborn"]
        /\ task = [w \in Worker |-> NoTask]
        /\ req = [w \in Worker |-> 0]
        /\ resp = [w \in Worker |-> <<>>]
        /\ open = [w \in Worker |-> FALSE]
        /\ first = [w \in Worker |-> TRUE]
        /\ mpc = IF n = 1 THEN "serial" ELSE "spawn"
        /\ i = 0
        /\ ready = {}
        /\ dispatched = 0 /\ exited = 0 /\ passed = 0 /\ failed = FALSE
        /\ outcome = [t \in Tests |-> "waiting"]

Alive(w) == wpc[w] \notin {"unborn", "gone"}

----------------------------------------------------------------------------
(* run_worker.  The end of a test is its success or the abort of an           *)
(* assertion, which ends the process.                                         *)
Ask(w) == /\ wpc[w] = "asking"
          /\ req' = [req EXCEPT ![w] = @ + 1]
          /\ wpc' = [wpc EXCEPT ![w] = "reading"]
          /\ UNCHANGED <<task, resp, outcome>>

TakeTest(w) == /\ wpc[w] = "reading" /\ resp[w] # <<>> /\ Head(resp[w]) # Stop
               /\ resp' = [resp EXCEPT ![w] = Tail(@)]
               /\ task' = [task EXCEPT ![w] = Head(resp[w])]
               /\ outcome' = [outcome EXCEPT ![Head(resp[w])] = "running"]
               /\ wpc' = [wpc EXCEPT ![w] = "testing"]
               /\ UNCHANGED req

TakeStop(w) == /\ wpc[w] = "reading" /\ resp[w] # <<>> /\ Head(resp[w]) = Stop
               /\ resp' = [resp EXCEPT ![w] = Tail(@)]
               /\ wpc' = [wpc EXCEPT ![w] = "gone"]
               /\ UNCHANGED <<task, req, outcome>>

(* read returns nothing: every process with the writing end is gone or has    *)
(* closed it.                                                                 *)
AllClosed(w) == /\ mpc = "reaping" \/ (mpc = "closing" /\ i > w)
                /\ \A v \in Worker : v > w => ~Alive(v)
ReadEnd(w) == /\ wpc[w] = "reading" /\ resp[w] = <<>> /\ AllClosed(w)
              /\ wpc' = [wpc EXCEPT ![w] = "gone"]
              /\ UNCHANGED <<task, req, resp, outcome>>

EndTest(w, to, result) ==
    /\ wpc[w] = "testing"
    /\ outcome' = [outcome EXCEPT ![task[w]] = result]
    /\ task' = [task EXCEPT ![w] = NoTask]
    /\ wpc' = [wpc EXCEPT ![w] = to]
    /\ UNCHANGED <<req, resp>>
PassTest(w) == EndTest(w, "asking", "passed")
FailTest(w) == EndTest(w, "gone", "failed")

WorkerStep(w) == /\ \/ Ask(w) \/ TakeTest(w) \/ TakeStop(w) \/ ReadEnd(w)
                    \/ PassTest(w) \/ FailTest(w)
                 /\ UNCHANGED <<n, mpc, i, ready, book>>

----------------------------------------------------------------------------
(* run_parallel: fork the workers.                                            *)
Spawn == /\ mpc = "spawn" /\ i < n
         /\ wpc' = [wpc EXCEPT ![i] = "asking"]
         /\ open' = [open EXCEPT ![i] = TRUE]
         /\ i' = i + 1
         /\ UNCHANGED <<n, task, req, resp, mpc, ready, first, dispatched, exited,
                        passed, failed, outcome>>

(* select waits for a pipe with a char or at its end; the loop over the       *)
(* workers serves the ones it returned.                                       *)
Readable(w) == open[w] /\ (req[w] > 0 \/ ~Alive(w))
Select == /\ \/ mpc = "spawn" /\ i = n
             \/ mpc = "serving" /\ i = n
          /\ IF failed \/ exited = n
             THEN mpc' = "closing" /\ ready' = {}
             ELSE /\ \E w \in Worker : Readable(w)
                  /\ mpc' = "serving"
                  /\ ready' = {w \in Worker : Readable(w)}
          /\ i' = 0
          /\ UNCHANGED <<n, pool, book, outcome>>

Skip == /\ mpc = "serving" /\ i < n /\ i \notin ready
        /\ i' = i + 1
        /\ UNCHANGED <<n, pool, mpc, ready, book, outcome>>

(* Writing to a pipe whose reader is gone would end the master (SIGPIPE).     *)
Send(w, v) == IF Alive(w)
              THEN resp' = [resp EXCEPT ![w] = Append(@, v)] /\ mpc' = "serving"
              ELSE mpc' = "broken" /\ UNCHANGED resp

(* Variants for the mutation runs: the first char of a worker counts as a     *)
(* passed test; one number too many is handed out; a worker told to stop is   *)
(* not counted; the end of the file is answered like a char.                  *)
CountEveryAsk(w) == passed' = passed + 1
Count(w) == passed' = IF first[w] THEN passed ELSE passed + 1
OneMore == dispatched <= NTests
MoreTests == dispatched < NTests
StopUncounted == exited' = exited
StopCounted == exited' = exited + 1
CharOrEnd(w) == TRUE
HasChar(w) == req[w] > 0

Serve == LET w == i IN
    /\ mpc = "serving" /\ i < n /\ w \in ready
    /\ HasChar(w)
    /\ req' = [req EXCEPT ![w] = @ - 1]
    /\ first' = [first EXCEPT ![w] = FALSE]
    /\ Count(w)
    /\ IF MoreTests
       THEN /\ Send(w, dispatched) /\ dispatched' = dispatched + 1
            /\ UNCHANGED <<open, exited>>
       ELSE /\ Send(w, Stop) /\ StopCounted
            /\ open' = [open EXCEPT ![w] = FALSE]
            /\ UNCHANGED dispatched
    /\ i' = i + 1
    /\ UNCHANGED <<n, wpc, task, ready, failed, outcome>>

(* The end of file: the worker failed; the loop is left.  The variant takes   *)
(* it for the exit of a worker that was told to stop.                         *)
DeathIsExit == /\ mpc = "serving" /\ i < n /\ i \in ready
               /\ req[i] = 0
               /\ open' = [open EXCEPT ![i] = FALSE]
               /\ exited' = exited + 1
               /\ i' = i + 1
               /\ UNCHANGED <<n, pool, mpc, ready, first, dispatched, failed,
                              passed, outcome>>
NoticeDeath == /\ mpc = "serving" /\ i < n /\ i \in ready
               /\ req[i] = 0
               /\ failed' = TRUE
               /\ i' = n
               /\ UNCHANGED <<n, pool, mpc, ready, open, first, dispatched, exited,
                              passed, outcome>>

(* Close the pipes to the workers, then wait for each, killing it first if a  *)
(* test has failed.                                                           *)
Close == /\ mpc = "closing"
         /\ IF i < n THEN i' = i + 1 /\ UNCHANGED mpc
                     ELSE i' = 0 /\ mpc' = "reaping"
         /\ UNCHANGED <<n, pool, ready, book, outcome>>

Killed(w) == failed /\ Alive(w)
Reap == /\ mpc = "reaping" /\ i < n
        /\ Killed(i) \/ ~Alive(i)
        /\ wpc' = [wpc EXCEPT ![i] = "gone"]
        /\ task' = [task EXCEPT ![i] = NoTask]
        /\ outcome' = IF task[i] = NoTask THEN outcome
                      ELSE [outcome EXCEPT ![task[i]] = "killed"]
        /\ i' = i + 1
        /\ UNCHANGED <<n, req, resp, mpc, ready, book>>
Finish == /\ mpc = "reaping" /\ i = n
          /\ mpc' = "done"
          /\ UNCHANGED <<n, pool, i, ready, book, outcome>>

(* run_serial: a failing test ends the run.                                   *)
SerialStart == /\ mpc = "serial" /\ dispatched < NTests
               /\ outcome' = [outcome EXCEPT ![dispatched] = "running"]
               /\ mpc' = "test"
               /\ UNCHANGED <<n, pool, i, ready, book>>
SerialEnd == /\ mpc = "test"
             /\ \/ /\ outcome' = [outcome EXCEPT ![dispatched] = "passed"]
                   /\ mpc' = "serial" /\ passed' = passed + 1
                \/ /\ outcome' = [outcome EXCEPT ![dispatched] = "failed"]
                   /\ mpc' = "aborted" /\ UNCHANGED passed
             /\ dispatched' = dispatched + 1
             /\ UNCHANGED <<n, pool, i, ready, open, first, exited, failed>>
SerialDone == /\ mpc = "serial" /\ dispatched = NTests
              /\ mpc' = "done"
              /\ UNCHANGED <<n, pool, i, ready, book, outcome>>

MasterStep == \/ Spawn \/ Select \/ Skip \/ Serve \/ NoticeDeath \/ Close
              \/ Reap \/ Finish \/ SerialStart \/ SerialEnd \/ SerialDone
Ended == mpc \in {"done", "aborted"} /\ UNCHANGED vars

Next == MasterStep \/ (\E w \in Worker : WorkerStep(w)) \/ Ended
Spec == Init /\ [][Next]_vars
(* The processes are scheduled and a test comes to an end.                    *)
FairSpec == /\ Spec /\ WF_vars(MasterStep)
            /\ \A k \in PoolSizes : \A w \in 0 .. k - 1 :
                  WF_vars(w \in Worker /\ WorkerStep(w))

----------------------------------------------------------------------------
TypeOK == /\ n \in PoolSizes
          /\ wpc \in [Worker -> {"unborn", "asking", "reading", "testing", "gone"}]
          /\ task \in [Worker -> Tests \cup {NoTask}]
          /\ req \in [Worker -> Nat]
          /\ resp \in [Worker -> Seq(Tests \cup {Stop})]
          /\ open \in [Worker -> BOOLEAN]
          /\ first \in [Worker -> BOOLEAN]
          /\ mpc \in {"serial", "test", "spawn", "serving", "closing", "reaping",
                      "done", "aborted", "broken"}
          /\ i \in 0 .. n
          /\ ready \subseteq Worker
          /\ dispatched \in 0 .. NTests
          /\ exited \in Nat /\ passed \in Nat
          /\ failed \in BOOLEAN
          /\ outcome \in [Tests -> {"waiting", "running", "passed", "failed", "killed"}]

(* The pool, with its pipes, counters and deaths, keeps the promise of a run  *)
(* of the test bench: no test is started twice, whichever workers ask in      *)
(* which order, and the number printed counts tests that passed.              *)
Run == INSTANCE TestRun WITH reported <- IF mpc = "done" THEN passed ELSE -1
ImplementsTestRun == Run!Spec

(* The master never writes to a worker that is gone: it answers a char it has *)
(* read, and the worker that wrote it is waiting for the answer.  Nor does a  *)
(* worker that is about to ask find that the master has closed the pipe: the  *)
(* master closes it only with the number that tells the worker to exit.       *)
NoBrokenPipe == /\ mpc # "broken"
                /\ \A w \in Worker : wpc[w] = "asking" => open[w]

(* "some tests failed" is printed exactly when one did, although the master   *)
(* only sees the end of a pipe.                                               *)
FailureReported == mpc = "done" => (failed <=> \E t \in Tests : outcome[t] = "failed")

(* The run comes to an end, with every worker process gone: no worker waits   *)
(* for ever on a pipe whose writing end a sibling still has.                  *)
RunEnds == <>(mpc \in {"done", "aborted"} /\ \A w \in Worker : ~Alive(w))
=============================================================================

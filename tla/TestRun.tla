------------------------------ MODULE TestRun ------------------------------
(* What a run of the test bench promises: each test is started at most once,  *)
(* a failure may leave other tests unfinished, and the number reported at     *)
(* the end counts tests that passed, all of them when none failed             *)
(* (run_testbench, verilate/vsrc/testbench.cpp).                              *)
EXTENDS Integers, FiniteSets

CONSTANT NTests      \* test_list.size()

Tests == 0 .. NTests - 1
Outcomes == {"waiting", "running", "passed", "failed", "killed"}
NotYet == -1

VARIABLES outcome,   \* of each test
          reported   \* the number printed at the end
vars == <<outcome, reported>>

Having(o) == {t \in Tests : outcome[t] = o}

Init == /\ outcome = [t \in Tests |-> "waiting"]
        /\ reported = NotYet

Move(t, from, to) == /\ reported = NotYet
                     /\ outcome[t] = from
                     /\ outcome' = [outcome EXCEPT ![t] = to]
                     /\ UNCHANGED reported

Start(t) == Move(t, "waiting", "running")
Pass(t)  == Move(t, "running", "passed")
Fail(t)  == Move(t, "running", "failed")
Kill(t)  == Having("failed") # {} /\ Move(t, "running", "killed")

Report == /\ reported = NotYet
          /\ Having("running") = {}
          /\ reported' \in 0 .. Cardinality(Having("passed"))
          /\ Having("failed") = {} => reported' = NTests
          /\ UNCHANGED outcome

Next == (\E t \in Tests : Start(t) \/ Pass(t) \/ Fail(t) \/ Kill(t)) \/ Report
Spec == Init /\ [][Next]_vars
=============================================================================

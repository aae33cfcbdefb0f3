---------------------------- MODULE CBusArbiter ----------------------------
(* The two-input bus arbiter, vsrc/util/CBusArbiter.sv.  Input 0 is the     *)
(* data bus and input 1 the instruction bus (SimTop.sv and VTop.sv connect  *)
(* {icreq, dcreq}), so data is preferred.  The arbiter is a registered      *)
(* choice: it is idle for one cycle between two transactions, picks an      *)
(* input in that cycle, and keeps it until the bus reports the last word.   *)
Data  == 0
Fetch == 1
Port  == {Data, Fetch}

(* Variants for the mutation runs: the next transaction is granted without   *)
(* the idle cycle; a better request takes the bus from the current one; the  *)
(* search runs off the end when no input is valid.                           *)
NoIdleCycle(busy, valid, last)  == (busy /\ ~last) \/ valid[Data] \/ valid[Fetch]
Preempts(busy, index, valid)    == IF valid[Data] THEN Data ELSE Fetch
IndexOffEnd(busy, index, valid) == IF busy THEN index
                                   ELSE IF valid[Data] THEN Data
                                   ELSE IF valid[Fetch] THEN Fetch ELSE 2

(* The preferred input: the first valid one, input 0 if there is none.      *)
Select(valid) == IF ~valid[Data] /\ valid[Fetch] THEN Fetch ELSE Data

(* The registers after a clock edge, from the requests and oresp.last.      *)
ArbBusy(busy, valid, last)         == IF busy THEN ~last ELSE valid[Select(valid)]
ArbIndex(busy, index, valid)       == IF busy THEN index ELSE Select(valid)
============================================================================

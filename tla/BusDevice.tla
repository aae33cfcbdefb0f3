----------------------------- MODULE BusDevice -----------------------------
(* The simulated memory behind the cache bus: CBusDevice                     *)
(* (verilate/vsrc/cbus_device.cpp) with its AXITransaction                   *)
(* (verilate/include/axi.h) and BlockMemory.  A step is one clock cycle:     *)
(* eval_resp, eval_req and sync, of which the next-transaction record ntx    *)
(* does not survive (sync assigns it to tx).                                 *)
EXTENDS CBusRequests

VARIABLES creq, got, mem,
          tx,         \* the transaction in progress
          enable,     \* this cycle is not one of the injected pauses
          answers     \* history: last words answered, modulo 2
vars == <<creq, got, mem, tx, enable, answers>>

NoTransaction == [busy |-> FALSE, write |-> FALSE, aligned |-> FALSE, N |-> 0,
                  addr |-> 0, start |-> 0, bytes |-> 0, beats |-> 0]

Init == /\ creq = NoRequest
        /\ got = 0
        /\ mem = [w \in 0 .. Words - 1 |-> 0]
        /\ tx = NoTransaction
        /\ enable = TRUE
        /\ answers = 0

----------------------------------------------------------------------------
(* AXITransaction.  Variants for the mutation runs: the address grows past    *)
(* the block, the beats are not counted.                                     *)
Start(req) == [busy |-> TRUE, write |-> req.write, aligned |-> FALSE, N |-> 1,
               addr |-> req.addr, start |-> req.addr, bytes |-> req.size,
               beats |-> req.len + 1]
Upper(t) == LET total == t.bytes * t.beats
            IN  (t.start \div total) * total + total
Lower(t) == LET total == t.bytes * t.beats IN (t.start \div total) * total
Following(t) == IF t.aligned THEN t.addr + t.bytes
                ELSE (t.start \div t.bytes) * t.bytes + t.bytes
SyncPastBlock(t) == [t EXCEPT !.N = @ + 1, !.aligned = TRUE,
                              !.addr = Following(t) % (2 * Words)]
SyncUncounted(t) == [t EXCEPT !.aligned = TRUE,
                              !.addr = IF Following(t) >= Upper(t) THEN Lower(t)
                                       ELSE Following(t)]
Sync(t) == [t EXCEPT !.N = @ + 1, !.aligned = TRUE,
                     !.addr = IF Following(t) >= Upper(t) THEN Lower(t)
                              ELSE Following(t)]
Last(t) == t.N = t.beats

(* The response of this cycle, and the transaction after it.                 *)
Ready == enable /\ tx.busy
LastWord == Ready /\ Last(tx)
AfterSync == IF ~tx.busy THEN IF creq.valid THEN Start(creq) ELSE tx
             ELSE IF Last(tx) THEN NoTransaction ELSE Sync(tx)

Clock ==
    /\ tx' = IF enable THEN AfterSync ELSE tx
    /\ mem' = IF Ready /\ tx.write THEN [mem EXCEPT ![tx.addr \div 2] = creq.data]
              ELSE mem
    /\ got' = IF Ready /\ ~tx.write THEN mem[tx.addr \div 2] ELSE got
    /\ creq' \in Offers(creq, Ready, LastWord)
    /\ answers' = IF LastWord THEN 1 - answers ELSE answers
    /\ enable' \in BOOLEAN

Next == Clock
(* The pauses are drawn at random with a probability below 1.                 *)
Fairness == WF_vars(Clock /\ enable')
Spec == Init /\ [][Next]_vars
FairSpec == Spec /\ Fairness

----------------------------------------------------------------------------
Bus == INSTANCE CBus WITH beat <- IF tx.busy THEN tx.N - 1 ELSE 0

(* Whatever the pauses, the device moves the words of each burst once and in  *)
(* the order of an AXI wrapping burst, also from an unaligned start.          *)
ImplementsCBus == Bus!Spec

(* A request is not left unanswered: the master is idle again and again, or   *)
(* last words keep coming.                                                   *)
Answered == \/ []<>~creq.valid
            \/ []<>(answers = 0) /\ []<>(answers = 1)
=============================================================================

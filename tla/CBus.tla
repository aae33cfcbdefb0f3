-------------------------------- MODULE CBus --------------------------------
(* What a slave of the cache bus promises its master: the beats of a burst,   *)
(* one at a time and each once, at the addresses of the AXI wrapping burst,   *)
(* on one memory.  memory.h:87 asks that CBusDevice and CBusToAXI behave      *)
(* alike; both are shown to implement this specification.                    *)
EXTENDS CBusRequests

VARIABLES creq,    \* the master's request
          beat,    \* beats of it already answered
          got,     \* the word the last read beat returned
          mem
vars == <<creq, beat, got, mem>>

Init == /\ creq = NoRequest
        /\ beat = 0
        /\ got = 0
        /\ mem = [w \in 0 .. Words - 1 |-> 0]

Issue == /\ ~creq.valid
         /\ creq' \in Requests
         /\ UNCHANGED <<beat, got, mem>>

Beat == /\ creq.valid
        /\ LET last == beat = creq.len
               word == BeatWord(creq, beat)
           IN  /\ creq' \in Offers(creq, TRUE, last)
               /\ beat' = IF last THEN 0 ELSE beat + 1
               /\ mem' = IF creq.write THEN [mem EXCEPT ![word] = creq.data] ELSE mem
               /\ got' = IF creq.write THEN got ELSE mem[word]

Next == Issue \/ Beat
Spec == Init /\ [][Next]_vars
=============================================================================

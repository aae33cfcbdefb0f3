---------------------------- MODULE CBusRequests ----------------------------
(* The requests of the cache bus (cbus_req_t, cbus_resp_t in                 *)
(* vsrc/include/common.sv) and the master that makes them: it holds a        *)
(* request until its last answer, and only the data of a write changes, from *)
(* one answered word to the next.                                            *)
(*                                                                           *)
(* Abstraction.  Addresses count half-words of a memory word; a beat moves a  *)
(* half-word or a word, and a write replaces the whole word: the strobe only  *)
(* selects lanes of the word and no property tells lanes apart.              *)
EXTENDS Naturals

CONSTANTS Words,     \* words of the memory
          Values,    \* what a word may hold
          Sizes,     \* half-words a beat moves
          Lens       \* beats of a burst, less one

ASSUME MemoryAssumption == Words \in Nat \ {0} /\ Values \subseteq Nat /\ 0 \in Values
ASSUME BurstAssumption  == Sizes \subseteq {1, 2} /\ Lens \subseteq {0, 1, 3, 7, 15}

Addr  == 0 .. 2 * Words - 1

Reads == [valid : {TRUE}, write : {FALSE}, addr : Addr, size : Sizes,
          len : Lens, data : {0}]
Writes == [valid : {TRUE}, write : {TRUE}, addr : Addr, size : Sizes,
           len : Lens, data : Values]
Requests == Reads \cup Writes
NoRequest == [valid |-> FALSE, write |-> FALSE, addr |-> 0, size |-> 1,
              len |-> 0, data |-> 0]

(* What the master may drive in the next cycle.                              *)
Offers(req, ready, last) ==
    IF ~req.valid \/ (ready /\ last) THEN {NoRequest} \cup Requests
    ELSE IF ready /\ req.write THEN {[req EXCEPT !.data = v] : v \in Values}
    ELSE {req}

(* The word a wrapping burst moves in its i-th beat, counted from 0: the      *)
(* first beat is at the start address, the others at the aligned addresses   *)
(* that follow it inside the block of the burst's own size.                  *)
BeatAddr(req, i) ==
    LET total   == req.size * (req.len + 1)
        lower   == (req.addr \div total) * total
        aligned == (req.addr \div req.size) * req.size
    IN  IF i = 0 THEN req.addr
        ELSE lower + (((aligned - lower) + i * req.size) % total)
BeatWord(req, i) == BeatAddr(req, i) \div 2
=============================================================================

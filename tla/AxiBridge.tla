----------------------------- MODULE AxiBridge -----------------------------
(* The bridge from the cache bus to AXI, vsrc/util/CBusToAXI.sv, between the  *)
(* cache-bus master and an AXI slave that answers its five channels in any   *)
(* cycle and any order AXI allows.  A step is one edge of aclk; handshake is  *)
(* the set of channels whose ready and valid meet in that cycle.             *)
EXTENDS CBusRequests, Integers, Sequences

VARIABLES creq, got, mem,
          inIssue,    \* channels the current request still has to complete
          savedReq,   \* the request in service
          count,      \* beats left, less one
          slave,      \* the AXI slave's transactions
          answers     \* history: last words answered, modulo 2
vars == <<creq, got, mem, inIssue, savedReq, count, slave, answers>>

Channels == {"AR", "R", "AW", "W", "B"}
NoBurst == [valid |-> FALSE, addr |-> 0, size |-> 1, len |-> 0]
Burst(req) == [valid |-> TRUE, addr |-> req.addr, size |-> req.size, len |-> req.len]
IdleSlave == [read |-> NoBurst, beat |-> 0, write |-> NoBurst, data |-> <<>>,
              ended |-> FALSE]

Init == /\ creq = NoRequest
        /\ got = 0
        /\ mem = [w \in 0 .. Words - 1 |-> 0]
        /\ inIssue = {}
        /\ savedReq = NoRequest
        /\ count = 0
        /\ slave = IdleSlave
        /\ answers = 0

----------------------------------------------------------------------------
(* The slave's side: the channels it may complete, read data only after the   *)
(* read address, the write response only after the address and the last       *)
(* word, and a write done when the response is given.                        *)
Completes(c) == /\ c = "R" => slave.read.valid
                /\ c = "B" => slave.write.valid /\ slave.ended
RLast == slave.beat = slave.read.len
RData == mem[BeatWord(slave.read, slave.beat)]
WLast == count = 0

(* A write's words, as many as the slave has taken, put into memory.          *)
Written(m, req, words) ==
    [w \in 0 .. Words - 1 |->
        LET of == {k \in 1 .. Len(words) : BeatWord(req, k - 1) = w}
        IN  IF of = {} THEN m[w]
            ELSE words[CHOOSE k \in of : \A j \in of : j <= k]]

SlaveStep(handshake) ==
    /\ slave' = [read  |-> IF "AR" \in handshake THEN Burst(savedReq)
                          ELSE IF "R" \in handshake /\ RLast THEN NoBurst
                          ELSE slave.read,
                 beat  |-> IF "R" \notin handshake THEN slave.beat
                          ELSE IF RLast THEN 0 ELSE slave.beat + 1,
                 write |-> IF "B" \in handshake THEN NoBurst
                          ELSE IF "AW" \in handshake THEN Burst(savedReq)
                          ELSE slave.write,
                 data  |-> IF "B" \in handshake THEN <<>>
                          ELSE IF "W" \in handshake THEN Append(slave.data, creq.data)
                          ELSE slave.data,
                 ended |-> IF "B" \in handshake THEN FALSE
                          ELSE IF "W" \in handshake THEN WLast ELSE slave.ended]
    /\ mem' = IF "B" \in handshake THEN Written(mem, slave.write, slave.data) ELSE mem

----------------------------------------------------------------------------
(* The bridge.  Variants for the mutation runs: a write does not wait for its *)
(* response; the first word is the last; the last word of a write is not      *)
(* reported before its address is taken; the request is not saved.            *)
IssueNoResponse(req) == IF req.write THEN {"AW", "W"} ELSE {"AR", "R"}
NextIssue(req) == IF req.write THEN {"AW", "W", "B"} ELSE {"AR", "R"}

Ended(handshake) == {c \in handshake : /\ c = "R" => RLast
                                       /\ c = "W" => WLast}
Remain(handshake) == inIssue \ Ended(handshake)

Ready(handshake) == "W" \in handshake \/ "R" \in handshake
LastEarly(handshake) == Ready(handshake)
LastAfterAddress(handshake) == /\ Ready(handshake)
                               /\ "R" \in inIssue => RLast
                               /\ count = 0 /\ "AW" \notin inIssue
LastWord(handshake) == /\ Ready(handshake)
                       /\ "R" \in inIssue => RLast
                       /\ count = 0

SaveAlways == creq
SavedReq == IF inIssue = {} THEN creq ELSE savedReq

Count(handshake) ==
    IF inIssue = {} THEN creq.len
    ELSE IF Ready(handshake) /\ ~LastWord(handshake) THEN count - 1 ELSE count

Clock(handshake) ==
    /\ \A c \in handshake : Completes(c)
    /\ inIssue' = IF inIssue # {} THEN Remain(handshake)
                  ELSE IF creq.valid THEN NextIssue(creq) ELSE {}
    /\ savedReq' = SavedReq
    /\ count' = Count(handshake)
    /\ SlaveStep(handshake)
    /\ creq' \in Offers(creq, Ready(handshake), LastWord(handshake))
    /\ got' = IF "R" \in handshake THEN RData ELSE got
    /\ answers' = IF LastWord(handshake) THEN 1 - answers ELSE answers

Next == \E handshake \in SUBSET inIssue : Clock(handshake)
Complete(c) == \E handshake \in SUBSET inIssue : c \in handshake /\ Clock(handshake)
(* The clock ticks, and the slave completes a channel that stays open to it.  *)
Fairness == WF_vars(Next) /\ \A c \in Channels : WF_vars(Complete(c))
Spec == Init /\ [][Next]_vars
FairSpec == Spec /\ Fairness

----------------------------------------------------------------------------
Bursts == [valid : BOOLEAN, addr : Addr, size : Sizes \cup {1}, len : Lens \cup {0}]
ControlTypeOK ==
    /\ creq \in Requests \cup {NoRequest}
    /\ savedReq \in Requests \cup {NoRequest}
    /\ inIssue \subseteq Channels
    /\ count \in Int
    /\ slave \in [read : Bursts, beat : Nat, write : Bursts,
                  data : Seq(Values), ended : BOOLEAN]
    /\ answers \in {0, 1}

(* The memory as the master sees it includes the words of a write that the   *)
(* slave has taken and not yet put into memory.                              *)
Serving == {"R", "W"} \cap inIssue # {}
Bus == INSTANCE CBus WITH
           beat <- IF Serving THEN creq.len - count ELSE 0,
           mem  <- Written(mem, savedReq, slave.data)

(* Whatever the order of the channels, the bridge answers the beats of each   *)
(* burst once and in order, on one memory, though it answers a write at its   *)
(* data handshakes and the next request may be up before the response.       *)
ImplementsCBus == Bus!Spec

(* The slave never has more than one transaction, and none when the bridge    *)
(* is idle: a response cannot be taken for another request's.                *)
OneAtATime == /\ slave.read.valid => "R" \in inIssue
              /\ slave.write.valid \/ slave.data # <<>> => "B" \in inIssue
              /\ ~(slave.read.valid /\ slave.write.valid)

(* What AXI asks of a master: a channel, once valid, keeps valid and its      *)
(* payload until the slave takes it, although the cache-bus request may end   *)
(* and another begin before the write address is taken.                      *)
Payload(c) == IF c = "W" THEN <<creq.data, WLast>>
              ELSE <<savedReq.addr, savedReq.size, savedReq.len>>
Taken(c) == CASE c = "AR" -> slave.read.valid
              [] c = "AW" -> slave.write.valid
              [] OTHER    -> slave.data
PayloadHeld == [][\A c \in inIssue \cap {"AR", "AW", "W"} :
                     Taken(c)' = Taken(c)
                         => c \in inIssue' /\ Payload(c)' = Payload(c)]_vars

(* A request is not left unanswered.                                         *)
Answered == \/ []<>~creq.valid
            \/ []<>(answers = 0) /\ []<>(answers = 1)
=============================================================================

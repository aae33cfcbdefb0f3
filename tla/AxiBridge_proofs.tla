-------------------------- MODULE AxiBridge_proofs --------------------------
(* Proofs about AxiBridge, for every memory, every set of burst lengths and   *)
(* sizes, and every order in which the slave completes the channels.         *)
EXTENDS AxiBridge, SequenceTheorems, WellFoundedInduction, TLAPS

(* A request uses the read or the write channels; a channel still open has    *)
(* not been taken by the slave, and its transaction's last channel is open.   *)
ChannelSide ==
    /\ inIssue \subseteq {"AR", "R"} \/ inIssue \subseteq {"AW", "W", "B"}
    /\ "AR" \in inIssue => "R" \in inIssue /\ ~slave.read.valid
    /\ "AW" \in inIssue => "B" \in inIssue /\ ~slave.write.valid
    /\ "W" \in inIssue  => "B" \in inIssue /\ ~slave.ended /\ creq.valid
    /\ slave.ended => "B" \in inIssue

IInv == ControlTypeOK /\ ChannelSide /\ OneAtATime

----------------------------------------------------------------------------
(* The requests of the cache bus.                                             *)
LEMMA WritesWrite ==
    ASSUME NEW req \in Requests \cup {NoRequest}
    PROVE  req.write <=> req \in Writes
<1>1. \A r \in Reads : r.write = FALSE
  BY DEF Reads
<1>2. \A r \in Writes : r.write = TRUE
  BY DEF Writes
<1>3. NoRequest.write = FALSE
  BY DEF NoRequest
<1>4. req \in Reads \/ req \in Writes \/ req = NoRequest
  BY DEF Requests
<1> QED
  BY <1>1, <1>2, <1>3, <1>4

LEMMA OffersType ==
    ASSUME NEW req \in Requests \cup {NoRequest},
           NEW ready \in BOOLEAN, NEW last \in BOOLEAN,
           NEW next \in Offers(req, ready, last)
    PROVE  next \in Requests \cup {NoRequest}
<1>1. CASE ~req.valid \/ (ready /\ last)
  BY <1>1 DEF Offers
<1>2. CASE req.valid /\ ~(ready /\ last) /\ ready /\ req.write
  <2>1. req \in Writes
    BY <1>2, WritesWrite
  <2>2. PICK v \in Values : next = [req EXCEPT !.data = v]
    BY <1>2 DEF Offers
  <2>3. next \in Writes
    BY <2>1, <2>2 DEF Writes
  <2> QED
    BY <2>3 DEF Requests
<1>3. CASE req.valid /\ ~(ready /\ last) /\ ~(ready /\ req.write)
  BY <1>3 DEF Offers
<1> QED
  BY <1>1, <1>2, <1>3

(* A request that has not had its last answer stays up, only the data of a    *)
(* write changes, and without an answer it does not change.                   *)
LEMMA OffersHold ==
    ASSUME NEW req \in Requests \cup {NoRequest}, req.valid,
           NEW ready \in BOOLEAN, NEW last \in BOOLEAN, ~(ready /\ last),
           NEW next \in Offers(req, ready, last)
    PROVE  /\ next.valid /\ next.write = req.write /\ next.addr = req.addr
           /\ next.size = req.size /\ next.len = req.len
           /\ ~ready => next = req
<1>1. CASE ready /\ req.write
  <2>1. req \in Writes
    BY <1>1, WritesWrite
  <2>2. PICK v \in Values : next = [req EXCEPT !.data = v]
    BY <1>1 DEF Offers
  <2> QED
    BY <1>1, <2>1, <2>2 DEF Writes
<1>2. CASE ~(ready /\ req.write)
  BY <1>2 DEF Offers
<1> QED
  BY <1>1, <1>2

LEMMA RequestFields ==
    ASSUME NEW req \in Requests \cup {NoRequest}
    PROVE  /\ req.addr \in Addr /\ req.size \in Sizes \cup {1}
           /\ req.len \in Lens \cup {0} /\ req.len \in Int
           /\ req.data \in Values
<1>1. \A n \in Lens : n \in Int
  BY BurstAssumption
<1>2. CASE req = NoRequest
  BY <1>2, MemoryAssumption DEF NoRequest, Addr
<1>3. CASE req \in Reads
  <2>1. /\ req.addr \in Addr /\ req.size \in Sizes
        /\ req.len \in Lens /\ req.data = 0
    BY <1>3 DEF Reads
  <2> QED
    BY <1>1, <2>1, MemoryAssumption
<1>4. CASE req \in Writes
  <2>1. /\ req.addr \in Addr /\ req.size \in Sizes
        /\ req.len \in Lens /\ req.data \in Values
    BY <1>4 DEF Writes
  <2> QED
    BY <1>1, <2>1
<1> QED
  BY <1>2, <1>3, <1>4 DEF Requests

(* The words a beat is made of depend on the address, the size and the        *)
(* length of the request alone.                                               *)
LEMMA SameBurst ==
    ASSUME NEW r, NEW s, NEW k, r.addr = s.addr, r.size = s.size, r.len = s.len
    PROVE  BeatWord(r, k) = BeatWord(s, k)
BY DEF BeatWord, BeatAddr

----------------------------------------------------------------------------
LEMMA BurstType ==
    ASSUME NEW req \in Requests \cup {NoRequest}
    PROVE  Burst(req) \in Bursts /\ Burst(req).valid = TRUE
  BY RequestFields DEF Burst, Bursts

LEMMA NoBurstType == NoBurst \in Bursts /\ NoBurst.valid = FALSE
  BY MemoryAssumption DEF NoBurst, Bursts, Addr

THEOREM InitIInv == Init => IInv
<1> SUFFICES ASSUME Init PROVE IInv
  OBVIOUS
<1>1. IdleSlave \in [read : Bursts, beat : Nat, write : Bursts,
                    data : Seq(Values), ended : BOOLEAN]
  BY NoBurstType DEF IdleSlave
<1>2. ControlTypeOK
  BY <1>1 DEF Init, ControlTypeOK
<1>3. ChannelSide /\ OneAtATime
  BY NoBurstType DEF Init, ChannelSide, OneAtATime, IdleSlave
<1> QED
  BY <1>2, <1>3 DEF IInv

(* The slave's record, and the master's request, after a step.               *)
LEMMA SlaveType ==
    ASSUME IInv, NEW handshake \in SUBSET inIssue, SlaveStep(handshake)
    PROVE  slave' \in [read : Bursts, beat : Nat, write : Bursts,
                       data : Seq(Values), ended : BOOLEAN]
<1>1. /\ Burst(savedReq) \in Bursts /\ NoBurst \in Bursts
      /\ slave.read \in Bursts /\ slave.write \in Bursts
      /\ slave.beat \in Nat /\ slave.ended \in BOOLEAN /\ WLast \in BOOLEAN
      /\ slave.data \in Seq(Values) /\ creq.data \in Values
  <2>1. creq.data \in Values
    BY RequestFields DEF IInv, ControlTypeOK
  <2> QED
    BY <2>1, BurstType, NoBurstType DEF IInv, ControlTypeOK, WLast
<1>2. slave'.read \in Bursts /\ slave'.write \in Bursts
  BY <1>1 DEF SlaveStep
<1>3. slave'.beat \in Nat
  BY <1>1 DEF SlaveStep
<1>4. slave'.ended \in BOOLEAN
  BY <1>1 DEF SlaveStep
<1>5. slave'.data \in Seq(Values)
  BY <1>1 DEF SlaveStep
<1> QED
  BY <1>2, <1>3, <1>4, <1>5 DEF SlaveStep

LEMMA RequestType ==
    ASSUME IInv, NEW handshake \in SUBSET inIssue, Clock(handshake)
    PROVE  /\ creq' \in Requests \cup {NoRequest}
           /\ savedReq' \in Requests \cup {NoRequest}
<1>1. Ready(handshake) \in BOOLEAN /\ LastWord(handshake) \in BOOLEAN
  BY DEF Ready, LastWord
<1>2. creq' \in Requests \cup {NoRequest}
  BY <1>1, OffersType DEF IInv, ControlTypeOK, Clock
<1> QED
  BY <1>2 DEF IInv, ControlTypeOK, Clock, SavedReq

(* While the write data channel stays open the request stays up, and it       *)
(* changes only when the slave takes a word.                                 *)
LEMMA WriteHeld ==
    ASSUME IInv, NEW handshake \in SUBSET inIssue, Clock(handshake),
           "W" \in inIssue, "W" \in inIssue'
    PROVE  creq'.valid /\ ("W" \notin handshake => creq' = creq)
<1>1. "R" \notin inIssue /\ creq.valid
  BY DEF IInv, ChannelSide
<1>2. ~(Ready(handshake) /\ LastWord(handshake))
  BY <1>1 DEF Clock, Remain, Ended, Ready, LastWord, WLast
<1>3. Ready(handshake) \in BOOLEAN /\ LastWord(handshake) \in BOOLEAN
  BY DEF Ready, LastWord
<1>4. creq'.valid /\ (~Ready(handshake) => creq' = creq)
  BY <1>1, <1>2, <1>3, OffersHold DEF IInv, ControlTypeOK, Clock
<1> QED
  BY <1>1, <1>4 DEF Ready

----------------------------------------------------------------------------
(* Every step preserves the invariant.                                       *)
THEOREM StepIInv == ASSUME IInv, NEW handshake \in SUBSET inIssue, Clock(handshake)
                    PROVE  IInv'
<1>1. ControlTypeOK'
  <2>1. inIssue' \subseteq Channels /\ count' \in Int /\ answers' \in {0, 1}
    <3>1. inIssue' \subseteq Channels
      BY DEF IInv, ControlTypeOK, Clock, Remain, Ended, NextIssue, Channels
    <3>2. creq.len \in Int
      BY RequestFields DEF IInv, ControlTypeOK
    <3>3. count' \in Int
      BY <3>2 DEF IInv, ControlTypeOK, Clock, Count
    <3> QED
      BY <3>1, <3>3 DEF IInv, ControlTypeOK, Clock
  <2>2. slave' \in [read : Bursts, beat : Nat, write : Bursts,
                    data : Seq(Values), ended : BOOLEAN]
    BY SlaveType DEF Clock
  <2> QED
    BY <2>1, <2>2, RequestType DEF ControlTypeOK
<1>2. CASE inIssue = {}
  <2>1. /\ handshake = {}
        /\ slave'.read = slave.read /\ slave'.write = slave.write
        /\ slave'.data = slave.data /\ slave'.ended = slave.ended
    BY <1>2 DEF Clock, SlaveStep
  <2>2. /\ slave.read.valid = FALSE /\ slave.write.valid = FALSE
        /\ slave.data = <<>> /\ slave.ended = FALSE
    BY <1>2 DEF IInv, ControlTypeOK, Bursts, OneAtATime, ChannelSide
  <2>3. inIssue' \in {{}, {"AR", "R"}, {"AW", "W", "B"}}
    BY <1>2 DEF Clock, NextIssue
  <2>4. "W" \in inIssue' => creq'.valid
    <3> SUFFICES ASSUME creq.valid PROVE creq'.valid
      BY <1>2 DEF Clock
    <3>1. /\ Ready(handshake) \in BOOLEAN /\ LastWord(handshake) \in BOOLEAN
          /\ ~(Ready(handshake) /\ LastWord(handshake))
      BY <2>1 DEF Ready, LastWord
    <3> QED
      BY <3>1, OffersHold DEF IInv, ControlTypeOK, Clock
  <2>5. ChannelSide'
    BY <2>1, <2>2, <2>3, <2>4 DEF ChannelSide
  <2>6. OneAtATime'
    BY <2>1, <2>2 DEF OneAtATime
  <2> QED
    BY <1>1, <2>5, <2>6 DEF IInv
<1>3. CASE inIssue \subseteq {"AR", "R"} /\ inIssue # {}
  <2>1. /\ inIssue' = inIssue \ Ended(handshake)
        /\ slave'.write = slave.write /\ slave'.data = slave.data
        /\ slave'.ended = slave.ended
        /\ slave'.read = IF "AR" \in handshake THEN Burst(savedReq)
                         ELSE IF "R" \in handshake /\ RLast THEN NoBurst
                         ELSE slave.read
    BY <1>3 DEF Clock, SlaveStep, Remain
  <2>2. /\ slave.write.valid = FALSE /\ slave.data = <<>> /\ slave.ended = FALSE
    BY <1>3 DEF IInv, ControlTypeOK, Bursts, OneAtATime, ChannelSide
  <2>3. "R" \in handshake => slave.read.valid /\ "AR" \notin inIssue
    BY DEF Clock, Completes, IInv, ChannelSide
  <2>4. "AR" \in inIssue' => "R" \in inIssue' /\ ~slave'.read.valid
    BY <2>1, <2>3 DEF Ended, IInv, ChannelSide
  <2>5. slave'.read.valid => "R" \in inIssue'
    BY <2>1, <2>3, NoBurstType DEF Ended, IInv, ChannelSide, OneAtATime
  <2>6. ChannelSide'
    BY <1>3, <2>1, <2>2, <2>4 DEF ChannelSide, Ended
  <2>7. OneAtATime'
    BY <2>1, <2>2, <2>5 DEF OneAtATime
  <2> QED
    BY <1>1, <2>6, <2>7 DEF IInv
<1>4. CASE inIssue \subseteq {"AW", "W", "B"} /\ inIssue # {}
  <2>1. /\ inIssue' = inIssue \ Ended(handshake)
        /\ slave'.read = slave.read
        /\ slave'.write = IF "B" \in handshake THEN NoBurst
                          ELSE IF "AW" \in handshake THEN Burst(savedReq)
                          ELSE slave.write
        /\ slave'.data = IF "B" \in handshake THEN <<>>
                         ELSE IF "W" \in handshake THEN Append(slave.data, creq.data)
                         ELSE slave.data
        /\ slave'.ended = IF "B" \in handshake THEN FALSE
                          ELSE IF "W" \in handshake THEN WLast ELSE slave.ended
    BY <1>4 DEF Clock, SlaveStep, Remain
  <2>2. slave.read.valid = FALSE
    BY <1>4 DEF IInv, ControlTypeOK, Bursts, OneAtATime
  <2>3. "B" \in handshake => /\ slave.write.valid /\ slave.ended
                             /\ "AW" \notin inIssue /\ "W" \notin inIssue
    BY DEF Clock, Completes, IInv, ChannelSide
  <2>4. "B" \in inIssue
    BY <1>4 DEF IInv, ChannelSide
  <2>5. "AW" \in inIssue' => "B" \in inIssue' /\ ~slave'.write.valid
    BY <2>1, <2>3, <2>4 DEF Ended, IInv, ChannelSide
  <2>6. "W" \in inIssue' => "B" \in inIssue' /\ ~slave'.ended /\ creq'.valid
    BY <2>1, <2>3, <2>4, WriteHeld DEF Ended, IInv, ChannelSide
  <2>7. slave'.write.valid \/ slave'.data # <<>> \/ slave'.ended => "B" \in inIssue'
    BY <2>1, <2>4, NoBurstType DEF Ended
  <2>8. ChannelSide'
    BY <1>4, <2>1, <2>5, <2>6, <2>7 DEF ChannelSide, Ended
  <2>9. OneAtATime'
    BY <2>1, <2>2, <2>7 DEF OneAtATime
  <2> QED
    BY <1>1, <2>8, <2>9 DEF IInv
<1> QED
  BY <1>2, <1>3, <1>4 DEF IInv, ChannelSide

THEOREM Invariance == Spec => []IInv
<1>1. IInv /\ [Next]_vars => IInv'
  <2> SUFFICES ASSUME IInv, [Next]_vars PROVE IInv'
    OBVIOUS
  <2>1. CASE Next
    BY <2>1, StepIInv DEF Next
  <2>2. CASE UNCHANGED vars
    BY <2>2 DEF vars, IInv, ControlTypeOK, ChannelSide, OneAtATime
  <2> QED
    BY <2>1, <2>2
<1> QED
  BY InitIInv, <1>1, PTL DEF Spec

(* The slave never holds two transactions, nor one the bridge has forgotten:  *)
(* the bridge takes a request only when every channel of the last one is done *)
(* (in_issue in CBusToAXI.sv).                                               *)
THEOREM OneTransaction == Spec => []OneAtATime
  BY Invariance, PTL DEF IInv

(* A channel keeps valid and its payload until the slave takes it: the        *)
(* address channels show the saved request, the data channel the request on   *)
(* the cache bus, which its master may not change before the handshake.       *)
THEOREM PayloadsAreHeld == Spec => PayloadHeld
<1>1. ASSUME IInv, Next, NEW c \in inIssue \cap {"AR", "AW", "W"}, Taken(c)' = Taken(c)
      PROVE  c \in inIssue' /\ Payload(c)' = Payload(c)
  <2>1. PICK handshake \in SUBSET inIssue : Clock(handshake)
    BY <1>1 DEF Next
  <2>2. c \notin handshake
    <3>1. CASE c = "AR"
      <4>1. slave.read.valid = FALSE /\ Burst(savedReq).valid = TRUE
        BY <1>1, <3>1, BurstType DEF IInv, ControlTypeOK, ChannelSide, Bursts
      <4> QED
        BY <1>1, <2>1, <3>1, <4>1 DEF Clock, SlaveStep, Taken
    <3>2. CASE c = "AW"
      <4>1. slave.write.valid = FALSE /\ Burst(savedReq).valid = TRUE
        BY <1>1, <3>2, BurstType DEF IInv, ControlTypeOK, ChannelSide, Bursts
      <4>2. "B" \notin handshake
        BY <2>1, <4>1 DEF Clock, Completes
      <4> QED
        BY <1>1, <2>1, <3>2, <4>1, <4>2 DEF Clock, SlaveStep, Taken
    <3>3. CASE c = "W"
      <4>1. "B" \notin handshake
        BY <1>1, <2>1, <3>3 DEF IInv, ChannelSide, Clock, Completes
      <4>2. Append(slave.data, creq.data) # slave.data
        BY <1>1, RequestFields DEF IInv, ControlTypeOK
      <4> QED
        BY <1>1, <2>1, <3>3, <4>1, <4>2 DEF Clock, SlaveStep, Taken
    <3> QED
      BY <3>1, <3>2, <3>3
  <2>3. c \in inIssue'
    BY <2>1, <2>2 DEF Clock, Remain, Ended
  <2>4. savedReq' = savedReq
    BY <1>1, <2>1 DEF Clock, SavedReq
  <2>5. c = "W" => creq' = creq /\ count' = count
    <3> SUFFICES ASSUME c = "W" PROVE creq' = creq /\ count' = count
      OBVIOUS
    <3>1. ~Ready(handshake)
      BY <1>1, <2>1, <2>2 DEF IInv, ChannelSide, Ready
    <3> QED
      BY <1>1, <2>1, <2>2, <2>3, <3>1, WriteHeld DEF Clock, Count
  <2> QED
    BY <1>1, <2>3, <2>4, <2>5 DEF Payload, WLast
<1>2. IInv /\ [Next]_vars =>
          [\A c \in inIssue \cap {"AR", "AW", "W"} :
              Taken(c)' = Taken(c) => c \in inIssue' /\ Payload(c)' = Payload(c)]_vars
  BY <1>1
<1> QED
  BY Invariance, <1>2, PTL DEF Spec, PayloadHeld

----------------------------------------------------------------------------
(* A set of positions of a sequence that is not empty has a last one.         *)
LEMMA LastPosition ==
    ASSUME NEW n \in Nat, NEW T, T \subseteq 1 .. n, T # {}
    PROVE  \E k \in T : \A j \in T : j <= k
<1> DEFINE Less == {p \in Nat \X Nat : p[1] < p[2]}
           U == {n - k : k \in T}
<1>1. IsWellFoundedOn(Less, Nat)
  <2>1. OpToRel(<, Nat) = Less
    BY Zenon DEF OpToRel
  <2> QED
    BY <2>1, NatLessThanWellFounded, Zenon
<1>2. \A k \in T : k \in Int /\ n - k \in Nat
  OBVIOUS
<1>3. U \subseteq Nat /\ U # {}
  BY <1>2
<1> HIDE DEF Less
<1>4. PICK x \in U : \A y \in U : ~(<<y, x>> \in Less)
  <2> HIDE DEF U
  <2> QED
    BY <1>1, <1>3, WFMin
<1>5. ASSUME NEW y \in U PROVE x <= y
  <2>1. x \in Nat /\ y \in Nat /\ ~(<<y, x>> \in Less)
    BY <1>3, <1>4
  <2>2. <<y, x>> \in Nat \X Nat /\ ~(y < x)
    BY <2>1 DEF Less
  <2> QED
    BY <2>1, <2>2
<1>6. PICK k \in T : x = n - k
  OBVIOUS
<1>7. \A j \in T : j <= k
  <2>1. ASSUME NEW j \in T PROVE j <= k
    <3>1. n - k <= n - j
      BY <1>5, <1>6
    <3> QED
      BY <1>2, <3>1
  <2> QED
    BY <2>1
<1> QED
  BY <1>7

LEMMA NothingWritten ==
    ASSUME NEW m, NEW req, m = [w \in 0 .. Words - 1 |-> m[w]]
    PROVE  Written(m, req, <<>>) = m
BY DEF Written

(* The words go where the burst says, whatever else the request holds.        *)
LEMMA SameWritten ==
    ASSUME NEW m, NEW r, NEW s, NEW ws, \A k : BeatWord(r, k) = BeatWord(s, k)
    PROVE  Written(m, r, ws) = Written(m, s, ws)
<1> DEFINE OfR(w) == {k \in 1 .. Len(ws) : BeatWord(r, k - 1) = w}
           OfS(w) == {k \in 1 .. Len(ws) : BeatWord(s, k - 1) = w}
           last(T) == CHOOSE k \in T : \A j \in T : j <= k
<1>1. \A w : OfR(w) = OfS(w)
  OBVIOUS
<1>2. /\ Written(m, r, ws) =
             [w \in 0 .. Words - 1 |-> IF OfR(w) = {} THEN m[w] ELSE ws[last(OfR(w))]]
      /\ Written(m, s, ws) =
             [w \in 0 .. Words - 1 |-> IF OfS(w) = {} THEN m[w] ELSE ws[last(OfS(w))]]
  BY DEF Written
<1> HIDE DEF OfR, OfS, last
<1> QED
  BY <1>1, <1>2

(* One more word taken is one more word in the memory.                        *)
LEMMA OneMoreWritten ==
    ASSUME NEW m, NEW req, NEW S, NEW ws \in Seq(S), NEW d \in S
    PROVE  Written(m, req, Append(ws, d)) =
               [Written(m, req, ws) EXCEPT ![BeatWord(req, Len(ws))] = d]
<1> DEFINE n == Len(ws)
           Of(w) == {k \in 1 .. n : BeatWord(req, k - 1) = w}
           OfMore(w) == {k \in 1 .. n + 1 : BeatWord(req, k - 1) = w}
           more == Append(ws, d)
           last(T) == CHOOSE k \in T : \A j \in T : j <= k
<1>1. n \in Nat /\ Len(more) = n + 1 /\ more[n + 1] = d /\ \A k \in 1 .. n : more[k] = ws[k]
  BY AppendProperties
<1> HIDE DEF n, more
<1>2. ASSUME NEW w, BeatWord(req, n) # w PROVE OfMore(w) = Of(w)
  <2>1. n + 1 \notin OfMore(w)
    BY <1>1, <1>2
  <2> QED
    BY <1>1, <2>1
<1>3. ASSUME NEW w, BeatWord(req, n) = w PROVE OfMore(w) # {} /\ last(OfMore(w)) = n + 1
  <2>1. n + 1 \in OfMore(w) /\ \A k \in OfMore(w) : k \in 1 .. n + 1 /\ k <= n + 1
    BY <1>1, <1>3
  <2>2. \A k \in OfMore(w) : (\A j \in OfMore(w) : j <= k) => k = n + 1
    BY <1>1, <2>1
  <2> HIDE DEF OfMore
  <2> QED
    BY <2>1, <2>2
<1>4. ASSUME NEW w, Of(w) # {} PROVE last(Of(w)) \in 1 .. n
  <2>1. Of(w) \subseteq 1 .. n
    OBVIOUS
  <2>2. \E k \in Of(w) : \A j \in Of(w) : j <= k
    <3> HIDE DEF Of
    <3> QED
      BY <1>1, <1>4, <2>1, LastPosition
  <2>3. last(Of(w)) \in Of(w)
    <3> HIDE DEF Of
    <3> QED
      BY <2>2
  <2> QED
    BY <2>1, <2>3
<1>5. Written(m, req, ws) =
          [w \in 0 .. Words - 1 |-> IF Of(w) = {} THEN m[w] ELSE ws[last(Of(w))]]
  BY DEF Written, n
<1>6. Written(m, req, more) =
          [w \in 0 .. Words - 1 |-> IF OfMore(w) = {} THEN m[w] ELSE more[last(OfMore(w))]]
  BY <1>1 DEF Written
<1> HIDE DEF Of, OfMore, last
<1>7. ASSUME NEW w \in 0 .. Words - 1
      PROVE  (IF OfMore(w) = {} THEN m[w] ELSE more[last(OfMore(w))]) =
             IF w = BeatWord(req, n) THEN d
             ELSE IF Of(w) = {} THEN m[w] ELSE ws[last(Of(w))]
  <2>1. CASE w = BeatWord(req, n)
    BY <1>1, <1>3, <2>1
  <2>2. CASE w # BeatWord(req, n)
    BY <1>1, <1>2, <1>4, <2>2
  <2> QED
    BY <2>1, <2>2
<1>8. Written(m, req, more) = [Written(m, req, ws) EXCEPT ![BeatWord(req, n)] = d]
  BY <1>5, <1>6, <1>7
<1> QED
  BY <1>8 DEF more, n
(* The implementation of CBus.  While the data channel is open the request is *)
(* the one that was saved, the words the slave has taken or sent are the      *)
(* beats the count has passed, and the slave works on the saved burst.        *)
SameRequest == /\ creq.valid /\ creq.write = savedReq.write
               /\ creq.addr = savedReq.addr /\ creq.size = savedReq.size
               /\ creq.len = savedReq.len
DataSide ==
    /\ mem = [w \in 0 .. Words - 1 |-> mem[w]]
    /\ Serving => SameRequest /\ count \in 0 .. creq.len
    /\ "W" \in inIssue => creq.write /\ Len(slave.data) = creq.len - count
    /\ "R" \in inIssue => ~creq.write /\ slave.beat = creq.len - count
    /\ "R" \notin inIssue => slave.beat = 0
    /\ slave.read.valid => slave.read = Burst(savedReq)
    /\ slave.write.valid => slave.write = Burst(savedReq)
RInv == IInv /\ DataSide

LEMMA InitRInv == Init => RInv
<1> SUFFICES ASSUME Init PROVE DataSide
  BY InitIInv DEF RInv
<1> QED
  BY DEF Init, DataSide, Serving, IdleSlave, NoBurst

(* What a cycle without an answer, and one with an answer, does to the data.  *)
LEMMA ReadyKinds ==
    ASSUME RInv, NEW handshake \in SUBSET inIssue, Clock(handshake)
    PROVE  /\ Ready(handshake) \in BOOLEAN /\ LastWord(handshake) \in BOOLEAN
           /\ "R" \in handshake => /\ slave.read.valid /\ "AR" \notin inIssue
                                   /\ "W" \notin inIssue /\ "B" \notin inIssue
                                   /\ "AW" \notin inIssue
                                   /\ RLast <=> count = 0
           /\ "W" \in handshake => "R" \notin inIssue /\ "B" \notin handshake
           /\ "B" \in handshake => /\ slave.write.valid /\ "W" \notin inIssue
                                   /\ "AW" \notin inIssue /\ "R" \notin inIssue
           /\ Ready(handshake) => (LastWord(handshake) <=> count = 0)
<1>1. Ready(handshake) \in BOOLEAN /\ LastWord(handshake) \in BOOLEAN
  BY DEF Ready, LastWord
<1>2. "R" \in handshake => /\ slave.read.valid /\ "AR" \notin inIssue
                           /\ "W" \notin inIssue /\ "B" \notin inIssue
                           /\ "AW" \notin inIssue
  BY DEF Clock, Completes, RInv, IInv, ChannelSide
<1>3. "R" \in handshake => (RLast <=> count = 0)
  <2> SUFFICES ASSUME "R" \in handshake PROVE RLast <=> count = 0
    OBVIOUS
  <2>1. /\ slave.read = Burst(savedReq) /\ slave.beat = creq.len - count
        /\ creq.len = savedReq.len /\ count \in Int
    BY <1>2 DEF RInv, IInv, ControlTypeOK, DataSide, Serving, SameRequest
  <2>2. creq.len \in Int
    BY RequestFields DEF RInv, IInv, ControlTypeOK
  <2> QED
    BY <2>1, <2>2 DEF RLast, Burst
<1>4. "W" \in handshake => "R" \notin inIssue /\ "B" \notin handshake
  BY DEF Clock, Completes, RInv, IInv, ChannelSide
<1>5. "B" \in handshake => /\ slave.write.valid /\ "W" \notin inIssue
                           /\ "AW" \notin inIssue /\ "R" \notin inIssue
  BY DEF Clock, Completes, RInv, IInv, ChannelSide
<1>6. Ready(handshake) => (LastWord(handshake) <=> count = 0)
  BY <1>2, <1>3, <1>4 DEF Ready, LastWord, WLast
<1> QED
  BY <1>1, <1>2, <1>3, <1>4, <1>5, <1>6

(* The request stays while a data channel stays open.                         *)
LEMMA RequestStays ==
    ASSUME RInv, NEW handshake \in SUBSET inIssue, Clock(handshake),
           inIssue # {}, Serving, ~(Ready(handshake) /\ count = 0)
    PROVE  SameRequest' /\ creq'.len = creq.len /\ creq'.write = creq.write
<1>1. creq.valid /\ creq \in Requests \cup {NoRequest}
  BY DEF RInv, IInv, ControlTypeOK, DataSide, SameRequest
<1>2. creq' \in Offers(creq, Ready(handshake), LastWord(handshake))
  BY DEF Clock
<1>3. ~(Ready(handshake) /\ LastWord(handshake))
  BY ReadyKinds
<1>4. /\ creq'.valid /\ creq'.write = creq.write /\ creq'.addr = creq.addr
      /\ creq'.size = creq.size /\ creq'.len = creq.len
  BY <1>1, <1>2, <1>3, ReadyKinds, OffersHold
<1>5. savedReq' = savedReq
  BY DEF Clock, SavedReq
<1> QED
  BY <1>4, <1>5 DEF RInv, DataSide, SameRequest

(* When the bridge is idle it takes the request that is up; nothing is left   *)
(* of the last one.                                                           *)
LEMMA IdleKeepsData ==
    ASSUME RInv, NEW handshake \in SUBSET inIssue, Clock(handshake), inIssue = {}
    PROVE  DataSide'
<1>1. /\ handshake = {} /\ mem' = mem /\ slave.data = <<>> /\ slave.beat = 0
      /\ ~slave.read.valid /\ ~slave.write.valid
  BY DEF RInv, IInv, OneAtATime, DataSide, Clock, SlaveStep
<1>2. /\ slave'.read = slave.read /\ slave'.write = slave.write
      /\ slave'.data = <<>> /\ slave'.beat = 0
  BY <1>1 DEF Clock, SlaveStep
<1>3. CASE ~creq.valid
  <2>1. inIssue' = {}
    BY <1>3 DEF Clock
  <2> QED
    BY <1>1, <1>2, <2>1 DEF RInv, DataSide, Serving
<1>4. CASE creq.valid
  <2>1. creq \in Requests \cup {NoRequest} /\ creq.len \in Nat
    <3>1. creq \in Requests \cup {NoRequest} /\ creq.len \in Lens \cup {0}
      BY RequestFields DEF RInv, IInv, ControlTypeOK
    <3>2. creq.len \in {0, 1, 3, 7, 15}
      BY <3>1, BurstAssumption
    <3> QED
      BY <3>1, <3>2
  <2>2. creq' \in Offers(creq, Ready(handshake), LastWord(handshake)) /\ ~Ready(handshake)
    BY <1>1 DEF Clock, Ready
  <2>3. creq' = creq
    BY <1>4, <2>1, <2>2, ReadyKinds, OffersHold
  <2>4. savedReq' = creq /\ count' = creq.len /\ inIssue' = NextIssue(creq)
    BY <1>4 DEF Clock, SavedReq, Count
  <2>5. SameRequest' /\ count' \in 0 .. creq'.len /\ creq'.len - count' = 0
    BY <1>4, <2>1, <2>3, <2>4 DEF SameRequest
  <2>6. /\ "W" \in inIssue' => creq'.write
        /\ "R" \in inIssue' => ~creq'.write
    BY <2>3, <2>4 DEF NextIssue
  <2> QED
    BY <1>1, <1>2, <2>5, <2>6 DEF RInv, DataSide
<1> QED
  BY <1>3, <1>4

(* A handshake of a data channel moves the count and the slave by one beat.   *)
LEMMA BusyKeepsData ==
    ASSUME RInv, NEW handshake \in SUBSET inIssue, Clock(handshake), inIssue # {}
    PROVE  DataSide'
<1>1. /\ inIssue' = inIssue \ Ended(handshake) /\ savedReq' = savedReq
      /\ count' = IF Ready(handshake) /\ ~LastWord(handshake) THEN count - 1 ELSE count
  BY DEF Clock, Remain, SavedReq, Count
<1>2. Serving' => Serving /\ ~(Ready(handshake) /\ count = 0)
  BY <1>1, ReadyKinds DEF Serving, Ended, Ready, WLast
<1>3. creq.len \in Int /\ count \in Int /\ slave.beat \in Nat /\ creq.data \in Values
  BY RequestFields DEF RInv, IInv, ControlTypeOK
<1>4. mem' = [w \in 0 .. Words - 1 |-> mem'[w]]
  <2>1. CASE "B" \in handshake
    BY <2>1 DEF Clock, SlaveStep, Written
  <2>2. CASE "B" \notin handshake
    BY <2>2 DEF RInv, DataSide, Clock, SlaveStep
  <2> QED
    BY <2>1, <2>2
<1>5. ASSUME Serving'
      PROVE  /\ SameRequest' /\ creq'.len = creq.len /\ creq'.write = creq.write
             /\ count \in 0 .. creq.len
             /\ count' = IF Ready(handshake) THEN count - 1 ELSE count
             /\ count' \in 0 .. creq'.len
  <2>1. SameRequest' /\ creq'.len = creq.len /\ creq'.write = creq.write
    BY <1>2, <1>5, RequestStays
  <2>2. count \in 0 .. creq.len
    BY <1>2, <1>5 DEF RInv, DataSide
  <2>3. count' = IF Ready(handshake) THEN count - 1 ELSE count
    BY <1>1, <1>2, <1>5, ReadyKinds
  <2> QED
    BY <1>2, <1>3, <1>5, <2>1, <2>2, <2>3
<1>6. "W" \in inIssue' => creq'.write /\ Len(slave'.data) = creq'.len - count'
  <2> SUFFICES ASSUME "W" \in inIssue'
               PROVE  creq'.write /\ Len(slave'.data) = creq'.len - count'
    OBVIOUS
  <2>1. "W" \in inIssue /\ Serving' /\ "B" \notin handshake /\ "R" \notin handshake
    BY <1>1, ReadyKinds DEF Serving
  <2>2. creq.write /\ Len(slave.data) = creq.len - count
    BY <2>1 DEF RInv, DataSide
  <2>3. CASE "W" \in handshake
    <3>1. slave'.data = Append(slave.data, creq.data) /\ Ready(handshake)
      BY <2>1, <2>3 DEF Clock, SlaveStep, Ready
    <3>2. Len(slave'.data) = Len(slave.data) + 1
      BY <1>3, <3>1, AppendProperties DEF RInv, IInv, ControlTypeOK
    <3>3. count' = count - 1 /\ creq'.len = creq.len /\ creq'.write = creq.write
      BY <1>5, <2>1, <3>1
    <3>4. Len(slave'.data) = creq.len - (count - 1)
      BY <1>3, <2>2, <3>2
    <3> QED
      BY <2>2, <3>3, <3>4
  <2>4. CASE "W" \notin handshake
    <3>1. slave'.data = slave.data /\ ~Ready(handshake)
      BY <2>1, <2>4 DEF Clock, SlaveStep, Ready
    <3> QED
      BY <1>5, <2>1, <2>2, <3>1
  <2> QED
    BY <2>3, <2>4
<1>7. "R" \in inIssue' => ~creq'.write /\ slave'.beat = creq'.len - count'
  <2> SUFFICES ASSUME "R" \in inIssue'
               PROVE  ~creq'.write /\ slave'.beat = creq'.len - count'
    OBVIOUS
  <2>1. "R" \in inIssue /\ Serving' /\ "W" \notin handshake
    BY <1>1, ReadyKinds DEF Serving
  <2>2. ~creq.write /\ slave.beat = creq.len - count
    BY <2>1 DEF RInv, DataSide
  <2>3. CASE "R" \in handshake
    <3>1. Ready(handshake) /\ ~RLast
      BY <1>2, <2>1, <2>3, ReadyKinds DEF Ready
    <3>2. slave'.beat = slave.beat + 1
      BY <2>3, <3>1 DEF Clock, SlaveStep
    <3> QED
      BY <1>3, <1>5, <2>1, <2>2, <3>1, <3>2
  <2>4. CASE "R" \notin handshake
    <3>1. slave'.beat = slave.beat /\ ~Ready(handshake)
      BY <2>1, <2>4 DEF Clock, SlaveStep, Ready
    <3> QED
      BY <1>5, <2>1, <2>2, <3>1
  <2> QED
    BY <2>3, <2>4
<1>8. "R" \notin inIssue' => slave'.beat = 0
  <2>1. CASE "R" \notin inIssue
    BY <2>1 DEF RInv, DataSide, Clock, SlaveStep
  <2>2. CASE "R" \in inIssue
    BY <1>1, <2>2 DEF Ended, Clock, SlaveStep
  <2> QED
    BY <2>1, <2>2
<1>9. slave'.read.valid => slave'.read = Burst(savedReq')
  BY <1>1, NoBurstType DEF RInv, DataSide, Clock, SlaveStep
<1>10. slave'.write.valid => slave'.write = Burst(savedReq')
  BY <1>1, NoBurstType DEF RInv, DataSide, Clock, SlaveStep
<1> QED
  BY <1>4, <1>5, <1>6, <1>7, <1>8, <1>9, <1>10 DEF DataSide

LEMMA RInvariance == Spec => []RInv
<1>1. RInv /\ [Next]_vars => RInv'
  <2> SUFFICES ASSUME RInv, [Next]_vars PROVE RInv'
    OBVIOUS
  <2>1. CASE Next
    <3>1. PICK handshake \in SUBSET inIssue : Clock(handshake)
      BY <2>1 DEF Next
    <3>2. IInv'
      BY <3>1, StepIInv DEF RInv
    <3>3. DataSide'
      BY <3>1, IdleKeepsData, BusyKeepsData
    <3> QED
      BY <3>2, <3>3 DEF RInv
  <2>2. CASE UNCHANGED vars
    BY <2>2 DEF vars, RInv, IInv, ControlTypeOK, ChannelSide, OneAtATime, DataSide,
       Serving, SameRequest
  <2> QED
    BY <2>1, <2>2
<1> QED
  BY InitRInv, <1>1, PTL DEF Spec

----------------------------------------------------------------------------
(* Each step is an issue, a beat or a stutter of the abstract slave.          *)
Taking == Written(mem, savedReq, slave.data)
Beats == IF Serving THEN creq.len - count ELSE 0

LEMMA InitRefines == Init => Bus!Init
<1> SUFFICES ASSUME Init PROVE Bus!Init
  OBVIOUS
<1>1. Written(mem, savedReq, slave.data) = mem
  BY NothingWritten DEF Init, IdleSlave
<1> QED
  BY <1>1 DEF Init, Bus!Init, Bus!NoRequest, NoRequest, Serving

(* Without an answer the memory the master sees stays: the words taken are    *)
(* either still with the slave or now in its memory.                          *)
LEMMA QuietStep ==
    ASSUME RInv, NEW handshake \in SUBSET inIssue, Clock(handshake), ~Ready(handshake)
    PROVE  Taking' = Taking /\ Beats' = Beats /\ got' = got
<1>1. got' = got
  BY DEF Clock, Ready
<1>2. CASE inIssue = {}
  <2>1. slave.data = <<>> /\ slave'.data = <<>> /\ mem' = mem
    BY <1>2 DEF RInv, IInv, OneAtATime, Clock, SlaveStep
  <2>2. Taking' = Taking
    BY <2>1, NothingWritten DEF Taking, RInv, DataSide
  <2>3. Beats' = Beats
    <3>1. CASE creq.valid
      <4>1. creq' = creq /\ creq.len \in Int
        BY <3>1, RequestFields, OffersHold, ReadyKinds DEF Clock, RInv, IInv, ControlTypeOK
      <4>2. count' = creq.len
        BY <1>2 DEF Clock, Count
      <4> QED
        BY <1>2, <4>1, <4>2 DEF Beats, Serving
    <3>2. CASE ~creq.valid
      BY <1>2, <3>2 DEF Beats, Serving, Clock
    <3> QED
      BY <3>1, <3>2
  <2> QED
    BY <1>1, <2>2, <2>3
<1>3. CASE inIssue # {}
  <2>1. /\ savedReq' = savedReq /\ count' = count /\ Serving' = Serving
    BY <1>3 DEF Clock, SavedReq, Count, Remain, Ended, Serving, Ready
  <2>2. Serving => creq' = creq
    <3>1. Serving => creq.valid
      BY DEF RInv, DataSide, SameRequest
    <3> QED
      BY <3>1, OffersHold, ReadyKinds DEF Clock, RInv, IInv, ControlTypeOK
  <2>3. Beats' = Beats
    BY <2>1, <2>2 DEF Beats
  <2>4. CASE "B" \in handshake
    <3>1. /\ slave.write = Burst(savedReq)
          /\ mem' = Written(mem, slave.write, slave.data) /\ slave'.data = <<>>
      BY <2>4, ReadyKinds DEF RInv, DataSide, Clock, SlaveStep
    <3>2. Written(mem, slave.write, slave.data) = Written(mem, savedReq, slave.data)
      <4>1. \A k : BeatWord(slave.write, k) = BeatWord(savedReq, k)
        BY <3>1, SameBurst DEF Burst
      <4> QED
        BY <4>1, SameWritten
    <3>3. mem' = [w \in 0 .. Words - 1 |-> mem'[w]]
      BY <3>1 DEF Written
    <3>4. Taking' = mem'
      BY <3>1, <3>3, NothingWritten DEF Taking
    <3> QED
      BY <1>1, <2>3, <3>1, <3>2, <3>4 DEF Taking
  <2>5. CASE "B" \notin handshake
    <3>1. mem' = mem /\ slave'.data = slave.data
      BY <2>5 DEF Clock, SlaveStep, Ready
    <3> QED
      BY <1>1, <2>1, <2>3, <3>1 DEF Taking
  <2> QED
    BY <2>4, <2>5
<1> QED
  BY <1>2, <1>3

(* An answer is a beat at the abstract slave.                                 *)
LEMMA AnswerStep ==
    ASSUME RInv, NEW handshake \in SUBSET inIssue, Clock(handshake), Ready(handshake)
    PROVE  /\ creq.valid
           /\ LastWord(handshake) <=> Beats = creq.len
           /\ Beats' = IF Beats = creq.len THEN 0 ELSE Beats + 1
           /\ Taking' = IF creq.write THEN [Taking EXCEPT ![BeatWord(creq, Beats)] = creq.data]
                        ELSE Taking
           /\ got' = IF creq.write THEN got ELSE Taking[BeatWord(creq, Beats)]
<1>1. inIssue # {} /\ Serving
  BY DEF Ready, Serving
<1>2. /\ SameRequest /\ count \in 0 .. creq.len /\ creq.len \in Int
      /\ Beats = creq.len - count
  BY <1>1, RequestFields DEF RInv, IInv, ControlTypeOK, DataSide, Beats
<1>3. LastWord(handshake) <=> count = 0
  BY ReadyKinds
<1>4. LastWord(handshake) <=> Beats = creq.len
  BY <1>2, <1>3
<1>5. /\ inIssue' = inIssue \ Ended(handshake) /\ savedReq' = savedReq
      /\ count' = IF LastWord(handshake) THEN count ELSE count - 1
  BY <1>1 DEF Clock, Remain, SavedReq, Count
<1>6. Beats' = IF Beats = creq.len THEN 0 ELSE Beats + 1
  <2>1. CASE count = 0
    <3>1. ~Serving'
      BY <1>5, <2>1, ReadyKinds DEF Ready, Serving, Ended, WLast
    <3> QED
      BY <1>2, <2>1, <3>1 DEF Beats
  <2>2. CASE count # 0
    <3>1. Serving'
      BY <1>5, <2>2, ReadyKinds DEF Ready, Serving, Ended, WLast
    <3>2. creq'.len = creq.len
      BY <1>1, <2>2, RequestStays
    <3> QED
      BY <1>2, <1>3, <1>5, <2>2, <3>1, <3>2 DEF Beats
  <2> QED
    BY <2>1, <2>2
<1>7. \A k : BeatWord(savedReq, k) = BeatWord(creq, k)
  BY <1>2, SameBurst DEF SameRequest
<1>8. CASE "R" \in handshake
  <2>1. ~creq.write /\ slave.data = <<>> /\ slave.read = Burst(savedReq) /\ slave.beat = Beats
    BY <1>2, <1>8, ReadyKinds DEF RInv, IInv, OneAtATime, DataSide
  <2>2. mem' = mem /\ slave'.data = <<>> /\ got' = mem[BeatWord(slave.read, slave.beat)]
    BY <1>8, <2>1, ReadyKinds DEF Clock, SlaveStep, RData
  <2>3. Taking = mem /\ Taking' = mem
    BY <2>1, <2>2, NothingWritten DEF Taking, RInv, DataSide
  <2>4. BeatWord(slave.read, slave.beat) = BeatWord(creq, Beats)
    <3>1. BeatWord(slave.read, slave.beat) = BeatWord(savedReq, slave.beat)
      BY <2>1, SameBurst DEF Burst
    <3> QED
      BY <1>7, <2>1, <3>1
  <2> QED
    BY <1>2, <1>4, <1>6, <2>1, <2>2, <2>3, <2>4 DEF SameRequest
<1>9. CASE "W" \in handshake
  <2>1. creq.write /\ Len(slave.data) = Beats /\ "R" \notin handshake /\ "B" \notin handshake
    BY <1>2, <1>9, ReadyKinds DEF RInv, DataSide
  <2>2. /\ mem' = mem /\ got' = got
        /\ slave'.data = Append(slave.data, creq.data)
    BY <1>9, <2>1 DEF Clock, SlaveStep
  <2>3. slave.data \in Seq(Values) /\ creq.data \in Values
    BY RequestFields DEF RInv, IInv, ControlTypeOK
  <2>4. Written(mem, savedReq, Append(slave.data, creq.data)) =
            [Written(mem, savedReq, slave.data)
                EXCEPT ![BeatWord(savedReq, Len(slave.data))] = creq.data]
    BY <2>3, OneMoreWritten
  <2>5. Taking' = [Taking EXCEPT ![BeatWord(creq, Beats)] = creq.data]
    BY <1>5, <1>7, <2>1, <2>2, <2>4 DEF Taking
  <2> QED
    BY <1>2, <1>4, <1>6, <2>1, <2>2, <2>5 DEF SameRequest
<1> QED
  BY <1>8, <1>9 DEF Ready

LEMMA StepRefines ==
    ASSUME RInv, NEW handshake \in SUBSET inIssue, Clock(handshake)
    PROVE  Bus!Next \/ UNCHANGED Bus!vars
<1>1. /\ creq \in Requests \cup {NoRequest}
      /\ creq' \in Offers(creq, Ready(handshake), LastWord(handshake))
  BY DEF RInv, IInv, ControlTypeOK, Clock
<1>2. CASE ~Ready(handshake)
  <2>1. Taking' = Taking /\ Beats' = Beats /\ got' = got
    BY <1>2, QuietStep
  <2>2. CASE creq.valid
    <3>1. creq' = creq
      BY <1>1, <1>2, <2>2, ReadyKinds, OffersHold
    <3> QED
      BY <2>1, <3>1 DEF Bus!vars, Taking, Beats
  <2>3. CASE ~creq.valid
    <3>1. creq' \in {NoRequest} \cup Requests
      BY <1>1, <2>3 DEF Offers
    <3>2. creq = NoRequest
      BY <1>1, <2>3 DEF Requests, Reads, Writes
    <3>3. CASE creq' = NoRequest
      BY <2>1, <3>2, <3>3 DEF Bus!vars, Taking, Beats
    <3>4. CASE creq' \in Requests
      BY <2>1, <2>3, <3>4
         DEF Bus!Next, Bus!Issue, Bus!Requests, Bus!Reads, Bus!Writes, Bus!Addr,
             Requests, Reads, Writes, Addr, Taking, Beats
    <3> QED
      BY <3>1, <3>3, <3>4
  <2> QED
    BY <2>2, <2>3
<1>3. CASE Ready(handshake)
  <2>1. /\ creq.valid
        /\ LastWord(handshake) <=> Beats = creq.len
        /\ Beats' = IF Beats = creq.len THEN 0 ELSE Beats + 1
        /\ Taking' = IF creq.write THEN [Taking EXCEPT ![BeatWord(creq, Beats)] = creq.data]
                     ELSE Taking
        /\ got' = IF creq.write THEN got ELSE Taking[BeatWord(creq, Beats)]
    BY <1>3, AnswerStep
  <2>2. creq' \in Offers(creq, TRUE, Beats = creq.len)
    <3>1. Ready(handshake) = TRUE /\ LastWord(handshake) = (Beats = creq.len)
      BY <1>3, <2>1, ReadyKinds
    <3> QED
      BY <1>1, <3>1
  <2>3. Bus!Beat
    BY <2>1, <2>2
       DEF Bus!Beat, Bus!Offers, Bus!BeatWord, Bus!BeatAddr, Bus!Requests, Bus!Reads,
           Bus!Writes, Bus!Addr, Bus!NoRequest, Offers, BeatWord, BeatAddr, Requests, Reads,
           Writes, Addr, NoRequest, Taking, Beats
  <2> QED
    BY <2>3 DEF Bus!Next
<1> QED
  BY <1>2, <1>3

(* Whatever the order of the channels, the bridge answers the beats of each   *)
(* burst once and in order on one memory, for every memory and every burst,   *)
(* though the words of a write are with the slave, and the next request may   *)
(* be up, before the response.                                                *)
THEOREM BridgeImplementsCBus == Spec => ImplementsCBus
<1>1. RInv /\ [Next]_vars => [Bus!Next]_Bus!vars
  <2> SUFFICES ASSUME RInv, [Next]_vars PROVE Bus!Next \/ UNCHANGED Bus!vars
    OBVIOUS
  <2>1. CASE Next
    BY <2>1, StepRefines DEF Next
  <2>2. CASE UNCHANGED vars
    BY <2>2 DEF vars, Bus!vars, Serving, Written
  <2> QED
    BY <2>1, <2>2
<1> QED
  BY <1>1, InitRefines, RInvariance, PTL DEF Spec, ImplementsCBus, Bus!Spec
=============================================================================

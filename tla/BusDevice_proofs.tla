-------------------------- MODULE BusDevice_proofs --------------------------
(* The simulated memory implements CBus, for every memory, every set of burst *)
(* lengths and sizes, and every pattern of pauses.                            *)
EXTENDS BusDevice, Integers, TLAPS

(* The transaction is the request that is still on the bus, and its address   *)
(* is that of the beat it has come to.                                        *)
TxSide == tx.busy =>
    /\ creq.valid /\ tx.write = creq.write /\ tx.start = creq.addr
    /\ tx.bytes = creq.size /\ tx.beats = creq.len + 1
    /\ tx.N \in 1 .. creq.len + 1
    /\ tx.aligned <=> tx.N > 1
    /\ tx.addr = BeatAddr(creq, tx.N - 1)

TxFields == {"busy", "write", "aligned", "N", "addr", "start", "bytes", "beats"}
IInv == /\ creq \in Requests \cup {NoRequest}
        /\ enable \in BOOLEAN
        /\ DOMAIN tx = TxFields /\ tx.busy \in BOOLEAN
        /\ TxSide

----------------------------------------------------------------------------
(* The requests of the cache bus.                                             *)
LEMMA WritesWrite ==
    ASSUME NEW req \in Requests \cup {NoRequest}
    PROVE  req.write <=> req \in Writes
<1>1. \A r \in Reads : r.write = FALSE
  BY DEF Reads
<1>2. \A r \in Writes : r.write = TRUE
  BY DEF Writes
<1>3. NoRequest.write = FALSE
  BY DEF NoRequest
<1>4. req \in Reads \/ req \in Writes \/ req = NoRequest
  BY DEF Requests
<1> QED
  BY <1>1, <1>2, <1>3, <1>4

LEMMA OffersType ==
    ASSUME NEW req \in Requests \cup {NoRequest},
           NEW ready \in BOOLEAN, NEW last \in BOOLEAN,
           NEW next \in Offers(req, ready, last)
    PROVE  next \in Requests \cup {NoRequest}
<1>1. CASE ~req.valid \/ (ready /\ last)
  BY <1>1 DEF Offers
<1>2. CASE req.valid /\ ~(ready /\ last) /\ ready /\ req.write
  <2>1. req \in Writes
    BY <1>2, WritesWrite
  <2>2. PICK v \in Values : next = [req EXCEPT !.data = v]
    BY <1>2 DEF Offers
  <2>3. next \in Writes
    BY <2>1, <2>2 DEF Writes
  <2> QED
    BY <2>3 DEF Requests
<1>3. CASE req.valid /\ ~(ready /\ last) /\ ~(ready /\ req.write)
  BY <1>3 DEF Offers
<1> QED
  BY <1>1, <1>2, <1>3

(* A request that has not had its last answer stays up, only the data of a    *)
(* write changes, and without an answer it does not change.                   *)
LEMMA OffersHold ==
    ASSUME NEW req \in Requests \cup {NoRequest}, req.valid,
           NEW ready \in BOOLEAN, NEW last \in BOOLEAN, ~(ready /\ last),
           NEW next \in Offers(req, ready, last)
    PROVE  /\ next.valid /\ next.write = req.write /\ next.addr = req.addr
           /\ next.size = req.size /\ next.len = req.len
           /\ ~ready => next = req
<1>1. CASE ready /\ req.write
  <2>1. req \in Writes
    BY <1>1, WritesWrite
  <2>2. PICK v \in Values : next = [req EXCEPT !.data = v]
    BY <1>1 DEF Offers
  <2> QED
    BY <1>1, <2>1, <2>2 DEF Writes
<1>2. CASE ~(ready /\ req.write)
  BY <1>2 DEF Offers
<1> QED
  BY <1>1, <1>2

LEMMA RequestFields ==
    ASSUME NEW req \in Requests \cup {NoRequest}
    PROVE  /\ req.addr \in Addr /\ req.size \in Sizes \cup {1}
           /\ req.len \in Lens \cup {0} /\ req.len \in Int
           /\ req.data \in Values
<1>1. \A n \in Lens : n \in Int
  BY BurstAssumption
<1>2. CASE req = NoRequest
  BY <1>2, MemoryAssumption DEF NoRequest, Addr
<1>3. CASE req \in Reads
  <2>1. /\ req.addr \in Addr /\ req.size \in Sizes
        /\ req.len \in Lens /\ req.data = 0
    BY <1>3 DEF Reads
  <2> QED
    BY <1>1, <2>1, MemoryAssumption
<1>4. CASE req \in Writes
  <2>1. /\ req.addr \in Addr /\ req.size \in Sizes
        /\ req.len \in Lens /\ req.data \in Values
    BY <1>4 DEF Writes
  <2> QED
    BY <1>1, <2>1
<1> QED
  BY <1>2, <1>3, <1>4 DEF Requests

----------------------------------------------------------------------------
(* Wrapping by comparison, as AXITransaction does, is wrapping by the modulus *)
(* of the block: on blocks of a power of two beats.                           *)
Block(size, len) == size * (len + 1)
Low(size, len, start) == (start \div Block(size, len)) * Block(size, len)
High(size, len, start) == Low(size, len, start) + Block(size, len)
Round(size, start) == (start \div size) * size
At(size, len, start, j) ==
    Low(size, len, start)
        + (((Round(size, start) - Low(size, len, start)) + j * size) % Block(size, len))

LEMMA NextInBlock ==
    ASSUME NEW size \in {1, 2}, NEW len \in {0, 1, 3, 7, 15}, NEW start \in Nat,
           NEW k \in 1 .. len
    PROVE  /\ At(size, len, start, 1) = IF Round(size, start) + size >= High(size, len, start)
                                        THEN Low(size, len, start)
                                        ELSE Round(size, start) + size
           /\ At(size, len, start, k + 1) =
                   IF At(size, len, start, k) + size >= High(size, len, start)
                   THEN Low(size, len, start) ELSE At(size, len, start, k) + size
<1> USE DEF Block, Low, High, Round, At
<1>1. CASE size = 1 /\ len = 0
  BY <1>1
<1>2. CASE size = 1 /\ len = 1
  BY <1>2
<1>3. CASE size = 1 /\ len = 3
  BY <1>3
<1>4. CASE size = 1 /\ len = 7
  BY <1>4
<1>5. CASE size = 1 /\ len = 15
  BY <1>5
<1>6. CASE size = 2 /\ len = 0
  BY <1>6
<1>7. CASE size = 2 /\ len = 1
  BY <1>7
<1>8. CASE size = 2 /\ len = 3
  BY <1>8
<1>9. CASE size = 2 /\ len = 7
  BY <1>9
<1>10. CASE size = 2 /\ len = 15
  BY <1>10
<1> QED
  BY <1>1, <1>2, <1>3, <1>4, <1>5, <1>6, <1>7, <1>8, <1>9, <1>10

LEMMA BurstFields ==
    ASSUME IInv
    PROVE  /\ creq.size \in {1, 2} /\ creq.len \in {0, 1, 3, 7, 15} /\ creq.addr \in Nat
           /\ creq.len \in Nat
<1>1. /\ creq.addr \in Addr /\ creq.size \in Sizes \cup {1} /\ creq.len \in Lens \cup {0}
  BY RequestFields DEF IInv
<1>2. creq.size \in {1, 2} /\ creq.len \in {0, 1, 3, 7, 15}
  BY <1>1, BurstAssumption
<1>3. creq.addr \in Nat
  BY <1>1, MemoryAssumption DEF Addr
<1> QED
  BY <1>2, <1>3

LEMMA NextBeat ==
    ASSUME IInv, tx.busy, ~Last(tx)
    PROVE  /\ Sync(tx).addr = BeatAddr(creq, tx.N)
           /\ tx.N \in 1 .. creq.len
<1>1. /\ creq.size \in {1, 2} /\ creq.len \in {0, 1, 3, 7, 15} /\ creq.addr \in Nat
      /\ creq.len \in Nat
  BY BurstFields
<1>2. /\ tx.start = creq.addr /\ tx.bytes = creq.size /\ tx.beats = creq.len + 1
      /\ tx.N \in 1 .. creq.len + 1 /\ (tx.aligned <=> tx.N > 1)
      /\ tx.addr = BeatAddr(creq, tx.N - 1)
  BY DEF IInv, TxSide
<1>3. tx.N \in 1 .. creq.len
  BY <1>1, <1>2 DEF Last
<1>4. \A j \in 1 .. creq.len : BeatAddr(creq, j) = At(creq.size, creq.len, creq.addr, j)
  BY <1>1 DEF BeatAddr, At, Low, Round, Block
<1>5. /\ Upper(tx) = High(creq.size, creq.len, creq.addr)
      /\ Lower(tx) = Low(creq.size, creq.len, creq.addr)
  BY <1>2 DEF Upper, Lower, High, Low, Block
<1>6. Sync(tx).addr = IF Following(tx) >= Upper(tx) THEN Lower(tx) ELSE Following(tx)
  BY DEF IInv, TxFields, Sync
<1>7. CASE tx.N = 1
  <2>1. Following(tx) = Round(creq.size, creq.addr) + creq.size
    BY <1>2, <1>7 DEF Following, Round
  <2> QED
    BY <1>1, <1>3, <1>4, <1>5, <1>6, <1>7, <2>1, NextInBlock
<1>8. CASE tx.N # 1
  <2>1. PICK k \in 1 .. creq.len : k + 1 = tx.N /\ k = tx.N - 1
    BY <1>1, <1>3, <1>8
  <2>2. Following(tx) = At(creq.size, creq.len, creq.addr, k) + creq.size
    BY <1>2, <1>3, <1>4, <1>8, <2>1 DEF Following
  <2>3. At(creq.size, creq.len, creq.addr, k + 1) =
            IF At(creq.size, creq.len, creq.addr, k) + creq.size
                 >= High(creq.size, creq.len, creq.addr)
            THEN Low(creq.size, creq.len, creq.addr)
            ELSE At(creq.size, creq.len, creq.addr, k) + creq.size
    BY <1>1, NextInBlock
  <2> QED
    BY <1>3, <1>4, <1>5, <1>6, <2>1, <2>2, <2>3
<1> QED
  BY <1>3, <1>7, <1>8

----------------------------------------------------------------------------
LEMMA InitIInv == Init => IInv
BY DEF Init, IInv, NoTransaction, TxFields, TxSide

(* The request while the transaction is under way.                            *)
LEMMA RequestHeld ==
    ASSUME IInv, Clock, creq.valid, ~LastWord
    PROVE  /\ creq'.valid /\ creq'.write = creq.write /\ creq'.addr = creq.addr
           /\ creq'.size = creq.size /\ creq'.len = creq.len
BY OffersHold DEF IInv, Clock, Ready, LastWord, Last

LEMMA StepIInv == ASSUME IInv, Clock PROVE IInv'
<1>1. creq' \in Requests \cup {NoRequest} /\ enable' \in BOOLEAN
  <2>1. Ready \in BOOLEAN /\ LastWord \in BOOLEAN
    BY DEF IInv, Ready, LastWord, Last
  <2> QED
    BY <2>1, OffersType DEF IInv, Clock
<1>2. DOMAIN tx' = TxFields /\ tx'.busy \in BOOLEAN /\ TxSide'
  <2>1. CASE ~enable \/ (~tx.busy /\ ~creq.valid)
    <3>1. tx' = tx /\ ~Ready /\ ~LastWord
      BY <2>1 DEF Clock, AfterSync, Ready, LastWord
    <3>2. tx.busy => creq.valid
      BY DEF IInv, TxSide
    <3>3. creq.valid => creq' = creq
      BY <3>1, OffersHold DEF IInv, Clock, Ready, LastWord
    <3> QED
      BY <3>1, <3>2, <3>3 DEF IInv, TxSide
  <2>2. CASE enable /\ ~tx.busy /\ creq.valid
    <3>1. tx' = Start(creq) /\ ~Ready /\ ~LastWord
      BY <2>2 DEF Clock, AfterSync, Ready, LastWord
    <3>2. creq' = creq
      BY <2>2, <3>1, OffersHold DEF IInv, Clock, Ready, LastWord
    <3>3. creq.addr = BeatAddr(creq, 0)
      BY DEF BeatAddr
    <3> QED
      BY <2>2, <3>1, <3>2, <3>3, BurstFields DEF Start, TxFields, TxSide
  <2>3. CASE enable /\ tx.busy /\ Last(tx)
    <3>1. tx' = NoTransaction
      BY <2>3 DEF Clock, AfterSync
    <3> QED
      BY <3>1 DEF NoTransaction, TxFields, TxSide
  <2>4. CASE enable /\ tx.busy /\ ~Last(tx)
    <3>1. tx' = Sync(tx) /\ ~LastWord
      BY <2>4 DEF Clock, AfterSync, LastWord
    <3>2. /\ creq.valid /\ creq'.valid /\ creq'.write = creq.write
          /\ creq'.addr = creq.addr /\ creq'.size = creq.size /\ creq'.len = creq.len
      BY <2>4, <3>1, RequestHeld DEF IInv, TxSide
    <3>3. /\ Sync(tx).addr = BeatAddr(creq, tx.N) /\ tx.N \in 1 .. creq.len
      BY <2>4, NextBeat
    <3>4. BeatAddr(creq', tx.N) = BeatAddr(creq, tx.N)
      BY <3>2 DEF BeatAddr
    <3>5. /\ DOMAIN Sync(tx) = TxFields
          /\ Sync(tx).busy = tx.busy /\ Sync(tx).write = tx.write
          /\ Sync(tx).start = tx.start /\ Sync(tx).bytes = tx.bytes
          /\ Sync(tx).beats = tx.beats /\ Sync(tx).N = tx.N + 1
          /\ Sync(tx).aligned = TRUE
      BY DEF IInv, TxFields, Sync
    <3>6. Sync(tx).N \in 1 .. creq.len + 1 /\ Sync(tx).N > 1 /\ Sync(tx).N - 1 = tx.N
      BY <3>3, <3>5, BurstFields
    <3> QED
      BY <3>1, <3>2, <3>3, <3>4, <3>5, <3>6 DEF IInv, TxSide
  <2> QED
    BY <2>1, <2>2, <2>3, <2>4
<1> QED
  BY <1>1, <1>2 DEF IInv

LEMMA Invariance == Spec => []IInv
<1>1. IInv /\ [Next]_vars => IInv'
  BY StepIInv DEF Next, vars, IInv, TxSide
<1> QED
  BY InitIInv, <1>1, PTL DEF Spec

----------------------------------------------------------------------------
(* A cycle with an answer is a beat; one without it issues a request or is a  *)
(* stutter.                                                                   *)
LEMMA InitRefines == Init => Bus!Init
BY DEF Init, Bus!Init, Bus!NoRequest, NoRequest, NoTransaction

LEMMA StepRefines ==
    ASSUME IInv, Clock PROVE Bus!Next \/ UNCHANGED Bus!vars
<1> DEFINE beat == IF tx.busy THEN tx.N - 1 ELSE 0
<1>1. CASE ~Ready
  <2>1. /\ mem' = mem /\ got' = got /\ ~LastWord
        /\ creq' \in Offers(creq, FALSE, FALSE)
    <3>1. Ready = FALSE /\ LastWord = FALSE
      BY <1>1 DEF Ready, LastWord
    <3> QED
      BY <3>1 DEF Clock
  <2>2. beat' = beat
    <3>1. CASE tx' = tx
      BY <3>1
    <3>2. CASE tx' # tx
      <4>1. ~tx.busy /\ tx' = Start(creq)
        BY <1>1, <3>2 DEF Clock, AfterSync, Ready
      <4> QED
        BY <4>1 DEF Start
    <3> QED
      BY <3>1, <3>2
  <2>3. CASE creq.valid
    <3>1. creq' = creq
      BY <2>1, <2>3, OffersHold DEF IInv
    <3> QED
      BY <2>1, <2>2, <3>1 DEF Bus!vars
  <2>4. CASE ~creq.valid
    <3>1. creq' \in {NoRequest} \cup Requests
      BY <2>1, <2>4 DEF Offers
    <3>2. creq = NoRequest
      BY <2>4 DEF IInv, Requests, Reads, Writes
    <3>3. CASE creq' = NoRequest
      BY <2>1, <2>2, <3>2, <3>3 DEF Bus!vars
    <3>4. CASE creq' \in Requests
      BY <2>1, <2>2, <2>4, <3>4
         DEF Bus!Next, Bus!Issue, Bus!Requests, Bus!Reads, Bus!Writes, Bus!Addr,
             Requests, Reads, Writes, Addr
    <3> QED
      BY <3>1, <3>3, <3>4
  <2> QED
    BY <2>3, <2>4
<1>2. CASE Ready
  <2>1. tx.busy /\ enable
    BY <1>2 DEF Ready
  <2>2. /\ creq.valid /\ tx.write = creq.write /\ tx.beats = creq.len + 1
        /\ tx.N \in 1 .. creq.len + 1 /\ tx.addr = BeatAddr(creq, tx.N - 1)
        /\ beat = tx.N - 1 /\ beat \in 0 .. creq.len
    BY <2>1, BurstFields DEF IInv, TxSide
  <2>3. LastWord <=> beat = creq.len
    BY <1>2, <2>2, BurstFields DEF LastWord, Last
  <2>4. beat' = IF beat = creq.len THEN 0 ELSE beat + 1
    <3>1. CASE Last(tx)
      <4>1. tx' = NoTransaction /\ beat = creq.len
        BY <1>2, <2>1, <2>3, <3>1 DEF Clock, AfterSync, LastWord
      <4> QED
        BY <4>1 DEF NoTransaction
    <3>2. CASE ~Last(tx)
      <4>1. tx' = Sync(tx) /\ beat # creq.len
        BY <1>2, <2>1, <2>3, <3>2 DEF Clock, AfterSync, LastWord
      <4>2. Sync(tx).busy = tx.busy /\ Sync(tx).N = tx.N + 1
        BY DEF IInv, TxFields, Sync
      <4> QED
        BY <2>1, <2>2, <4>1, <4>2
    <3> QED
      BY <3>1, <3>2
  <2>5. tx.addr \div 2 = BeatWord(creq, beat)
    BY <2>2 DEF BeatWord
  <2>6. /\ mem' = IF creq.write THEN [mem EXCEPT ![BeatWord(creq, beat)] = creq.data]
                  ELSE mem
        /\ got' = IF creq.write THEN got ELSE mem[BeatWord(creq, beat)]
    BY <1>2, <2>2, <2>5 DEF Clock
  <2>7. creq' \in Offers(creq, TRUE, beat = creq.len)
    <3>1. creq' \in Offers(creq, Ready, LastWord)
      BY DEF Clock
    <3>2. Ready = TRUE /\ LastWord = (beat = creq.len)
      BY <1>2, <2>1, <2>3 DEF Ready, LastWord, Last
    <3> QED
      BY <3>1, <3>2
  <2>8. Bus!Beat
    BY <2>2, <2>4, <2>6, <2>7
       DEF Bus!Beat, Bus!Offers, Bus!BeatWord, Bus!BeatAddr, Bus!Requests, Bus!Reads,
           Bus!Writes, Bus!Addr, Bus!NoRequest, Offers, BeatWord, BeatAddr, Requests, Reads,
           Writes, Addr, NoRequest
  <2> QED
    BY <2>8 DEF Bus!Next
<1> QED
  BY <1>1, <1>2

(* Whatever the pauses, the device moves the words of each burst once and in  *)
(* the order of an AXI wrapping burst, for every memory and every burst.      *)
THEOREM DeviceImplementsCBus == Spec => ImplementsCBus
<1>1. IInv /\ [Next]_vars => [Bus!Next]_Bus!vars
  <2> SUFFICES ASSUME IInv, [Next]_vars PROVE Bus!Next \/ UNCHANGED Bus!vars
    OBVIOUS
  <2>1. CASE Clock
    BY <2>1, StepRefines
  <2>2. CASE UNCHANGED vars
    BY <2>2 DEF vars, Bus!vars
  <2> QED
    BY <2>1, <2>2 DEF Next
<1> QED
  BY <1>1, InitRefines, Invariance, PTL DEF Spec, ImplementsCBus, Bus!Spec
=============================================================================

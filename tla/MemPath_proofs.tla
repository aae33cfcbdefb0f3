--------------------------- MODULE MemPath_proofs ---------------------------
(* Proofs about MemPath, for every set of addresses and page tables and      *)
(* every protection: the types, the safety properties of its runs, from one  *)
(* inductive invariant, and the decisions of the PMP check.                  *)
EXTENDS MemPath, SequenceTheorems, TLAPS

(* A data request belongs to the operation in E.                             *)
DataSide == dreq.valid => op.valid /\ dreq = op

(* While the MMU is walking or translating, user mode and satp stay, and the *)
(* request it has saved is still wanted: the fetch of pc, which may be       *)
(* answered under either index, or the data request, which then holds or is  *)
(* next to hold the bus.                                                     *)
Wanted == \/ fetching /\ saved = FetchOf(pc)
          \/ dreq.valid /\ saved = dreq /\ (busy => index = Data)
Leads(word, to) == word = to \/ Tainted(word)
WalkSide ==
    state # "IDLE" =>
        /\ Active
        /\ vaddr = saved.addr
        /\ Wanted
        /\ state = "L1" => walk = <<satp, vaddr>>
        /\ state = "L2" => Leads(walk, <<satp, vaddr, vaddr>>)
        /\ state = "L3" => Leads(walk, <<satp, vaddr, vaddr, vaddr>>)
        /\ state = "TRANSLATE" =>
              done /\ Leads(phys, <<satp, vaddr, vaddr, vaddr, vaddr>>)

(* The memory's transaction is the request on the bus.                       *)
DeviceSide == dev.busy => busy /\ StableOnBus

IInv == TypeOK /\ DataSide /\ WalkSide /\ DeviceSide
             /\ FetchGetsItsWord /\ BareAccessIsServed

----------------------------------------------------------------------------
(* Paths.                                                                    *)
LEMMA PathAppend ==
    ASSUME NEW p \in Path, NEW v \in Name PROVE Append(p, v) \in Path
  BY DEF Path

LEMMA PathsOfNames ==
    ASSUME NEW a \in Name, NEW b \in Name
    PROVE  /\ <<a>> \in Path /\ <<a, b>> \in Path
           /\ <<a, b, b>> \in Path /\ <<a, b, b, b>> \in Path
           /\ <<a, b, b, b, b>> \in Path
  BY DEF Path

LEMMA WalkAppend ==
    ASSUME NEW a \in Name, NEW b \in Name
    PROVE  /\ Append(<<a, b>>, b) = <<a, b, b>>
           /\ Append(<<a, b, b>>, b) = <<a, b, b, b>>
           /\ Append(<<a, b, b, b>>, b) = <<a, b, b, b, b>>
<1>1. Append(<<a, b>>, b) = <<a, b, b>>
  <2> DEFINE s == Append(<<a, b>>, b)
             t == <<a, b, b>>
  <2>1. <<a, b>> \in Seq(Name) /\ t \in Seq(Name)
    BY PathsOfNames DEF Path
  <2>2. /\ s \in Seq(Name) /\ Len(s) = 3 /\ Len(t) = 3
        /\ s[3] = b /\ \A i \in 1 .. 2 : s[i] = <<a, b>>[i]
    BY <2>1, AppendProperties
  <2>3. \A i \in 1 .. Len(s) : s[i] = t[i]
    BY <2>2
  <2> QED
    BY <2>1, <2>2, <2>3, SeqEqual
<1>2. Append(<<a, b, b>>, b) = <<a, b, b, b>>
  <2> DEFINE s == Append(<<a, b, b>>, b)
             t == <<a, b, b, b>>
  <2>1. <<a, b, b>> \in Seq(Name) /\ t \in Seq(Name)
    BY PathsOfNames DEF Path
  <2>2. /\ s \in Seq(Name) /\ Len(s) = 4 /\ Len(t) = 4
        /\ s[4] = b /\ \A i \in 1 .. 3 : s[i] = <<a, b, b>>[i]
    BY <2>1, AppendProperties
  <2>3. \A i \in 1 .. Len(s) : s[i] = t[i]
    BY <2>2
  <2> QED
    BY <2>1, <2>2, <2>3, SeqEqual
<1>3. Append(<<a, b, b, b>>, b) = <<a, b, b, b, b>>
  <2> DEFINE s == Append(<<a, b, b, b>>, b)
             t == <<a, b, b, b, b>>
  <2>1. <<a, b, b, b>> \in Seq(Name) /\ t \in Seq(Name)
    BY PathsOfNames DEF Path
  <2>2. /\ s \in Seq(Name) /\ Len(s) = 5 /\ Len(t) = 5
        /\ s[5] = b /\ \A i \in 1 .. 4 : s[i] = <<a, b, b, b>>[i]
    BY <2>1, AppendProperties
  <2>3. \A i \in 1 .. Len(s) : s[i] = t[i]
    BY <2>2
  <2> QED
    BY <2>1, <2>2, <2>3, SeqEqual
<1> QED
  BY <1>1, <1>2, <1>3

(* A step down the page table goes on from where the last one led.           *)
LEMMA TaintedAppend ==
    ASSUME NEW p \in Path, NEW v \in Name, Tainted(p)
    PROVE  Tainted(Append(p, v))
<1>1. PICK i \in 1 .. Len(p) : p[i] = Zero
  BY DEF Tainted
<1>2. Len(Append(p, v)) = Len(p) + 1 /\ Append(p, v)[i] = p[i] /\ Len(p) \in Nat
  BY <1>1 DEF Path
<1>3. i \in 1 .. Len(Append(p, v))
  BY <1>1, <1>2
<1> QED
  BY <1>1, <1>2, <1>3 DEF Tainted

LEMMA ZeroIsTainted == Tainted(<<Zero>>)
  BY DEF Tainted

----------------------------------------------------------------------------
(* What the types of the registers give the combinational signals.           *)
LEMMA AccessFields ==
    ASSUME NEW a \in Access
    PROVE  /\ a.valid \in BOOLEAN /\ a.write \in BOOLEAN
           /\ a.addr \in VAddr \cup {Zero} /\ a.addr \in Name
<1>1. CASE a = NoOp
  BY <1>1 DEF NoOp, Name
<1>2. CASE a \in [valid : {TRUE}, write : BOOLEAN, addr : VAddr]
  BY <1>2 DEF Name
<1> QED
  BY <1>1, <1>2 DEF Access

LEMMA SignalTypes ==
    ASSUME TypeOK
    PROVE  /\ InReq \in Access
           /\ MmuReq \in Request /\ OReq \in Request
           /\ RespData \in Path
           /\ Active => satp \in Roots
<1>1. NoOp \in Access /\ FetchAccess \in Access
  BY DEF TypeOK, Access, NoOp, FetchAccess, FetchOf
<1>2. InReq \in Access
  BY <1>1 DEF TypeOK, InReq, PortAccess
<1>3. InReq.valid \in BOOLEAN /\ InReq.write \in BOOLEAN /\ InReq.addr \in Name
      /\ saved.valid \in BOOLEAN /\ saved.write \in BOOLEAN
  BY <1>2, AccessFields DEF TypeOK
<1>4. <<InReq.addr>> \in Path /\ <<Zero>> \in Path /\ <<>> \in Path
  BY <1>2, <1>3, PathsOfNames DEF Name, Path
<1>5. NoRequest \in Request
  BY <1>4 DEF NoRequest, Request
<1>6. MmuReq \in Request
  BY <1>2, <1>3, <1>4, <1>5 DEF TypeOK, MmuReq, Request
<1>7. OReq \in Request
  BY <1>5, <1>6 DEF OReq
<1>8. RespData \in Path
  BY <1>4 DEF RespData, TypeOK
<1>9. Active => satp \in Roots
  BY DEF Active, TypeOK
<1> QED
  BY <1>2, <1>6, <1>7, <1>8, <1>9

----------------------------------------------------------------------------
(* Types are kept.                                                           *)
LEMMA MmuTypes ==
    ASSUME TypeOK, NEW last \in BOOLEAN, MmuStep(last)
    PROVE  /\ state' \in States /\ saved' \in Access
           /\ vaddr' \in VAddr \cup {Zero} /\ done' \in BOOLEAN
           /\ walk' \in Path /\ phys' \in Path
<1>1. CASE UNCHANGED mmu
  BY <1>1 DEF TypeOK, mmu
<1>2. CASE MmuStart
  <2>1. InReq.addr \in VAddr \cup {Zero}
    BY SignalTypes, AccessFields
  <2>2. <<satp, InReq.addr>> \in Path
    BY <1>2, <2>1, SignalTypes, PathsOfNames DEF MmuStart, Name
  <2> QED
    BY <1>2, <2>1, <2>2, SignalTypes DEF MmuStart, TypeOK, States
<1>3. Append(RespData, vaddr) \in Path
  BY SignalTypes, PathAppend DEF TypeOK, Name
<1>4. CASE MmuDescend
  BY <1>3, <1>4 DEF MmuDescend, TypeOK, States
<1>5. CASE MmuLeaf
  BY <1>3, <1>5 DEF MmuLeaf, TypeOK, States
<1>6. CASE MmuEnd
  BY <1>6 DEF MmuEnd, TypeOK, States
<1> QED
  BY <1>1, <1>2, <1>4, <1>5, <1>6 DEF MmuStep

LEMMA CoreTypes ==
    ASSUME TypeOK, NEW last \in BOOLEAN, CoreStep(last)
    PROVE  /\ pc' \in VAddr /\ fetching' \in BOOLEAN /\ queued' \in 0 .. 2
           /\ op' \in Access /\ dreq' \in Access
           /\ mode' \in Modes /\ fresh' \in BOOLEAN
           /\ satp' \in Roots \cup {Bare}
<1>1. dreq' \in Access
  BY DEF CoreStep, NextDataRequest, TypeOK, Access
<1>2. fresh' \in BOOLEAN
  BY DEF CoreStep, Moves, PortOk, TypeOK
<1>3. satp' \in Roots \cup {Bare}
  BY DEF CoreStep, WritesSatp, TypeOK
<1>4. CASE Moves(last) /\ Enter(last)
  <2>1. queued' \in 0 .. 2
    BY <1>4 DEF Enter, TypeOK
  <2> QED
    BY <1>1, <1>2, <1>3, <1>4, <2>1 DEF Enter
<1>5. CASE UNCHANGED <<pc, fetching, op, queued, mode>>
  BY <1>1, <1>2, <1>3, <1>5 DEF TypeOK
<1> QED
  BY <1>4, <1>5 DEF CoreStep

LEMMA RecordTypes ==
    ASSUME TypeOK, NEW last \in BOOLEAN, Record(last)
    PROVE  served' \in [port : Port \cup {2}, bare : BOOLEAN, asked : Path,
                        got : Path, write : BOOLEAN, wrote : BOOLEAN]
<1>1. InReq.addr \in Name /\ InReq.write \in BOOLEAN
  BY SignalTypes, AccessFields
<1>2. Expected(InReq) \in Path
  <2>1. CASE Active
    <3>1. satp \in Name
      BY <2>1, SignalTypes DEF Name
    <3> QED
      BY <1>1, <2>1, <3>1, PathsOfNames DEF Expected
  <2>2. CASE ~Active
    BY <1>1, <2>2, PathsOfNames DEF Expected
  <2> QED
    BY <2>1, <2>2
<1>3. Active \in BOOLEAN /\ MmuReq.write \in BOOLEAN
  BY SignalTypes DEF Active, Request
<1> QED
  BY <1>1, <1>2, <1>3, SignalTypes DEF Record, TypeOK

LEMMA TypeStep ==
    ASSUME TypeOK, NEW last \in BOOLEAN, Clock(last)
    PROVE  TypeOK'
<1>1. busy' \in BOOLEAN /\ index' \in Port
  <2>1. Valid \in [Port -> BOOLEAN]
    <3>1. dreq.valid \in BOOLEAN
      BY AccessFields DEF TypeOK
    <3>2. FetchAccess.valid \in BOOLEAN
      BY DEF FetchAccess, FetchOf, NoOp
    <3> QED
      BY <3>1, <3>2 DEF Valid, PortAccess, Port
  <2> QED
    BY <2>1 DEF Clock, ArbiterStep, ArbBusy, ArbIndex, Select, TypeOK, Port, Data, Fetch
<1>2. dev' \in [busy : BOOLEAN, path : Path, write : BOOLEAN]
  BY SignalTypes DEF Clock, DevStep, TypeOK, Request
<1> QED
  BY <1>1, <1>2, MmuTypes, CoreTypes, RecordTypes DEF Clock, TypeOK

----------------------------------------------------------------------------
(* A port that asks for nothing is not answered while the core is wanting    *)
(* something; an access that is asked for keeps the core where it is.        *)
LEMMA NoMove ==
    ASSUME NEW last \in BOOLEAN, CoreStep(last),
           fetching \/ op.valid, ~PortOk(Data, last), ~PortOk(Fetch, last)
    PROVE  UNCHANGED <<pc, fetching, op, mode>>
<1>1. ~Moves(last)
  BY DEF Moves
<1> QED
  BY <1>1 DEF CoreStep

(* While translation is on, neither satp nor, if the core does not move, the *)
(* MMU's activity changes; and it does not come on by itself.                *)
LEMMA ActiveStays ==
    ASSUME NEW last \in BOOLEAN, CoreStep(last), UNCHANGED mode
    PROVE  /\ Active => UNCHANGED satp
           /\ ~(mode = "U") \/ UNCHANGED satp
           /\ Active' <=> Active
<1>1. mode = "U" => UNCHANGED satp
  BY DEF CoreStep, WritesSatp
<1> QED
  BY <1>1 DEF Active

(* A walk in progress keeps its request: nothing answers either port before  *)
(* the translation is done, so pc, the data request, mode and satp stay.     *)
LEMMA WalkStays ==
    ASSUME TypeOK, DataSide, WalkSide, NEW last \in BOOLEAN, Clock(last),
           state # "IDLE", state' # "IDLE"
    PROVE  /\ UNCHANGED <<saved, vaddr, satp>>
           /\ Active' /\ Wanted'
<1>1. ~PortOk(Data, last) /\ ~PortOk(Fetch, last)
  <2>1. ~(Final /\ busy /\ RespOk(last))
    BY DEF Clock, MmuStep, MmuDescend, MmuLeaf, MmuEnd, Final
  <2> QED
    BY <2>1 DEF PortOk, Direct
<1>2. UNCHANGED <<saved, vaddr>>
  BY DEF Clock, MmuStep, MmuDescend, MmuLeaf, MmuEnd, mmu
<1>3. UNCHANGED <<pc, fetching, op, mode>>
  BY <1>1, NoMove DEF WalkSide, Wanted, DataSide, Clock
<1>4. Active' /\ UNCHANGED satp
  BY <1>3, ActiveStays DEF WalkSide, Clock
<1>5. dreq.valid => UNCHANGED dreq
  BY <1>1 DEF Clock, CoreStep, NextDataRequest
<1>6. CASE fetching /\ saved = FetchOf(pc)
  BY <1>2, <1>3, <1>4, <1>6 DEF Wanted, FetchOf
<1>7. CASE dreq.valid /\ saved = dreq /\ (busy => index = Data)
  <2>1. index' = Data
    BY <1>7 DEF Clock, ArbiterStep, ArbIndex, Select, Valid, PortAccess, Port
  <2> QED
    BY <1>2, <1>4, <1>5, <1>7, <2>1 DEF Wanted
<1> QED
  BY <1>6, <1>7 DEF WalkSide, Wanted

(* What the MMU is answered: zero, or the word its request leads to.         *)
LEMMA Answered ==
    ASSUME DeviceSide, NEW last \in BOOLEAN, last => dev.busy, RespOk(last)
    PROVE  RespData = <<Zero>> \/ RespData = MmuReq.path
  BY DEF DeviceSide, StableOnBus, RespOk, RespData, OReq

(* A walk begins with a request that is wanted.                              *)
LEMMA WalkBegins ==
    ASSUME TypeOK, DataSide, NEW last \in BOOLEAN, Clock(last),
           state = "IDLE", MmuStart
    PROVE  /\ Active' /\ UNCHANGED satp
           /\ vaddr' = saved.addr'
           /\ Wanted'
<1>1. ~PortOk(Data, last) /\ ~PortOk(Fetch, last)
  BY DEF MmuStart, PortOk, Direct, Final
<1>2. index = Data \/ index = Fetch
  BY DEF TypeOK, Port
<1>3. CASE index = Fetch
  <2>1. InReq = FetchOf(pc) /\ fetching
    BY <1>3 DEF MmuStart, InReq, PortAccess, FetchAccess, NoOp, Data, Fetch
  <2>2. UNCHANGED <<pc, fetching, op, mode>>
    BY <1>1, <2>1, NoMove DEF Clock
  <2> QED
    BY <2>1, <2>2, ActiveStays DEF MmuStart, Wanted, FetchOf, Clock
<1>4. CASE index = Data
  <2>1. InReq = dreq /\ dreq.valid /\ op.valid
    BY <1>4 DEF MmuStart, InReq, PortAccess, DataSide
  <2>2. UNCHANGED <<pc, fetching, op, mode>>
    BY <1>1, <2>1, NoMove DEF Clock
  <2>3. UNCHANGED dreq
    BY <1>1, <2>1 DEF Clock, CoreStep, NextDataRequest
  <2>4. index' = Data
    BY <1>4, <2>1 DEF Clock, ArbiterStep, ArbIndex, Select, Valid, PortAccess, Port
  <2> QED
    BY <2>1, <2>2, <2>3, <2>4, ActiveStays DEF MmuStart, Wanted, Clock
<1> QED
  BY <1>2, <1>3, <1>4

(* The inductive step of each part of the invariant.                         *)
LEMMA DataStep ==
    ASSUME TypeOK, DataSide, NEW last \in BOOLEAN, Clock(last)
    PROVE  DataSide'
<1>1. CASE PortOk(Data, last)
  BY <1>1 DEF DataSide, Clock, CoreStep, NextDataRequest, NoOp
<1>2. CASE ~PortOk(Data, last) /\ op.valid
  <2>1. UNCHANGED op
    BY <1>2 DEF Clock, CoreStep, Moves
  <2> QED
    BY <1>2, <2>1 DEF DataSide, Clock, CoreStep, NextDataRequest
<1>3. CASE ~PortOk(Data, last) /\ ~op.valid
  BY <1>3 DEF DataSide, Clock, CoreStep, NextDataRequest
<1> QED
  BY <1>1, <1>2, <1>3

LEMMA WalkStep ==
    ASSUME TypeOK, DataSide, WalkSide, DeviceSide,
           NEW last \in BOOLEAN, Clock(last), last => dev.busy
    PROVE  WalkSide'
<1> SUFFICES ASSUME state' # "IDLE" PROVE WalkSide'
  BY DEF WalkSide
<1>1. MmuStep(last)
  BY DEF Clock
<1>2. CASE state = "IDLE"
  <2>1. MmuStart
    BY <1>1, <1>2 DEF MmuStep, mmu
  <2> QED
    BY <1>2, <2>1, WalkBegins DEF MmuStart, WalkSide
<1>3. CASE state # "IDLE"
  <2>1. /\ UNCHANGED <<saved, vaddr, satp>>
        /\ Active' /\ Wanted'
    BY <1>3, WalkStays
  <2>2. CASE UNCHANGED mmu
    BY <1>3, <2>1, <2>2 DEF WalkSide, Leads, Tainted, mmu
  <2>3. CASE RespOk(last) /\ (MmuDescend \/ MmuLeaf)
    <3>1. Walking
      BY <2>3 DEF MmuDescend, MmuLeaf, Walking
    <3>2. RespData = <<Zero>> \/ RespData = walk
      <4>1. dev.busy \/ Denied(MmuReq)
        BY <2>3 DEF RespOk
      <4>2. busy
        BY <4>1 DEF DeviceSide, Denied, MmuReq, NoRequest
      <4>3. MmuReq.path = walk
        BY <3>1, <4>2 DEF MmuReq
      <4> QED
        BY <2>3, <4>3, Answered
    <3>3. Tainted(walk) => Tainted(Append(walk, vaddr))
      BY TaintedAppend DEF TypeOK, Name
    <3>4. Tainted(Append(<<Zero>>, vaddr))
      BY TaintedAppend, ZeroIsTainted, PathsOfNames DEF TypeOK, Name
    <3>5. /\ Append(<<satp, vaddr>>, vaddr) = <<satp, vaddr, vaddr>>
          /\ Append(<<satp, vaddr, vaddr>>, vaddr) = <<satp, vaddr, vaddr, vaddr>>
          /\ Append(<<satp, vaddr, vaddr, vaddr>>, vaddr)
                = <<satp, vaddr, vaddr, vaddr, vaddr>>
      BY WalkAppend DEF TypeOK, Name
    <3>6. /\ state = "L1" => Leads(Append(RespData, vaddr), <<satp, vaddr, vaddr>>)
          /\ state = "L2" => Leads(Append(RespData, vaddr), <<satp, vaddr, vaddr, vaddr>>)
          /\ state = "L3" => Leads(Append(RespData, vaddr),
                                   <<satp, vaddr, vaddr, vaddr, vaddr>>)
      BY <1>3, <3>2, <3>3, <3>4, <3>5 DEF WalkSide, Leads
    <3>7. CASE MmuDescend
      BY <1>3, <2>1, <3>6, <3>7 DEF MmuDescend, WalkSide, Leads, Tainted
    <3>8. CASE MmuLeaf
      BY <1>3, <2>1, <3>6, <3>8 DEF MmuLeaf, WalkSide, Leads, Tainted
    <3> QED
      BY <2>3, <3>7, <3>8
  <2> QED
    BY <1>1, <1>3, <2>2, <2>3 DEF MmuStep, MmuEnd
<1> QED
  BY <1>2, <1>3

(* A request on the bus that is not answered in this cycle is on the bus,    *)
(* unchanged, in the next.                                                   *)
LEMMA RequestStays ==
    ASSUME TypeOK, DataSide, WalkSide, Clock(FALSE), OReq.valid
    PROVE  busy' /\ OReq' = OReq
<1>1. busy /\ MmuReq.valid /\ ~Denied(MmuReq) /\ OReq = MmuReq
  BY DEF OReq, MmuReq, NoRequest
<1>2. ~RespOk(FALSE)
  BY <1>1 DEF RespOk
<1>3. ~PortOk(Data, FALSE) /\ ~PortOk(Fetch, FALSE)
  BY <1>2 DEF PortOk
<1>4. busy' = TRUE /\ UNCHANGED index
  BY <1>1 DEF Clock, ArbiterStep, ArbBusy, ArbIndex
<1>5. Walking \/ Final \/ Direct
  BY <1>1 DEF MmuReq, NoRequest
<1>6. UNCHANGED mmu
  BY <1>2, <1>5 DEF Clock, MmuStep, MmuStart, Walking, Final, Direct
<1>7. index = Data \/ index = Fetch
  BY DEF TypeOK, Port
<1>8. Direct => InReq.valid /\ (index = Data => dreq.valid) /\ (index = Fetch => fetching)
  BY DEF Direct, InReq, PortAccess, FetchAccess, NoOp, Data, Fetch
<1>9. fetching \/ op.valid
  BY <1>5, <1>7, <1>8 DEF WalkSide, Wanted, DataSide, Walking, Final
<1>10. UNCHANGED <<pc, fetching, op, mode>>
  BY <1>3, <1>9, NoMove DEF Clock
<1>11. Active' <=> Active
  BY <1>10, ActiveStays DEF Clock
<1>12. dreq.valid => UNCHANGED dreq
  BY <1>3 DEF Clock, CoreStep, NextDataRequest
<1>13. Direct => InReq' = InReq
  BY <1>4, <1>7, <1>8, <1>10, <1>12
     DEF InReq, PortAccess, FetchAccess, FetchOf, Data, Fetch
<1>14. MmuReq' = MmuReq
  <2>1. CASE Walking
    BY <1>1, <1>4, <1>6, <2>1 DEF MmuReq, Walking, mmu
  <2>2. CASE Final
    BY <1>1, <1>4, <1>6, <2>2 DEF MmuReq, Walking, Final, mmu
  <2>3. CASE Direct
    <3>1. Direct' /\ ~Walking /\ ~Walking' /\ ~Final /\ ~Final'
      BY <1>6, <1>11, <1>13, <2>3 DEF Direct, Walking, Final, mmu
    <3> QED
      BY <1>1, <1>4, <1>13, <2>3, <3>1 DEF MmuReq
  <2> QED
    BY <1>5, <2>1, <2>2, <2>3
<1>15. Denied(MmuReq)' <=> Denied(MmuReq)
  BY <1>10, <1>14 DEF Denied
<1> QED
  BY <1>1, <1>4, <1>14, <1>15 DEF OReq

LEMMA DeviceStep ==
    ASSUME TypeOK, DataSide, WalkSide, DeviceSide,
           NEW last \in BOOLEAN, Clock(last), last => dev.busy
    PROVE  DeviceSide'
<1>1. CASE last
  <2>1. dev'.busy = FALSE
    BY <1>1 DEF Clock, DevStep, TypeOK
  <2> QED
    BY <2>1 DEF DeviceSide
<1>2. CASE ~last /\ ~dev.busy
  <2>1. dev' = [busy |-> OReq.valid, path |-> OReq.path, write |-> OReq.write]
    BY <1>2 DEF Clock, DevStep
  <2>2. OReq.valid => busy' /\ OReq' = OReq
    BY <1>2, RequestStays
  <2> QED
    BY <2>1, <2>2 DEF DeviceSide, StableOnBus
<1>3. CASE ~last /\ dev.busy
  <2>1. dev' = dev
    BY <1>3 DEF Clock, DevStep, TypeOK
  <2>2. busy' /\ OReq' = OReq
    BY <1>3, RequestStays DEF DeviceSide, StableOnBus
  <2> QED
    BY <1>3, <2>1, <2>2 DEF DeviceSide, StableOnBus
<1> QED
  BY <1>1, <1>2, <1>3

(* An answer to a port carries the word of that port's request.              *)
LEMMA ServedStep ==
    ASSUME TypeOK, DataSide, WalkSide, DeviceSide,
           NEW last \in BOOLEAN, Clock(last), last => dev.busy
    PROVE  FetchGetsItsWord' /\ BareAccessIsServed'
<1>1. CASE ~PortOk(index, last)
  BY <1>1 DEF Clock, Record, TypeOK, FetchGetsItsWord, BareAccessIsServed, Data, Fetch
<1>2. CASE PortOk(index, last)
  <2>1. served' = [port |-> index, bare |-> ~Active,
                   asked |-> Expected(InReq), got |-> RespData,
                   write |-> InReq.write, wrote |-> MmuReq.write]
    BY <1>2 DEF Clock, Record
  <2>2. busy /\ (Final \/ Direct)
    BY <1>2 DEF PortOk
  <2>3. RespData = <<Zero>> \/ RespData = MmuReq.path
    BY <1>2, Answered DEF PortOk
  <2>4. CASE Direct
    <3>1. ~Active /\ MmuReq.path = <<InReq.addr>> /\ MmuReq.write = InReq.write
      BY <2>2, <2>4 DEF MmuReq, Direct, Walking, Final
    <3> QED
      BY <2>1, <2>3, <3>1, ZeroIsTainted
         DEF FetchGetsItsWord, BareAccessIsServed, Expected, Tainted
  <2>5. CASE Final
    <3>1. Active /\ MmuReq.path = phys
      BY <2>2, <2>5 DEF MmuReq, Walking, Final, WalkSide
    <3>2. Leads(phys, <<satp, saved.addr, saved.addr, saved.addr, saved.addr>>)
      BY <2>5 DEF Final, WalkSide
    <3>3. index = Fetch => saved = InReq
      BY <2>2, <2>5 DEF Final, WalkSide, Wanted, InReq, PortAccess, FetchAccess,
                        Data, Fetch
    <3> QED
      BY <2>1, <2>3, <3>1, <3>2, <3>3, ZeroIsTainted
         DEF FetchGetsItsWord, BareAccessIsServed, Expected, Leads, Tainted
  <2> QED
    BY <2>2, <2>4, <2>5
<1> QED
  BY <1>1, <1>2

----------------------------------------------------------------------------
LEMMA Initially == Init => IInv
<1> SUFFICES ASSUME Init PROVE IInv
  OBVIOUS
<1>1. NoOp \in Access /\ <<>> \in Path
  BY DEF Access, Path
<1>2. TypeOK
  <2>1. /\ pc \in VAddr /\ fetching \in BOOLEAN /\ queued = 0
        /\ mode \in Modes /\ fresh \in BOOLEAN /\ satp \in Roots \cup {Bare}
    BY DEF Init, Modes
  <2>6. queued \in 0 .. 2
    BY <2>1
  <2>2. /\ busy \in BOOLEAN /\ index \in Port /\ state \in States
        /\ vaddr \in VAddr \cup {Zero} /\ done \in BOOLEAN
    BY DEF Init, Port, States
  <2>3. op \in Access /\ dreq \in Access /\ saved \in Access
        /\ walk \in Path /\ phys \in Path
    BY <1>1 DEF Init
  <2>4. dev \in [busy : BOOLEAN, path : Path, write : BOOLEAN]
    BY <1>1 DEF Init
  <2>5. served \in [port : Port \cup {2}, bare : BOOLEAN, asked : Path,
                    got : Path, write : BOOLEAN, wrote : BOOLEAN]
    BY <1>1 DEF Init
  <2> QED
    BY <2>1, <2>2, <2>3, <2>4, <2>5, <2>6 DEF TypeOK
<1> QED
  BY <1>2 DEF Init, IInv, DataSide, WalkSide, DeviceSide, NoOp, Data, Fetch,
              FetchGetsItsWord, BareAccessIsServed

LEMMA Kept == IInv /\ [Next]_vars => IInv'
<1> SUFFICES ASSUME IInv, [Next]_vars PROVE IInv'
  OBVIOUS
<1> USE DEF IInv
<1>1. CASE Answer
  <2>1. Clock(TRUE) /\ dev.busy
    BY <1>1 DEF Answer
  <2> QED
    BY <2>1, TypeStep, DataStep, WalkStep, DeviceStep, ServedStep
<1>2. CASE Wait
  <2>1. Clock(FALSE)
    BY <1>2 DEF Wait
  <2> QED
    BY <2>1, TypeStep, DataStep, WalkStep, DeviceStep, ServedStep
<1>3. CASE UNCHANGED vars
  <2> USE <1>3 DEF vars, core, mmu
  <2>1. TypeOK'
    BY DEF TypeOK
  <2>2. InReq' = InReq /\ (Active' <=> Active)
    BY DEF InReq, PortAccess, FetchAccess, FetchOf, Active
  <2>3. MmuReq' = MmuReq
    BY <2>2 DEF MmuReq, Walking, Final, Direct
  <2>4. OReq' = OReq
    BY <2>3 DEF OReq, Denied
  <2>5. DataSide' /\ DeviceSide'
    BY <2>4 DEF DataSide, DeviceSide, StableOnBus
  <2>6. WalkSide'
    BY <2>2 DEF WalkSide, Wanted, FetchOf, Leads, Tainted
  <2>7. FetchGetsItsWord' /\ BareAccessIsServed'
    BY DEF FetchGetsItsWord, BareAccessIsServed, Tainted
  <2> QED
    BY <2>1, <2>5, <2>6, <2>7
<1> QED
  BY <1>1, <1>2, <1>3 DEF Next

LEMMA Invariance == Spec => []IInv
  BY Initially, Kept, PTL DEF Spec

(* Type correctness.                                                         *)
THEOREM TypesHold == Spec => []TypeOK
  BY Invariance, PTL DEF IInv

(* What CBusDevice asserts of its bus holds for every core, page table and   *)
(* protection the model allows.                                              *)
THEOREM BusIsStable == Spec => []StableOnBus
<1>1. IInv => StableOnBus
  BY DEF IInv, DeviceSide, StableOnBus
<1> QED
  BY Invariance, <1>1, PTL

(* Fetches get the word at their own translated pc, although the MMU drops   *)
(* data requests: no walk made for a data request is ever given to a fetch.  *)
THEOREM FetchesAreServed == Spec => []FetchGetsItsWord
  BY Invariance, PTL DEF IInv

(* With translation off, every data access is served at its own address.     *)
THEOREM BareAccessesAreServed == Spec => []BareAccessIsServed
  BY Invariance, PTL DEF IInv

(* No forbidden access reaches the memory, in any mode, under any walk.      *)
THEOREM Protection == Spec => []ProtectedUntouched
<1>1. IInv => ProtectedUntouched
  <2> SUFFICES ASSUME IInv, dev.busy, mode = "U" \/ Locked
               PROVE  dev.path \notin (IF dev.write THEN DenyWrite ELSE DenyRead)
    BY DEF ProtectedUntouched
  <2>1. OReq.valid /\ OReq.path = dev.path /\ OReq.write = dev.write
    BY DEF IInv, DeviceSide, StableOnBus
  <2>2. OReq = MmuReq /\ ~Denied(MmuReq)
    BY <2>1 DEF OReq, NoRequest
  <2> QED
    BY <2>1, <2>2 DEF Denied
<1> QED
  BY Invariance, <1>1, PTL

----------------------------------------------------------------------------
(* What the check decides.  A naturally aligned region has one size, and the  *)
(* code's base and top are its bounds.                                        *)
LEMMA NapotRegion ==
    ASSUME NEW p \in Nat, NEW size \in Sizes, p % (size \div 4) = (size \div 8) - 1,
           NEW addr \in Nat
    PROVE  LET base == 4 * p - ((4 * p) % NapotSize(p))
           IN  base <= addr /\ addr < base + NapotSize(p)
                 <=> addr \div size = (4 * p) \div size
<1>1. CASE size = 8
  <2>1. p % 2 = 0
    BY <1>1
  <2> QED
    BY <1>1, <2>1 DEF NapotSize
<1>2. CASE size = 16
  <2>1. p % 4 = 1
    BY <1>2
  <2>2. p % 2 = 1
    BY <2>1
  <2> QED
    BY <1>2, <2>1, <2>2 DEF NapotSize
<1>3. CASE size = 32
  <2>1. p % 8 = 3
    BY <1>3
  <2>2. p % 2 = 1 /\ p % 4 = 3
    BY <2>1
  <2> QED
    BY <1>3, <2>1, <2>2 DEF NapotSize
<1>4. CASE size = 4096
  <2>1. p % 1024 = 511
    BY <1>4
  <2>2. p % 2 = 1 /\ p % 4 = 3 /\ p % 8 = 7
    BY <2>1
  <2> QED
    BY <1>4, <2>1, <2>2 DEF NapotSize
<1> QED
  BY <1>1, <1>2, <1>3, <1>4 DEF Sizes

LEMMA MatchIsRegion ==
    ASSUME NEW e \in Entry, NEW size \in Sizes, Names(e, size), NEW addr \in Addrs
    PROVE  Match(e, addr) <=> addr \in Region(e, size)
<1>1. e.a \in MatchModes /\ e.addr \in Nat /\ addr \in Nat
  BY AddrAssumption DEF Entry
<1>2. CASE e.a = "NAPOT"
  <2>1. e.addr % (size \div 4) = (size \div 8) - 1
    BY <1>2 DEF Names
  <2>2. PICK p \in Nat : p = e.addr
    BY <1>1
  <2>3. LET base == 4 * p - ((4 * p) % NapotSize(p))
        IN  base <= addr /\ addr < base + NapotSize(p)
              <=> addr \div size = (4 * p) \div size
    BY <1>1, <2>1, <2>2, NapotRegion
  <2> QED
    BY <1>2, <2>2, <2>3 DEF Match, Base, Top, Region
<1>3. CASE e.a = "NA4"
  <2>1. PICK p \in Nat : p = e.addr
    BY <1>1
  <2>2. 4 * p <= addr /\ addr < 4 * p + 4 <=> addr \div 4 = p
    BY <1>1
  <2> QED
    BY <1>3, <2>1, <2>2 DEF Match, Base, Top, Region
<1>4. CASE e.a = "TOR"
  BY <1>1, <1>4 DEF Match, Base, Top, Region
<1>5. CASE e.a = "OFF"
  BY <1>5 DEF Match, Region
<1> QED
  BY <1>1, <1>2, <1>3, <1>4, <1>5 DEF MatchModes

(* Inside the region the check and the architecture ask for the same          *)
(* permissions.  Outside, the check allows and the architecture allows        *)
(* machine mode, so they agree but for user accesses.                         *)
LEMMA DecidesAsGranted ==
    ASSUME NEW k \in Kinds, NEW e \in Entry, NEW size \in Sizes, NEW req \in Requests(k),
           Names(e, size), ~UserOutside(e, size, req)
    PROVE  PermissionOk(e, req) = Granted(e, size, req)
<1>1. req.addr \in Addrs /\ req.mode \in {"U", "M"}
  BY DEF Requests, Kinds
<1>2. Match(e, req.addr) <=> req.addr \in Region(e, size)
  BY <1>1, MatchIsRegion
<1>3. CASE req.addr \in Region(e, size)
  BY <1>2, <1>3 DEF PermissionOk, Granted
<1>4. CASE req.addr \notin Region(e, size)
  <2>1. req.mode = "M"
    BY <1>1, <1>4 DEF UserOutside
  <2> QED
    BY <1>2, <1>4, <2>1 DEF PermissionOk, Granted
<1> QED
  BY <1>3, <1>4

LEMMA NoneMisjudged == Misjudged = {}
BY DecidesAsGranted, Zenon DEF Misjudged

(* The check decides as the architecture says, for every entry of one of the  *)
(* sizes it tells apart and every address: inside the entry's region in both  *)
(* modes and outside of it in machine mode.  Of user accesses outside of it,  *)
(* which PMP.sv lets pass, it says nothing.                                   *)
THEOREM DecisionIsRight == Spec => []PmpDecision
<1>1. PmpDecision
  BY NoneMisjudged DEF PmpDecision
<1> QED
  BY <1>1, PTL
=============================================================================

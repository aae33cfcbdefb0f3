--------------------------- MODULE Pipeline_proofs ---------------------------
(* Proofs about Pipeline, for every program, word size and interrupt: its     *)
(* requests on the two buses, the types, that each instruction is committed   *)
(* once, and that the pipeline implements the sequential machine ISA.        *)
EXTENDS Pipeline, TLAPS

(* A stall seen in the last cycle is still the stall of the instruction in E: *)
(* the pipeline is pushed on only by the answer that ends it.                *)
StallSide == stallmem_d => MemOp(E.ins.op)

(* The arbiter is busy only with a request that is being made.               *)
BusSide == busy => IF index = Fetch THEN ~PcMisaligned ELSE dreq.valid

IInv == RequestOfE /\ StallSide /\ BusSide

(* The three clock edges, each with the responses it can see.                *)
Answers(iok, dok) == /\ iok => busy /\ index = Fetch
                     /\ dok => busy /\ index = Data /\ dreq.valid
                     /\ ~(iok /\ dok)

LEMMA NextIsEdge ==
    ASSUME Next
    PROVE  \E iok, dok \in BOOLEAN : Answers(iok, dok) /\ Edge(iok, dok)
<1>1. CASE Wait
  BY <1>1 DEF Wait, Answers
<1>2. CASE FetchDone
  BY <1>2 DEF FetchDone, Answers
<1>3. CASE DataDone
  BY <1>3 DEF DataDone, Answers
<1> QED
  BY <1>1, <1>2, <1>3 DEF Next

----------------------------------------------------------------------------
(* A memory operation stays in E until its answer.                           *)
LEMMA EStays ==
    ASSUME NEW iok \in BOOLEAN, NEW dok \in BOOLEAN, Edge(iok, dok),
           MemOp(E.ins.op), ~dok
    PROVE  E' = E
<1>1. StallMem(dok)
  BY DEF StallMem
<1>2. ~Advance(D.valid, iok, dok)
  BY <1>1 DEF Advance, ForceFlush
<1> QED
  BY <1>2 DEF Edge

(* Without an answer nothing moves a pc that is being fetched.               *)
LEMMA PcStays ==
    ASSUME StallSide, Edge(FALSE, FALSE), ~PcMisaligned
    PROVE  pc' = pc
<1>1. StallPc(FALSE)
  BY DEF StallPc
<1>2. ~ForceFlush(FALSE)
  BY DEF ForceFlush, StallMem, StallSide
<1>3. ~MovePc(FALSE, FALSE)
  BY <1>1, <1>2 DEF MovePc
<1> QED
  BY <1>3 DEF Edge

LEMMA RequestStep ==
    ASSUME RequestOfE, NEW iok \in BOOLEAN, NEW dok \in BOOLEAN, Edge(iok, dok)
    PROVE  RequestOfE'
<1>1. dreq' = NextRequest(dok)
  BY DEF Edge
<1>2. CASE dok
  BY <1>1, <1>2 DEF NextRequest, NoReq, RequestOfE
<1>3. CASE ~dok /\ dreq.valid
  <2>1. dreq' = dreq
    BY <1>1, <1>3 DEF NextRequest
  <2>2. E' = E
    BY <1>3, EStays DEF RequestOfE
  <2> QED
    BY <2>1, <2>2 DEF RequestOfE
<1>4. CASE ~dok /\ ~dreq.valid /\ MemOp(E.ins.op)
  <2>1. dreq' = [valid |-> TRUE, write |-> MemWrite(E.ins.op), addr |-> E.aluout,
                 data |-> IF MemWrite(E.ins.op) THEN E.memwd ELSE 0]
    BY <1>1, <1>4 DEF NextRequest
  <2>2. E' = E
    BY <1>4, EStays
  <2> QED
    BY <1>4, <2>1, <2>2 DEF RequestOfE
<1>5. CASE ~dok /\ ~dreq.valid /\ ~MemOp(E.ins.op)
  BY <1>1, <1>5 DEF NextRequest, RequestOfE
<1> QED
  BY <1>2, <1>3, <1>4, <1>5

LEMMA StallStep ==
    ASSUME NEW iok \in BOOLEAN, NEW dok \in BOOLEAN, Edge(iok, dok)
    PROVE  StallSide'
<1>1. stallmem_d' = StallMem(dok)
  BY DEF Edge
<1>2. StallMem(dok) => E' = E
  BY EStays DEF StallMem
<1> QED
  BY <1>1, <1>2 DEF StallSide, StallMem

LEMMA BusStep ==
    ASSUME StallSide, BusSide, NEW iok \in BOOLEAN, NEW dok \in BOOLEAN,
           Answers(iok, dok), Edge(iok, dok)
    PROVE  BusSide'
<1> DEFINE valid == [p \in Port |-> IF p = Data THEN dreq.valid ELSE ~PcMisaligned]
<1> SUFFICES ASSUME busy' PROVE BusSide'
  BY DEF BusSide
<1>1. busy' = ArbBusy(busy, valid, iok \/ dok) /\ index' = ArbIndex(busy, index, valid)
  BY DEF Edge
<1>2. ~iok /\ ~dok
  BY <1>1 DEF ArbBusy, Answers
<1>3. Edge(FALSE, FALSE)
  BY <1>2
<1>4. dreq.valid => dreq' = dreq
  BY <1>3 DEF Edge, NextRequest
<1>5. ~PcMisaligned => ~PcMisaligned'
  BY <1>3, PcStays DEF PcMisaligned
<1>6. valid[Data] = dreq.valid /\ valid[Fetch] = ~PcMisaligned
  BY DEF Port, Data, Fetch
<1>7. CASE busy
  BY <1>1, <1>4, <1>5, <1>7 DEF ArbIndex, BusSide
<1>8. CASE ~busy
  <2>1. valid[Select(valid)] /\ index' = Select(valid)
    BY <1>1, <1>8 DEF ArbBusy, ArbIndex
  <2> HIDE DEF valid
  <2> QED
    BY <1>4, <1>5, <1>6, <2>1 DEF Select, BusSide, Data, Fetch
<1> QED
  BY <1>7, <1>8

----------------------------------------------------------------------------
LEMMA Initially == Init => IInv
  BY DEF Init, IInv, RequestOfE, StallSide, BusSide, NoReq

LEMMA Kept == IInv /\ [Next]_vars => IInv'
<1> SUFFICES ASSUME IInv, [Next]_vars PROVE IInv'
  OBVIOUS
<1>1. CASE Next
  <2>1. PICK iok, dok \in BOOLEAN : Answers(iok, dok) /\ Edge(iok, dok)
    BY <1>1, NextIsEdge
  <2> QED
    BY <2>1, RequestStep, StallStep, BusStep DEF IInv
<1>2. CASE UNCHANGED vars
  BY <1>2 DEF vars, stages, control, IInv, RequestOfE, StallSide, BusSide, PcMisaligned
<1> QED
  BY <1>1, <1>2

LEMMA Invariance == Spec => []IInv
  BY Initially, Kept, PTL DEF Spec

(* Every access made is the access of the instruction in E, with its address *)
(* and its data.                                                             *)
THEOREM RequestsBelongToE == Spec => []RequestOfE
  BY Invariance, PTL DEF IInv

(* While the arbiter is on a request the core does not change it.            *)
THEOREM RequestsAreHeld == Spec => RequestHeld
<1>1. IInv /\ [Next]_vars =>
        [busy /\ busy' => IF index = Fetch THEN pc' = pc ELSE dreq' = dreq]_vars
  <2> SUFFICES ASSUME IInv, Next, busy, busy'
               PROVE  IF index = Fetch THEN pc' = pc ELSE dreq' = dreq
    OBVIOUS
  <2>1. PICK iok, dok \in BOOLEAN : Answers(iok, dok) /\ Edge(iok, dok)
    BY NextIsEdge
  <2>2. ~iok /\ ~dok
    BY <2>1 DEF Edge, ArbBusy
  <2>3. Edge(FALSE, FALSE)
    BY <2>1, <2>2
  <2>4. index = Fetch => pc' = pc
    BY <2>3, PcStays DEF IInv, BusSide
  <2>5. index # Fetch => dreq' = dreq
    BY <2>3 DEF IInv, BusSide, Edge, NextRequest
  <2> QED
    BY <2>4, <2>5
<1> QED
  BY Invariance, <1>1, PTL DEF Spec, RequestHeld

----------------------------------------------------------------------------
(* Types.  What the operators on words return.                               *)
LEMMA Words ==
    /\ \A a, b \in Word : Add(a, b) \in Word
    /\ 0 .. 31 \subseteq Word
    /\ \A a \in Word : CellOf(a) \in Cell
<1>1. WordMod \in Nat /\ WordMod >= 32 /\ MemCells \in Nat \ {0}
  BY WordAssumption, CellAssumption
<1>2. \A n \in Int, m \in Nat \ {0} : n % m \in 0 .. m - 1
  OBVIOUS
<1>3. ASSUME NEW a \in Word, NEW b \in Word PROVE Add(a, b) \in Word
  <2>1. a + b \in Int /\ WordMod \in Nat \ {0}
    BY <1>1 DEF Word
  <2> QED
    BY <1>2, <2>1 DEF Add, Word
<1>4. ASSUME NEW a \in Word PROVE CellOf(a) \in Cell
  <2>1. a \div 2 \in Int
    BY DEF Word
  <2> QED
    BY <1>1, <1>2, <2>1 DEF CellOf, Cell
<1> QED
  BY <1>1, <1>3, <1>4 DEF Word

LEMMA Statuses ==
    ASSUME NEW s \in Word, NEW m
    PROVE  TrapStatus(s, m) \in Word /\ MretStatus(s) \in Word /\ MretMode(s) \in Modes
<1>1. s \in Nat
  BY WordAssumption DEF Word
<1>2. Bit(s, 0) \in {0, 1} /\ Bit(s, 1) \in {0, 1}
  BY <1>1 DEF Bit
<1>3. TrapStatus(s, m) \in 0 .. 31 /\ MretStatus(s) \in 0 .. 31
  BY <1>2 DEF TrapStatus, MretStatus, Status
<1> QED
  BY <1>3, Words DEF MretMode, Modes

LEMMA Masked == ASSUME NEW v \in Word, NEW name PROVE CsrMask(name, v) \in Word
<1>1. PICK n \in Nat : n = WordMod /\ n >= 32 /\ v \in 0 .. n - 1
  BY WordAssumption DEF Word
<1>2. 2 * (v \div 2) \in 0 .. n - 1 /\ v % 8 \in 0 .. n - 1
  BY <1>1
<1> QED
  BY <1>1, <1>2 DEF CsrMask, Word

(* Execute.                                                                  *)
LEMMA Operands ==
    ASSUME TypeOK PROVE OpA \in Word /\ OpB \in Word /\ AluOut \in Word
<1>1. D \in DSlot /\ E \in ESlot /\ M \in MSlot
  BY DEF TypeOK
<1>2. OpA \in Word /\ OpB \in Word
  BY <1>1 DEF OpA, OpB, Operand, DSlot, ESlot, MSlot
<1>3. D.pc \in Word /\ D.ins.imm \in Word /\ Step \in Word /\ 0 \in Word
  BY <1>1, Words DEF DSlot, Instr, Step
<1>4. AluOut \in Word
  BY <1>2, <1>3, Words DEF AluOut
<1> QED
  BY <1>2, <1>4

LEMMA Executed ==
    ASSUME TypeOK
    PROVE  /\ ExecuteSlot \in ESlot /\ NewMode \in Modes
           /\ BranchEnable \in BOOLEAN /\ BranchTarget \in Word
<1>1. D \in DSlot
  BY DEF TypeOK
<1>2. /\ D.pc \in Word /\ D.ins \in Instr /\ D.ins.imm \in Word /\ D.csrdata \in Word
      /\ D.status \in Word /\ D.exc \in Exc /\ D.mode \in Modes
      /\ Step \in Word /\ 0 \in Word
  BY <1>1, Words DEF DSlot, Instr, Step
<1>3. ExecuteExc \in Exc
  BY <1>2, Statuses DEF ExecuteExc, Exc
<1>4. ExecuteSlot \in ESlot
  BY <1>1, <1>2, <1>3, Operands DEF ExecuteSlot, ESlot, DSlot
<1>5. NewMode \in Modes
  BY <1>2, Statuses DEF NewMode, Modes
<1>6. BranchTarget \in Word
  BY <1>2, Operands, Words DEF BranchTarget
<1>7. BranchEnable \in BOOLEAN
  BY DEF BranchEnable
<1> QED
  BY <1>4, <1>5, <1>6, <1>7

(* Fetch and decode.                                                         *)
LEMMA Causes ==
    /\ NoIns \in Instr /\ NoExc \in Exc
    /\ \A l \in Lines : LineCause[l] \in Word
<1>1. NoIns \in Instr
  <2>1. 0 \in Reg /\ 0 \in Word
    BY RegAssumption, Words DEF Reg
  <2> QED
    BY <2>1 DEF NoIns, Instr, Ops, Csrs
<1>2. NoExc \in Exc
  BY Words DEF NoExc, Exc
<1>3. ASSUME NEW l \in Lines PROVE LineCause[l] \in Word
  BY Words DEF Lines, LineCause
<1> QED
  BY <1>1, <1>2, <1>3

LEMMA IrqIsEnabled ==
    ASSUME interrupts \subseteq Lines, Enabled # {}
    PROVE  \E l \in Enabled : IrqCause = LineCause[l]
<1>1. Enabled \subseteq Lines
  BY DEF Enabled
<1>2. /\ LineValue({"trint"}) = 4 /\ LineValue({"swint"}) = 2 /\ LineValue({"exint"}) = 1
  BY DEF LineValue
<1>3. \E l \in Enabled : \A k \in Enabled : LineValue({k}) <= LineValue({l})
  <2>1. CASE "trint" \in Enabled
    BY <1>1, <1>2, <2>1 DEF Lines
  <2>2. CASE "trint" \notin Enabled /\ "swint" \in Enabled
    BY <1>1, <1>2, <2>2 DEF Lines
  <2>3. CASE "trint" \notin Enabled /\ "swint" \notin Enabled
    <3>1. PICK e : e \in Enabled
      OBVIOUS
    <3> HIDE DEF Enabled
    <3>2. Enabled = {e} /\ e = "exint"
      BY <1>1, <2>3, <3>1 DEF Lines
    <3> QED
      BY <1>2, <3>2
  <2> QED
    BY <2>1, <2>2, <2>3
<1> HIDE DEF Enabled
<1> QED
  BY <1>3 DEF IrqCause

LEMMA IrqCauseIs ==
    ASSUME interrupts \subseteq Lines, Enabled # {} PROVE IrqCause \in Word
<1>1. PICK l \in Enabled : IrqCause = LineCause[l]
  BY IrqIsEnabled
<1>2. l \in Lines
  BY DEF Enabled
<1> QED
  BY <1>1, <1>2, Causes

WordAt(p, a) == p[((a \div Step) % Len(p)) + 1]

LEMMA ProgramWord ==
    ASSUME prog \in Programs, pc \in Word
    PROVE  /\ prog \in Seq(Instr) /\ FetchWord \in Instr
           /\ \A a \in Word : WordAt(prog, a).op \notin {"nop", "trap", "softtrap"}
           /\ FetchWord.op \notin {"nop", "trap", "softtrap"}
           /\ FetchWord.op = "store" => FetchWord.rd = 0
<1>1. /\ prog \in Seq(Instr) /\ Len(prog) \in Nat \ {0}
      /\ \A k \in 1 .. Len(prog) : /\ prog[k] \in Instr
                                   /\ prog[k].op \notin {"nop", "trap", "softtrap"}
                                   /\ prog[k].op = "store" => prog[k].rd = 0
  BY ProgramAssumption
<1>2. PICK n \in Nat \ {0} : n = Len(prog)
  BY <1>1
<1>3. ASSUME NEW a \in Word PROVE ((a \div Step) % n) + 1 \in 1 .. n
  <2>1. a \div Step \in Int
    BY DEF Word, Step
  <2>2. (a \div Step) % n \in 0 .. n - 1
    BY <1>2, <2>1
  <2> QED
    BY <2>2
<1>4. ASSUME NEW a \in Word
      PROVE  /\ WordAt(prog, a) \in Instr
             /\ WordAt(prog, a).op \notin {"nop", "trap", "softtrap"}
             /\ WordAt(prog, a).op = "store" => WordAt(prog, a).rd = 0
  BY <1>1, <1>2, <1>3 DEF WordAt
<1>5. FetchWord = WordAt(prog, pc)
  BY DEF FetchWord, WordAt
<1> QED
  BY <1>1, <1>4, <1>5

LEMMA Fetches ==
    ASSUME TypeOK, prog \in Programs, NEW iok \in BOOLEAN
    PROVE  Fetched(iok) \in FSlot /\ FetchSlot(iok) \in FSlot
<1>1. /\ pc \in Word /\ mode \in Modes /\ FetchWord \in Instr /\ NoIns \in Instr
      /\ NoExc \in Exc /\ interrupts \subseteq Lines
  BY ProgramWord, Causes DEF TypeOK
<1>2. ASSUME NEW raw \in BOOLEAN, NEW ins \in Instr, NEW exc \in Exc
      PROVE  Slot(raw, ins, exc) \in FSlot
  BY <1>1 DEF Slot, FSlot
<1>3. ASSUME NEW op \in Ops, NEW name \in Csrs PROVE TrapIns(op, name) \in Instr
  BY <1>1 DEF TrapIns, Instr
<1>4. ASSUME NEW cause \in Word PROVE TrapExc(cause) \in Exc
  BY <1>1 DEF TrapExc, Exc
<1>5. ASSUME NEW raw \in BOOLEAN, NEW cause \in Word PROVE TrapSlot(raw, cause) \in FSlot
  BY <1>2, <1>3, <1>4 DEF TrapSlot, Ops, Csrs
<1>6. 0 \in Word /\ 2 \in Word /\ 4 \in Word /\ 6 \in Word /\ 8 \in Word /\ 11 \in Word
  BY Words
<1>7. Decoded(FetchWord) \in FSlot
  <2> DEFINE i == FetchWord
  <2>1. CASE i.op = "zero"
    BY <1>5, <1>6, <2>1 DEF Decoded
  <2>2. CASE i.op = "illegal"
    BY <1>5, <1>6, <2>2 DEF Decoded
  <2>3. CASE i.op = "ecall"
    BY <1>5, <1>6, <2>3 DEF Decoded
  <2>4. CASE i.op = "ebreak"
    <3>1. TrapIns("softtrap", "mtvec") \in Instr /\ TrapExc(2) \in Exc
      BY <1>3, <1>4, <1>6 DEF Ops, Csrs
    <3> QED
      BY <1>2, <2>4, <3>1 DEF Decoded
  <2>5. CASE i.op = "mret"
    <3>1. TrapIns("mret", "mepc") \in Instr
      BY <1>3 DEF Ops, Csrs
    <3>2. [NoExc EXCEPT !.en = TRUE, !.mret = TRUE] \in Exc
      BY <1>1 DEF Exc
    <3> QED
      BY <1>2, <2>5, <3>1, <3>2 DEF Decoded
  <2>6. CASE i.op \notin {"zero", "illegal", "ecall", "ebreak", "mret"}
    BY <1>1, <1>2, <2>6 DEF Decoded
  <2> QED
    BY <2>1, <2>2, <2>3, <2>4, <2>5, <2>6
<1>8. Fetched(iok) \in FSlot
  <2> DEFINE raw == iok /\ FetchWord.op # "zero"
  <2>1. raw \in BOOLEAN /\ MemCause \in Word /\ 0 \in Word
    BY <1>6 DEF MemCause
  <2>2. Interrupted(iok) => IrqCause \in Word
    BY <1>1, IrqCauseIs DEF Interrupted
  <2> QED
    BY <1>1, <1>2, <1>5, <1>7, <2>1, <2>2, Zenon DEF Fetched
<1>9. \A f \in FSlot : Squash(f) \in FSlot
  BY <1>1 DEF Squash, FSlot, Instr, Ops
<1> QED
  BY <1>8, <1>9 DEF FetchSlot

LEMMA Decodes == ASSUME TypeOK PROVE DecodeSlot \in DSlot
<1> DEFINE f == IF StallDecode THEN Squash(F) ELSE F
<1>1. F \in FSlot /\ reg \in [Reg -> Word] /\ csr \in [Csrs -> Word]
  BY DEF TypeOK
<1>2. f \in FSlot
  BY <1>1, Causes DEF Squash, FSlot, Instr, Ops
<1>3. /\ f.ins \in Instr /\ reg[f.ins.rs1] \in Word /\ reg[f.ins.rs2] \in Word
      /\ csr[f.ins.csr] \in Word
  BY <1>1, <1>2 DEF FSlot, Instr
<1>4. csr.mstatus \in Word /\ 0 \in Word
  BY <1>1, Words DEF Csrs
<1> HIDE DEF f
<1>5. DecodeSlot = [valid |-> TRUE, raw |-> f.raw, pc |-> f.pc, ins |-> f.ins,
         exc |-> f.exc, mode |-> f.mode,
         srca |-> reg[f.ins.rs1], srcb |-> reg[f.ins.rs2],
         csrdata |-> csr[f.ins.csr],
         status |-> IF Raises(F.ins.op) \/ F.ins.op = "mret"
                    THEN csr.mstatus ELSE 0]
  BY DEF DecodeSlot, f
<1> QED
  BY <1>2, <1>3, <1>4, <1>5 DEF FSlot, DSlot

(* Memory and writeback.                                                     *)
LEMMA Remembers == ASSUME TypeOK PROVE MemorySlot \in MSlot
<1>1. E \in ESlot /\ dreq \in DReq /\ mem \in [Cell -> Word]
  BY DEF TypeOK
<1>2. mem[CellOf(dreq.addr)] \in Word /\ 0 \in Word
  BY <1>1, Words DEF DReq
<1> QED
  BY <1>1, <1>2 DEF MemorySlot, MSlot, ESlot

LEMMA Requests ==
    ASSUME TypeOK, NEW dok \in BOOLEAN PROVE NextRequest(dok) \in DReq
<1>1. E \in ESlot /\ dreq \in DReq /\ 0 \in Word
  BY Words DEF TypeOK
<1> QED
  BY <1>1 DEF NextRequest, NoReq, DReq, ESlot, MemOp, MemRead, MemWrite

LEMMA Written ==
    ASSUME TypeOK
    PROVE  /\ RegAfter(reg, M.ins.op, M.ins.rd, M.wd) \in [Reg -> Word]
           /\ CsrAfter(ExcAfter(csr, M.exc), E) \in [Csrs -> Word]
<1>1. /\ E \in ESlot /\ M \in MSlot /\ reg \in [Reg -> Word] /\ csr \in [Csrs -> Word]
  BY DEF TypeOK
<1>2. RegAfter(reg, M.ins.op, M.ins.rd, M.wd) \in [Reg -> Word]
  BY <1>1 DEF RegAfter, MSlot, Instr
<1>3. M.exc.status \in Word /\ M.exc.cause \in Word /\ M.exc.epc \in Word
  BY <1>1 DEF MSlot, Exc
<1>4. ExcAfter(csr, M.exc) \in [Csrs -> Word]
  BY <1>1, <1>3 DEF ExcAfter, Csrs
<1>5. E.aluout \in Word /\ E.ins.csr \in Csrs
  BY <1>1 DEF ESlot, Instr
<1>6. CsrAfter(ExcAfter(csr, M.exc), E) \in [Csrs -> Word]
  BY <1>4, <1>5, Masked DEF CsrAfter
<1> QED
  BY <1>2, <1>6

Types == TypeOK /\ prog \in Programs

LEMMA TypesInitially == Init => Types
<1> SUFFICES ASSUME Init PROVE Types
  OBVIOUS
<1>1. NoIns \in Instr /\ NoExc \in Exc /\ 0 \in Word
  BY Causes, Words
<1>2. prog \in Programs /\ prog \in Seq(Instr)
  BY ProgramAssumption DEF Init
<1>3. F \in FSlot /\ D \in DSlot /\ E \in ESlot /\ M \in MSlot /\ W \in WSlot
  BY <1>1 DEF Init, FSlot, DSlot, ESlot, MSlot, WSlot, Modes
<1>4. dreq \in DReq
  BY <1>1 DEF Init, NoReq, DReq
<1>5. mem \in [Cell -> Word] /\ reg \in [Reg -> Word] /\ csr \in [Csrs -> Word]
  BY <1>1 DEF Init
<1>6. /\ pc \in Word /\ mode \in Modes /\ stallmem_d \in BOOLEAN
      /\ branch_enable_d \in BOOLEAN /\ branch_target_d \in Word
      /\ interrupts \subseteq Lines /\ interrupts_d \subseteq Lines
      /\ receive \in BOOLEAN /\ canRecover \in BOOLEAN
      /\ busy \in BOOLEAN /\ index \in Port /\ shown \in BOOLEAN
  BY <1>1 DEF Init, Modes, Port
<1> QED
  BY <1>2, <1>3, <1>4, <1>5, <1>6 DEF Types, TypeOK

LEMMA TypesStep ==
    ASSUME Types, NEW iok \in BOOLEAN, NEW dok \in BOOLEAN, Edge(iok, dok)
    PROVE  Types'
<1>0. TypeOK /\ prog \in Programs /\ prog' = prog
  BY DEF Types, Edge
<1>1. prog' \in Programs /\ prog' \in Seq(Instr)
  BY <1>0, ProgramAssumption
<1>2. pc' \in Word
  <2>1. Step \in Word /\ pc \in Word /\ branch_target_d \in Word
    BY <1>0, Words DEF Step, TypeOK
  <2> QED
    BY <2>1, Words DEF Edge
<1>3. F' \in FSlot /\ D' \in DSlot
  BY <1>0, Fetches, Decodes DEF Edge, TypeOK
<1>4. E' \in ESlot /\ M' \in MSlot /\ mode' \in Modes
  BY <1>0, Executed, Remembers DEF Edge, TypeOK
<1>5. W' \in WSlot
  BY <1>0 DEF Edge, TypeOK, WSlot, MSlot
<1>6. reg' \in [Reg -> Word] /\ csr' \in [Csrs -> Word]
  BY <1>0, Written DEF Edge
<1>7. mem' \in [Cell -> Word]
  <2>1. mem \in [Cell -> Word] /\ dreq.data \in Word
    BY <1>0 DEF TypeOK, DReq
  <2> QED
    BY <2>1 DEF Edge
<1>8. dreq' \in DReq /\ stallmem_d' \in BOOLEAN
  BY <1>0, Requests DEF Edge, StallMem, MemOp, MemRead, MemWrite
<1>9. branch_enable_d' \in BOOLEAN /\ branch_target_d' \in Word
  BY <1>0, Executed, Words DEF Edge
<1>10. interrupts' \subseteq Lines /\ interrupts_d' \subseteq Lines
  BY <1>0, LineAssumption DEF Edge, TypeOK
<1>11. receive' \in BOOLEAN /\ canRecover' \in BOOLEAN /\ shown' \in BOOLEAN
  BY Zenon DEF Edge
<1>12. busy' \in BOOLEAN /\ index' \in Port
  <2> DEFINE valid == [p \in Port |-> IF p = Data THEN dreq.valid ELSE ~PcMisaligned]
  <2>1. busy' = ArbBusy(busy, valid, iok \/ dok) /\ index' = ArbIndex(busy, index, valid)
    BY DEF Edge
  <2>2. \A p \in Port : valid[p] \in BOOLEAN
    BY <1>0 DEF TypeOK, DReq, PcMisaligned, IsMisaligned
  <2> HIDE DEF valid
  <2> QED
    BY <1>0, <2>1, <2>2 DEF TypeOK, ArbBusy, ArbIndex, Select, Port
<1> QED
  BY <1>1, <1>2, <1>3, <1>4, <1>5, <1>6, <1>7, <1>8, <1>9, <1>10, <1>11, <1>12
     DEF Types, TypeOK

----------------------------------------------------------------------------
(* Control.  The stages fill up from the front, and one that is not filled    *)
(* yet holds nothing.                                                        *)
Empty(slot) == slot.ins.op = "nop" /\ ~slot.raw
ValidSide == /\ M.valid => E.valid
             /\ E.valid => D.valid
             /\ D.valid => F.valid
             /\ ~F.valid => Empty(F)
             /\ ~D.valid => Empty(D)
             /\ ~E.valid => Empty(E)
             /\ ~M.valid => Empty(M)

(* Once a request is out, or an access waited for, the registers written a    *)
(* cycle after the stages have caught up with them.                          *)
Settled == /\ branch_enable_d = BranchEnable
           /\ branch_enable_d => branch_target_d = BranchTarget
           /\ reg = RegAfter(reg, M.ins.op, M.ins.rd, M.wd)
           /\ csr = CsrAfter(ExcAfter(csr, M.exc), E)
SettledSide == busy \/ stallmem_d => Settled

(* A branch is taken while the instruction is in decode, or has left it empty.*)
BranchSide == branch_enable_d => /\ D.valid
                                 /\ BranchEnable \/ ~Live(D)

(* At a misaligned pc only its own traps come in, and no access is waited for.*)
OnlyTraps(slot) == \/ slot.ins.op = "nop"
                   \/ slot.ins.op = "trap" /\ slot.ins.rd = 0 /\ slot.ins.rs1 = 0
OddSide == PcMisaligned => OnlyTraps(F) /\ OnlyTraps(D) /\ ~MemOp(E.ins.op)

RequestSide == dreq.valid => stallmem_d

Control == /\ IInv /\ ValidSide /\ SettledSide /\ BranchSide /\ OddSide /\ RequestSide

(* Whether the filled stages move in a cycle.                                *)
Goes(iok, dok) == Advance(TRUE, iok, dok)

LEMMA Lockstep ==
    ASSUME ValidSide, StallSide, NEW iok \in BOOLEAN, NEW dok \in BOOLEAN, Edge(iok, dok)
    PROVE  /\ ~Goes(iok, dok) => UNCHANGED <<D, E, M>>
           /\ Goes(iok, dok) => /\ D' = IF F.valid THEN DecodeSlot ELSE D
                                /\ E' = IF D.valid THEN ExecuteSlot ELSE E
                                /\ M' = IF E.valid THEN MemorySlot ELSE M
<1>1. ForceFlush(dok) => F.valid /\ D.valid /\ E.valid
  BY DEF ForceFlush, StallSide, ValidSide, Empty, MemOp, MemRead, MemWrite
<1>2. ASSUME NEW v PROVE Advance(v, iok, dok) <=> Goes(iok, dok) /\ (v \/ ForceFlush(dok))
  BY DEF Advance, Goes
<1>3. /\ D' = IF Advance(F.valid, iok, dok) THEN DecodeSlot ELSE D
      /\ E' = IF Advance(D.valid, iok, dok) THEN ExecuteSlot ELSE E
      /\ M' = IF Advance(E.valid, iok, dok) THEN MemorySlot ELSE M
  BY DEF Edge
<1> QED
  BY <1>1, <1>2, <1>3

LEMMA WhatGoes ==
    ASSUME IInv, NEW iok \in BOOLEAN, NEW dok \in BOOLEAN, Answers(iok, dok)
    PROVE  /\ Goes(iok, dok) => ~StallMem(dok) /\ (iok \/ dok \/ PcMisaligned)
           /\ iok => ~PcMisaligned
           /\ dok => dreq.valid /\ MemOp(E.ins.op)
           /\ iok \/ dok => busy
<1>1. ForceFlush(dok) => ~StallMem(dok) /\ dok
  BY DEF ForceFlush, StallMem, IInv, StallSide
<1> QED
  BY <1>1 DEF Goes, Advance, StallPc, Answers, IInv, BusSide, RequestOfE

(* The arbiter after the edge.                                               *)
LEMMA BusAfter ==
    ASSUME IInv, Types, NEW iok \in BOOLEAN, NEW dok \in BOOLEAN, Answers(iok, dok),
           Edge(iok, dok)
    PROVE  /\ iok \/ dok => ~busy'
           /\ busy /\ ~iok /\ ~dok => busy' /\ index' = index
           /\ ~busy => /\ busy' <=> dreq.valid \/ ~PcMisaligned
                       /\ busy' => index' = IF dreq.valid THEN Data ELSE Fetch
           /\ busy => index \in {Data, Fetch}
<1> DEFINE valid == [p \in Port |-> IF p = Data THEN dreq.valid ELSE ~PcMisaligned]
<1>1. busy' = ArbBusy(busy, valid, iok \/ dok) /\ index' = ArbIndex(busy, index, valid)
  BY DEF Edge
<1>2. valid[Data] = dreq.valid /\ valid[Fetch] = ~PcMisaligned /\ Data # Fetch
  BY DEF Port, Data, Fetch
<1>3. iok \/ dok => busy
  BY WhatGoes
<1>4. index \in {Data, Fetch}
  BY DEF Types, TypeOK, Port
<1> HIDE DEF valid
<1> QED
  BY <1>1, <1>2, <1>3, <1>4 DEF ArbBusy, ArbIndex, Select

LEMMA ValidStep ==
    ASSUME IInv, ValidSide, NEW iok \in BOOLEAN, NEW dok \in BOOLEAN, Edge(iok, dok)
    PROVE  ValidSide'
<1>1. F' = F \/ F'.valid
  BY DEF Edge, FetchSlot, Fetched, TrapSlot, Decoded, Slot, Squash
<1>2. DecodeSlot.valid /\ MemorySlot.valid
  BY DEF DecodeSlot, MemorySlot
<1>3. /\ ExecuteSlot.valid = D.valid /\ ExecuteSlot.ins = D.ins /\ ExecuteSlot.raw = D.raw
  BY DEF ExecuteSlot
<1>4. CASE ~Goes(iok, dok)
  <2>1. UNCHANGED <<D, E, M>>
    BY <1>4, Lockstep DEF IInv
  <2> QED
    BY <1>1, <2>1 DEF ValidSide, Empty
<1>5. CASE Goes(iok, dok)
  <2>1. /\ D' = IF F.valid THEN DecodeSlot ELSE D
        /\ E' = IF D.valid THEN ExecuteSlot ELSE E
        /\ M' = IF E.valid THEN MemorySlot ELSE M
    BY <1>5, Lockstep DEF IInv
  <2> QED
    BY <1>1, <1>2, <1>3, <2>1 DEF ValidSide, Empty
<1> QED
  BY <1>4, <1>5

LEMMA RequestSideStep ==
    ASSUME IInv, NEW iok \in BOOLEAN, NEW dok \in BOOLEAN, Edge(iok, dok)
    PROVE  RequestSide'
<1>1. dreq' = NextRequest(dok) /\ stallmem_d' = StallMem(dok)
  BY DEF Edge
<1>2. dreq'.valid => ~dok /\ MemOp(E.ins.op)
  BY <1>1 DEF NextRequest, NoReq, IInv, RequestOfE
<1> QED
  BY <1>1, <1>2 DEF RequestSide, StallMem

(* What the stages show when they stand still.                               *)
LEMMA StandStill ==
    ASSUME Types, UNCHANGED <<D, E, M>>,
           NEW iok \in BOOLEAN, NEW dok \in BOOLEAN, Edge(iok, dok)
    PROVE  Settled'
<1>1. /\ branch_enable_d' = BranchEnable
      /\ branch_target_d' = IF BranchEnable THEN BranchTarget ELSE 0
      /\ reg' = RegAfter(reg, M.ins.op, M.ins.rd, M.wd)
      /\ csr' = CsrAfter(ExcAfter(csr, M.exc), E)
  BY DEF Edge
<1>2. BranchEnable' = BranchEnable /\ BranchTarget' = BranchTarget
  BY DEF BranchEnable, BranchTarget, OpA, OpB, Operand, Forwards
<1>3. RegAfter(reg', M.ins.op, M.ins.rd, M.wd) = reg'
  <2>1. reg \in [Reg -> Word]
    BY DEF Types, TypeOK
  <2> QED
    BY <1>1, <2>1 DEF RegAfter
<1>4. CsrAfter(ExcAfter(csr', M.exc), E) = csr'
  <2>1. csr \in [Csrs -> Word]
    BY DEF Types, TypeOK
  <2> QED
    BY <1>1, <2>1 DEF CsrAfter, ExcAfter
<1> QED
  BY <1>1, <1>2, <1>3, <1>4 DEF Settled

LEMMA SettledStep ==
    ASSUME Types, IInv, ValidSide, NEW iok \in BOOLEAN, NEW dok \in BOOLEAN,
           Answers(iok, dok), Edge(iok, dok)
    PROVE  SettledSide'
<1> SUFFICES ASSUME busy' \/ stallmem_d' PROVE Settled'
  BY DEF SettledSide
<1>1. ~Goes(iok, dok)
  <2>1. CASE stallmem_d'
    BY <2>1, WhatGoes DEF Edge
  <2>2. CASE busy' /\ ~StallMem(dok)
    <3>1. ~iok /\ ~dok
      BY <2>2, BusAfter
    <3>2. ~MemOp(E.ins.op)
      BY <2>2, <3>1 DEF StallMem
    <3>3. ~dreq.valid
      BY <3>2 DEF IInv, RequestOfE
    <3>4. ~PcMisaligned
      BY <2>2, <3>1, <3>3, BusAfter DEF IInv, BusSide
    <3> QED
      BY <3>1, <3>4, WhatGoes
  <2> QED
    BY <2>1, <2>2, WhatGoes
<1>2. UNCHANGED <<D, E, M>>
  BY <1>1, Lockstep DEF IInv
<1> QED
  BY <1>2, StandStill

(* Decode leaves an instruction behind a branch empty.                       *)
LEMMA DecodeEmpties ==
    /\ StallDecode => DecodeSlot.ins.op = "nop"
    /\ ~StallDecode => DecodeSlot.ins = F.ins
  BY DEF DecodeSlot, Squash

LEMMA BehindBranch ==
    ASSUME Types, Control, NEW iok \in BOOLEAN, NEW dok \in BOOLEAN,
           Answers(iok, dok), Edge(iok, dok), Goes(iok, dok), BranchEnable
    PROVE  D' = DecodeSlot /\ D'.valid /\ D'.ins.op = "nop"
<1>1. D.valid
  BY DEF Control, ValidSide, Empty, BranchEnable, CsrSrc
<1>2. D' = DecodeSlot /\ D'.valid
  BY <1>1, Lockstep DEF Control, IInv, ValidSide, DecodeSlot
<1>3. DecodeSlot.ins.op = "nop"
  <2>1. CASE branch_enable_d
    BY <2>1, DecodeEmpties DEF StallDecode
  <2>2. CASE ~branch_enable_d
    <3>1. ~busy
      BY <2>2 DEF Control, SettledSide, Settled
    <3>2. PcMisaligned
      BY <3>1, WhatGoes DEF Control
    <3>3. OnlyTraps(F) /\ OnlyTraps(D)
      BY <3>2 DEF Control, OddSide
    <3>4. D.ins.op = "trap" /\ D.ins.rd = 0
      BY <3>3 DEF OnlyTraps, BranchEnable, CsrSrc
    <3>5. F.ins.op # "nop" => StallLU
      BY <2>2, <3>3, <3>4 DEF OnlyTraps, StallLU, CsrSrc
    <3> QED
      BY <3>5, DecodeEmpties DEF StallDecode
  <2> QED
    BY <2>1, <2>2
<1> QED
  BY <1>2, <1>3

LEMMA BranchStep ==
    ASSUME Types, Control, NEW iok \in BOOLEAN, NEW dok \in BOOLEAN,
           Answers(iok, dok), Edge(iok, dok)
    PROVE  BranchSide'
<1> SUFFICES ASSUME branch_enable_d' PROVE D'.valid /\ (BranchEnable' \/ ~Live(D)')
  BY DEF BranchSide
<1>1. BranchEnable
  BY DEF Edge
<1>2. D.valid
  BY <1>1 DEF Control, ValidSide, Empty, BranchEnable, CsrSrc
<1>3. CASE ~Goes(iok, dok)
  <2>1. UNCHANGED <<D, E, M>>
    BY <1>3, Lockstep DEF Control, IInv
  <2>2. BranchEnable' = BranchEnable
    BY <2>1 DEF BranchEnable, OpA, OpB, Operand, Forwards
  <2> QED
    BY <1>1, <1>2, <2>1, <2>2
<1>4. CASE Goes(iok, dok)
  BY <1>1, <1>4, BehindBranch DEF Live
<1> QED
  BY <1>3, <1>4

(* A taken branch empties what was fetched behind it.                        *)
LEMMA FetchEmpties ==
    ASSUME Types, NEW iok \in BOOLEAN, branch_enable_d
    PROVE  FetchSlot(iok).ins.op = "nop"
<1>1. Fetched(iok) \in FSlot
  BY Fetches DEF Types
<1>2. FetchSlot(iok) = Squash(Fetched(iok))
  BY DEF FetchSlot
<1> QED
  BY <1>1, <1>2 DEF Squash, FSlot, Instr

LEMMA NextAddress ==
    ASSUME NEW a \in Word, NEW n \in Nat, n = WordMod, n >= 32
    PROVE  Add(a, Step) = IF a + 2 < n THEN a + 2 ELSE a + 2 - n
<1>1. PICK b \in 0 .. n + 1 : b = a + 2
  BY DEF Word
<1>2. b % n = IF b < n THEN b ELSE b - n
  <2>1. CASE b < n
    BY <2>1
  <2>2. CASE b = n
    BY <2>2
  <2>3. CASE b = n + 1
    BY <2>3
  <2> QED
    BY <1>1, <2>1, <2>2, <2>3
<1> QED
  BY <1>1, <1>2 DEF Add, Step, Word

LEMMA Parity == ASSUME NEW a \in Word PROVE IsMisaligned(Add(a, Step)) <=> IsMisaligned(a)
<1>1. PICK n \in Nat : n = WordMod /\ n >= 32 /\ n % 8 = 0
  BY WordAssumption
<1>2. a \in 0 .. n - 1 /\ n % 2 = 0
  BY <1>1 DEF Word
<1>3. PICK b \in Nat : b = IF a + 2 < n THEN a + 2 ELSE a + 2 - n
  BY <1>1, <1>2
<1>4. b % 2 = a % 2
  BY <1>1, <1>2, <1>3
<1>5. Add(a, Step) = b
  BY <1>1, <1>3, NextAddress
<1> QED
  BY <1>4, <1>5 DEF IsMisaligned

LEMMA OddStep ==
    ASSUME Types, Control, NEW iok \in BOOLEAN, NEW dok \in BOOLEAN,
           Answers(iok, dok), Edge(iok, dok)
    PROVE  OddSide'
<1> SUFFICES ASSUME PcMisaligned'
             PROVE  OnlyTraps(F)' /\ OnlyTraps(D)' /\ ~MemOp(E.ins.op)'
  BY DEF OddSide
<1>0. OnlyTraps(F)' = OnlyTraps(F') /\ OnlyTraps(D)' = OnlyTraps(D')
  BY DEF OnlyTraps
<1>1. CASE PcMisaligned
  <2>1. OnlyTraps(F) /\ OnlyTraps(D) /\ ~MemOp(E.ins.op)
    BY <1>1 DEF Control, OddSide
  <2>2. ~iok
    BY <1>1, WhatGoes DEF Control
  <2>3. OnlyTraps(FetchSlot(iok))
    <3>1. Fetched(iok) = TrapSlot(FALSE, 0)
      BY <1>1, <2>2 DEF Fetched, Interrupted
    <3>2. OnlyTraps(TrapSlot(FALSE, 0))
      BY DEF TrapSlot, Slot, TrapIns, NoIns, OnlyTraps
    <3>3. branch_enable_d => FetchSlot(iok).ins.op = "nop"
      BY FetchEmpties
    <3>4. ~branch_enable_d => FetchSlot(iok) = TrapSlot(FALSE, 0)
      BY <3>1 DEF FetchSlot
    <3> QED
      BY <3>2, <3>3, <3>4 DEF OnlyTraps
  <2>4. OnlyTraps(F')
    BY <2>1, <2>3 DEF Edge
  <2>5. OnlyTraps(DecodeSlot)
    BY <2>1, DecodeEmpties DEF OnlyTraps
  <2>6. OnlyTraps(D') /\ ~MemOp(E'.ins.op)
    <3>1. D' = D \/ D' = DecodeSlot
      BY DEF Edge
    <3>2. E'.ins = E.ins \/ E'.ins = D.ins
      BY DEF Edge, ExecuteSlot
    <3> QED
      BY <2>1, <2>5, <3>1, <3>2 DEF OnlyTraps, MemOp, MemRead, MemWrite
  <2> QED
    BY <1>0, <2>4, <2>6
<1>2. CASE ~PcMisaligned
  <2>1. MovePc(iok, dok) /\ branch_enable_d
    <3>1. pc' = IF MovePc(iok, dok)
                THEN IF branch_enable_d THEN branch_target_d ELSE Add(pc, Step)
                ELSE pc
      BY DEF Edge
    <3>2. ~IsMisaligned(Add(pc, Step))
      BY <1>2, Parity DEF PcMisaligned, Types, TypeOK
    <3> QED
      BY <1>2, <3>1, <3>2 DEF PcMisaligned
  <2>2. Goes(iok, dok) /\ FlushF(iok, dok) /\ D.valid /\ F.valid
    BY <1>2, <2>1 DEF MovePc, Goes, Advance, FlushF, StallPc, StallLU, Control,
       BranchSide, ValidSide
  <2>3. F'.ins.op = "nop"
    BY <2>1, <2>2, FetchEmpties DEF Edge
  <2>4. D' = DecodeSlot /\ E' = ExecuteSlot
    BY <2>2, Lockstep DEF Control, IInv
  <2>5. D'.ins.op = "nop"
    BY <2>1, <2>4, DecodeEmpties DEF StallDecode
  <2>6. ~MemOp(D.ins.op)
    BY <2>1 DEF Control, BranchSide, BranchEnable, CsrSrc, Live, MemOp, MemRead, MemWrite
  <2>7. ~MemOp(E'.ins.op)
    BY <2>4, <2>6 DEF ExecuteSlot
  <2> QED
    BY <1>0, <2>3, <2>5, <2>7 DEF OnlyTraps
<1> QED
  BY <1>1, <1>2

LEMMA ControlStep ==
    ASSUME Types, Control, NEW iok \in BOOLEAN, NEW dok \in BOOLEAN,
           Answers(iok, dok), Edge(iok, dok)
    PROVE  Control'
<1>1. IInv'
  BY RequestStep, StallStep, BusStep DEF Control, IInv
<1>2. ValidSide' /\ RequestSide' /\ SettledSide'
  BY ValidStep, RequestSideStep, SettledStep DEF Control
<1> QED
  BY <1>1, <1>2, BranchStep, OddStep DEF Control

(* The instruction in M: shown means that the access behind it, in E, still   *)
(* waits for its data, and not shown that this access has not its turn yet.   *)
ShownSide == shown => /\ MemOp(E.ins.op) /\ dreq.valid
                      /\ busy => index = Data
TurnSide == MemOp(E.ins.op) /\ M.valid /\ ~shown =>
               /\ ~(busy /\ index = Data)
               /\ dreq.valid => busy
Reported == ShownSide /\ TurnSide

LEMMA Reports ==
    ASSUME Types, Control, Reported, NEW iok \in BOOLEAN, NEW dok \in BOOLEAN,
           Answers(iok, dok), Edge(iok, dok)
    PROVE  /\ Reported'
           /\ W'.valid => ~shown
           /\ M.raw /\ M' # M => shown \/ W'.valid
<1>0. W \in WSlot
  BY DEF Types, TypeOK
<1>1. /\ W'.valid <=> FlushW(iok) /\ M.raw
      /\ shown' <=> ~Advance(E.valid, iok, dok) /\ (shown \/ FlushW(iok))
      /\ dreq' = NextRequest(dok) /\ M' = IF Advance(E.valid, iok, dok) THEN MemorySlot ELSE M
  <2>1. W' = IF FlushW(iok) THEN [valid |-> M.raw, pc |-> M.pc]
             ELSE [W EXCEPT !.valid = FALSE]
    BY DEF Edge
  <2>2. W'.valid <=> FlushW(iok) /\ M.raw
    BY <1>0, <2>1 DEF WSlot
  <2> QED
    BY <2>2 DEF Edge
<1>2. Advance(E.valid, iok, dok) <=> Goes(iok, dok) /\ E.valid
  BY DEF Advance, Goes, ForceFlush, Control, IInv, StallSide, ValidSide, Empty, MemOp,
     MemRead, MemWrite
<1>3. MemOp(E.ins.op) => ~PcMisaligned /\ E.valid
  BY DEF Control, OddSide, ValidSide, Empty, MemOp, MemRead, MemWrite
<1>4. shown => ~iok /\ StallPc(iok) /\ ~FlushW(iok)
  <2>1. shown => ~iok
    BY DEF Reported, ShownSide, Answers, Data, Fetch
  <2> QED
    BY <1>3, <2>1 DEF Reported, ShownSide, StallPc, FlushW
<1>5. dreq.valid /\ dok => Goes(iok, dok)
  BY DEF Goes, Advance, ForceFlush, StallMem, Control, RequestSide
<1>6. ASSUME ~Goes(iok, dok), MemOp(E.ins.op)
      PROVE  ~dok /\ E' = E /\ M' = M /\ dreq'.valid
  <2>1. ~dok
    BY <1>5, <1>6, WhatGoes DEF Control
  <2> QED
    BY <1>1, <1>2, <1>6, <2>1, Lockstep DEF Control, IInv, NextRequest
<1>7. ShownSide'
  <2> SUFFICES ASSUME shown' PROVE ShownSide'
    BY DEF ShownSide
  <2>1. CASE shown
    <3>1. ~Goes(iok, dok) /\ MemOp(E.ins.op) /\ dreq.valid /\ (busy => index = Data)
      BY <1>1, <1>2, <1>3, <2>1 DEF Reported, ShownSide
    <3>2. ~dok /\ ~iok /\ E' = E /\ dreq'.valid
      BY <1>4, <1>6, <2>1, <3>1
    <3>3. busy' => index' = Data
      BY <3>1, <3>2, BusAfter DEF Control
    <3> QED
      BY <3>1, <3>2, <3>3 DEF ShownSide
  <2>2. CASE ~shown
    <3>1. FlushW(iok) /\ M.valid /\ E.valid /\ ~Goes(iok, dok)
      BY <1>1, <1>2, <2>2 DEF FlushW, Control, ValidSide
    <3>2. ~StallPc(iok)
      BY <3>1 DEF FlushW
    <3>3. MemOp(E.ins.op)
      BY <3>1, <3>2 DEF Goes, Advance, StallMem
    <3>4. iok
      BY <1>3, <3>2, <3>3 DEF StallPc
    <3>5. ~busy'
      BY <3>4, BusAfter DEF Control
    <3> QED
      BY <1>6, <3>1, <3>3, <3>5 DEF ShownSide
  <2> QED
    BY <2>1, <2>2
<1>8. TurnSide'
  <2> SUFFICES ASSUME MemOp(E'.ins.op), M'.valid, ~shown'
               PROVE  ~(busy' /\ index' = Data) /\ (dreq'.valid => busy')
    BY DEF TurnSide
  <2>1. CASE ~Goes(iok, dok)
    <3>1. MemOp(E.ins.op) /\ M.valid
      BY <2>1, Lockstep DEF Control, IInv
    <3>2. ~shown /\ ~FlushW(iok)
      BY <1>1, <1>2, <2>1
    <3>3. ~iok /\ ~dok
      BY <1>6, <2>1, <3>1, <3>2 DEF FlushW, StallPc
    <3>4. ~(busy /\ index = Data) /\ (dreq.valid => busy)
      BY <3>1, <3>2 DEF Reported, TurnSide
    <3> QED
      BY <1>3, <3>1, <3>3, <3>4, BusAfter DEF Control, Data, Fetch
  <2>2. CASE Goes(iok, dok)
    <3>1. E.valid
      BY <2>2, Lockstep DEF Control, IInv, ValidSide
    <3>2. E' = ExecuteSlot /\ D.valid
      BY <2>2, <3>1, Lockstep DEF Control, IInv, ValidSide
    <3>3. MemOp(D.ins.op)
      BY <3>2 DEF ExecuteSlot
    <3>4. ~PcMisaligned
      BY <3>3 DEF Control, OddSide, OnlyTraps, MemOp, MemRead, MemWrite
    <3>5. (iok \/ dok) /\ ~StallMem(dok)
      BY <2>2, <3>4, WhatGoes DEF Control
    <3>6. ~busy'
      BY <3>5, BusAfter DEF Control
    <3>7. ~dreq'.valid
      BY <1>1, <3>5 DEF NextRequest, NoReq, StallMem, Control, IInv, RequestOfE
    <3> QED
      BY <3>6, <3>7
  <2> QED
    BY <2>1, <2>2
<1>9. M.raw /\ M' # M => shown \/ W'.valid
  <2> SUFFICES ASSUME M.raw, M' # M, ~shown PROVE W'.valid
    OBVIOUS
  <2>1. Goes(iok, dok) /\ E.valid /\ M.valid
    BY <1>1, <1>2 DEF Control, ValidSide, Empty
  <2>2. CASE StallPc(iok)
    <3>1. dok /\ MemOp(E.ins.op)
      BY <2>1, <2>2, WhatGoes DEF Control, StallPc
    <3>2. busy /\ index = Data
      BY <3>1 DEF Answers
    <3> QED
      BY <2>1, <3>1, <3>2 DEF Reported, TurnSide
  <2>3. CASE ~StallPc(iok)
    BY <1>1, <2>1, <2>3 DEF FlushW
  <2> QED
    BY <2>2, <2>3
<1> QED
  BY <1>1, <1>4, <1>7, <1>8, <1>9 DEF Reported

Inv == Types /\ Control /\ Reported

LEMMA InvInitially == Init => Inv
<1> SUFFICES ASSUME Init PROVE Inv
  OBVIOUS
<1>1. Types /\ IInv
  BY TypesInitially, Initially
<1>2. /\ ~F.valid /\ ~D.valid /\ ~E.valid /\ ~M.valid
      /\ Empty(F) /\ Empty(D) /\ Empty(E) /\ Empty(M)
  BY DEF Init, Empty, NoIns
<1>3. ~busy /\ ~stallmem_d /\ ~branch_enable_d /\ ~dreq.valid /\ ~shown
  BY DEF Init, NoReq
<1>4. ~PcMisaligned
  BY DEF Init, PcMisaligned, IsMisaligned
<1>5. Control
  BY <1>1, <1>2, <1>3, <1>4 DEF Control, ValidSide, SettledSide, BranchSide, OddSide,
     RequestSide
<1>6. Reported
  BY <1>2, <1>3 DEF Reported, ShownSide, TurnSide
<1> QED
  BY <1>1, <1>5, <1>6 DEF Inv

LEMMA InvStep == Inv /\ [Next]_vars => Inv'
<1> SUFFICES ASSUME Inv, [Next]_vars PROVE Inv'
  OBVIOUS
<1>1. CASE Next
  <2>1. PICK iok, dok \in BOOLEAN : Answers(iok, dok) /\ Edge(iok, dok)
    BY <1>1, NextIsEdge
  <2> QED
    BY <2>1, TypesStep, ControlStep, Reports DEF Inv
<1>2. CASE UNCHANGED vars
  <2>1. UNCHANGED <<prog, mem, pc, F, D, E, M, W, reg, csr, mode, dreq, stallmem_d,
                    branch_enable_d, branch_target_d, interrupts, interrupts_d,
                    receive, canRecover, busy, index, shown>>
    BY <1>2 DEF vars, stages, control, intr
  <2>2. Types'
    BY <2>1 DEF Inv, Types, TypeOK
  <2>3. Reported'
    BY <2>1 DEF Inv, Reported, ShownSide, TurnSide
  <2>4. IInv' /\ ValidSide' /\ OddSide' /\ RequestSide'
    BY <2>1 DEF Inv, Control, IInv, RequestOfE, StallSide, BusSide, PcMisaligned,
       ValidSide, Empty, OddSide, OnlyTraps, RequestSide
  <2>5. (BranchEnable' <=> BranchEnable) /\ BranchTarget' = BranchTarget
    BY <2>1 DEF BranchEnable, BranchTarget, OpA, OpB, Operand, Forwards
  <2>6. Settled' <=> Settled
    BY <2>1, <2>5 DEF Settled, RegAfter, ExcAfter, CsrAfter
  <2>7. SettledSide' /\ BranchSide'
    BY <2>1, <2>5, <2>6 DEF Inv, Control, SettledSide, BranchSide, Live
  <2> QED
    BY <2>2, <2>3, <2>4, <2>7 DEF Inv, Control
<1> QED
  BY <1>1, <1>2

LEMMA InvHolds == Spec => []Inv
  BY InvInitially, InvStep, PTL DEF Spec

(* Every register of the core keeps its type.                                *)
THEOREM TypesHold == Spec => []TypeOK
  BY InvHolds, PTL DEF Inv, Types

(* Every instruction that reaches M is reported to the commit port once,      *)
(* whatever waits for the two buses meanwhile.                               *)
THEOREM EveryCommitOnce == Spec => CommitsOnce
<1>1. Inv /\ [Next]_vars =>
        [/\ W'.valid => ~shown
         /\ M.raw /\ M' # M => shown \/ W'.valid]_vars
  <2> SUFFICES ASSUME Inv, Next
               PROVE  /\ W'.valid => ~shown
                      /\ M.raw /\ M' # M => shown \/ W'.valid
    OBVIOUS
  <2>1. PICK iok, dok \in BOOLEAN : Answers(iok, dok) /\ Edge(iok, dok)
    BY NextIsEdge
  <2> QED
    BY <2>1, Reports DEF Inv
<1> QED
  BY InvHolds, <1>1, PTL DEF Spec, CommitsOnce

----------------------------------------------------------------------------
(* The sequential machine.  How the edge moves the front of the pipeline.     *)
LEMMA Motion ==
    ASSUME Types, Control, NEW iok \in BOOLEAN, NEW dok \in BOOLEAN,
           Answers(iok, dok), Edge(iok, dok)
    PROVE  /\ PcMisaligned => Goes(iok, dok) /\ ~iok
           /\ dok <=> Goes(iok, dok) /\ MemOp(E.ins.op)
           /\ Goes(iok, dok) /\ ~PcMisaligned => Settled
           /\ F' = IF PcMisaligned \/ (Goes(iok, dok) /\ ~StallLU) THEN FetchSlot(iok)
                   ELSE F
           /\ pc' = IF Goes(iok, dok) /\ branch_enable_d THEN branch_target_d
                    ELSE IF Goes(iok, dok) /\ ~StallLU /\ (iok \/ PcMisaligned)
                    THEN Add(pc, Step) ELSE pc
           /\ branch_enable_d' = BranchEnable
           /\ BranchEnable => branch_target_d' = BranchTarget
<1>1. dok => Goes(iok, dok) /\ MemOp(E.ins.op) /\ ForceFlush(dok)
  BY WhatGoes DEF Goes, Advance, ForceFlush, StallMem, Control, RequestSide
<1>2. PcMisaligned => Goes(iok, dok) /\ ~iok
  BY WhatGoes DEF Control, OddSide, Goes, Advance, StallPc, StallMem
<1>3. Goes(iok, dok) /\ MemOp(E.ins.op) => dok
  BY WhatGoes DEF Control, StallMem
<1>4. Goes(iok, dok) /\ ~PcMisaligned => Settled
  BY WhatGoes DEF Control, SettledSide
<1>5. ForceFlush(dok) => dok
  BY DEF ForceFlush, StallMem, Control, IInv, StallSide
<1>6. FlushF(iok, dok) <=> PcMisaligned \/ (Goes(iok, dok) /\ ~StallLU)
  BY <1>2 DEF FlushF, Goes, Advance, StallPc
<1>7. /\ branch_enable_d => (MovePc(iok, dok) <=> Goes(iok, dok))
      /\ ~branch_enable_d =>
            (MovePc(iok, dok) <=> Goes(iok, dok) /\ ~StallLU /\ (iok \/ PcMisaligned))
  <2>1. branch_enable_d => ~StallLU
    BY DEF StallLU
  <2>2. Goes(iok, dok) => ~StallMem(dok)
    BY WhatGoes DEF Control
  <2> QED
    BY <2>1, <2>2 DEF MovePc, Goes, Advance, StallPc
<1> QED
  BY <1>1, <1>2, <1>3, <1>4, <1>6, <1>7 DEF Edge

----------------------------------------------------------------------------
(* What a slot says it is.                                                   *)
TrapOps == {"trap", "softtrap", "mret"}
Shape(s) ==
    /\ s.raw => Live(s)
    /\ Live(s) => s.raw \/ s.ins.op = "trap"
    /\ s.exc.en <=> s.ins.op \in TrapOps
    /\ s.ins.op \in TrapOps => s.ins.rd = 0 /\ s.ins.rs1 = 0 /\ s.ins.rs2 = 0
    /\ s.ins.op = "mret" => s.exc.mret /\ s.ins.csr = "mepc"
    /\ s.ins.op \in {"trap", "softtrap"} =>
          ~s.exc.mret /\ s.exc.epc = s.pc /\ s.ins.csr = "mtvec"
    /\ s.ins.op = "store" => s.ins.rd = 0
    /\ s.ins.op \notin {"zero", "illegal", "ecall", "ebreak"}
ShapeSide == /\ Shape(F) /\ Shape(D) /\ Shape(E) /\ Shape(M)
             /\ E.ins.op # "softtrap" /\ M.ins.op # "softtrap"

LEMMA SameShape ==
    ASSUME NEW s, NEW t, Shape(t), s.raw = t.raw, s.pc = t.pc, s.ins = t.ins,
           s.exc.en = t.exc.en, s.exc.mret = t.exc.mret, s.exc.epc = t.exc.epc
    PROVE  Shape(s)
  BY DEF Shape, Live

LEMMA SquashedShape ==
    ASSUME NEW f \in FSlot
    PROVE  Shape(Squash(f)) /\ ~Live(Squash(f)) /\ ~Squash(f).raw
<1>1. /\ Squash(f).raw = FALSE /\ Squash(f).exc = NoExc /\ Squash(f).ins.op = "nop"
  BY DEF Squash, FSlot, Instr
<1> QED
  BY <1>1 DEF Shape, Live, TrapOps, NoExc

LEMMA FetchedShape ==
    ASSUME Types, NEW iok \in BOOLEAN
    PROVE  /\ Shape(FetchSlot(iok))
           /\ branch_enable_d => ~Live(FetchSlot(iok))
           /\ ~iok /\ ~PcMisaligned /\ ~MemMisaligned => ~Live(FetchSlot(iok))
           /\ ~branch_enable_d /\ (iok \/ PcMisaligned) => Live(FetchSlot(iok))
           /\ Live(FetchSlot(iok)) => FetchSlot(iok).pc = pc /\ FetchSlot(iok).mode = mode
<1>1. ASSUME NEW raw \in BOOLEAN, NEW cause
      PROVE  Shape(TrapSlot(raw, cause)) /\ Live(TrapSlot(raw, cause))
  BY DEF TrapSlot, Slot, TrapIns, TrapExc, NoIns, NoExc, Shape, Live, TrapOps
<1>2. Shape(Decoded(FetchWord)) /\ Live(Decoded(FetchWord))
  <2> DEFINE i == FetchWord
  <2>0. i.op \notin {"nop", "trap", "softtrap"} /\ (i.op = "store" => i.rd = 0)
    BY ProgramWord DEF Types, TypeOK
  <2>1. CASE i.op \in {"zero", "illegal", "ecall"}
    BY <1>1, <2>1 DEF Decoded
  <2>2. CASE i.op = "ebreak"
    BY <2>2 DEF Decoded, Slot, TrapIns, TrapExc, NoIns, NoExc, Shape, Live, TrapOps
  <2>3. CASE i.op = "mret"
    BY <2>3 DEF Decoded, Slot, TrapIns, NoIns, NoExc, Shape, Live, TrapOps
  <2>4. CASE i.op \notin {"zero", "illegal", "ecall", "ebreak", "mret"}
    <3>1. Decoded(i) = Slot(TRUE, i, NoExc)
      BY <2>4 DEF Decoded
    <3> QED
      BY <2>0, <2>4, <3>1 DEF Slot, NoExc, Shape, Live, TrapOps
  <2> QED
    BY <2>1, <2>2, <2>3, <2>4
<1>3. Shape(Slot(FALSE, NoIns, NoExc)) /\ ~Live(Slot(FALSE, NoIns, NoExc))
  BY DEF Slot, NoIns, NoExc, Shape, Live, TrapOps
<1>4. \/ \E raw \in BOOLEAN : \E cause : Fetched(iok) = TrapSlot(raw, cause)
      \/ iok /\ Fetched(iok) = Decoded(FetchWord)
      \/ ~iok /\ ~PcMisaligned /\ ~MemMisaligned /\ Fetched(iok) = Slot(FALSE, NoIns, NoExc)
  <2> DEFINE raw == iok /\ FetchWord.op # "zero"
  <2>1. raw \in BOOLEAN
    OBVIOUS
  <2>2. Fetched(iok) = IF Interrupted(iok) THEN TrapSlot(raw, IrqCause)
                       ELSE IF PcMisaligned THEN TrapSlot(raw, 0)
                       ELSE IF MemMisaligned THEN TrapSlot(raw, MemCause)
                       ELSE IF iok THEN Decoded(FetchWord)
                       ELSE Slot(FALSE, NoIns, NoExc)
    BY DEF Fetched
  <2> QED
    BY <2>1, <2>2, Zenon
<1>5. ~iok /\ ~PcMisaligned /\ ~MemMisaligned => Fetched(iok) = Slot(FALSE, NoIns, NoExc)
  BY DEF Fetched, Interrupted
<1>6. Shape(Fetched(iok)) /\ (iok \/ PcMisaligned => Live(Fetched(iok)))
  BY <1>1, <1>2, <1>3, <1>4
<1>7. /\ Fetched(iok).pc = pc /\ Fetched(iok).mode = mode
  <2>1. Decoded(FetchWord).pc = pc /\ Decoded(FetchWord).mode = mode
    BY DEF Decoded, TrapSlot, Slot
  <2> QED
    BY <1>4, <2>1 DEF TrapSlot, Slot
<1>8. CASE branch_enable_d
  BY <1>8, Fetches, SquashedShape DEF FetchSlot, Types
<1>9. CASE ~branch_enable_d
  BY <1>3, <1>5, <1>6, <1>7, <1>9 DEF FetchSlot
<1> QED
  BY <1>8, <1>9

LEMMA ShapeStep ==
    ASSUME Types, Control, ShapeSide, Precise, NEW iok \in BOOLEAN, NEW dok \in BOOLEAN,
           Answers(iok, dok), Edge(iok, dok)
    PROVE  ShapeSide'
<1>1. Shape(F')
  BY FetchedShape, Motion DEF ShapeSide
<1>2. Shape(DecodeSlot)
  <2>1. F \in FSlot
    BY DEF Types, TypeOK
  <2>2. CASE StallDecode
    BY <2>1, <2>2, SquashedShape, SameShape DEF DecodeSlot
  <2>3. CASE ~StallDecode
    BY <2>3, SameShape DEF DecodeSlot, ShapeSide
  <2> QED
    BY <2>2, <2>3
<1>3. Shape(ExecuteSlot)
  <2>1. D.exc \in Exc
    BY DEF Types, TypeOK, DSlot
  <2>2. /\ ExecuteExc.en = D.exc.en /\ ExecuteExc.mret = D.exc.mret
        /\ ExecuteExc.epc = D.exc.epc
    BY <2>1 DEF ExecuteExc, Exc
  <2> QED
    BY <2>2, SameShape DEF ExecuteSlot, ShapeSide
<1>4. Shape(MemorySlot)
  BY SameShape DEF MemorySlot, ShapeSide
<1>5. Shape(D') /\ Shape(E') /\ Shape(M')
  <2>1. /\ D' = D \/ D' = DecodeSlot
        /\ E' = E \/ E' = ExecuteSlot
        /\ M' = M \/ M' = MemorySlot
    BY DEF Edge
  <2> QED
    BY <1>2, <1>3, <1>4, <2>1 DEF ShapeSide
<1>6. E'.ins.op # "softtrap" /\ M'.ins.op # "softtrap"
  BY DEF Edge, ExecuteSlot, MemorySlot, ShapeSide, Precise
<1> QED
  BY <1>1, <1>5, <1>6 DEF ShapeSide, Shape, Live

----------------------------------------------------------------------------
(* The architectural state.                                                  *)
Result(s, m) == IF s.ins.rd = 0 THEN 0
                ELSE IF CsrSrc(s.ins.op) THEN s.csrdata
                ELSE IF MemRead(s.ins.op) THEN m[CellOf(s.aluout)] ELSE s.aluout
ZeroSide == reg[0] = 0 /\ (M.ins.rd = 0 => M.wd = 0)

LEMMA ArchIs ==
    ArchReg = RegAfter(RegAfter(reg, M.ins.op, M.ins.rd, M.wd), E.ins.op, E.ins.rd,
                       Result(E, mem))
  BY DEF ArchReg, Result

LEMMA ResultIs == ASSUME TypeOK PROVE Result(E, mem) \in Word
<1>1. E \in ESlot /\ mem \in [Cell -> Word]
  BY DEF TypeOK
<1>2. mem[CellOf(E.aluout)] \in Word /\ 0 \in Word
  BY <1>1, Words DEF ESlot
<1> QED
  BY <1>1, <1>2 DEF Result, ESlot

LEMMA ArchTypes ==
    ASSUME Types
    PROVE  /\ ArchReg \in [Reg -> Word] /\ ArchCsr \in [Csrs -> Word]
           /\ ArchMem \in [Cell -> Word] /\ ArchPc \in Word
<1>1. /\ E \in ESlot /\ mem \in [Cell -> Word] /\ D \in DSlot /\ F \in FSlot
      /\ pc \in Word /\ branch_target_d \in Word
  BY DEF Types, TypeOK
<1>2. ArchReg \in [Reg -> Word]
  <2>1. RegAfter(reg, M.ins.op, M.ins.rd, M.wd) \in [Reg -> Word]
    BY Written DEF Types
  <2> QED
    BY <1>1, <2>1, ArchIs, ResultIs DEF RegAfter, ESlot, Instr, Types
<1>3. ArchCsr \in [Csrs -> Word]
  <2>1. CsrAfter(ExcAfter(csr, M.exc), E) \in [Csrs -> Word]
    BY Written DEF Types
  <2>2. E.exc.status \in Word /\ E.exc.cause \in Word /\ E.exc.epc \in Word
    BY <1>1 DEF ESlot, Exc
  <2> QED
    BY <2>1, <2>2 DEF ArchCsr, ExcAfter, Csrs
<1>4. ArchMem \in [Cell -> Word]
  BY <1>1, Words DEF ArchMem, ESlot
<1>5. ArchPc \in Word
  BY <1>1 DEF ArchPc, DSlot, FSlot
<1> QED
  BY <1>2, <1>3, <1>4, <1>5

(* Standing still, what is pending is only written.                          *)
LEMMA ArchStands ==
    ASSUME Types, Control, NEW iok \in BOOLEAN, NEW dok \in BOOLEAN,
           Answers(iok, dok), Edge(iok, dok), ~Goes(iok, dok)
    PROVE  /\ UNCHANGED <<D, E, M, F, pc, mode>>
           /\ ArchReg' = ArchReg /\ ArchCsr' = ArchCsr /\ ArchMem' = ArchMem
           /\ OpA' = OpA /\ OpB' = OpB
<1>1. UNCHANGED <<D, E, M, F, pc>>
  BY Lockstep, Motion DEF Control, IInv
<1>2. ~dok /\ mem' = mem
  BY Motion DEF Edge
<1>3. mode' = mode
  <2>1. Advance(D.valid, iok, dok) => Goes(iok, dok)
    BY DEF Advance, Goes
  <2> QED
    BY <2>1 DEF Edge
<1>4. Settled'
  BY <1>1, StandStill
<1>5. /\ reg' = RegAfter(reg, M.ins.op, M.ins.rd, M.wd)
      /\ csr' = CsrAfter(ExcAfter(csr, M.exc), E)
  BY DEF Edge
<1>6. /\ RegAfter(reg', M.ins.op, M.ins.rd, M.wd) = RegAfter(reg, M.ins.op, M.ins.rd, M.wd)
      /\ CsrAfter(ExcAfter(csr', M.exc), E) = CsrAfter(ExcAfter(csr, M.exc), E)
  BY <1>1, <1>4, <1>5 DEF Settled, RegAfter, CsrAfter, ExcAfter
<1>7. ArchReg' = ArchReg
  BY <1>1, <1>2, <1>6 DEF ArchReg
<1>8. ArchCsr' = ArchCsr
  BY <1>1, <1>6 DEF ArchCsr
<1>9. ArchMem' = ArchMem /\ OpA' = OpA /\ OpB' = OpB
  BY <1>1, <1>2 DEF ArchMem, OpA, OpB, Operand, Forwards
<1> QED
  BY <1>1, <1>3, <1>7, <1>8, <1>9

(* Moving on, the instruction that comes into E is the only thing that        *)
(* happens.                                                                  *)
LEMMA ArchGoes ==
    ASSUME Types, Control, ShapeSide, ZeroSide, NEW iok \in BOOLEAN, NEW dok \in BOOLEAN,
           Answers(iok, dok), Edge(iok, dok), Goes(iok, dok)
    PROVE  /\ mem' = ArchMem
           /\ RegAfter(reg', M'.ins.op, M'.ins.rd, M'.wd) = ArchReg
           /\ ExcAfter(csr', M'.exc) = ArchCsr
           /\ ArchReg' = RegAfter(ArchReg, E'.ins.op, E'.ins.rd, Result(E', ArchMem))
           /\ ArchCsr' = ExcAfter(CsrAfter(ArchCsr, E'), E'.exc)
           /\ ArchMem' = IF MemWrite(E'.ins.op)
                         THEN [ArchMem EXCEPT ![CellOf(E'.aluout)] = E'.memwd] ELSE ArchMem
           /\ mode' = IF D.raw THEN NewMode ELSE mode
           /\ D' = IF F.valid THEN DecodeSlot ELSE D
           /\ E' = IF D.valid THEN ExecuteSlot ELSE E
<1>1. /\ D' = IF F.valid THEN DecodeSlot ELSE D
      /\ E' = IF D.valid THEN ExecuteSlot ELSE E
      /\ M' = IF E.valid THEN MemorySlot ELSE M
  BY Lockstep DEF Control, IInv
<1>2. /\ reg' = RegAfter(reg, M.ins.op, M.ins.rd, M.wd)
      /\ csr' = CsrAfter(ExcAfter(csr, M.exc), E)
      /\ mem' = IF dok /\ dreq.write THEN [mem EXCEPT ![CellOf(dreq.addr)] = dreq.data]
                ELSE mem
  BY DEF Edge
<1>3. /\ dok <=> MemOp(E.ins.op)
      /\ dok => /\ dreq.write = MemWrite(E.ins.op) /\ dreq.addr = E.aluout
                /\ dreq.write => dreq.data = E.memwd
  BY Motion, WhatGoes DEF Control, IInv, RequestOfE
<1>4. mem' = ArchMem
  BY <1>2, <1>3 DEF ArchMem, MemOp
<1>5. RegAfter(reg', M'.ins.op, M'.ins.rd, M'.wd) = ArchReg
  <2>1. CASE E.valid
    <3>1. /\ M'.ins = E.ins
          /\ M'.wd = IF ~RegWrite(E.ins.op) \/ E.ins.rd = 0 THEN 0
                     ELSE IF CsrSrc(E.ins.op) THEN E.csrdata
                     ELSE IF MemRead(E.ins.op) THEN mem[CellOf(dreq.addr)]
                     ELSE E.aluout
      BY <1>1, <2>1 DEF MemorySlot
    <3>2. RegWrite(E.ins.op) => M'.wd = Result(E, mem)
      BY <1>3, <3>1 DEF Result, MemOp
    <3> QED
      BY <1>2, <3>1, <3>2, ArchIs DEF RegAfter
  <2>2. CASE ~E.valid
    <3>1. E.ins.op = "nop" /\ M.ins.op = "nop" /\ M' = M
      BY <1>1, <2>2 DEF Control, ValidSide, Empty
    <3> QED
      BY <1>2, <3>1 DEF ArchReg, RegAfter, RegWrite
  <2> QED
    BY <2>1, <2>2
<1>6. ExcAfter(csr', M'.exc) = ArchCsr
  <2>1. CASE E.valid
    BY <1>1, <1>2, <2>1 DEF MemorySlot, ArchCsr
  <2>2. CASE ~E.valid
    <3>1. E.ins.op = "nop" /\ M.ins.op = "nop" /\ M' = M
      BY <1>1, <2>2 DEF Control, ValidSide, Empty
    <3>2. ~E.exc.en /\ ~M.exc.en
      BY <3>1 DEF ShapeSide, Shape, TrapOps
    <3> QED
      BY <1>2, <3>1, <3>2 DEF ArchCsr, ExcAfter
  <2> QED
    BY <2>1, <2>2
<1>7. ArchReg' = RegAfter(ArchReg, E'.ins.op, E'.ins.rd, Result(E', ArchMem))
  BY <1>4, <1>5 DEF ArchReg, Result
<1>8. ArchCsr' = ExcAfter(CsrAfter(ArchCsr, E'), E'.exc)
  BY <1>6 DEF ArchCsr
<1>9. ArchMem' = IF MemWrite(E'.ins.op)
                 THEN [ArchMem EXCEPT ![CellOf(E'.aluout)] = E'.memwd] ELSE ArchMem
  BY <1>4 DEF ArchMem
<1>10. mode' = IF D.raw THEN NewMode ELSE mode
  <2>1. D.raw => D.valid
    BY DEF Control, ValidSide, Empty
  <2>2. mode' = IF Advance(D.valid, iok, dok) /\ D.raw THEN NewMode ELSE mode
    BY DEF Edge
  <2> QED
    BY <2>1, <2>2 DEF Goes
<1> QED
  BY <1>1, <1>4, <1>5, <1>6, <1>7, <1>8, <1>9, <1>10

----------------------------------------------------------------------------
(* What a slot must do: the word at its address, or a trap in its place, with *)
(* the machine as the instructions before it leave it.                       *)
Permitted(cause, c, m) == /\ Bit(c.mstatus, 0) = 1 \/ m # "M"
                          /\ \E l \in Lines : EnabledLine(c.mie, l) /\ cause = LineCause[l]
TrapsRightly(s, p, c, m) ==
    \/ Permitted(s.exc.cause, c, m)
    \/ IsMisaligned(s.pc) /\ s.exc.cause = 0
    \/ /\ ~IsMisaligned(s.pc)
       /\ \/ WordAt(p, s.pc).op \in {"zero", "illegal"} /\ s.exc.cause = 2
          \/ /\ WordAt(p, s.pc).op = "ecall"
             /\ s.exc.cause = IF s.mode = "M" THEN 11 ELSE 8
Does(s, p, c, m) ==
    \/ s.ins.op = "trap" /\ TrapsRightly(s, p, c, m)
    \/ s.ins.op = "softtrap"
    \/ /\ ~IsMisaligned(s.pc)
       /\ \/ s.ins.op = "mret" /\ WordAt(p, s.pc).op = "mret"
          \/ s.ins.op # "mret" /\ s.ins = WordAt(p, s.pc)
Right(s) == Does(s, prog, ArchCsr, mode)

(* What must be true of each stage for the program to stay in order.  F holds *)
(* the word before pc, fetched with the machine that the instructions ahead   *)
(* of it leave, none of which jumps; unless it is about to be squashed.      *)
Following == IF Live(F) THEN F.pc ELSE pc
FSide == Live(F) => branch_enable_d \/
    /\ pc = Add(F.pc, Step)
    /\ F.mode = mode
    /\ Right(F)
    /\ ~CsrSrc(E.ins.op)
(* D's instruction has the operands, CSR value and status of the sequential   *)
(* machine, and what comes behind it is the next word.                       *)
DSide == Live(D) =>
    /\ D.mode = mode
    /\ Right(D)
    /\ CsrSrc(D.ins.op) => D.csrdata = ArchCsr[D.ins.csr]
    /\ D.ins.op \in {"trap", "mret"} => D.status = ArchCsr.mstatus
    /\ ~CsrSrc(E.ins.op)
    /\ OpA = ArchReg[D.ins.rs1] /\ OpB = ArchReg[D.ins.rs2]
    /\ Following = Add(D.pc, Step)
(* Behind E comes the next word, or nothing has come yet.                     *)
ESide == Live(E) => \/ ArchPc = Add(E.pc, Step)
                    \/ ~Live(D) /\ (branch_enable_d \/ ~Live(F))
(* A branch whose instruction has left D waits with nothing behind it.        *)
PendingSide == branch_enable_d /\ ~Live(D) =>
    PcMisaligned \/ (pc = branch_target_d /\ ~Live(F))
(* At a misaligned pc the stages move in every cycle, ahead of the registers  *)
(* written one cycle later: nothing in flight writes a CSR that is read.     *)
QuietSide == PcMisaligned =>
    IF branch_enable_d THEN ~Live(D)
    ELSE ~CsrSrc(E.ins.op) /\ (Live(F) => ~M.exc.en)
InOrder == /\ ShapeSide /\ ZeroSide /\ FSide /\ DSide /\ ESide /\ PendingSide /\ QuietSide

LEMMA NextDiffers ==
    ASSUME NEW a \in Word PROVE Add(a, Step) # a /\ Add(Add(a, Step), Step) # a
<1>1. PICK n \in Nat : n = WordMod /\ n >= 32
  BY WordAssumption
<1>2. PICK b \in Word : b = Add(a, Step)
  BY Words DEF Word, Step
<1>3. /\ b = IF a + 2 < n THEN a + 2 ELSE a + 2 - n
      /\ Add(b, Step) = IF b + 2 < n THEN b + 2 ELSE b + 2 - n
  BY <1>1, <1>2, NextAddress
<1> QED
  BY <1>1, <1>2, <1>3 DEF Word

LEMMA ZeroStep ==
    ASSUME Types, ZeroSide, NEW iok \in BOOLEAN, NEW dok \in BOOLEAN, Edge(iok, dok)
    PROVE  ZeroSide'
<1>1. reg \in [Reg -> Word] /\ 0 \in Reg
  BY RegAssumption DEF Types, TypeOK, Reg
<1>2. reg'[0] = 0
  BY <1>1 DEF Edge, RegAfter, ZeroSide
<1>3. M'.ins.rd = 0 => M'.wd = 0
  BY DEF Edge, MemorySlot, ZeroSide
<1> QED
  BY <1>2, <1>3 DEF ZeroSide

LEMMA ArchZero == ASSUME Types, ZeroSide PROVE ArchReg[0] = 0
<1>1. reg \in [Reg -> Word] /\ 0 \in Reg
  BY RegAssumption DEF Types, TypeOK, Reg
<1> DEFINE r == RegAfter(reg, M.ins.op, M.ins.rd, M.wd)
<1>2. r \in [Reg -> Word] /\ r[0] = 0
  BY <1>1, Written DEF RegAfter, ZeroSide, Types
<1> QED
  BY <1>1, <1>2, ArchIs DEF RegAfter, Result

(* CSRs and mode stay unless the instruction in D is one of theirs.          *)
LEMMA Quiet ==
    ASSUME Types, Control, InOrder, Precise, NEW iok \in BOOLEAN, NEW dok \in BOOLEAN,
           Answers(iok, dok), Edge(iok, dok), ~(Goes(iok, dok) /\ BranchEnable)
    PROVE  /\ ArchCsr' = ArchCsr /\ mode' = mode
           /\ Goes(iok, dok) => ~CsrSrc(E'.ins.op)
<1>1. CASE ~Goes(iok, dok)
  BY <1>1, ArchStands
<1>2. CASE Goes(iok, dok) /\ ~BranchEnable
  <2>1. /\ ~CsrSrc(D.ins.op) /\ D.ins.op \notin TrapOps
    BY <1>2 DEF BranchEnable, CsrSrc, TrapOps, Precise
  <2>2. ~D.exc.en /\ (D.raw => D.mode = mode) /\ (D.raw => NewMode = D.mode)
    BY <2>1 DEF InOrder, ShapeSide, Shape, DSide, NewMode, Raises, TrapOps
  <2>3. E' = ExecuteSlot \/ (~D.valid /\ E' = E)
    BY <1>2, ArchGoes DEF InOrder
  <2>4. E'.ins.op \notin {"csrrw", "mret", "trap"} /\ ~E'.exc.en
    <3>1. CASE E' = ExecuteSlot
      BY <2>1, <2>2, <3>1 DEF ExecuteSlot, ExecuteExc, Raises, TrapOps, CsrSrc
    <3>2. CASE ~D.valid /\ E' = E
      <4>1. E.ins.op = "nop"
        BY <3>2 DEF Control, ValidSide, Empty
      <4> QED
        BY <3>2, <4>1 DEF InOrder, ShapeSide, Shape, TrapOps
    <3> QED
      BY <2>3, <3>1, <3>2
  <2>5. ArchCsr' = ExcAfter(CsrAfter(ArchCsr, E'), E'.exc) /\ mode' = IF D.raw THEN NewMode ELSE mode
    BY <1>2, ArchGoes DEF InOrder
  <2> QED
    BY <2>2, <2>4, <2>5 DEF ExcAfter, CsrAfter, CsrSrc
<1> QED
  BY <1>1, <1>2

LEMMA StaysRight ==
    ASSUME NEW s, NEW t, NEW p, NEW c, NEW m, Does(s, p, c, m),
           t.ins = s.ins, t.pc = s.pc, t.mode = s.mode, t.exc = s.exc
    PROVE  Does(t, p, c, m)
  BY DEF Does, TrapsRightly

LEMMA TrapSlotIs ==
    ASSUME NEW raw \in BOOLEAN, NEW cause
    PROVE  /\ TrapSlot(raw, cause).ins.op = "trap" /\ TrapSlot(raw, cause).exc.cause = cause
           /\ TrapSlot(raw, cause).pc = pc
  BY DEF TrapSlot, Slot, TrapIns, TrapExc, NoIns, NoExc

(* What is fetched is the word at pc, or its trap or the interrupt that may   *)
(* replace it.                                                               *)
LEMMA FetchIsRight ==
    ASSUME Types, Control, InOrder, Precise, NEW iok \in BOOLEAN, NEW dok \in BOOLEAN,
           Answers(iok, dok), ~branch_enable_d, iok \/ PcMisaligned,
           iok => Settled
    PROVE  Right(FetchSlot(iok))
<1>1. FetchSlot(iok) = Fetched(iok) /\ ~MemMisaligned
  BY DEF FetchSlot, Precise
<1>2. iok => ~PcMisaligned
  BY WhatGoes DEF Control
<1> DEFINE raw == iok /\ FetchWord.op # "zero"
<1>0. raw \in BOOLEAN
  OBVIOUS
<1>3. CASE Interrupted(iok)
  <2>1. iok /\ Interrupted(TRUE) /\ Enabled # {}
    BY <1>3 DEF Interrupted
  <2>2. ArchCsr = ExcAfter(csr, E.exc)
    BY <2>1 DEF Settled, ArchCsr
  <2>3. ArchCsr.mie = csr.mie
    BY <2>2 DEF ExcAfter, Types, TypeOK, Csrs
  <2>4. Bit(ArchCsr.mstatus, 0) = 1 \/ mode # "M"
    <3>1. CASE E.exc.en
      BY <2>1, <3>1 DEF Precise
    <3>2. CASE ~E.exc.en
      BY <2>1, <2>2, <3>2 DEF ExcAfter, Interrupted
    <3> QED
      BY <3>1, <3>2
  <2>5. PICK l \in Enabled : IrqCause = LineCause[l]
    BY <2>1, IrqIsEnabled DEF Types, TypeOK
  <2>6. l \in Lines /\ EnabledLine(csr.mie, l)
    BY <2>5 DEF Enabled, Types, TypeOK
  <2>7. Permitted(IrqCause, ArchCsr, mode)
    BY <2>3, <2>4, <2>5, <2>6 DEF Permitted
  <2>8. Fetched(iok) = TrapSlot(raw, IrqCause)
    BY <1>3 DEF Fetched
  <2>9. Fetched(iok).ins.op = "trap" /\ Fetched(iok).exc.cause = IrqCause
    <3> HIDE DEF raw
    <3> QED
      BY <1>0, <2>8, TrapSlotIs
  <2> QED
    BY <1>1, <2>7, <2>9 DEF Right, Does, TrapsRightly
<1>4. CASE ~Interrupted(iok) /\ PcMisaligned
  <2>1. Fetched(iok) = TrapSlot(raw, 0)
    BY <1>4 DEF Fetched
  <2>2. /\ Fetched(iok).ins.op = "trap" /\ Fetched(iok).exc.cause = 0
        /\ Fetched(iok).pc = pc
    <3> HIDE DEF raw
    <3> QED
      BY <1>0, <2>1, TrapSlotIs
  <2> QED
    BY <1>1, <1>4, <2>2 DEF Right, Does, TrapsRightly, PcMisaligned
<1>5. CASE ~Interrupted(iok) /\ ~PcMisaligned
  <2> DEFINE w == FetchWord
  <2>1. Fetched(iok) = Decoded(w)
    BY <1>1, <1>5 DEF Fetched
  <2>2. w = WordAt(prog, pc) /\ ~IsMisaligned(pc)
    BY <1>5 DEF FetchWord, WordAt, PcMisaligned
  <2>3. CASE w.op \in {"zero", "illegal"}
    <3>1. /\ Decoded(w).ins.op = "trap" /\ Decoded(w).exc.cause = 2 /\ Decoded(w).pc = pc
      BY <2>3 DEF Decoded, TrapSlot, Slot, TrapIns, TrapExc, NoIns, NoExc
    <3> QED
      BY <1>1, <2>1, <2>2, <2>3, <3>1 DEF Right, Does, TrapsRightly
  <2>4. CASE w.op = "ecall"
    <3>1. /\ Decoded(w).ins.op = "trap" /\ Decoded(w).pc = pc /\ Decoded(w).mode = mode
          /\ Decoded(w).exc.cause = IF mode = "M" THEN 11 ELSE 8
      BY <2>4 DEF Decoded, TrapSlot, Slot, TrapIns, TrapExc, NoIns, NoExc
    <3> QED
      BY <1>1, <2>1, <2>2, <2>4, <3>1 DEF Right, Does, TrapsRightly
  <2>5. CASE w.op = "ebreak"
    <3>1. Decoded(w).ins.op = "softtrap"
      BY <2>5 DEF Decoded, Slot, TrapIns, NoIns
    <3> QED
      BY <1>1, <2>1, <3>1 DEF Right, Does
  <2>6. CASE w.op = "mret"
    <3>1. Decoded(w).ins.op = "mret" /\ Decoded(w).pc = pc
      BY <2>6 DEF Decoded, Slot, TrapIns, NoIns
    <3> QED
      BY <1>1, <2>1, <2>2, <2>6, <3>1 DEF Right, Does
  <2>7. CASE w.op \notin {"zero", "illegal", "ecall", "ebreak", "mret"}
    <3>1. Decoded(w) = Slot(TRUE, w, NoExc)
      BY <2>7 DEF Decoded
    <3> QED
      BY <1>1, <2>1, <2>2, <2>7, <3>1 DEF Right, Does, Slot
  <2> QED
    BY <2>3, <2>4, <2>5, <2>6, <2>7
<1> QED
  BY <1>3, <1>4, <1>5

(* The order of the program.                                                 *)
LEMMA FlowStands ==
    ASSUME Types, Control, InOrder, NEW iok \in BOOLEAN, NEW dok \in BOOLEAN,
           Answers(iok, dok), Edge(iok, dok), ~Goes(iok, dok)
    PROVE  /\ ~PcMisaligned /\ branch_enable_d' = BranchEnable
           /\ branch_enable_d /\ ~BranchEnable => ~Live(D) /\ ~Live(F) /\ pc = branch_target_d
           /\ ArchPc' = ArchPc
<1>1. UNCHANGED <<D, F, pc>> /\ ~PcMisaligned /\ branch_enable_d' = BranchEnable
  BY ArchStands, Motion
<1>2. branch_enable_d /\ ~BranchEnable => ~Live(D) /\ ~Live(F) /\ pc = branch_target_d
  BY <1>1 DEF Control, BranchSide, InOrder, PendingSide
<1>3. ~Live(D) => ~BranchEnable
  BY DEF Live, BranchEnable, CsrSrc
<1> QED
  BY <1>1, <1>2, <1>3 DEF ArchPc, Live

LEMMA FlowBranches ==
    ASSUME Types, Control, InOrder, NEW iok \in BOOLEAN, NEW dok \in BOOLEAN,
           Answers(iok, dok), Edge(iok, dok), Goes(iok, dok), BranchEnable
    PROVE  /\ ~Live(D') /\ branch_enable_d' /\ ArchPc' = BranchTarget
           /\ PendingSide'
<1>1. ~Live(D')
  BY BehindBranch DEF Live
<1>2. branch_enable_d' /\ branch_target_d' = BranchTarget
  BY Motion
<1>3. ArchPc' = BranchTarget
  BY <1>1, <1>2 DEF ArchPc, Live
<1>4. CASE ~PcMisaligned
  <2>1. branch_enable_d /\ branch_target_d = BranchTarget
    BY <1>4, Motion DEF Settled
  <2>2. pc' = BranchTarget /\ F' = FetchSlot(iok)
    BY <1>4, <2>1, Motion DEF StallLU
  <2>3. ~Live(F')
    BY <2>1, <2>2, FetchedShape
  <2> QED
    BY <1>1, <1>2, <1>3, <2>2, <2>3 DEF PendingSide, Live
<1>5. CASE PcMisaligned
  <2>1. ~branch_enable_d
    BY <1>5 DEF BranchEnable, CsrSrc, Live, InOrder, QuietSide
  <2>2. pc' = pc \/ pc' = Add(pc, Step)
    BY <2>1, Motion
  <2>3. IsMisaligned(pc')
    BY <1>5, <2>2, Parity DEF PcMisaligned, Types, TypeOK
  <2> QED
    BY <1>1, <1>2, <1>3, <2>3 DEF PendingSide, PcMisaligned
<1> QED
  BY <1>4, <1>5

(* A branch that was acted on leaves its target.                             *)
LEMMA FlowLands ==
    ASSUME Types, Control, InOrder, NEW iok \in BOOLEAN, NEW dok \in BOOLEAN,
           Answers(iok, dok), Edge(iok, dok), Goes(iok, dok), ~BranchEnable, branch_enable_d
    PROVE  /\ ~Live(D) /\ ~Live(D') /\ ~Live(F') /\ ~branch_enable_d' /\ pc' = branch_target_d
           /\ ArchPc' = ArchPc
<1>1. ~Live(D) /\ ~branch_enable_d' /\ pc' = branch_target_d
  BY Motion DEF Control, BranchSide
<1>2. ~Live(F')
  <2>1. F' = FetchSlot(iok)
    BY Motion DEF StallLU
  <2> QED
    BY <2>1, FetchedShape
<1>3. ~Live(D')
  <2>1. D' = DecodeSlot \/ D' = D
    BY DEF Edge
  <2> QED
    BY <1>1, <2>1, DecodeEmpties DEF StallDecode, Live
<1>4. ArchPc = branch_target_d /\ ArchPc' = branch_target_d
  BY <1>1, <1>2, <1>3 DEF ArchPc, Live
<1> QED
  BY <1>1, <1>2, <1>3, <1>4

(* Without a branch, what follows D comes next.                              *)
LEMMA FlowGoes ==
    ASSUME Types, Control, InOrder, Precise, NEW iok \in BOOLEAN, NEW dok \in BOOLEAN,
           Answers(iok, dok), Edge(iok, dok), Goes(iok, dok), ~BranchEnable, ~branch_enable_d
    PROVE  /\ ~branch_enable_d' /\ ArchPc' = Following
           /\ StallLU => F' = F /\ pc' = pc /\ ~Live(D')
           /\ ~StallLU => /\ F' = FetchSlot(iok) /\ Following' = pc
                          /\ Live(F') => pc' = Add(pc, Step) /\ (iok \/ PcMisaligned)
                          /\ Live(D') => Live(F) /\ D' = DecodeSlot /\ DecodeSlot.ins = F.ins
                          /\ Live(F) => D' = DecodeSlot /\ DecodeSlot.ins = F.ins
<1>1. ~branch_enable_d'
  BY Motion
<1>2. ~MemMisaligned
  BY DEF Precise
<1>3. D' = IF F.valid THEN DecodeSlot ELSE D
  BY Lockstep DEF Control, IInv
<1>4. Live(F) => F.valid
  BY DEF Control, ValidSide, Empty, Live
<1>5. ~F.valid => ~Live(D)
  BY DEF Control, ValidSide, Empty, Live
<1>6. CASE StallLU
  <2>1. ~PcMisaligned
    <3>1. PcMisaligned => OnlyTraps(D)
      BY DEF Control, OddSide
    <3> QED
      BY <1>6, <3>1 DEF StallLU, BranchEnable, OnlyTraps, MemRead, CsrSrc
  <2>2. F' = F /\ pc' = pc
    BY <1>6, <2>1, Motion
  <2>3. ~Live(D')
    BY <1>3, <1>5, <1>6, DecodeEmpties DEF StallDecode, Live
  <2>4. ArchPc' = Following
    BY <1>1, <2>2, <2>3 DEF ArchPc, Following, Live
  <2> QED
    BY <1>1, <1>6, <2>2, <2>3, <2>4
<1>7. CASE ~StallLU
  <2>1. F' = FetchSlot(iok)
    BY <1>7, Motion
  <2>2. Live(F') <=> iok \/ PcMisaligned
    BY <1>2, <2>1, FetchedShape
  <2>3. Live(F') => F'.pc = pc
    BY <2>1, FetchedShape
  <2>4. pc' = IF iok \/ PcMisaligned THEN Add(pc, Step) ELSE pc
    BY <1>7, Motion
  <2>5. Following' = pc
    BY <2>2, <2>3, <2>4 DEF Following, Live
  <2>6. ~StallDecode
    BY <1>2, <1>7 DEF StallDecode
  <2>7. Live(F) => D' = DecodeSlot /\ DecodeSlot.ins = F.ins
    BY <1>3, <1>4, <2>6, DecodeEmpties
  <2>8. Live(D') => Live(F)
    BY <1>3, <1>5, <2>6, DecodeEmpties DEF Live
  <2>9. D'.pc = F.pc \/ ~Live(F)
    BY <2>6, <2>7 DEF DecodeSlot
  <2>10. ArchPc' = Following
    <3>1. CASE Live(F)
      <4>1. Live(D')
        BY <2>7, <3>1 DEF Live
      <4> QED
        BY <2>9, <3>1, <4>1 DEF ArchPc, Following, Live
    <3>2. CASE ~Live(F)
      BY <1>1, <2>5, <2>8, <3>2 DEF ArchPc, Following, Live
    <3> QED
      BY <3>1, <3>2
  <2> QED
    BY <1>1, <1>7, <2>1, <2>2, <2>4, <2>5, <2>7, <2>8, <2>10
<1> QED
  BY <1>6, <1>7

----------------------------------------------------------------------------
(* The operands an instruction gets in D are the registers as the ones before *)
(* it leave them.                                                            *)
LEMMA OperandsArrive ==
    ASSUME Types, Control, InOrder, Precise, NEW iok \in BOOLEAN, NEW dok \in BOOLEAN,
           Answers(iok, dok), Edge(iok, dok), Goes(iok, dok), ~BranchEnable,
           ~branch_enable_d, ~StallLU, Live(F)
    PROVE  OpA' = ArchReg'[D'.ins.rs1] /\ OpB' = ArchReg'[D'.ins.rs2]
<1>1. /\ D'.ins = F.ins /\ D'.pc = F.pc
      /\ D'.srca = reg[F.ins.rs1] /\ D'.srcb = reg[F.ins.rs2]
  <2>1. D' = DecodeSlot /\ ~StallDecode
    BY FlowGoes DEF StallDecode, Precise
  <2> QED
    BY <2>1 DEF DecodeSlot
<1>2. /\ RegAfter(reg', M'.ins.op, M'.ins.rd, M'.wd) = ArchReg
      /\ ArchReg' = RegAfter(ArchReg, E'.ins.op, E'.ins.rd, Result(E', ArchMem))
      /\ E' = IF D.valid THEN ExecuteSlot ELSE E
  BY ArchGoes DEF InOrder
<1>3. M' = IF E.valid THEN MemorySlot ELSE M
  BY Lockstep DEF Control, IInv
<1>4. /\ ArchReg \in [Reg -> Word] /\ reg' \in [Reg -> Word] /\ reg \in [Reg -> Word]
      /\ F.ins.rs1 \in Reg /\ F.ins.rs2 \in Reg
  BY ArchTypes, TypesStep DEF Types, TypeOK, FSlot, Instr
<1>5. ArchReg'[0] = 0
  <2>1. ArchReg[0] = 0 /\ 0 \in Reg
    BY ArchZero, RegAssumption DEF InOrder, Reg
  <2> QED
    BY <1>2, <1>4, <2>1 DEF RegAfter, Result
<1>6. F.ins.rs1 # 0 \/ F.ins.rs2 # 0 => reg' = reg
  <2>1. CASE PcMisaligned
    BY <2>1 DEF Control, OddSide, OnlyTraps, Live, InOrder, ShapeSide, Shape, TrapOps
  <2>2. CASE ~PcMisaligned
    BY <2>2, Motion DEF Settled, Edge
  <2> QED
    BY <2>1, <2>2
<1>7. RegWrite(E'.ins.op) =>
        /\ E'.pc # F.pc /\ E' = ExecuteSlot
        /\ E'.ins.rd \in {F.ins.rs1, F.ins.rs2} \ {0} => Result(E', ArchMem) = E'.aluout
  <2> SUFFICES ASSUME RegWrite(E'.ins.op)
               PROVE  /\ E'.pc # F.pc /\ E' = ExecuteSlot
                      /\ E'.ins.rd \in {F.ins.rs1, F.ins.rs2} \ {0} =>
                            Result(E', ArchMem) = E'.aluout
    OBVIOUS
  <2>1. E' = ExecuteSlot
    BY <1>2 DEF Control, ValidSide, Empty, RegWrite
  <2>2. E'.pc = D.pc /\ E'.ins = D.ins /\ Live(D)
    BY <2>1 DEF ExecuteSlot, Live, RegWrite
  <2>3. F.pc = Add(D.pc, Step)
    BY <2>2 DEF InOrder, DSide, Following
  <2>4. F.pc # D.pc
    BY <2>3, NextDiffers DEF Types, TypeOK, DSlot
  <2>5. ~CsrSrc(D.ins.op)
    BY DEF BranchEnable
  <2>6. D.ins.rd \in {F.ins.rs1, F.ins.rs2} => ~MemRead(D.ins.op)
    BY DEF StallLU
  <2> QED
    BY <2>1, <2>2, <2>4, <2>5, <2>6 DEF Result
<1>8. RegWrite(M'.ins.op) => M'.pc # F.pc
  <2> SUFFICES ASSUME RegWrite(M'.ins.op) PROVE M'.pc # F.pc
    OBVIOUS
  <2>1. M' = MemorySlot
    BY <1>3 DEF Control, ValidSide, Empty, RegWrite
  <2>2. M'.pc = E.pc /\ Live(E)
    BY <2>1 DEF MemorySlot, Live, RegWrite
  <2>3. ArchPc = Add(E.pc, Step)
    BY <2>2 DEF InOrder, ESide
  <2>4. CASE Live(D)
    <3>1. F.pc = Add(Add(E.pc, Step), Step)
      BY <2>3, <2>4 DEF InOrder, DSide, Following, ArchPc
    <3> QED
      BY <2>2, <3>1, NextDiffers DEF Types, TypeOK, ESlot
  <2>5. CASE ~Live(D)
    <3>1. F.pc = Add(E.pc, Step)
      BY <2>3, <2>5 DEF ArchPc
    <3> QED
      BY <2>2, <3>1, NextDiffers DEF Types, TypeOK, ESlot
  <2> QED
    BY <2>4, <2>5
<1> DEFINE From(s, src) == F.pc # s.pc /\ RegWrite(s.ins.op) /\ s.ins.rd # 0 /\ s.ins.rd = src
<1>9. ASSUME NEW src \in {F.ins.rs1, F.ins.rs2}
      PROVE  (IF From(E', src) THEN E'.aluout ELSE IF From(M', src) THEN M'.wd ELSE reg[src])
                = ArchReg'[src]
  <2>0. src \in Reg
    BY <1>4
  <2>1. CASE src = 0
    <3>1. reg[0] = 0
      BY DEF InOrder, ZeroSide
    <3> QED
      BY <1>5, <2>1, <3>1
  <2>2. CASE src # 0 /\ RegWrite(E'.ins.op) /\ E'.ins.rd = src
    BY <1>2, <1>4, <1>7, <2>0, <2>2 DEF RegAfter
  <2>3. CASE src # 0 /\ ~(RegWrite(E'.ins.op) /\ E'.ins.rd = src)
    <3>1. ArchReg'[src] = ArchReg[src]
      BY <1>2, <1>4, <2>0, <2>3 DEF RegAfter
    <3>2. CASE RegWrite(M'.ins.op) /\ M'.ins.rd = src
      BY <1>2, <1>4, <1>8, <2>0, <2>3, <3>1, <3>2 DEF RegAfter
    <3>3. CASE ~(RegWrite(M'.ins.op) /\ M'.ins.rd = src)
      <4>1. ArchReg[src] = reg'[src]
        BY <1>2, <1>4, <2>0, <3>3 DEF RegAfter
      <4>2. reg' = reg
        BY <1>6, <2>3
      <4> QED
        BY <2>3, <3>1, <3>3, <4>1, <4>2
    <3> QED
      BY <3>2, <3>3
  <2> QED
    BY <2>1, <2>2, <2>3
<1>10. /\ OpA' = IF From(E', F.ins.rs1) THEN E'.aluout
                 ELSE IF From(M', F.ins.rs1) THEN M'.wd ELSE reg[F.ins.rs1]
       /\ OpB' = IF From(E', F.ins.rs2) THEN E'.aluout
                 ELSE IF From(M', F.ins.rs2) THEN M'.wd ELSE reg[F.ins.rs2]
  BY <1>1 DEF OpA, OpB, Operand, Forwards
<1> HIDE DEF From
<1> QED
  BY <1>1, <1>9, <1>10

(* What decode reads of the CSRs is what the instructions before leave there. *)
LEMMA CsrArrives ==
    ASSUME Types, Control, InOrder, NEW iok \in BOOLEAN, NEW dok \in BOOLEAN,
           Answers(iok, dok), Edge(iok, dok), Goes(iok, dok), ~branch_enable_d, Live(F)
    PROVE  csr = ArchCsr
<1>1. ~CsrSrc(E.ins.op) /\ ~E.exc.en /\ E.ins.op # "csrrw"
  BY DEF InOrder, FSide, ShapeSide, Shape, TrapOps, CsrSrc
<1>2. CASE ~PcMisaligned
  <2>1. csr = CsrAfter(ExcAfter(csr, M.exc), E)
    BY <1>2, Motion DEF Settled
  <2> QED
    BY <1>1, <2>1 DEF ArchCsr, ExcAfter
<1>3. CASE PcMisaligned
  BY <1>1, <1>3 DEF ArchCsr, ExcAfter, CsrAfter, InOrder, QuietSide
<1> QED
  BY <1>2, <1>3

LEMMA DSideStep ==
    ASSUME Types, Control, InOrder, Precise, NEW iok \in BOOLEAN, NEW dok \in BOOLEAN,
           Answers(iok, dok), Edge(iok, dok)
    PROVE  DSide'
<1> SUFFICES ASSUME Live(D)' PROVE DSide'
  BY DEF DSide
<1>0. prog' = prog /\ Live(D')
  BY DEF Edge, Live
<1>1. CASE ~Goes(iok, dok)
  <2>1. /\ UNCHANGED <<D, E, M, F, pc, mode>> /\ ArchReg' = ArchReg /\ ArchCsr' = ArchCsr
        /\ OpA' = OpA /\ OpB' = OpB
    BY <1>1, ArchStands
  <2>2. Following' = Following /\ Live(D)
    BY <1>0, <2>1 DEF Following, Live
  <2>3. Right(D)'
    BY <1>0, <2>1, <2>2 DEF InOrder, DSide, Right
  <2> QED
    BY <2>1, <2>2, <2>3 DEF InOrder, DSide
<1>2. CASE Goes(iok, dok)
  <2>1. ~BranchEnable /\ ~branch_enable_d
    BY <1>0, <1>2, FlowBranches, FlowLands
  <2>2. ~StallLU /\ Live(F) /\ D' = DecodeSlot /\ Following' = pc
    BY <1>0, <1>2, <2>1, FlowGoes
  <2>3. ~StallDecode
    BY <2>1, <2>2 DEF StallDecode, Precise
  <2>4. /\ D'.ins = F.ins /\ D'.pc = F.pc /\ D'.mode = F.mode /\ D'.exc = F.exc
        /\ D'.csrdata = csr[F.ins.csr]
        /\ F.ins.op \in {"trap", "mret"} => D'.status = csr.mstatus
    BY <2>2, <2>3 DEF DecodeSlot, Raises
  <2>5. ArchCsr' = ArchCsr /\ mode' = mode /\ ~CsrSrc(E'.ins.op)
    BY <1>2, <2>1, Quiet
  <2>6. csr = ArchCsr
    BY <1>2, <2>1, <2>2, CsrArrives
  <2>7. F.mode = mode /\ Right(F) /\ pc = Add(F.pc, Step)
    BY <2>1, <2>2 DEF InOrder, FSide
  <2>8. Right(D)'
    <3>1. Does(D', prog, ArchCsr, mode)
      BY <2>4, <2>7, StaysRight DEF Right
    <3> QED
      BY <1>0, <2>5, <3>1 DEF Right
  <2>9. OpA' = ArchReg'[D'.ins.rs1] /\ OpB' = ArchReg'[D'.ins.rs2]
    BY <1>2, <2>1, <2>2, OperandsArrive
  <2> QED
    BY <2>2, <2>4, <2>5, <2>6, <2>7, <2>8, <2>9 DEF DSide
<1> QED
  BY <1>1, <1>2

LEMMA FSideStep ==
    ASSUME Types, Control, InOrder, Precise, NEW iok \in BOOLEAN, NEW dok \in BOOLEAN,
           Answers(iok, dok), Edge(iok, dok)
    PROVE  FSide'
<1> SUFFICES ASSUME Live(F)', ~branch_enable_d'
             PROVE  /\ pc' = Add(F'.pc, Step) /\ F'.mode = mode' /\ Right(F)'
                    /\ ~CsrSrc(E'.ins.op)
  BY DEF FSide
<1>0. prog' = prog /\ Live(F') /\ ~BranchEnable
  BY Motion DEF Edge, Live
<1>1. ArchCsr' = ArchCsr /\ mode' = mode
  BY <1>0, Quiet
<1>2. CASE ~Goes(iok, dok)
  <2>1. UNCHANGED <<D, E, M, F, pc, mode>>
    BY <1>2, ArchStands
  <2>2. ~branch_enable_d /\ Live(F)
    BY <1>0, <1>2, <2>1, FlowStands
  <2> QED
    BY <1>0, <1>1, <2>1, <2>2 DEF InOrder, FSide, Right
<1>3. CASE Goes(iok, dok)
  <2>1. ~branch_enable_d
    BY <1>0, <1>3, FlowLands
  <2>2. ~CsrSrc(E'.ins.op)
    BY <1>0, <1>3, Quiet
  <2>3. CASE StallLU
    <3>1. F' = F /\ pc' = pc
      BY <1>0, <1>3, <2>1, <2>3, FlowGoes
    <3> QED
      BY <1>0, <1>1, <2>1, <2>2, <3>1 DEF InOrder, FSide, Right
  <2>4. CASE ~StallLU
    <3>1. F' = FetchSlot(iok) /\ pc' = Add(pc, Step) /\ (iok \/ PcMisaligned)
      BY <1>0, <1>3, <2>1, <2>4, FlowGoes
    <3>2. F'.pc = pc /\ F'.mode = mode
      BY <1>0, <3>1, FetchedShape
    <3>3. iok => Settled
      BY <1>3, Motion, WhatGoes DEF Control
    <3>4. Right(FetchSlot(iok))
      BY <2>1, <3>1, <3>3, FetchIsRight
    <3>5. Right(F)'
      BY <1>0, <1>1, <3>1, <3>4 DEF Right
    <3> QED
      BY <1>1, <2>2, <3>1, <3>2, <3>5
  <2> QED
    BY <2>3, <2>4
<1> QED
  BY <1>2, <1>3

LEMMA RestStep ==
    ASSUME Types, Control, InOrder, Precise, NEW iok \in BOOLEAN, NEW dok \in BOOLEAN,
           Answers(iok, dok), Edge(iok, dok)
    PROVE  ESide' /\ PendingSide' /\ QuietSide'
<1>1. CASE ~Goes(iok, dok)
  <2>1. UNCHANGED <<D, E, M, F, pc, mode>>
    BY <1>1, ArchStands
  <2>2. /\ ~PcMisaligned /\ branch_enable_d' = BranchEnable /\ ArchPc' = ArchPc
        /\ branch_enable_d /\ ~BranchEnable => ~Live(F)
    BY <1>1, FlowStands
  <2>3. BranchEnable => Live(D)
    BY DEF BranchEnable, CsrSrc, Live
  <2>4. ESide'
    BY <2>1, <2>2 DEF InOrder, ESide, Live
  <2>5. PendingSide' /\ QuietSide'
    BY <2>1, <2>2, <2>3 DEF PendingSide, QuietSide, Live, PcMisaligned
  <2> QED
    BY <2>4, <2>5
<1>2. CASE Goes(iok, dok) /\ BranchEnable
  BY <1>2, FlowBranches DEF ESide, QuietSide, Live
<1>3. CASE Goes(iok, dok) /\ ~BranchEnable
  <2>1. E' = IF D.valid THEN ExecuteSlot ELSE E
    BY <1>3, ArchGoes DEF InOrder
  <2>2. Live(E') => Live(D) /\ E'.pc = D.pc
    BY <2>1 DEF Control, ValidSide, Empty, ExecuteSlot, Live
  <2>3. ~CsrSrc(E'.ins.op) /\ ~branch_enable_d'
    BY <1>3, Quiet, Motion
  <2>4. PendingSide'
    BY <2>3 DEF PendingSide
  <2>5. CASE branch_enable_d
    <3>1. ~Live(D) /\ ~Live(F')
      BY <1>3, <2>5, FlowLands
    <3> QED
      BY <2>2, <2>3, <2>4, <3>1 DEF ESide, QuietSide, Live
  <2>6. CASE ~branch_enable_d
    <3>1. ArchPc' = Following
      BY <1>3, <2>6, FlowGoes
    <3>2. ESide'
      BY <2>2, <3>1 DEF ESide, InOrder, DSide, Live
    <3>3. PcMisaligned' => PcMisaligned
      <4>1. pc' = pc \/ pc' = Add(pc, Step)
        BY <2>6, Motion
      <4> QED
        BY <4>1, Parity DEF PcMisaligned, Types, TypeOK
    <3>4. PcMisaligned => ~M'.exc.en
      <4>1. M' = IF E.valid THEN MemorySlot ELSE M
        BY <1>3, Lockstep DEF Control, IInv
      <4>2. PcMisaligned => ~E.exc.en
        BY <2>6 DEF InOrder, QuietSide, ShapeSide, Shape, TrapOps, CsrSrc
      <4>3. ~E.valid => ~M.exc.en
        BY DEF Control, ValidSide, Empty, InOrder, ShapeSide, Shape, TrapOps
      <4> QED
        BY <4>1, <4>2, <4>3 DEF MemorySlot
    <3>5. QuietSide'
      BY <2>3, <3>3, <3>4 DEF QuietSide
    <3> QED
      BY <2>4, <3>2, <3>5
  <2> QED
    BY <2>5, <2>6
<1> QED
  BY <1>1, <1>2, <1>3

LEMMA InOrderStep ==
    ASSUME Types, Control, InOrder, Precise, NEW iok \in BOOLEAN, NEW dok \in BOOLEAN,
           Answers(iok, dok), Edge(iok, dok)
    PROVE  InOrder'
  BY ShapeStep, ZeroStep, FSideStep, DSideStep, RestStep DEF InOrder

LEMMA InOrderInitially == Init => InOrder
<1> SUFFICES ASSUME Init PROVE InOrder
  OBVIOUS
<1>1. ~Live(F) /\ ~Live(D) /\ ~Live(E) /\ ~Live(M)
  BY DEF Init, NoIns, Live
<1>2. ShapeSide
  BY DEF Init, NoIns, NoExc, ShapeSide, Shape, TrapOps, Live
<1>3. ZeroSide
  BY RegAssumption DEF Init, ZeroSide, Reg
<1>4. ~branch_enable_d /\ ~CsrSrc(E.ins.op) /\ ~M.exc.en
  BY DEF Init, NoIns, NoExc, CsrSrc
<1> QED
  BY <1>1, <1>2, <1>3, <1>4 DEF InOrder, FSide, DSide, ESide, PendingSide, QuietSide

----------------------------------------------------------------------------
(* The sequential machine is built from the same operators.                  *)
LEMMA ArchOps ==
    /\ \A a, b : Arch!Add(a, b) = Add(a, b)
    /\ Arch!Step = Step
    /\ \A a : Arch!IsMisaligned(a) = IsMisaligned(a) /\ Arch!CellOf(a) = CellOf(a)
    /\ \A op : Arch!MemOp(op) = MemOp(op) /\ Arch!MemRead(op) = MemRead(op)
    /\ \A s, m : Arch!TrapStatus(s, m) = TrapStatus(s, m)
    /\ \A s : Arch!MretStatus(s) = MretStatus(s) /\ Arch!MretMode(s) = MretMode(s)
    /\ \A n, v : Arch!CsrMask(n, v) = CsrMask(n, v)
    /\ Arch!Lines = Lines /\ Arch!LineCause = LineCause
    /\ \A w, l : Arch!EnabledLine(w, l) = EnabledLine(w, l)
    /\ \A w, i : Arch!Bit(w, i) = Bit(w, i)
<1>1. \A w, i : Arch!Bit(w, i) = Bit(w, i)
  BY DEF Arch!Bit, Bit
<1>2. /\ \A a, b : Arch!Add(a, b) = Add(a, b)
      /\ Arch!Step = Step
      /\ \A a : Arch!IsMisaligned(a) = IsMisaligned(a) /\ Arch!CellOf(a) = CellOf(a)
      /\ \A op : Arch!MemOp(op) = MemOp(op) /\ Arch!MemRead(op) = MemRead(op)
  BY DEF Arch!Add, Add, Arch!Step, Step, Arch!IsMisaligned, IsMisaligned, Arch!CellOf, CellOf,
         Arch!MemOp, MemOp, Arch!MemRead, MemRead, Arch!MemWrite, MemWrite
<1>3. /\ \A s, m : Arch!TrapStatus(s, m) = TrapStatus(s, m)
      /\ \A s : Arch!MretStatus(s) = MretStatus(s) /\ Arch!MretMode(s) = MretMode(s)
  BY DEF Arch!TrapStatus, TrapStatus, Arch!MretStatus, MretStatus,
         Arch!MretMode, MretMode, Arch!Status, Status, Arch!Bit, Bit
<1>4. \A n, v : Arch!CsrMask(n, v) = CsrMask(n, v)
  BY DEF Arch!CsrMask, CsrMask
<1>5. Arch!Lines = Lines /\ Arch!LineCause = LineCause
  BY DEF Arch!Lines, Lines, Arch!LineCause, LineCause
<1>6. \A w, l : Arch!EnabledLine(w, l) = EnabledLine(w, l)
  BY <1>1 DEF Arch!EnabledLine, EnabledLine, Arch!LineBit, LineBit
<1> QED
  BY <1>1, <1>2, <1>3, <1>4, <1>5, <1>6

LEMMA SetRegIs ==
    ASSUME Types, ZeroSide, NEW op, RegWrite(op), NEW rd \in Reg, NEW v
    PROVE  RegAfter(ArchReg, op, rd, IF rd = 0 THEN 0 ELSE v) = Arch!SetReg(rd, v)
<1>1. ArchReg \in [Reg -> Word] /\ ArchReg[0] = 0
  BY ArchTypes, ArchZero
<1> QED
  BY <1>1 DEF RegAfter, Arch!SetReg

(* The cycle that takes an instruction into E does all of it.                *)
LEMMA DoneAtOnce ==
    ASSUME Types, Control, InOrder, Precise, NEW iok \in BOOLEAN, NEW dok \in BOOLEAN,
           Answers(iok, dok), Edge(iok, dok), Goes(iok, dok), Live(D)
    PROVE  /\ prog' = prog /\ ArchPc = D.pc
           /\ ArchPc' = IF BranchEnable THEN BranchTarget ELSE Add(D.pc, Step)
           /\ OpA = ArchReg[D.ins.rs1] /\ OpB = ArchReg[D.ins.rs2]
           /\ ArchReg' = RegAfter(ArchReg, D.ins.op, D.ins.rd,
                                  IF D.ins.rd = 0 THEN 0
                                  ELSE IF CsrSrc(D.ins.op) THEN ArchCsr[D.ins.csr]
                                  ELSE IF MemRead(D.ins.op) THEN ArchMem[CellOf(AluOut)]
                                  ELSE AluOut)
           /\ ArchCsr' = ExcAfter(IF D.ins.op = "csrrw"
                                  THEN [ArchCsr EXCEPT ![D.ins.csr] = CsrMask(D.ins.csr, AluOut)]
                                  ELSE ArchCsr, ExecuteExc)
           /\ ArchMem' = IF MemWrite(D.ins.op) THEN [ArchMem EXCEPT ![CellOf(AluOut)] = OpB]
                         ELSE ArchMem
           /\ mode' = IF D.raw THEN NewMode ELSE mode
<1>1. D.valid
  BY DEF Control, ValidSide, Empty, Live
<1>2. E' = ExecuteSlot
  BY <1>1, ArchGoes DEF InOrder
<1>3. /\ E'.ins = D.ins /\ E'.aluout = AluOut /\ E'.memwd = OpB /\ E'.csrdata = D.csrdata
      /\ E'.exc = ExecuteExc
  BY <1>2 DEF ExecuteSlot
<1>4. /\ OpA = ArchReg[D.ins.rs1] /\ OpB = ArchReg[D.ins.rs2]
      /\ CsrSrc(D.ins.op) => D.csrdata = ArchCsr[D.ins.csr]
      /\ Following = Add(D.pc, Step)
  BY DEF InOrder, DSide
<1>5. ArchPc = D.pc
  BY DEF ArchPc
<1>6. ArchPc' = IF BranchEnable THEN BranchTarget ELSE Add(D.pc, Step)
  BY <1>4, FlowBranches, FlowLands, FlowGoes
<1>7. /\ ArchReg' = RegAfter(ArchReg, E'.ins.op, E'.ins.rd, Result(E', ArchMem))
      /\ ArchCsr' = ExcAfter(CsrAfter(ArchCsr, E'), E'.exc)
      /\ ArchMem' = IF MemWrite(E'.ins.op)
                    THEN [ArchMem EXCEPT ![CellOf(E'.aluout)] = E'.memwd] ELSE ArchMem
      /\ mode' = IF D.raw THEN NewMode ELSE mode
  BY ArchGoes DEF InOrder
<1>8. Result(E', ArchMem) = IF D.ins.rd = 0 THEN 0
                            ELSE IF CsrSrc(D.ins.op) THEN ArchCsr[D.ins.csr]
                            ELSE IF MemRead(D.ins.op) THEN ArchMem[CellOf(AluOut)]
                            ELSE AluOut
  BY <1>3, <1>4 DEF Result
<1>9. CsrAfter(ArchCsr, E') = IF D.ins.op = "csrrw"
                              THEN [ArchCsr EXCEPT ![D.ins.csr] = CsrMask(D.ins.csr, AluOut)]
                              ELSE ArchCsr
  BY <1>3 DEF CsrAfter
<1>10. prog' = prog
  BY DEF Edge
<1> QED
  BY <1>3, <1>4, <1>5, <1>6, <1>7, <1>8, <1>9, <1>10

(* A trap.                                                                   *)
LEMMA TrapIsTaken ==
    ASSUME Types, Control, InOrder, Precise, NEW iok \in BOOLEAN, NEW dok \in BOOLEAN,
           Answers(iok, dok), Edge(iok, dok), Goes(iok, dok), D.ins.op = "trap"
    PROVE  Arch!Next
<1>0. Live(D) /\ D \in DSlot /\ D.exc \in Exc
  BY DEF Live, Types, TypeOK, DSlot
<1>1. /\ D.mode = mode /\ D.status = ArchCsr.mstatus /\ Right(D)
  BY <1>0 DEF InOrder, DSide
<1>2. /\ D.exc.en /\ ~D.exc.mret /\ D.exc.epc = D.pc /\ D.ins.csr = "mtvec"
      /\ D.csrdata = ArchCsr["mtvec"]
  BY <1>0 DEF InOrder, DSide, ShapeSide, Shape, TrapOps, CsrSrc
<1>3. /\ ExecuteExc.en /\ ~ExecuteExc.mret /\ ExecuteExc.cause = D.exc.cause
      /\ ExecuteExc.epc = D.pc /\ ExecuteExc.status = TrapStatus(ArchCsr.mstatus, mode)
  BY <1>0, <1>1, <1>2 DEF ExecuteExc, Exc, Raises
<1>4. /\ ArchCsr' = [ArchCsr EXCEPT !.mstatus = TrapStatus(ArchCsr.mstatus, mode),
                                   !.mcause = D.exc.cause, !.mepc = D.pc]
  BY <1>0, <1>3, DoneAtOnce DEF ExcAfter
<1>5. mode' = "M"
  BY <1>0, <1>1, DoneAtOnce DEF NewMode, Raises, Precise
<1>6. ArchPc = D.pc /\ ArchPc' = ArchCsr["mtvec"]
  BY <1>0, <1>2, DoneAtOnce DEF BranchEnable, BranchTarget, CsrSrc
<1>7. prog' = prog /\ ArchReg' = ArchReg /\ ArchMem' = ArchMem
  BY <1>0, DoneAtOnce DEF RegAfter, RegWrite, MemWrite
<1>8. Arch!EnterTrap(D.exc.cause)
  BY <1>4, <1>5, <1>6, <1>7, ArchOps, ArchTypes DEF Arch!EnterTrap, Arch!Goto, Csrs
<1>9. TrapsRightly(D, prog, ArchCsr, mode)
  <2>1. D.pc \in Word
    BY <1>0 DEF DSlot
  <2>2. WordAt(prog, D.pc).op # "trap"
    BY <2>1, ProgramWord DEF Types, TypeOK
  <2> QED
    BY <1>1, <2>2 DEF Right, Does
<1>10. CASE Permitted(D.exc.cause, ArchCsr, mode)
  <2>1. Arch!Interrupt
    BY <1>8, <1>10, ArchOps DEF Permitted, Arch!Interrupt
  <2> QED
    BY <2>1 DEF Arch!Next
<1>11. CASE IsMisaligned(D.pc) /\ D.exc.cause = 0
  BY <1>6, <1>8, <1>11, ArchOps DEF Arch!Next, Arch!MisalignedFetch
<1>12. CASE /\ ~IsMisaligned(D.pc)
            /\ \/ WordAt(prog, D.pc).op \in {"zero", "illegal"} /\ D.exc.cause = 2
               \/ /\ WordAt(prog, D.pc).op = "ecall"
                  /\ D.exc.cause = IF D.mode = "M" THEN 11 ELSE 8
  <2>1. Arch!Current = WordAt(prog, D.pc)
    BY <1>6, ArchOps DEF Arch!Current, WordAt
  <2>2. Arch!Exception(Arch!Current)
    BY <1>1, <1>8, <1>12, <2>1 DEF Arch!Exception
  <2> QED
    BY <1>6, <1>12, <2>2, ArchOps DEF Arch!Next, Arch!Execute
<1> QED
  BY <1>9, <1>10, <1>11, <1>12 DEF TrapsRightly

(* Every other instruction.                                                  *)
LEMMA InstructionIsDone ==
    ASSUME Types, Control, InOrder, Precise, NEW iok \in BOOLEAN, NEW dok \in BOOLEAN,
           Answers(iok, dok), Edge(iok, dok), Goes(iok, dok), Live(D), D.ins.op # "trap"
    PROVE  Arch!Next
<1> DEFINE i == D.ins
<1>1. /\ D \in DSlot /\ i \in Instr /\ i.rd \in Reg /\ i.op # "softtrap"
      /\ ArchCsr \in [Csrs -> Word]
  BY ArchTypes DEF Types, TypeOK, DSlot, Instr, Precise
<1>2. /\ prog' = prog /\ ArchPc = D.pc
      /\ ArchPc' = IF BranchEnable THEN BranchTarget ELSE Add(D.pc, Step)
      /\ OpA = ArchReg[i.rs1] /\ OpB = ArchReg[i.rs2]
  BY DoneAtOnce
<1>3. /\ ArchReg' = RegAfter(ArchReg, i.op, i.rd,
                             IF i.rd = 0 THEN 0
                             ELSE IF CsrSrc(i.op) THEN ArchCsr[i.csr]
                             ELSE IF MemRead(i.op) THEN ArchMem[CellOf(AluOut)] ELSE AluOut)
      /\ ArchCsr' = ExcAfter(IF i.op = "csrrw"
                             THEN [ArchCsr EXCEPT ![i.csr] = CsrMask(i.csr, AluOut)]
                             ELSE ArchCsr, ExecuteExc)
      /\ ArchMem' = IF MemWrite(i.op) THEN [ArchMem EXCEPT ![CellOf(AluOut)] = OpB]
                    ELSE ArchMem
      /\ mode' = IF D.raw THEN NewMode ELSE mode
  BY DoneAtOnce
<1>4. /\ Right(D) /\ D.mode = mode /\ (i.op = "mret" => D.status = ArchCsr.mstatus)
      /\ (i.op = "mret" => D.csrdata = ArchCsr[i.csr])
  BY DEF InOrder, DSide, CsrSrc
<1>5. ~IsMisaligned(D.pc)
  BY <1>1, <1>4 DEF Right, Does
<1>6. Arch!Current = WordAt(prog, D.pc)
  BY <1>2, ArchOps DEF Arch!Current, WordAt
<1>7. IF i.op = "mret" THEN Arch!Current.op = "mret" ELSE Arch!Current = i
  BY <1>1, <1>4, <1>6 DEF Right, Does
<1>8. Arch!Execute => Arch!Next
  BY <1>2, <1>5, ArchOps DEF Arch!Next
<1>9. i.op # "mret" => D.exc.en = FALSE /\ ExecuteExc = D.exc /\ mode' = mode
  <2> SUFFICES ASSUME i.op # "mret"
               PROVE  D.exc.en = FALSE /\ ExecuteExc = D.exc /\ mode' = mode
    OBVIOUS
  <2>1. i.op \notin TrapOps
    BY <1>1 DEF TrapOps
  <2>2. ~D.exc.en /\ D.exc \in Exc
    BY <1>1, <2>1 DEF InOrder, ShapeSide, Shape, DSlot
  <2>3. ExecuteExc = D.exc /\ NewMode = mode
    BY <1>4, <2>1 DEF ExecuteExc, NewMode, Raises, TrapOps
  <2> QED
    BY <1>3, <2>2, <2>3 DEF Exc
<1>10. i.op # "mret" => ArchCsr' = IF i.op = "csrrw"
                                   THEN [ArchCsr EXCEPT ![i.csr] = CsrMask(i.csr, AluOut)]
                                   ELSE ArchCsr
  BY <1>3, <1>9 DEF ExcAfter
<1>11. ~RegWrite(i.op) => ArchReg' = ArchReg
  BY <1>3 DEF RegAfter
<1>12. ASSUME NEW v, RegWrite(i.op), ArchReg' = RegAfter(ArchReg, i.op, i.rd,
                                                         IF i.rd = 0 THEN 0 ELSE v)
       PROVE  ArchReg' = Arch!SetReg(i.rd, v)
  BY <1>1, <1>12, SetRegIs DEF InOrder
<1>13. i.op \in {"alu", "addi", "load", "store", "beq", "jal", "jalr", "csrrw", "mret"}
  <2>1. /\ i.op \in Ops
        /\ i.op \notin {"nop", "zero", "illegal", "ecall", "ebreak", "trap", "softtrap"}
    BY <1>1 DEF Live, Instr, InOrder, ShapeSide, Shape
  <2> QED
    BY <2>1 DEF Ops
<1>14. CASE i.op \in {"alu", "addi"}
  <2>1. ~BranchEnable /\ ArchMem' = ArchMem /\ ArchCsr' = ArchCsr /\ mode' = mode
    BY <1>3, <1>9, <1>10, <1>14 DEF BranchEnable, CsrSrc, MemWrite
  <2>2. AluOut = Add(ArchReg[i.rs1], IF i.op = "alu" THEN ArchReg[i.rs2] ELSE i.imm)
    BY <1>2, <1>14 DEF AluOut
  <2>3. ArchReg' = Arch!SetReg(i.rd, AluOut)
    BY <1>3, <1>12, <1>14 DEF RegWrite, CsrSrc, MemRead
  <2>4. Arch!Compute(Arch!Current)
    BY <1>2, <1>7, <1>14, <2>1, <2>2, <2>3, ArchOps DEF Arch!Compute, Arch!Goto, Arch!NextPc
  <2> QED
    BY <1>8, <2>4 DEF Arch!Execute
<1>15. CASE i.op = "load"
  <2>1. ~BranchEnable /\ ArchMem' = ArchMem /\ ArchCsr' = ArchCsr /\ mode' = mode
    BY <1>3, <1>9, <1>10, <1>15 DEF BranchEnable, CsrSrc, MemWrite
  <2>2. AluOut = Add(ArchReg[i.rs1], i.imm) /\ ~IsMisaligned(AluOut)
    BY <1>2, <1>15 DEF AluOut, Precise, MemMisaligned, MemOp, MemRead
  <2>3. ArchReg' = Arch!SetReg(i.rd, ArchMem[CellOf(AluOut)])
    BY <1>3, <1>12, <1>15 DEF RegWrite, CsrSrc, MemRead
  <2>4. Arch!Load(Arch!Current)
    BY <1>2, <1>7, <1>15, <2>1, <2>2, <2>3, ArchOps
       DEF Arch!Load, Arch!Goto, Arch!NextPc, Arch!DataAddress
  <2> QED
    BY <1>8, <2>4 DEF Arch!Execute
<1>16. CASE i.op = "store"
  <2>1. ~BranchEnable /\ ArchReg' = ArchReg /\ ArchCsr' = ArchCsr /\ mode' = mode
    BY <1>9, <1>10, <1>11, <1>16 DEF BranchEnable, CsrSrc, RegWrite
  <2>2. AluOut = Add(ArchReg[i.rs1], i.imm) /\ ~IsMisaligned(AluOut)
    BY <1>2, <1>16 DEF AluOut, Precise, MemMisaligned, MemOp, MemWrite
  <2>3. ArchMem' = [ArchMem EXCEPT ![CellOf(AluOut)] = ArchReg[i.rs2]]
    BY <1>2, <1>3, <1>16 DEF MemWrite
  <2>4. Arch!Store(Arch!Current)
    BY <1>2, <1>7, <1>16, <2>1, <2>2, <2>3, ArchOps
       DEF Arch!Store, Arch!Goto, Arch!NextPc, Arch!DataAddress
  <2> QED
    BY <1>8, <2>4 DEF Arch!Execute
<1>17. CASE i.op = "beq"
  <2>1. /\ ArchReg' = ArchReg /\ ArchMem' = ArchMem /\ ArchCsr' = ArchCsr /\ mode' = mode
        /\ BranchEnable <=> ArchReg[i.rs1] = ArchReg[i.rs2]
        /\ BranchTarget = Add(D.pc, i.imm)
    BY <1>2, <1>3, <1>9, <1>10, <1>11, <1>17
       DEF BranchEnable, BranchTarget, CsrSrc, RegWrite, MemWrite
  <2>2. Arch!Branch(Arch!Current)
    BY <1>2, <1>7, <1>17, <2>1, ArchOps DEF Arch!Branch, Arch!Goto, Arch!NextPc
  <2> QED
    BY <1>8, <2>2 DEF Arch!Execute
<1>18. CASE i.op \in {"jal", "jalr"}
  <2>1. /\ BranchEnable /\ ArchMem' = ArchMem /\ ArchCsr' = ArchCsr /\ mode' = mode
        /\ BranchTarget = Add(IF i.op = "jal" THEN D.pc ELSE ArchReg[i.rs1], i.imm)
        /\ AluOut = Add(D.pc, Step)
    BY <1>2, <1>3, <1>9, <1>10, <1>18 DEF BranchEnable, BranchTarget, AluOut, MemWrite
  <2>2. ArchReg' = Arch!SetReg(i.rd, AluOut)
    BY <1>3, <1>12, <1>18 DEF RegWrite, CsrSrc, MemRead
  <2>3. Arch!Jump(Arch!Current)
    BY <1>2, <1>7, <1>18, <2>1, <2>2, ArchOps DEF Arch!Jump, Arch!Goto, Arch!NextPc
  <2> QED
    BY <1>8, <2>3 DEF Arch!Execute
<1>19. CASE i.op = "csrrw"
  <2>1. /\ BranchEnable /\ BranchTarget = Add(D.pc, Step) /\ AluOut = ArchReg[i.rs2]
        /\ ArchMem' = ArchMem /\ mode' = mode
        /\ ArchCsr' = [ArchCsr EXCEPT ![i.csr] = CsrMask(i.csr, ArchReg[i.rs2])]
    BY <1>2, <1>3, <1>9, <1>10, <1>19
       DEF BranchEnable, BranchTarget, AluOut, CsrSrc, MemWrite
  <2>2. ArchReg' = Arch!SetReg(i.rd, ArchCsr[i.csr])
    BY <1>3, <1>12, <1>19 DEF RegWrite, CsrSrc
  <2>3. Arch!CsrReadWrite(Arch!Current)
    BY <1>2, <1>7, <1>19, <2>1, <2>2, ArchOps
       DEF Arch!CsrReadWrite, Arch!Goto, Arch!NextPc
  <2> QED
    BY <1>8, <2>3 DEF Arch!Execute
<1>20. CASE i.op = "mret"
  <2>1. D.exc.en /\ D.exc.mret /\ i.csr = "mepc" /\ D.raw /\ D.exc \in Exc
    BY <1>1, <1>20 DEF InOrder, ShapeSide, Shape, TrapOps, DSlot
  <2>2. /\ ExecuteExc.en /\ ExecuteExc.mret
        /\ ExecuteExc.status = MretStatus(ArchCsr.mstatus)
    BY <1>4, <1>20, <2>1 DEF ExecuteExc, Exc, Raises
  <2>3. ArchCsr' = [ArchCsr EXCEPT !.mstatus = MretStatus(ArchCsr.mstatus)]
    BY <1>3, <1>20, <2>2 DEF ExcAfter
  <2>4. mode' = MretMode(ArchCsr.mstatus)
    BY <1>3, <1>4, <1>20, <2>1 DEF NewMode, Raises
  <2>5. ArchPc' = ArchCsr.mepc /\ ArchReg' = ArchReg /\ ArchMem' = ArchMem
    BY <1>2, <1>3, <1>4, <1>11, <1>20, <2>1
       DEF BranchEnable, BranchTarget, CsrSrc, RegWrite, MemWrite
  <2>6. Arch!Mret(Arch!Current)
    BY <1>2, <1>7, <1>20, <2>3, <2>4, <2>5, ArchOps DEF Arch!Mret, Arch!Goto
  <2> QED
    BY <1>8, <2>6 DEF Arch!Execute
<1> QED
  BY <1>13, <1>14, <1>15, <1>16, <1>17, <1>18, <1>19, <1>20

(* A cycle that takes nothing into E is none of the sequential machine's.     *)
LEMMA StuttersElse ==
    ASSUME Types, Control, InOrder, Precise, NEW iok \in BOOLEAN, NEW dok \in BOOLEAN,
           Answers(iok, dok), Edge(iok, dok), ~(Goes(iok, dok) /\ Live(D))
    PROVE  UNCHANGED Arch!vars
<1>1. ~(Goes(iok, dok) /\ BranchEnable)
  BY DEF Live, BranchEnable, CsrSrc
<1>2. prog' = prog /\ ArchCsr' = ArchCsr /\ mode' = mode
  BY <1>1, Quiet DEF Edge
<1>3. CASE ~Goes(iok, dok)
  BY <1>2, <1>3, ArchStands, FlowStands DEF Arch!vars
<1>4. CASE Goes(iok, dok)
  <2>1. ~Live(D) /\ ~BranchEnable
    BY <1>1, <1>4
  <2>2. E' = IF D.valid THEN ExecuteSlot ELSE E
    BY <1>4, ArchGoes DEF InOrder
  <2>3. E'.ins.op = "nop"
    BY <2>1, <2>2 DEF Control, ValidSide, Empty, ExecuteSlot, Live
  <2>4. ArchReg' = ArchReg /\ ArchMem' = ArchMem
    BY <1>4, <2>3, ArchGoes DEF InOrder, RegAfter, RegWrite, MemWrite
  <2>5. ArchPc' = ArchPc
    BY <1>4, <2>1, FlowLands, FlowGoes DEF ArchPc, Following
  <2> QED
    BY <1>2, <2>4, <2>5 DEF Arch!vars
<1> QED
  BY <1>3, <1>4

Ordered == Inv /\ InOrder

LEMMA OrderedStep == Ordered /\ Precise /\ [Next]_vars => Ordered'
<1> SUFFICES ASSUME Ordered, Precise, [Next]_vars PROVE Ordered'
  OBVIOUS
<1>1. Inv'
  BY InvStep DEF Ordered
<1>2. CASE Next
  <2>1. PICK iok, dok \in BOOLEAN : Answers(iok, dok) /\ Edge(iok, dok)
    BY <1>2, NextIsEdge
  <2> QED
    BY <1>1, <2>1, InOrderStep DEF Ordered, Inv
<1>3. CASE UNCHANGED vars
  <2>1. UNCHANGED <<prog, mem, pc, F, D, E, M, reg, csr, mode, branch_enable_d,
                    branch_target_d>>
    BY <1>3 DEF vars, stages, control, intr
  <2>2. /\ ArchCsr' = ArchCsr /\ ArchReg' = ArchReg /\ ArchPc' = ArchPc
        /\ OpA' = OpA /\ OpB' = OpB /\ Following' = Following
    BY <2>1 DEF ArchCsr, ArchReg, ArchPc, OpA, OpB, Operand, Forwards, Following, Live
  <2>3. ShapeSide' /\ ZeroSide'
    BY <2>1 DEF Ordered, InOrder, ShapeSide, Shape, ZeroSide, Live
  <2>4. FSide' /\ DSide'
    BY <2>1, <2>2 DEF Ordered, InOrder, FSide, DSide, Right, Live
  <2>5. ESide' /\ PendingSide' /\ QuietSide'
    BY <2>1, <2>2 DEF Ordered, InOrder, ESide, PendingSide, QuietSide, PcMisaligned, Live
  <2> QED
    BY <1>1, <2>3, <2>4, <2>5 DEF Ordered, InOrder
<1> QED
  BY <1>2, <1>3

LEMMA ArchInit == Init => Arch!Init
<1> SUFFICES ASSUME Init PROVE Arch!Init
  OBVIOUS
<1>1. prog \in Seq(Instr) /\ Len(prog) > 0
  BY ProgramAssumption DEF Init
<1>2. Arch!Instr = Instr /\ Arch!Reg = Reg /\ Arch!Csrs = Csrs /\ Arch!Cell = Cell
  BY DEF Arch!Instr, Instr, Arch!Reg, Reg, Arch!Csrs, Csrs, Arch!Cell, Cell,
         Arch!Word, Word, Arch!Ops, Ops
<1>3. /\ D.ins = NoIns /\ E.ins = NoIns /\ F.ins = NoIns /\ M.ins = NoIns
      /\ E.exc = NoExc /\ M.exc = NoExc /\ ~branch_enable_d /\ pc = 0
      /\ reg = [r \in Reg |-> 0] /\ csr = [c \in Csrs |-> 0] /\ mem = [c \in Cell |-> 0]
      /\ mode = "M"
  BY DEF Init
<1>4. /\ ArchPc = 0 /\ ArchReg = [r \in Reg |-> 0] /\ ArchCsr = [c \in Csrs |-> 0]
      /\ ArchMem = [c \in Cell |-> 0]
  BY <1>3 DEF ArchPc, ArchReg, ArchCsr, ArchMem, NoIns, NoExc, Live, RegAfter, RegWrite,
     ExcAfter, CsrAfter, MemWrite
<1> QED
  BY <1>1, <1>2, <1>3, <1>4 DEF Arch!Init

(* Where the four moments named in Precise do not come, the pipeline executes *)
(* its program one instruction at a time.                                    *)
THEOREM PipelineIsSequential == Spec /\ []Precise => Sequential
<1>1. Init => Ordered
  BY InvInitially, InOrderInitially DEF Ordered
<1>2. Ordered /\ Precise /\ [Next]_vars => [Arch!Next]_(Arch!vars)
  <2> SUFFICES ASSUME Ordered, Precise, [Next]_vars PROVE Arch!Next \/ UNCHANGED Arch!vars
    OBVIOUS
  <2>1. CASE Next
    <3>1. PICK iok, dok \in BOOLEAN : Answers(iok, dok) /\ Edge(iok, dok)
      BY <2>1, NextIsEdge
    <3>2. Types /\ Control /\ InOrder
      BY DEF Ordered, Inv
    <3>3. CASE Goes(iok, dok) /\ D.ins.op = "trap"
      BY <3>1, <3>2, <3>3, TrapIsTaken
    <3>4. CASE Goes(iok, dok) /\ Live(D) /\ D.ins.op # "trap"
      BY <3>1, <3>2, <3>4, InstructionIsDone
    <3>5. CASE ~(Goes(iok, dok) /\ Live(D))
      BY <3>1, <3>2, <3>5, StuttersElse
    <3> QED
      BY <3>3, <3>4, <3>5 DEF Live
  <2>2. CASE UNCHANGED vars
    <3>1. UNCHANGED <<prog, mem, pc, F, D, E, M, reg, csr, mode, branch_enable_d,
                      branch_target_d>>
      BY <2>2 DEF vars, stages, control, intr
    <3> QED
      BY <3>1 DEF Arch!vars, ArchCsr, ArchReg, ArchPc, ArchMem, Live
  <2> QED
    BY <2>1, <2>2
<1> QED
  BY <1>1, <1>2, OrderedStep, ArchInit, PTL DEF Spec, Sequential, Arch!Spec
=============================================================================

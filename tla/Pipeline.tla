------------------------------ MODULE Pipeline ------------------------------
(* The five-stage core, vsrc/src/core.sv with its fetch, decode, execute,    *)
(* memory and writeback stages, the forwarding network, the register and    *)
(* CSR files, the interrupt logic, and the bus arbiter that serves its two   *)
(* buses.  A step is one clock edge: every primed value is what the code     *)
(* latches from this cycle's combinational signals, which are the operators  *)
(* below.  The memory behind the arbiter answers the selected request in     *)
(* any cycle it likes; address translation and protection are off here (they *)
(* are modelled in MemPath).                                                 *)
EXTENDS InstructionSet, Sequences, CBusArbiter

CONSTANTS Programs,    \* the instruction memories considered
          LinesUsed(_), \* the interrupt lines that may move under a program
          Held         \* TRUE: a raised line stays up

(* A program is words: decode alone makes the classes nop, trap and softtrap, *)
(* and leaves a store no destination.                                        *)
ASSUME ProgramAssumption ==
    \A p \in Programs : /\ p \in Seq(Instr) /\ Len(p) > 0
                        /\ \A k \in DOMAIN p :
                              /\ p[k].op \notin {"nop", "trap", "softtrap"}
                              /\ p[k].op = "store" => p[k].rd = 0
ASSUME LineAssumption == /\ \A p \in Programs : LinesUsed(p) \subseteq Lines
                         /\ Held \in BOOLEAN

VARIABLES
    prog, mem,                      \* instruction memory (fixed) and data memory
    pc, F, D, E, M, W,              \* program counter and stage registers
    reg, csr, mode,                 \* REG, CSR, priviledgeMode
    dreq,                           \* the data request register of memory.sv
    stallmem_d, branch_enable_d, branch_target_d,
    interrupts, interrupts_d,       \* the lines now and one cycle ago
    receive, canRecover,            \* receive_interrupt, ..._can_recover
    busy, index,                    \* the arbiter
    shown                           \* history: M's instruction has reached W

stages == <<pc, F, D, E, M, W>>
control == <<dreq, stallmem_d, branch_enable_d, branch_target_d>>
intr == <<interrupts, interrupts_d, receive, canRecover>>
vars == <<prog, mem, stages, reg, csr, mode, control, intr, busy, index, shown>>

NoIns == [op |-> "nop", rd |-> 0, rs1 |-> 0, rs2 |-> 0, imm |-> 0, csr |-> "mtvec"]
NoExc == [en |-> FALSE, mret |-> FALSE, cause |-> 0, epc |-> 0, status |-> 0]
NoReq == [valid |-> FALSE, write |-> FALSE, addr |-> 0, data |-> 0]

Exc == [en : BOOLEAN, mret : BOOLEAN, cause : Word, epc : Word, status : Word]
DReq == [valid : BOOLEAN, write : BOOLEAN, addr : Word, data : Word]
FSlot == [valid : BOOLEAN, raw : BOOLEAN, pc : Word, ins : Instr, exc : Exc,
          mode : Modes]
DSlot == [valid : BOOLEAN, raw : BOOLEAN, pc : Word, ins : Instr, exc : Exc,
          mode : Modes, srca : Word, srcb : Word, csrdata : Word, status : Word]
ESlot == [valid : BOOLEAN, raw : BOOLEAN, pc : Word, ins : Instr, exc : Exc,
          aluout : Word, memwd : Word, csrdata : Word]
MSlot == [valid : BOOLEAN, raw : BOOLEAN, pc : Word, ins : Instr, exc : Exc,
          wd : Word]
WSlot == [valid : BOOLEAN, pc : Word]

Live(slot) == slot.ins.op # "nop"

TypeOK ==
    /\ prog \in Seq(Instr)
    /\ mem \in [Cell -> Word]
    /\ pc \in Word
    /\ F \in FSlot /\ D \in DSlot /\ E \in ESlot /\ M \in MSlot /\ W \in WSlot
    /\ reg \in [Reg -> Word]
    /\ csr \in [Csrs -> Word]
    /\ mode \in Modes
    /\ dreq \in DReq
    /\ stallmem_d \in BOOLEAN /\ branch_enable_d \in BOOLEAN
    /\ branch_target_d \in Word
    /\ interrupts \subseteq Lines /\ interrupts_d \subseteq Lines
    /\ receive \in BOOLEAN /\ canRecover \in BOOLEAN
    /\ busy \in BOOLEAN /\ index \in Port
    /\ shown \in BOOLEAN

(* The state reset leaves: every register 0, pc at the reset vector,         *)
(* machine mode.                                                             *)
Init ==
    /\ prog \in Programs
    /\ mem = [c \in Cell |-> 0]
    /\ pc = 0
    /\ F = [valid |-> FALSE, raw |-> FALSE, pc |-> 0, ins |-> NoIns,
            exc |-> NoExc, mode |-> "U"]
    /\ D = [valid |-> FALSE, raw |-> FALSE, pc |-> 0, ins |-> NoIns,
            exc |-> NoExc, mode |-> "U", srca |-> 0, srcb |-> 0,
            csrdata |-> 0, status |-> 0]
    /\ E = [valid |-> FALSE, raw |-> FALSE, pc |-> 0, ins |-> NoIns,
            exc |-> NoExc, aluout |-> 0, memwd |-> 0, csrdata |-> 0]
    /\ M = [valid |-> FALSE, raw |-> FALSE, pc |-> 0, ins |-> NoIns,
            exc |-> NoExc, wd |-> 0]
    /\ W = [valid |-> FALSE, pc |-> 0]
    /\ reg = [r \in Reg |-> 0]
    /\ csr = [c \in Csrs |-> 0]
    /\ mode = "M"
    /\ dreq = NoReq
    /\ stallmem_d = FALSE /\ branch_enable_d = FALSE /\ branch_target_d = 0
    /\ interrupts = {} /\ interrupts_d = {}
    /\ receive = FALSE /\ canRecover = FALSE
    /\ busy = FALSE /\ index = Data
    /\ shown = FALSE

----------------------------------------------------------------------------
(* Stall and flush signals.  iok and dok say that the instruction and the    *)
(* data response arrive in this cycle.                                       *)
(* The variants, for the mutation runs: the load-use check forgets the       *)
(* second operand, an answered access does not push the pipeline on, pc does *)
(* not wait for its word, F is not filled for a misaligned pc, and W takes    *)
(* M's instruction in every cycle.                                           *)
PcMisaligned == IsMisaligned(pc)
StallPc(iok) == ~PcMisaligned /\ ~iok
StallMem(dok) == MemOp(E.ins.op) /\ ~dok
OneOperandLU == /\ MemRead(D.ins.op) \/ CsrSrc(D.ins.op)
                /\ F.ins.rs1 = D.ins.rd
                /\ ~branch_enable_d
StallLU == /\ MemRead(D.ins.op) \/ CsrSrc(D.ins.op)
           /\ F.ins.rs1 = D.ins.rd \/ F.ins.rs2 = D.ins.rd
           /\ ~branch_enable_d
NoForceFlush(dok) == FALSE
ForceFlush(dok) == ~StallMem(dok) /\ stallmem_d

MoveEarly(iok, dok) == \/ ForceFlush(dok) /\ branch_enable_d
                       \/ ~StallMem(dok) /\ ~StallLU
MovePc(iok, dok) == \/ ForceFlush(dok) /\ branch_enable_d
                    \/ ~StallPc(iok) /\ ~StallMem(dok) /\ ~StallLU
FlushOnWord(iok, dok) == \/ iok /\ ~StallMem(dok) /\ ~StallLU
                         \/ ~StallLU /\ ForceFlush(dok)
FlushF(iok, dok) == \/ iok /\ ~StallMem(dok) /\ ~StallPc(iok) /\ ~StallLU
                    \/ ~StallLU /\ ForceFlush(dok)
                    \/ PcMisaligned
Advance(valid, iok, dok) == \/ valid /\ ~StallMem(dok) /\ ~StallPc(iok)
                            \/ ForceFlush(dok)
FlushAlways(iok) == M.valid
FlushW(iok) == M.valid /\ ~StallPc(iok)

----------------------------------------------------------------------------
(* Execute: the operands of D's instruction, forwarded from E or M, its      *)
(* result, and where it sends the program.                                   *)
Forwards(from, src) == /\ D.pc # from.pc
                       /\ RegWrite(from.ins.op)
                       /\ from.ins.rd # 0 /\ from.ins.rd = src
Operand(src, read) == IF Forwards(E, src) THEN E.aluout
                      ELSE IF Forwards(M, src) THEN M.wd ELSE read
OpA == Operand(D.ins.rs1, D.srca)
OpB == Operand(D.ins.rs2, D.srcb)

AluOut == CASE D.ins.op = "alu"                      -> Add(OpA, OpB)
            [] D.ins.op \in {"addi", "load", "store"} -> Add(OpA, D.ins.imm)
            [] D.ins.op \in {"jal", "jalr"}           -> Add(D.pc, Step)
            [] D.ins.op = "csrrw"                    -> OpB
            [] OTHER                                 -> 0

BranchEnable == \/ D.ins.op = "beq" /\ OpA = OpB
                \/ D.ins.op \in {"jal", "jalr"}
                \/ CsrSrc(D.ins.op)
BranchTarget == CASE D.ins.op \in {"beq", "jal"}   -> Add(D.pc, D.ins.imm)
                  [] D.ins.op = "jalr"             -> Add(OpA, D.ins.imm)
                  [] D.ins.op = "csrrw"            -> Add(D.pc, Step)
                  [] D.ins.op \in {"mret", "trap"} -> D.csrdata
                  [] OTHER                         -> 0

MemMisaligned == MemOp(D.ins.op) /\ IsMisaligned(AluOut)
MemCause == IF MemRead(D.ins.op) THEN 4 ELSE 6

NewMode == IF Raises(D.ins.op) THEN "M"
           ELSE IF D.ins.op = "mret" THEN MretMode(D.status) ELSE D.mode
ExecuteExc == IF Raises(D.ins.op)
              THEN [D.exc EXCEPT !.status = TrapStatus(D.status, D.mode)]
              ELSE IF D.ins.op = "mret"
              THEN [D.exc EXCEPT !.status = MretStatus(D.status)] ELSE D.exc

ExecuteSlot == [valid |-> D.valid, raw |-> D.raw, pc |-> D.pc, ins |-> D.ins,
                exc |-> ExecuteExc, aluout |-> AluOut, memwd |-> OpB,
                csrdata |-> D.csrdata]

----------------------------------------------------------------------------
(* Interrupts.  A line is noticed when the lines, read as a number, grow,    *)
(* when a CSR instruction may have enabled one, or on mret; it is taken on    *)
(* the next fetched instruction, which it replaces.                          *)
LineValue(s) == (IF "trint" \in s THEN 4 ELSE 0) + (IF "swint" \in s THEN 2 ELSE 0)
                + (IF "exint" \in s THEN 1 ELSE 0)
CsrEval == E.ins.op = "csrrw" /\ E.ins.csr \in {"mie", "mstatus"}
NewInterrupt == \/ LineValue(interrupts) > LineValue(interrupts_d)
                \/ CsrEval
                \/ D.ins.op = "mret"
Enabled == {l \in interrupts : EnabledLine(csr.mie, l)}
Interrupted(iok) == /\ Bit(csr.mstatus, 0) = 1 \/ mode # "M"
                    /\ NewInterrupt \/ receive
                    /\ iok
                    /\ Enabled # {}
IrqCause == LineCause[CHOOSE l \in Enabled :
                        \A k \in Enabled : LineValue({k}) <= LineValue({l})]

----------------------------------------------------------------------------
(* Fetch and decode of the word at pc: a pending trap replaces it; with no   *)
(* response there is nothing to decode.                                      *)
FetchWord == prog[((pc \div Step) % Len(prog)) + 1]
Slot(raw, ins, exc) == [valid |-> TRUE, raw |-> raw, pc |-> pc, ins |-> ins,
                        exc |-> exc, mode |-> mode]
TrapIns(op, name) == [NoIns EXCEPT !.op = op, !.csr = name]
TrapExc(cause) == [NoExc EXCEPT !.en = TRUE, !.cause = cause, !.epc = pc]
TrapSlot(raw, cause) == Slot(raw, TrapIns("trap", "mtvec"), TrapExc(cause))

Decoded(i) ==
    CASE i.op = "zero"    -> TrapSlot(FALSE, 2)
      [] i.op = "illegal" -> TrapSlot(TRUE, 2)
      [] i.op = "ecall"   -> TrapSlot(TRUE, IF mode = "M" THEN 11 ELSE 8)
      [] i.op = "ebreak"  -> Slot(TRUE, TrapIns("softtrap", "mtvec"), TrapExc(2))
      [] i.op = "mret"    -> Slot(TRUE, TrapIns("mret", "mepc"),
                                  [NoExc EXCEPT !.en = TRUE, !.mret = TRUE])
      [] OTHER            -> Slot(TRUE, i, NoExc)

Fetched(iok) == LET raw == iok /\ FetchWord.op # "zero"
                IN  IF Interrupted(iok) THEN TrapSlot(raw, IrqCause)
                    ELSE IF PcMisaligned THEN TrapSlot(raw, 0)
                    ELSE IF MemMisaligned THEN TrapSlot(raw, MemCause)
                    ELSE IF iok THEN Decoded(FetchWord)
                    ELSE Slot(FALSE, NoIns, NoExc)

(* Squashing a slot clears its control bits, its word and its exception and  *)
(* keeps its register numbers, which the load-use check still reads.         *)
Squash(f) == [f EXCEPT !.raw = FALSE, !.ins.op = "nop", !.exc = NoExc]
FetchSlot(iok) == IF branch_enable_d THEN Squash(Fetched(iok)) ELSE Fetched(iok)

StallDecode == StallLU \/ branch_enable_d \/ MemMisaligned
DecodeSlot ==
    LET f == IF StallDecode THEN Squash(F) ELSE F
    IN  [valid |-> TRUE, raw |-> f.raw, pc |-> f.pc, ins |-> f.ins,
         exc |-> f.exc, mode |-> f.mode,
         srca |-> reg[f.ins.rs1], srcb |-> reg[f.ins.rs2],
         csrdata |-> csr[f.ins.csr],
         status |-> IF Raises(F.ins.op) \/ F.ins.op = "mret"
                    THEN csr.mstatus ELSE 0]

MemorySlot ==
    [valid |-> TRUE, raw |-> E.raw, pc |-> E.pc, ins |-> E.ins, exc |-> E.exc,
     wd |-> IF ~RegWrite(E.ins.op) \/ E.ins.rd = 0 THEN 0
            ELSE IF CsrSrc(E.ins.op) THEN E.csrdata
            ELSE IF MemRead(E.ins.op) THEN mem[CellOf(dreq.addr)]
            ELSE E.aluout]

----------------------------------------------------------------------------
(* The register and CSR files are written in every cycle, from M and from    *)
(* E; a CSR instruction's write wins over a trap's.                          *)
RegAfter(r, op, rd, v) == IF RegWrite(op) THEN [r EXCEPT ![rd] = v] ELSE r
ExcAfter(c, exc) ==
    IF ~exc.en THEN c
    ELSE IF exc.mret THEN [c EXCEPT !.mstatus = exc.status]
    ELSE [c EXCEPT !.mstatus = exc.status, !.mcause = exc.cause, !.mepc = exc.epc]
CsrAfter(c, slot) == IF slot.ins.op = "csrrw"
                     THEN [c EXCEPT ![slot.ins.csr] = CsrMask(slot.ins.csr, slot.aluout)]
                     ELSE c

(* Variant for the mutation runs: the answered request is not cleared.       *)
StickyRequest(dok) ==
    IF MemOp(E.ins.op) /\ ~dreq.valid
    THEN [valid |-> TRUE, write |-> MemWrite(E.ins.op), addr |-> E.aluout,
          data |-> IF MemWrite(E.ins.op) THEN E.memwd ELSE 0]
    ELSE dreq
NextRequest(dok) ==
    IF dok THEN NoReq
    ELSE IF MemOp(E.ins.op) /\ ~dreq.valid
    THEN [valid |-> TRUE, write |-> MemWrite(E.ins.op), addr |-> E.aluout,
          data |-> IF MemWrite(E.ins.op) THEN E.memwd ELSE 0]
    ELSE dreq

(* One clock edge.                                                           *)
Edge(iok, dok) ==
    /\ pc' = IF MovePc(iok, dok)
             THEN IF branch_enable_d THEN branch_target_d ELSE Add(pc, Step)
             ELSE pc
    /\ F' = IF FlushF(iok, dok) THEN FetchSlot(iok) ELSE F
    /\ D' = IF Advance(F.valid, iok, dok) THEN DecodeSlot ELSE D
    /\ E' = IF Advance(D.valid, iok, dok) THEN ExecuteSlot ELSE E
    /\ mode' = IF Advance(D.valid, iok, dok) /\ D.raw THEN NewMode ELSE mode
    /\ M' = IF Advance(E.valid, iok, dok) THEN MemorySlot ELSE M
    /\ W' = IF FlushW(iok) THEN [valid |-> M.raw, pc |-> M.pc]
            ELSE [W EXCEPT !.valid = FALSE]
    /\ shown' = (~Advance(E.valid, iok, dok) /\ (shown \/ FlushW(iok)))
    /\ reg' = RegAfter(reg, M.ins.op, M.ins.rd, M.wd)
    /\ csr' = CsrAfter(ExcAfter(csr, M.exc), E)
    /\ mem' = IF dok /\ dreq.write THEN [mem EXCEPT ![CellOf(dreq.addr)] = dreq.data]
              ELSE mem
    /\ dreq' = NextRequest(dok)
    /\ stallmem_d' = StallMem(dok)
    /\ branch_enable_d' = BranchEnable
    /\ branch_target_d' = IF BranchEnable THEN BranchTarget ELSE 0
    /\ interrupts' \in SUBSET LinesUsed(prog)
    /\ Held => interrupts \subseteq interrupts'
    /\ interrupts_d' = interrupts
    /\ LET taken == FetchSlot(iok).exc.cause \in InterruptCauses
       IN  /\ receive' = (/\ ~taken
                          /\ receive \/ NewInterrupt \/ (StallLU /\ canRecover))
           /\ canRecover' = \/ taken
                            \/ /\ canRecover
                               /\ ~NewInterrupt /\ ~StallLU
                               /\ DecodeSlot.exc.cause \notin InterruptCauses
    /\ LET valid == [p \in Port |-> IF p = Data THEN dreq.valid ELSE ~PcMisaligned]
       IN  /\ busy' = ArbBusy(busy, valid, iok \/ dok)
           /\ index' = ArbIndex(busy, index, valid)
    /\ UNCHANGED prog

(* The cycle's response: none, the instruction or the data.  A response      *)
(* needs the arbiter to have the request on the bus.                         *)
Wait      == Edge(FALSE, FALSE)
FetchDone == busy /\ index = Fetch /\ ~PcMisaligned /\ Edge(TRUE, FALSE)
DataDone  == busy /\ index = Data /\ dreq.valid /\ Edge(FALSE, TRUE)

Next == Wait \/ FetchDone \/ DataDone
Spec == Init /\ [][Next]_vars
(* The clock ticks, and the memory answers a request that stays on the bus.  *)
FairSpec == Spec /\ WF_vars(Next) /\ WF_vars(FetchDone) /\ WF_vars(DataDone)

----------------------------------------------------------------------------
(* The architectural state: what the program has done once every             *)
(* instruction that has reached E is finished.                               *)
ArchPc == IF Live(D) THEN D.pc
          ELSE IF branch_enable_d THEN branch_target_d
          ELSE IF Live(F) THEN F.pc ELSE pc
ArchReg == RegAfter(RegAfter(reg, M.ins.op, M.ins.rd, M.wd),
                    E.ins.op, E.ins.rd,
                    IF E.ins.rd = 0 THEN 0
                    ELSE IF CsrSrc(E.ins.op) THEN E.csrdata
                    ELSE IF MemRead(E.ins.op) THEN mem[CellOf(E.aluout)]
                    ELSE E.aluout)
ArchCsr == ExcAfter(CsrAfter(ExcAfter(csr, M.exc), E), E.exc)
ArchMem == IF MemWrite(E.ins.op) THEN [mem EXCEPT ![CellOf(E.aluout)] = E.memwd]
           ELSE mem

Arch == INSTANCE ISA WITH pc <- ArchPc, reg <- ArchReg, csr <- ArchCsr,
                          mem <- ArchMem

(* The pipeline, with its stalls, squashes, forwarding, memory latencies and *)
(* interrupts, is the one-instruction-at-a-time machine: whatever the memory *)
(* and the lines do, registers, CSRs, memory, mode and pc go through the     *)
(* states of the program's instructions in order, each executed once.        *)
Sequential == Arch!Spec

(* The moments at which the core is known not to be sequential do not come: a *)
(* misaligned access is executed (decoder.sv:62), a word raises an exception  *)
(* without jumping (decoder.sv:582), a trap without a word leaves user mode   *)
(* (core.sv:229), or an interrupt is noticed under an mstatus that the trap   *)
(* or return in E is about to change, and that would not let it in           *)
(* (core.sv:66).                                                             *)
Precise ==
    /\ ~MemMisaligned
    /\ D.ins.op # "softtrap"
    /\ D.ins.op = "trap" /\ ~D.raw => D.mode = "M"
    /\ E.exc.en /\ Interrupted(TRUE) => Bit(ArchCsr.mstatus, 0) = 1 \/ mode # "M"

(* An instruction is reported to the commit port (dataW.valid, what difftest *)
(* compares) once and only once, although M is held while E waits for the    *)
(* memory and W is filled only when a fetch is not being waited for.         *)
CommitsOnce == [][/\ W'.valid => ~shown
                  /\ M.raw /\ M' # M => shown \/ W'.valid]_vars

(* While the arbiter is on a request the core does not change it, whatever   *)
(* branch or stall ends meanwhile: the memory (cbus_device.cpp:39-43)        *)
(* asserts exactly this.                                                     *)
RequestHeld == [][busy /\ busy' =>
                    IF index = Fetch THEN pc' = pc ELSE dreq' = dreq]_vars

(* The request register, filled one cycle after its instruction entered E,    *)
(* belongs to the instruction still in E: no access is repeated, dropped or  *)
(* made for a squashed instruction.                                          *)
RequestOfE == dreq.valid => /\ dreq.write = MemWrite(E.ins.op)
                            /\ MemOp(E.ins.op)
                            /\ dreq.addr = E.aluout
                            /\ dreq.write => dreq.data = E.memwd

(* Instructions keep committing: the stalls for the two buses, which share   *)
(* one arbiter, and the load-use stall never wait on each other forever.     *)
KeepsCommitting == []<>W.valid

(* A line that stays up, enabled in mie and let in by mode and mstatus, is   *)
(* taken (taking it clears mstatus.MIE in machine mode).                     *)
InterruptTaken == ~<>[](/\ Enabled # {}
                        /\ Bit(csr.mstatus, 0) = 1 \/ mode # "M")
=============================================================================

-------------------------------- MODULE ISA --------------------------------
(* What the core promises its programs: one instruction at a time.  This is *)
(* the abstract specification; Pipeline implements it under the mapping     *)
(* given there.  A step executes the instruction at pc completely, or takes *)
(* an enabled interrupt before it.                                          *)
EXTENDS InstructionSet, Sequences

VARIABLES prog, pc, reg, csr, mode, mem
vars == <<prog, pc, reg, csr, mode, mem>>

IsaTypeOK == /\ prog \in Seq(Instr)
             /\ Len(prog) > 0
             /\ pc \in Word
             /\ reg \in [Reg -> Word]
             /\ csr \in [Csrs -> Word]
             /\ mode \in Modes
             /\ mem \in [Cell -> Word]

Init == /\ prog \in Seq(Instr)
        /\ Len(prog) > 0
        /\ pc = 0
        /\ reg = [r \in Reg |-> 0]
        /\ csr = [c \in Csrs |-> 0]
        /\ mode = "M"
        /\ mem = [c \in Cell |-> 0]

Current == prog[((pc \div Step) % Len(prog)) + 1]

SetReg(r, v) == IF r = 0 THEN reg ELSE [reg EXCEPT ![r] = v]

Goto(target) == pc' = target
NextPc == Add(pc, Step)

(* Entering the trap handler: the return address, the cause and the stacked *)
(* interrupt enable and mode are recorded, machine mode is entered.         *)
EnterTrap(cause) ==
    /\ csr' = [csr EXCEPT !.mepc = pc, !.mcause = cause,
                          !.mstatus = TrapStatus(csr.mstatus, mode)]
    /\ mode' = "M"
    /\ Goto(csr.mtvec)
    /\ UNCHANGED <<prog, reg, mem>>

Compute(i) ==
    /\ i.op \in {"alu", "addi"}
    /\ LET b == IF i.op = "alu" THEN reg[i.rs2] ELSE i.imm
       IN  reg' = SetReg(i.rd, Add(reg[i.rs1], b))
    /\ Goto(NextPc)
    /\ UNCHANGED <<prog, csr, mode, mem>>

DataAddress(i) == Add(reg[i.rs1], i.imm)

Load(i) ==
    /\ i.op = "load"
    /\ ~IsMisaligned(DataAddress(i))
    /\ reg' = SetReg(i.rd, mem[CellOf(DataAddress(i))])
    /\ Goto(NextPc)
    /\ UNCHANGED <<prog, csr, mode, mem>>

Store(i) ==
    /\ i.op = "store"
    /\ ~IsMisaligned(DataAddress(i))
    /\ mem' = [mem EXCEPT ![CellOf(DataAddress(i))] = reg[i.rs2]]
    /\ Goto(NextPc)
    /\ UNCHANGED <<prog, reg, csr, mode>>

Branch(i) ==
    /\ i.op = "beq"
    /\ Goto(IF reg[i.rs1] = reg[i.rs2] THEN Add(pc, i.imm) ELSE NextPc)
    /\ UNCHANGED <<prog, reg, csr, mode, mem>>

Jump(i) ==
    /\ i.op \in {"jal", "jalr"}
    /\ reg' = SetReg(i.rd, NextPc)
    /\ Goto(Add(IF i.op = "jal" THEN pc ELSE reg[i.rs1], i.imm))
    /\ UNCHANGED <<prog, csr, mode, mem>>

CsrReadWrite(i) ==
    /\ i.op = "csrrw"
    /\ reg' = SetReg(i.rd, csr[i.csr])
    /\ csr' = [csr EXCEPT ![i.csr] = CsrMask(i.csr, reg[i.rs2])]
    /\ Goto(NextPc)
    /\ UNCHANGED <<prog, mode, mem>>

Mret(i) ==
    /\ i.op = "mret"
    /\ csr' = [csr EXCEPT !.mstatus = MretStatus(csr.mstatus)]
    /\ mode' = MretMode(csr.mstatus)
    /\ Goto(csr.mepc)
    /\ UNCHANGED <<prog, reg, mem>>

Exception(i) ==
    \/ /\ i.op = "ecall"
       /\ EnterTrap(IF mode = "M" THEN 11 ELSE 8)
    \/ /\ i.op \in {"illegal", "zero", "ebreak"}
       /\ EnterTrap(2)
    \/ /\ MemOp(i.op) /\ IsMisaligned(DataAddress(i))
       /\ EnterTrap(IF MemRead(i.op) THEN 4 ELSE 6)

MisalignedFetch == IsMisaligned(pc) /\ EnterTrap(0)

Execute == LET i == Current
           IN  \/ Compute(i) \/ Load(i) \/ Store(i) \/ Branch(i) \/ Jump(i)
               \/ CsrReadWrite(i) \/ Mret(i) \/ Exception(i)

(* An interrupt is allowed when the mode and mstatus.MIE let it in and the  *)
(* line's bit in mie is set.  Whether a line is up is the environment's.    *)
Interrupt == /\ Bit(csr.mstatus, 0) = 1 \/ mode # "M"
             /\ \E l \in Lines : /\ EnabledLine(csr.mie, l)
                                 /\ EnterTrap(LineCause[l])

Next == \/ ~IsMisaligned(pc) /\ Execute
        \/ MisalignedFetch
        \/ Interrupt
Spec == Init /\ [][Next]_vars
============================================================================

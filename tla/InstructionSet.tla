-------------------------- MODULE InstructionSet --------------------------
(* The machine words, the instructions and the control-and-status values   *)
(* shared by the sequential machine (ISA) and the pipelined core            *)
(* (Pipeline).                                                              *)
(*                                                                          *)
(* Abstraction.  A word is a number below WordMod; every 64-bit operation   *)
(* becomes one addition, because the properties only tell WHICH operands    *)
(* an instruction got.  Addresses count half-words, so that an odd address  *)
(* is a misaligned one and pc + 4 is pc + Step.  One register-register, one *)
(* immediate, one load, one store, one conditional branch, the two jumps,   *)
(* one CSR instruction, ecall, mret and three kinds of undefined word stand *)
(* for the classes the decoder distinguishes by its control bits.           *)
EXTENDS Integers

CONSTANTS WordMod,     \* number of machine words
          NReg,        \* number of registers, x0 included
          MemCells     \* number of data memory cells (addresses wrap)

ASSUME WordAssumption == WordMod \in Nat /\ WordMod >= 32 /\ WordMod % 8 = 0
ASSUME RegAssumption  == NReg \in Nat \ {0}
ASSUME CellAssumption == MemCells \in Nat \ {0}

Word == 0 .. WordMod - 1
Reg  == 0 .. NReg - 1
Cell == 0 .. MemCells - 1
Step == 2

(* Variant for the mutation runs: the carry is kept.                         *)
AddWide(a, b) == a + b
Add(a, b) == (a + b) % WordMod
IsMisaligned(a) == a % 2 # 0
CellOf(a) == (a \div 2) % MemCells

Ops == {"nop", "alu", "addi", "load", "store", "beq", "jal", "jalr", "csrrw",
        "ecall", "mret", "illegal", "zero", "ebreak", "trap", "softtrap"}
Csrs == {"mtvec", "mepc", "mcause", "mstatus", "mie"}

(* A decoded word: the operation class, its registers, its immediate and    *)
(* its CSR.  Fields a class does not use are 0, as decoder.sv leaves them.  *)
Instr == [op : Ops, rd : Reg, rs1 : Reg, rs2 : Reg, imm : Word, csr : Csrs]

(* The control bits of a class.                                             *)
RegWrite(op) == op \in {"alu", "addi", "load", "jal", "jalr", "csrrw"}
MemRead(op)  == op = "load"
MemWrite(op) == op = "store"
MemOp(op)    == MemRead(op) \/ MemWrite(op)
CsrSrc(op)   == op \in {"csrrw", "mret", "trap"}
Raises(op)   == op \in {"trap", "softtrap"}

(* Modes and the three fields of mstatus the core uses, packed in a word:   *)
(* MIE is bit 0, MPIE bit 1 and MPP bit 2 (1 for machine mode).             *)
Modes == {"U", "M"}
Bit(w, i) == (w \div (2 ^ i)) % 2
Status(mie, mpie, mpp) == mie + 2 * mpie + 4 * mpp
TrapStatus(s, mode) == Status(0, Bit(s, 0), IF mode = "M" THEN 1 ELSE 0)
MretStatus(s) == Status(Bit(s, 1), 1, 0)
MretMode(s) == IF Bit(s, 2) = 1 THEN "M" ELSE "U"

(* What a CSR write keeps of the value: csrfile.sv masks mtvec and mstatus. *)
CsrMask(name, v) == CASE name = "mtvec"   -> 2 * (v \div 2)
                      [] name = "mstatus" -> v % 8
                      [] OTHER            -> v

(* Interrupt lines: the number core.sv compares, the bit of mie that        *)
(* enables the line, and the cause (16 is the interrupt bit of mcause).     *)
Lines == {"trint", "swint", "exint"}
LineBit == [trint |-> 0, swint |-> 1, exint |-> 2]
LineCause == [trint |-> 23, swint |-> 19, exint |-> 27]
InterruptCauses == {LineCause[l] : l \in Lines}
EnabledLine(mie, l) == Bit(mie, LineBit[l]) = 1
============================================================================

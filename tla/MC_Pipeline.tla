----------------------------- MODULE MC_Pipeline -----------------------------
(* Instances of Pipeline for TLC: the programs.                              *)
EXTENDS Pipeline

Ins(op, rd, rs1, rs2, imm, name) ==
    [op |-> op, rd |-> rd, rs1 |-> rs1, rs2 |-> rs2, imm |-> imm, csr |-> name]
Addi(rd, rs1, imm)   == Ins("addi", rd, rs1, 0, imm, "mtvec")
AddR(rd, rs1, rs2)   == Ins("alu", rd, rs1, rs2, 0, "mtvec")
Ld(rd, rs1, imm)     == Ins("load", rd, rs1, 0, imm, "mtvec")
St(rs2, rs1, imm)    == Ins("store", 0, rs1, rs2, imm, "mtvec")
Beq(rs1, rs2, imm)   == Ins("beq", 0, rs1, rs2, imm, "mtvec")
Jal(rd, imm)         == Ins("jal", rd, 0, 0, imm, "mtvec")
Jalr(rd, rs1, imm)   == Ins("jalr", rd, rs1, 0, imm, "mtvec")
Csrrw(rd, name, rs)  == Ins("csrrw", rd, 0, rs, 0, name)
Plain(op)            == Ins(op, 0, 0, 0, 0, "mtvec")
Back(n)              == (WordMod - Step * n) % WordMod

Bodies(n, alphabet) == [1 .. n -> alphabet]

(* Every body of this alphabet, followed by a jump to its start: register,   *)
(* load-use, store, branch and link hazards.                                 *)
HazardAlphabet == {Addi(1, 0, 2), AddR(1, 1, 2), Ld(1, 0, 0), Ld(2, 1, 0),
                   Ld(0, 0, 0), St(2, 1, 2),
                   Beq(1, 0, 2 * Step), Jal(2, 2 * Step)}
HazardPrograms(n) == {Append(b, Jal(0, Back(n))) : b \in Bodies(n, HazardAlphabet)}

(* Set mtvec to the handler, run the body, go round.  The handler steps mepc *)
(* by some half-words and returns.                                           *)
SetHandler(n) == <<Addi(1, 0, Step * (n + 3)), Csrrw(0, "mtvec", 1)>>
Handler(step) == <<Csrrw(1, "mepc", 0), Addi(1, 1, step), Csrrw(0, "mepc", 1),
                   Plain("mret")>>
Looping(n, body, step) == SetHandler(n) \o body \o <<Jal(0, Back(n + 2))>> \o Handler(step)

(* Traps: the handler steps over the trapping instruction; a body's own mret *)
(* leaves for user mode.  The all-zero word and the undefined SYSTEM words   *)
(* are left out: their traps are not precise (see README).                   *)
TrapAlphabet == {Plain("ecall"), Plain("illegal"), Plain("mret"), Ld(1, 0, 0),
                 Csrrw(2, "mepc", 1), Csrrw(0, "mstatus", 1),
                 Beq(1, 2, 2 * Step), St(1, 0, 2)}
TrapPrograms(n) == {Looping(n, b, Step) : b \in Bodies(n, TrapAlphabet)}

(* Jumps to odd addresses.  x2 holds an address of the body, and the handler *)
(* steps to the next even address; the program stays in machine mode (a      *)
(* misaligned fetch has no word, and core.sv:229 keeps the mode then).       *)
MisalignedAlphabet == {Jal(2, Step + 1), Jalr(0, 2, 1), Beq(1, 0, Step + 1),
                       Ld(1, 0, 0), St(2, 0, 0), Addi(1, 1, 2)}
MisalignedPrograms(n) ==
    {<<Addi(1, 0, Step * (n + 5)), Csrrw(0, "mtvec", 1),
       Addi(2, 0, Step * 3)>> \o b
     \o <<Jal(0, Back(n)), Jal(0, Back(n + 1))>> \o Handler(1) :
       b \in Bodies(n, MisalignedAlphabet)}

(* Enable the interrupts, then loop over the body; the handler starts with a *)
(* load and returns.                                                         *)
InterruptAlphabet == {Addi(2, 2, 2), Ld(2, 0, 0), Beq(0, 0, 2 * Step),
                      Csrrw(2, "mepc", 0), Csrrw(0, "mepc", 2)}
EnableInterrupts(n) == <<Addi(1, 0, 7), Csrrw(0, "mie", 1),
                      Addi(1, 0, Step * (n + 7)), Csrrw(0, "mtvec", 1),
                      Addi(1, 0, 1), Csrrw(0, "mstatus", 1)>>
InterruptPrograms(n) == {EnableInterrupts(n) \o b
                      \o <<Jal(0, Back(n)), Ld(2, 0, 2), Plain("mret")>> :
                        b \in Bodies(n, InterruptAlphabet)}

(* The timer line moves under the programs that enable it.                   *)
EnablesTimer(p) == \E k \in DOMAIN p : p[k].op = "csrrw" /\ p[k].csr = "mie"
TimerIfEnabled(p) == IF EnablesTimer(p) THEN {"trint"} ELSE {}

CorePrograms == {p : p \in HazardPrograms(4) \cup TrapPrograms(3)
                            \cup MisalignedPrograms(3) \cup InterruptPrograms(3)}
ShortPrograms == InterruptPrograms(1)
=============================================================================

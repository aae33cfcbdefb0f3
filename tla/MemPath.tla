------------------------------ MODULE MemPath ------------------------------
(* The path from the core's two buses to the memory: the converters          *)
(* IBusToCBus and DBusToCBus, the arbiter, the page-table walker (MMU.sv) and *)
(* the protection check (PMP.sv), with the core's side of the two buses and   *)
(* the memory as their environment.  A step is one clock edge.               *)
(*                                                                           *)
(* Abstraction.  An address is the path that leads to it: <<v>> is the       *)
(* physical address v, <<root, v>> the level-1 entry for the virtual address *)
(* v in the table at root, and a word read at path p and indexed by v gives  *)
(* the address Append(p, v).  So <<root, v, v, v, v>> is the translation of  *)
(* v, and a walk that mixed two requests would show it in its path.          *)
EXTENDS Sequences, CBusArbiter, PMP

CONSTANTS VAddr,       \* virtual addresses
          Roots,       \* page tables satp may point to
          Bare,        \* satp with translation off
          Zero,        \* the word zero: what a blocked read returns
          DenyRead,    \* paths the PMP entry matches without the R bit
          DenyWrite,   \* paths the PMP entry matches without the W bit
          Locked       \* the L bit: the entry binds machine mode too

ASSUME PathConstants == /\ Bare \notin Roots /\ Zero \notin VAddr
                        /\ Locked \in BOOLEAN

VARIABLES
    pc, fetching,                            \* the core: pc, ireq.valid,
    op, dreq, queued, mode, satp, fresh,     \*   the data side, the mode
    busy, index,                             \* the arbiter
    state, saved, vaddr, walk, done, phys,   \* the MMU
    dev,                                     \* the memory's transaction
    served                                   \* history: the last answer

core == <<pc, fetching, op, dreq, queued, mode, satp, fresh>>
mmu  == <<state, saved, vaddr, walk, done, phys>>
vars == <<core, busy, index, mmu, dev, served>>

Name == VAddr \cup Roots \cup {Bare, Zero}
Path == Seq(Name)
NoOp == [valid |-> FALSE, write |-> FALSE, addr |-> Zero]
Access == [valid : {TRUE}, write : BOOLEAN, addr : VAddr] \cup {NoOp}
FetchOf(a) == [valid |-> TRUE, write |-> FALSE, addr |-> a]
Request == [valid : BOOLEAN, write : BOOLEAN, path : Path]
States == {"IDLE", "L1", "L2", "L3", "TRANSLATE"}
Modes == {"U", "M"}

NoRequest == [valid |-> FALSE, write |-> FALSE, path |-> <<>>]

TypeOK ==
    /\ pc \in VAddr /\ fetching \in BOOLEAN
    /\ queued \in 0 .. 2
    /\ op \in Access /\ dreq \in Access
    /\ mode \in Modes
    /\ satp \in Roots \cup {Bare}
    /\ fresh \in BOOLEAN
    /\ busy \in BOOLEAN /\ index \in Port
    /\ state \in States
    /\ saved \in Access
    /\ vaddr \in VAddr \cup {Zero}
    /\ walk \in Path /\ phys \in Path
    /\ done \in BOOLEAN
    /\ dev \in [busy : BOOLEAN, path : Path, write : BOOLEAN]
    /\ served \in [port : Port \cup {2}, bare : BOOLEAN, asked : Path, got : Path,
                   write : BOOLEAN, wrote : BOOLEAN]

Init ==
    /\ pc \in VAddr /\ fetching = TRUE
    /\ queued = 0
    /\ op = NoOp /\ dreq = NoOp
    /\ mode = "M"
    /\ satp = Bare
    /\ fresh = FALSE
    /\ busy = FALSE /\ index = Data
    /\ state = "IDLE"
    /\ saved = NoOp /\ vaddr = Zero
    /\ walk = <<>> /\ phys = <<>> /\ done = FALSE
    /\ dev = [busy |-> FALSE, path |-> <<>>, write |-> FALSE]
    /\ served = [port |-> 2, bare |-> FALSE, asked |-> <<>>, got |-> <<>>,
                 write |-> FALSE, wrote |-> FALSE]

----------------------------------------------------------------------------
(* The request of a port, and the one the arbiter's index selects.           *)
FetchAccess == IF fetching THEN FetchOf(pc) ELSE NoOp
PortAccess(p) == IF p = Data THEN dreq ELSE FetchAccess
InReq == PortAccess(index)
Valid == [p \in Port |-> PortAccess(p).valid]

(* mmu_active, and what the MMU puts on the bus.                             *)
Active == satp # Bare /\ mode = "U"
Walking == state \in {"L1", "L2", "L3"}
Direct == state = "IDLE" /\ ~Active /\ InReq.valid
Final  == state = "TRANSLATE" /\ done

MmuReq ==
    IF ~busy THEN NoRequest
    ELSE IF Walking
    THEN [valid |-> TRUE, write |-> FALSE, path |-> walk]
    ELSE IF Final
    THEN [valid |-> saved.valid, write |-> saved.write, path |-> phys]
    ELSE IF Direct
    THEN [valid |-> TRUE, write |-> InReq.write, path |-> <<InReq.addr>>]
    ELSE NoRequest

(* PMP: a matching entry binds user mode, and machine mode when locked.      *)
Denied(req) == /\ req.valid
               /\ mode = "U" \/ Locked
               /\ req.path \in (IF req.write THEN DenyWrite ELSE DenyRead)
(* Variant for the mutation runs: the check does not block the request.       *)
PassedOn == MmuReq
OReq == IF Denied(MmuReq) THEN NoRequest ELSE MmuReq

(* The answer the MMU sees when the memory answers (last) or not: the PMP     *)
(* answers a denied request itself, with zero.                               *)
RespOk(last)  == Denied(MmuReq) \/ last
RespData      == IF Denied(MmuReq) THEN <<Zero>> ELSE dev.path
PortOk(p, last) == busy /\ index = p /\ (Final \/ Direct) /\ RespOk(last)

----------------------------------------------------------------------------
(* The MMU's registers.  The two variants, for the mutation runs, go from the *)
(* first level to the last and forget the return to MMU_IDLE.                *)
SkipsLevel == /\ state \in {"L1", "L2"}
              /\ state' = "L3"
              /\ walk' = Append(RespData, vaddr)
              /\ UNCHANGED <<saved, vaddr, done, phys>>
EndForgetsIdle == state = "TRANSLATE" /\ UNCHANGED mmu
MmuStart == /\ InReq.valid /\ Active
            /\ state' = "L1"
            /\ saved' = InReq /\ vaddr' = InReq.addr
            /\ done' = FALSE
            /\ walk' = <<satp, InReq.addr>>
            /\ UNCHANGED phys
MmuDescend == /\ state \in {"L1", "L2"}
              /\ state' = IF state = "L1" THEN "L2" ELSE "L3"
              /\ walk' = Append(RespData, vaddr)
              /\ UNCHANGED <<saved, vaddr, done, phys>>
MmuLeaf == /\ state = "L3"
           /\ state' = "TRANSLATE"
           /\ phys' = Append(RespData, vaddr)
           /\ done' = TRUE
           /\ UNCHANGED <<saved, vaddr, walk>>
MmuEnd == /\ state = "TRANSLATE"
          /\ state' = "IDLE"
          /\ UNCHANGED <<saved, vaddr, walk, done, phys>>
MmuStep(last) ==
    IF state = "IDLE" THEN MmuStart \/ (~(InReq.valid /\ Active) /\ UNCHANGED mmu)
    ELSE IF ~RespOk(last) \/ (state = "TRANSLATE" /\ ~(busy /\ done))
    THEN UNCHANGED mmu
    ELSE MmuDescend \/ MmuLeaf \/ MmuEnd

ArbiterStep(last) == /\ busy' = ArbBusy(busy, Valid, last)
                     /\ index' = ArbIndex(busy, index, Valid)

(* The memory: it takes a request in a cycle it is idle and answers later.   *)
DevStep(last) == dev' = IF dev.busy THEN [dev EXCEPT !.busy = ~last]
                        ELSE [busy |-> OReq.valid, path |-> OReq.path,
                              write |-> OReq.write]

(* The core's side, what core.sv and memory.sv do on their buses: pc, the    *)
(* mode and the instruction in E change only on a fetch answer (or a fetch   *)
(* that is not made, of a misaligned pc) with no memory operation in E, or   *)
(* on the answer to that operation.  At most two instructions, in F and D,   *)
(* are queued behind E, and only they can enter it without a fetch.  The     *)
(* data request register follows E one cycle later.  satp is written by a    *)
(* CSR instruction in its first cycle in E.                                  *)
Moves(last) == \/ ~op.valid /\ (~fetching \/ PortOk(Fetch, last))
               \/ PortOk(Data, last)
Enter(last) ==
    /\ pc' \in VAddr /\ fetching' \in BOOLEAN
    /\ mode' \in Modes
    /\ op' \in Access
    /\ op'.valid => queued > 0
    /\ queued' = IF PortOk(Data, last)
                 THEN IF queued = 0 THEN 0 ELSE queued - 1
                 ELSE IF queued = 2 THEN 2 ELSE queued + 1
(* Variant for the mutation runs: the answered request is not cleared.        *)
KeptDataRequest(last) == IF op.valid /\ ~dreq.valid THEN op ELSE dreq
NextDataRequest(last) ==
    IF PortOk(Data, last) THEN NoOp
    ELSE IF op.valid /\ ~dreq.valid THEN op ELSE dreq
(* An assumption on the program, which the code does not enforce: the decoder *)
(* and the CSR write of core.sv do not look at the mode, but programs in user *)
(* mode do not write satp.                                                   *)
WritesSatp == fresh /\ ~op.valid /\ mode = "M"
CoreStep(last) ==
    /\ \/ Moves(last) /\ Enter(last)
       \/ ~Moves(last) /\ UNCHANGED <<pc, fetching, op, queued, mode>>
    /\ fresh' = Moves(last)
    /\ dreq' = NextDataRequest(last)
    /\ \/ UNCHANGED satp
       \/ WritesSatp /\ satp' \in Roots \cup {Bare}

(* What was asked and what was answered, in the cycle of an answer.          *)
Expected(a) == IF Active THEN <<satp, a.addr, a.addr, a.addr, a.addr>>
               ELSE <<a.addr>>
Record(last) ==
    served' = IF PortOk(index, last)
              THEN [port |-> index, bare |-> ~Active,
                    asked |-> Expected(InReq), got |-> RespData,
                    write |-> InReq.write, wrote |-> MmuReq.write]
              ELSE [served EXCEPT !.port = 2]

Clock(last) == /\ CoreStep(last)
               /\ ArbiterStep(last)
               /\ MmuStep(last)
               /\ DevStep(last)
               /\ Record(last)

Answer == dev.busy /\ Clock(TRUE)
Wait   == Clock(FALSE)
Next   == Answer \/ Wait
Spec   == Init /\ [][Next]_vars
(* The clock ticks and the memory answers what it has taken.                 *)
FairSpec == Spec /\ WF_vars(Next) /\ WF_vars(Answer)

----------------------------------------------------------------------------
(* A word that a blocked page-table read has put a zero in.                  *)
Tainted(word) == \E i \in 1 .. Len(word) : word[i] = Zero

(* A request the memory has taken stays on the bus unchanged until it is     *)
(* answered, whatever the MMU, the PMP check and the core do meanwhile: the  *)
(* assertions of CBusDevice::eval_req.                                       *)
StableOnBus == dev.busy => /\ OReq.valid
                           /\ OReq.path = dev.path /\ OReq.write = dev.write

(* A fetch gets the word at (the translation of) its own pc, although data   *)
(* requests take the bus between the reads of its page-table walk.           *)
FetchGetsItsWord == served.port = Fetch => \/ served.got = served.asked
                                           \/ Tainted(served.got)

(* A data access with translation off reads or writes its own address.       *)
BareAccessIsServed ==
    served.port = Data /\ served.bare => /\ \/ served.got = served.asked
                                            \/ Tainted(served.got)
                                         /\ served.wrote = served.write

(* Every data access reads or writes the (translated) address it asked for.  *)
DataGetsItsWord == served.port = Data => /\ served.got = served.asked
                                         /\ served.wrote = served.write

(* No transaction of the memory is one the PMP entry forbids in this mode.   *)
ProtectedUntouched ==
    dev.busy /\ (mode = "U" \/ Locked)
        => dev.path \notin (IF dev.write THEN DenyWrite ELSE DenyRead)

(* The check (PMP.sv) lets the request on the MMU's output through, in the    *)
(* core's mode, exactly when the architecture grants it, for every matching   *)
(* mode and the region sizes PMP.sv tells apart: inside the entry's region in *)
(* both modes, and outside of it in machine mode, a locked entry included.    *)
(* User accesses outside of it are left out: PMP.sv lets them pass, although  *)
(* test_pmp.sv expects them to be blocked.                                    *)
PmpDecision == MmuReq.valid => <<MmuReq.write, mode>> \notin Misjudged

(* The arbiter always gives the bus back.                                    *)
BusReleased == busy ~> ~busy

(* As long as the PMP check denies nothing, the bus is given back, and a core *)
(* that asks for instructions keeps getting them, although data is preferred *)
(* and a walk gives the bus back between its reads.                          *)
NothingDenied == []~Denied(MmuReq)
BusReleasedUnlessDenied == NothingDenied => (busy ~> ~busy)
FetchesGoOn == NothingDenied => []<>(served.port = Fetch \/ ~fetching)
=============================================================================

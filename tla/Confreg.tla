------------------------------ MODULE Confreg ------------------------------
(* The configuration registers of the simulated SoC,                          *)
(* verilate/vsrc/confreg.cpp, and the checks the model makes of them after    *)
(* each cycle, ModelBase::checkout_confreg.  A cycle is at most one access    *)
(* (a load from CBusDevice::eval_resp or a store from CBusDevice::sync) and   *)
(* one sync; a thread takes chars from the terminal meanwhile.                *)
(*                                                                            *)
(* A word is a pair of halves.  The halves stand for the fields the code      *)
(* takes out of it: the number and its acknowledgment of NUM (data >> 24,     *)
(* data & 0xff), the two that IO_SIMU swaps, the low one for the bit and the  *)
(* char fields.                                                               *)
EXTENDS Integers, Sequences, SequencesExt

CONSTANTS Half,         \* values of half a word
          LastAscii,    \* chars above are not printed: 0x7f
          Stored,       \* registers the program stores to
          NTyped, MaxStores, MaxResets, TimerRange    \* bounds

ASSUME HalfAssumption == Half = 0 .. LastAscii + 1 /\ LastAscii \in Nat \ {0}

VARIABLES
    ctx, ctx0,            \* the context being made and the one of the last sync
    ififo, hand, typed,   \* UART input: queue, char in the thread, count
    mem, changes,         \* registers and the stores of this cycle
    current, panic,       \* _current_num; the assertion that ended the run
    accessed, stores, resets,
    received, lost, sent, told, printed, shown, last, undone, wrong, off
                          \* history

input == <<ififo, hand, typed>>
hist  == <<received, lost, sent, told, printed, shown, last, undone, wrong, off>>
vars  == <<ctx, ctx0, input, mem, changes, current, panic, accessed, stores,
           resets, hist>>

Word == Half \X Half
Ones == <<LastAscii + 1, LastAscii + 1>>    \* 0xffffffff
Zero == <<0, 0>>
NoChar == -1
Registers == {"LED", "NUM", "IO_SIMU", "VIRTUAL_UART", "SIMU_FLAG", "OPEN_TRACE",
              "NUM_MONITOR"}

ASSUME BoundsAssumption == /\ Stored \subseteq Registers
                           /\ NTyped \in Nat /\ TimerRange \in Nat \ {0}

NewContext == [avail |-> FALSE, fetched |-> FALSE, written |-> FALSE, data |-> 0,
               vwritten |-> FALSE, vdata |-> 0, trace |-> TRUE, monitor |-> TRUE,
               num |-> Zero]
NewMem == [r \in Registers \cup {"TIMER"} |->
              CASE r = "TIMER" -> 0
                [] r = "SIMU_FLAG" -> Ones
                [] r \in {"OPEN_TRACE", "NUM_MONITOR"} -> <<0, 1>>
                [] OTHER -> Zero]

Init == /\ ctx = NewContext /\ ctx0 = NewContext
        /\ ififo = <<>> /\ hand = NoChar /\ typed = 0
        /\ mem = NewMem /\ changes = <<>>
        /\ current = 0 /\ panic = ""
        /\ accessed = FALSE /\ stores = 0 /\ resets = 0
        /\ received = <<>> /\ lost = {} /\ sent = <<>> /\ told = <<>>
        /\ printed = <<>> /\ shown = <<>> /\ last = NewMem /\ undone = {}
        /\ wrong = FALSE /\ off = FALSE

----------------------------------------------------------------------------
(* The thread: fgetc returns, then the char is pushed under the lock.         *)
GetChar == /\ hand = NoChar /\ typed < NTyped
           /\ typed' = typed + 1 /\ hand' = typed + 1
           /\ UNCHANGED <<ctx, ctx0, ififo, mem, changes, current, panic, accessed,
                          stores, resets, hist>>
PushChar == /\ hand # NoChar
            /\ ififo' = Append(ififo, hand) /\ hand' = NoChar
            /\ UNCHANGED <<ctx, ctx0, typed, mem, changes, current, panic, accessed,
                           stores, resets, hist>>

----------------------------------------------------------------------------
(* load: the registers change nothing; UART_RXD marks the char for sync.      *)
LoadRXD == /\ panic = "" /\ ~accessed
           /\ accessed' = TRUE
           /\ IF ctx.avail
              THEN /\ ctx' = [ctx EXCEPT !.fetched = TRUE]
                   /\ received' = Append(received, IF ififo = <<>> THEN NoChar
                                                   ELSE Head(ififo))
              ELSE UNCHANGED <<ctx, received>>
           /\ UNCHANGED <<ctx0, input, mem, changes, current, panic, stores, resets,
                          lost, sent, told, printed, shown, last, undone, wrong, off>>

StartStore == /\ panic = "" /\ ~accessed /\ stores < MaxStores
              /\ accessed' = TRUE /\ stores' = stores + 1
              /\ UNCHANGED <<ctx0, input, mem, current, resets, received, lost, sent,
                             printed>>

(* store to UART_TXD; UART_LSR, or UART_TXD with another mask, ends the run.  *)
StoreTXD == /\ StartStore
            /\ \E c \in Half :
                 /\ ctx' = [ctx EXCEPT !.written = TRUE, !.data = c]
                 /\ told' = Append(told, c)
            /\ UNCHANGED <<changes, panic, shown, last, undone, wrong, off>>
StoreRejected == /\ StartStore
                 /\ panic' = "uart"
                 /\ UNCHANGED <<ctx, changes, told, shown, last, undone, wrong, off>>

(* store to a register: what is kept of the word, and the copy in ctx.        *)
Low(d) == d[2]
Kept(r, d) == CASE r = "VIRTUAL_UART" -> <<0, Low(d)>>
                [] r = "SIMU_FLAG"    -> Ones
                [] r = "IO_SIMU"      -> <<d[2], d[1]>>
                [] r = "OPEN_TRACE"   -> <<0, IF d = Zero THEN 0 ELSE 1>>
                [] r = "NUM_MONITOR"  -> <<0, Low(d) % 2>>
                [] OTHER              -> d
Context(r, v) ==
    CASE r = "VIRTUAL_UART" -> [ctx EXCEPT !.vwritten = TRUE, !.vdata = Low(v)]
      [] r = "NUM"          -> [ctx EXCEPT !.num = v]
      [] r = "OPEN_TRACE"   -> [ctx EXCEPT !.trace = Low(v) = 1]
      [] r = "NUM_MONITOR"  -> [ctx EXCEPT !.monitor = Low(v) = 1]
      [] OTHER              -> ctx

(* The numbers a passing program writes: the same, or the next, acknowledged. *)
Counts(old, new) == \/ new[1] = old[1]
                    \/ new[1] = old[1] + 1 /\ new[2] = new[1]

Store == \E r \in Stored, d \in Word :
    LET v == Kept(r, d) IN
    /\ StartStore
    /\ changes' = Append(changes, <<r, v>>)
    /\ ctx' = Context(r, v)
    /\ last' = [last EXCEPT ![r] = v] /\ undone' = undone \ {r}
    /\ shown' = IF r = "VIRTUAL_UART" /\ Low(d) <= LastAscii
                THEN Append(shown, Low(d)) ELSE shown
    /\ wrong' = (wrong \/ (r = "NUM" /\ ~Counts(ctx.num, d)))
    /\ off' = (off \/ ~ctx'.monitor)
    /\ UNCHANGED <<panic, told>>

----------------------------------------------------------------------------
(* sync, and checkout_confreg on the context it leaves.  Variants: the char   *)
(* is not popped; the input is tested before the pop; only a fetch tests it;  *)
(* the char stays marked for output; the acknowledgment is not compared; the  *)
(* timer does not wrap.                                                       *)
NotPopped == ififo
Popped == IF ctx.fetched THEN Tail(ififo) ELSE ififo
AvailBefore == ififo # <<>>
AvailIfFetched == IF ctx.fetched THEN Popped # <<>> ELSE ctx.avail
Avail == Popped # <<>>
StillWritten == [ctx EXCEPT !.avail = Avail, !.fetched = FALSE, !.vwritten = FALSE]
Cleared == [ctx EXCEPT !.avail = Avail, !.fetched = FALSE, !.written = FALSE,
                       !.vwritten = FALSE]
Unwrapped(t) == t + 1
Incremented(t) == (t + 1) % TimerRange
Apply(c, m) == [m EXCEPT ![c[1]] = c[2]]
Committed(before) == FoldLeft(LAMBDA m, c : Apply(c, m), before, changes)
NumOnly(c) == current + 1 = c.num[1]
NumPassed(c) == current + 1 = c.num[1] /\ c.num[2] = c.num[1]

Checkout(c) ==     \* c is ctx0 after the sync
    /\ IF c.monitor /\ current # c.num[1]
       THEN IF NumPassed(c) THEN current' = c.num[1] /\ UNCHANGED panic
                            ELSE panic' = "num" /\ UNCHANGED current
       ELSE UNCHANGED <<current, panic>>
    /\ printed' = IF panic' = "" /\ c.vwritten /\ c.vdata <= LastAscii
                  THEN Append(printed, c.vdata) ELSE printed

AssertFails == /\ panic' = "fifo"     \* internal_assert
               /\ UNCHANGED <<ctx, ctx0, input, mem, changes, current, accessed,
                              stores, resets, hist>>
Commit == /\ ififo' = Popped
          /\ sent' = IF ctx.written THEN Append(sent, ctx.data) ELSE sent
          /\ ctx0' = ctx
          /\ ctx' = Cleared
          /\ mem' = [Committed(mem) EXCEPT !["TIMER"] = Incremented(@)]
          /\ changes' = <<>>
          /\ Checkout(ctx)
          /\ accessed' = FALSE
          /\ UNCHANGED <<hand, typed, stores, resets, received, lost, told, shown,
                         last, undone, wrong, off>>
Sync == /\ panic = ""
        /\ IF ctx.fetched /\ ififo = <<>> THEN AssertFails ELSE Commit

(* reset: everything but the stores of the cycle and the model's _current_num;*)
(* the variant leaves the registers as well.  What a reset should leave is    *)
(* the reset values: the history last says so, and undone the registers with  *)
(* a store of the cycle, which a reset should undo and this one keeps.        *)
NotReset == mem
ResetMem == NewMem
Reset == /\ panic = "" /\ resets < MaxResets
         /\ resets' = resets + 1
         /\ ctx' = NewContext /\ ctx0' = NewContext
         /\ ififo' = <<>> /\ mem' = ResetMem
         /\ lost' = lost \cup ToSet(ififo)
         /\ last' = NewMem
         /\ undone' = {changes[k][1] : k \in DOMAIN changes}
         /\ UNCHANGED <<hand, typed, changes, current, panic, accessed, stores,
                        received, sent, told, printed, shown, wrong, off>>

Next == \/ GetChar \/ PushChar \/ LoadRXD \/ StoreTXD \/ StoreRejected \/ Store
        \/ Sync \/ Reset
Spec == Init /\ [][Next]_vars
(* The clock runs, and the thread goes on once fgetc has returned.            *)
FairSpec == Spec /\ WF_vars(Sync) /\ WF_vars(PushChar)

----------------------------------------------------------------------------
Contexts == [avail : BOOLEAN, fetched : BOOLEAN, written : BOOLEAN, data : Half,
             vwritten : BOOLEAN, vdata : Half, trace : BOOLEAN,
             monitor : BOOLEAN, num : Word]
TypeOK == /\ ctx \in Contexts /\ ctx0 \in Contexts
          /\ ififo \in Seq(1 .. NTyped) /\ hand \in (1 .. NTyped) \cup {NoChar}
          /\ \A r \in Registers : mem[r] \in Word
          /\ mem["TIMER"] \in 0 .. TimerRange - 1
          /\ changes \in Seq(Stored \X Word)
          /\ current \in Half

(* UART input: what the program has read, what the queue still holds and the  *)
(* char in the thread are the typed chars in order, each once, without those  *)
(* a reset found in the queue; a program that saw UART_LSR set and reads      *)
(* UART_RXD gets a char.                                                      *)
Waiting == (IF ctx.fetched THEN Tail(ififo) ELSE ififo)
              \o (IF hand = NoChar THEN <<>> ELSE <<hand>>)
InputOnce == LET s == received \o Waiting IN
             /\ \A j, k \in DOMAIN s : j < k => s[j] < s[k]
             /\ (1 .. typed) \ lost \subseteq ToSet(s)

(* The assertion of sync holds: nothing takes the char a load has marked, and *)
(* UART_LSR, computed one sync ago without the lock, is not stale.            *)
InputThere == panic # "fifo" /\ (ctx.avail => ififo # <<>>)

(* Each char stored to UART_TXD goes to the terminal once, each ASCII char    *)
(* stored to VIRTUAL_UART is printed once, in order, one sync later.          *)
Lag(full, done, pending) == full = done \o pending
OutputOnce == resets = 0 =>
    /\ Lag(told, sent, IF ctx.written THEN <<ctx.data>> ELSE <<>>)
    /\ panic = "" => Lag(shown, printed, IF ctx.vwritten /\ ctx.vdata <= LastAscii
                                         THEN <<ctx.vdata>> ELSE <<>>)

(* A register a load reads after a sync holds the last store to it since the  *)
(* last reset (as that register keeps it), or its reset value.  A register    *)
(* stored to in the very cycle of a reset is set aside until the next store   *)
(* to it; such a reset must leave every other register right.                 *)
LoadsLastStore == ~accessed => \A r \in Registers \ undone : mem[r] = last[r]

(* The number monitor stops a program that never switched it off exactly if   *)
(* the program has skipped a number or not acknowledged one.                  *)
MonitorExact == resets = 0 =>
    /\ panic = "num" => wrong \/ off
    /\ wrong /\ ~off /\ ~accessed => panic # ""

(* A char that was typed is announced in UART_LSR, a reset or the end of the  *)
(* run apart.                                                                 *)
InputAnnounced ==
    \A c \in 1 .. NTyped : hand = c ~> (ctx.avail \/ c \in lost \/ panic # "")
=============================================================================

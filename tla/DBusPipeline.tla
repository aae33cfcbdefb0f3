---------------------------- MODULE DBusPipeline ----------------------------
(* The data bus as the test benches drive it: the memory cells of             *)
(* verilate/include/cell.h over DBusGen (one access at a time, await) or over *)
(* DBusPipelineGen (a queue of tasks, tick and fence), bus.h, with the        *)
(* comparison of testbench.h against a reference memory.  The device under    *)
(* test is external: it answers the request it sees in a cycle of its choice, *)
(* with the word it holds, and performs a store with its answer.              *)
EXTENDS LoadOp, Sequences, SequencesExt

CONSTANTS Modes,       \* "bare" (DBusGen), "piped" (DBusPipelineGen)
          Cells,       \* memory cells [addr, width]
          MaxCalls     \* bound: calls of the test program

ASSUME CellAssumption ==
    Cells \subseteq [addr : Nat, width : Widths] /\ \A c \in Cells : c.addr % c.width = 0

VARIABLES
    mode,
    mem,        \* the words of the device
    bus,        \* dbus request: a task, or Idle
    ongoing,    \* DBusPipelineGen::ongoing
    ops, wait,  \* what is left of the current call, and the loop it waits in
    value, reg, \* GenericBusInterface::load's value; the locals u and v
    failed,     \* an assertion ended the test
    calls,      \* number of calls
    ref,        \* reference model: memory after every store submitted
    post,       \* history: ref as the call should leave it
    got,        \* history: the last load answered
    wrong       \* history: an expectation that cannot be met was submitted

vars == <<mode, mem, bus, ongoing, ops, wait, value, reg, failed, calls, ref, post,
          got, wrong>>

Index(c) == c.addr \div 8
Lane(c) == c.addr % 8
Words == {Index(c) : c \in Cells}
Junk == <<0, 9>>                      \* what a byte beyond the width may be
Idle == [kind |-> "idle"]
NoLoad == [op |-> Discard, want |-> <<>>, have |-> <<>>]
Initial(w) == [k \in Lanes |-> <<0, k>>]
Fresh(n) == [k \in Lanes |-> <<n, k>>]

(* A T of this width as a word_t, and a word_t as a T.                        *)
Extended(c, v) == [k \in Lanes |-> IF k < c.width THEN v[k] ELSE Junk]
ZeroExtended(c, v) == [k \in Lanes |-> IF k < c.width THEN v[k] ELSE Zero]
OpOf(c) == Parse(c.width, c.addr)

(* What the cells mean on plain memory.                                       *)
Get(m, c) == [k \in Lanes |-> IF k < c.width THEN m[Index(c)][Lane(c) + k]
                              ELSE Junk]
Set(m, c, v) == [m EXCEPT ![Index(c)] =
                   [k \in Lanes |-> IF Lane(c) <= k /\ k < Lane(c) + c.width
                                    THEN v[k - Lane(c)] ELSE @[k]]]

Init == /\ mode \in Modes
        /\ mem = [w \in Words |-> Initial(w)]
        /\ bus = Idle /\ ongoing = <<>>
        /\ ops = <<>> /\ wait = "no"
        /\ value = Fresh(0) /\ reg = [r \in {"u", "v"} |-> Fresh(0)]
        /\ failed = FALSE /\ calls = 0
        /\ ref = mem /\ post = mem /\ got = NoLoad /\ wrong = FALSE

----------------------------------------------------------------------------
(* Tasks: a load with a destination, a store, an expected value.  want is     *)
(* history, what plain memory holds when the task is submitted.               *)
Task(kind, c, data, strobe) ==
    [kind |-> kind, word |-> Index(c), op |-> OpOf(c), data |-> data,
     strobe |-> strobe, want |-> Apply(OpOf(c), ref[Index(c)])]
LoadTask(c) == Task("load", c, Fresh(0), {})
StoreTask(c, v) == Task("store", c, Place(OpOf(c), Extended(c, v)), Strobe(OpOf(c)))
ExpectTask(c, v) == Task("expect", c, Place(OpOf(c), Extended(c, v)), {})

(* submit; the variant issues the new task at once.                           *)
IssueNow(t) == ongoing' = Append(ongoing, t) /\ bus' = t
Submit(t) == ongoing' = Append(ongoing, t) /\ bus' = IF bus = Idle THEN t ELSE bus

(* async_load, async_store.                                                   *)
Issue(t) == bus' = t /\ UNCHANGED ongoing
Start(t, then) == IF mode = "piped" THEN Submit(t) /\ wait' = then
                                    ELSE Issue(t) /\ wait' = "await"

Performed(t) == IF t.kind = "store" THEN Set(ref, [addr |-> 8 * t.word, width |-> 8],
                                             Write(ref[t.word], t.strobe, t.data))
                                    ELSE ref

----------------------------------------------------------------------------
(* The calls of a test: set, get, swap, assignment of one cell to another,    *)
(* and on the pipeline also expect, a load left in the queue, and fence.      *)
Begin(todo, u, after) ==
    /\ ops = <<>> /\ wait = "no" /\ ~failed /\ calls < MaxCalls
    /\ calls' = calls + 1
    /\ ops' = todo /\ reg' = [u |-> u, v |-> Fresh(0)] /\ post' = after
    /\ UNCHANGED <<mode, mem, bus, ongoing, wait, value, failed, ref, got, wrong>>

(* get of eight bytes on the pipeline writes them to a uint32_t: not called.  *)
Readable(c) == mode = "piped" => c.width <= 4
DoGet(c, r) == [do |-> "get", cell |-> c, reg |-> r]
DoSet(c, r) == [do |-> "set", cell |-> c, reg |-> r]

CallSet(c) == LET v == Fresh(calls + 1) IN Begin(<<DoSet(c, "u")>>, v, Set(ref, c, v))
CallGet(c) == Readable(c) /\ Begin(<<DoGet(c, "u")>>, Fresh(0), ref)
CallAssign(x, y) ==
    /\ x # y /\ Readable(y)
    /\ Begin(<<DoGet(y, "u"), DoSet(x, "u")>>, Fresh(0),
             Set(ref, x, ZeroExtended(y, Get(ref, y))))
CallSwap(x, y) ==
    /\ x # y /\ x.width = y.width /\ Readable(x)
    /\ Begin(<<DoGet(x, "u"), DoGet(y, "v"), DoSet(x, "v"), DoSet(y, "u")>>, Fresh(0),
             Set(Set(ref, x, Get(ref, y)), y, Get(ref, x)))
CallLoad(c) ==
    mode = "piped" /\ Begin(<<[do |-> "load", cell |-> c, reg |-> "u"]>>, Fresh(0), ref)
CallExpect(c) ==
    /\ mode = "piped"
    /\ \E v \in {Get(ref, c), Fresh(calls + 1)} :
          Begin(<<[do |-> "expect", cell |-> c, reg |-> "u"]>>, v, ref)
CallFence == mode = "piped" /\ ongoing # <<>>
             /\ Begin(<<[do |-> "fence"]>>, Fresh(0), ref)

Call == \/ CallFence
        \/ \E x \in Cells : \/ CallSet(x) \/ CallGet(x) \/ CallLoad(x) \/ CallExpect(x)
                            \/ \E y \in Cells : CallAssign(x, y) \/ CallSwap(x, y)

----------------------------------------------------------------------------
(* The first part of each: up to the wait for the answer, if there is one.    *)
Now == Head(ops)
Ready == ops # <<>> /\ wait = "no" /\ ~failed

StartGet == /\ Ready /\ Now.do = "get"
            /\ Start(LoadTask(Now.cell), "fence")
            /\ value' = [k \in Lanes |-> Junk]
            /\ UNCHANGED <<mode, mem, ops, reg, failed, calls, ref, post, got, wrong>>
StartSet == /\ Ready /\ Now.do = "set"
            /\ LET t == StoreTask(Now.cell, reg[Now.reg]) IN
                 Start(t, "no") /\ ref' = Performed(t)
            /\ ops' = IF mode = "piped" THEN Tail(ops) ELSE ops
            /\ UNCHANGED <<mode, mem, value, reg, failed, calls, post, got, wrong>>
StartLoad == /\ Ready /\ Now.do = "load"
             /\ Submit(LoadTask(Now.cell))
             /\ ops' = Tail(ops)
             /\ UNCHANGED <<mode, mem, wait, value, reg, failed, calls, ref, post, got,
                            wrong>>
StartExpect == /\ Ready /\ Now.do = "expect"
               /\ LET t == ExpectTask(Now.cell, reg[Now.reg]) IN
                    /\ Submit(t)
                    /\ wrong' = (wrong \/ \E k \in 0 .. Now.cell.width - 1 :
                                              reg[Now.reg][k] # t.want[k])
               /\ ops' = Tail(ops)
               /\ UNCHANGED <<mode, mem, wait, value, reg, failed, calls, ref, post,
                              got>>
StartFence == /\ Ready /\ Now.do = "fence"
              /\ wait' = "fence"
              /\ UNCHANGED <<mode, mem, bus, ongoing, ops, value, reg, failed, calls,
                             ref, post, got, wrong>>

----------------------------------------------------------------------------
(* The device at the clock edge.                                              *)
Answered(t) == mem' = IF t.kind = "store"
                      THEN [mem EXCEPT ![t.word] = Write(@, t.strobe, t.data)] ELSE mem

(* DBusPipelineGen::tick, called by fence and, between calls, by the test.    *)
Answer(t) == LET word == mem[t.word] IN
    CASE t.kind = "load" ->
            /\ value' = ApplyTo(t.op, word, value)
            /\ got' = [op |-> t.op, want |-> t.want, have |-> value']
            /\ UNCHANGED failed
      [] t.kind = "expect" -> /\ failed' = ~Agree(t.op, t.data, word)
                              /\ UNCHANGED <<value, got>>
      [] OTHER -> UNCHANGED <<value, got, failed>>
(* Variant for the mutation runs: no task follows another.                    *)
KeptBack == IF ongoing' = ongoing THEN bus ELSE Idle
NextOnBus == IF ongoing' = <<>> THEN Idle ELSE Head(ongoing')
Tick == /\ mode = "piped" /\ bus # Idle /\ ~failed
        /\ wait = "fence" \/ ops = <<>>
        /\ \E data_ok \in BOOLEAN :
             IF data_ok THEN /\ ongoing' = Tail(ongoing)
                             /\ Answered(bus) /\ Answer(Head(ongoing))
                        ELSE UNCHANGED <<ongoing, mem, value, got, failed>>
        /\ bus' = NextOnBus
        /\ UNCHANGED <<mode, ops, wait, reg, calls, ref, post, wrong>>
FenceReturns == /\ wait = "fence" /\ ongoing = <<>> /\ ~failed
                /\ wait' = "no" /\ ops' = Tail(ops)
                /\ reg' = IF Now.do = "get" THEN [reg EXCEPT ![Now.reg] =
                                                    ZeroExtended(Now.cell, value)]
                                            ELSE reg
                /\ UNCHANGED <<mode, mem, bus, ongoing, value, failed, calls, ref, post,
                               got, wrong>>

(* DBusGen::await; the comparison with the reference model after a load.      *)
Await == /\ wait = "await" /\ ~failed
         /\ \E data_ok \in BOOLEAN :
              IF data_ok
              THEN /\ Answered(bus) /\ bus' = Idle
                   /\ wait' = "no" /\ ops' = Tail(ops)
                   /\ IF bus.kind = "load"
                      THEN /\ value' = Apply(bus.op, mem[bus.word])
                           /\ reg' = [reg EXCEPT ![Now.reg] =
                                               ZeroExtended(Now.cell, value')]
                           /\ got' = [op |-> bus.op, want |-> bus.want, have |-> value']
                           /\ failed' = (mem[bus.word] # ref[bus.word])
                      ELSE UNCHANGED <<value, reg, got, failed>>
              ELSE UNCHANGED <<mem, bus, wait, ops, value, reg, got, failed>>
         /\ UNCHANGED <<mode, ongoing, calls, ref, post, wrong>>

Next == \/ Call \/ StartGet \/ StartSet \/ StartLoad \/ StartExpect \/ StartFence
        \/ Tick \/ FenceReturns \/ Await
Spec == Init /\ [][Next]_vars
(* The program runs and the device answers a request in the end.              *)
AnswerInTick == Tick /\ ongoing' # ongoing
AnswerInAwait == Await /\ bus' # bus
Step == StartGet \/ StartSet \/ StartLoad \/ StartExpect \/ StartFence \/ FenceReturns
FairSpec == /\ Spec /\ WF_vars(Step)
            /\ WF_vars(AnswerInTick) /\ WF_vars(AnswerInAwait)

----------------------------------------------------------------------------
(* A request stays as it is until it is answered.                             *)
StableRequest == [][bus # Idle /\ bus' # bus =>
                      IF mode = "piped" THEN ongoing' = Tail(ongoing)
                                        ELSE bus' = Idle /\ ops' = Tail(ops)]_vars

(* The device's memory with the stores in the queue performed in order is the *)
(* memory the program has asked for: no store is lost, repeated or overtaken. *)
Perform(m, t) == IF t.kind = "store"
                 THEN [m EXCEPT ![t.word] = Write(@, t.strobe, t.data)] ELSE m
Outstanding == IF mode = "piped" THEN ongoing
               ELSE IF bus = Idle THEN <<>> ELSE <<bus>>
NothingLost == FoldLeft(Perform, mem, Outstanding) = ref

(* A load answers with the bytes the cell had when the load was submitted,    *)
(* whatever stores were queued before and behind it.                          *)
LoadsInOrder == \A k \in 0 .. got.op.size - 1 : got.have[k] = got.want[k]

(* After each call the memory is what the call does to plain variables: the   *)
(* bytes of the cell only, converted to its width, both cells exchanged.      *)
CallsAtomic == ops = <<>> /\ wait = "no" => ref = post

(* A test is failed by an assertion only if it expects a value the memory did *)
(* not have, and then always before the next fence returns.                   *)
FailsRightly == /\ failed => wrong
                /\ wrong /\ ongoing = <<>> => failed

(* Every call comes back, or the test has failed.                             *)
CallReturns == (ops # <<>>) ~> (ops = <<>> \/ failed)
=============================================================================

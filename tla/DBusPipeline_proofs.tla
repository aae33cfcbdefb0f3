------------------------ MODULE DBusPipeline_proofs ------------------------
(* Proofs about LoadOp, for every address and width, and about DBusPipeline,  *)
(* for any cells and any number of calls: the requests, and what the queued   *)
(* stores, loads and expectations and the calls on cells do to the memory.    *)
EXTENDS DBusPipeline, SequenceTheorems, WellFoundedInduction, TLAPS

LEMMA ParsedIsAligned ==
    ASSUME NEW a \in Nat, NEW w \in Widths
    PROVE  /\ Parse(w, a) \in LoadOps
           /\ Parse(w, a).size = w /\ Parse(w, a).shift + w <= 8
<1>1. a % 8 \in 0 .. 7
  OBVIOUS
<1>2. PICK b \in 0 .. 7 : b = a % 8
  BY <1>1
<1>3. (b \div w) * w \in Lanes /\ (b \div w) * w + w <= 8
  <2>1. CASE w = 1
    BY <2>1 DEF Lanes
  <2>2. CASE w = 2
    BY <2>2 DEF Lanes
  <2>3. CASE w = 4
    BY <2>3 DEF Lanes
  <2>4. CASE w = 8
    BY <2>4 DEF Lanes
  <2> QED
    BY <2>1, <2>2, <2>3, <2>4 DEF Widths
<1> QED
  BY <1>2, <1>3 DEF Parse, LoadOps

(* A load after a store of the same cell gives the bytes stored, and the      *)
(* store changes no other lane of the word.                                   *)
THEOREM StoreThenLoad ==
    ASSUME NEW a \in Nat, NEW w \in Widths, NEW old \in Word, NEW v \in Word
    PROVE  LET op  == Parse(w, a)
               new == Write(old, Strobe(op), Place(op, v))
           IN  /\ \A k \in 0 .. w - 1 : Apply(op, new)[k] = v[k]
               /\ \A k \in Lanes \ Strobe(op) : new[k] = old[k]
<1> DEFINE op  == Parse(w, a)
           new == Write(old, Strobe(op), Place(op, v))
<1>1. op \in LoadOps /\ op.size = w /\ op.shift \in Lanes /\ op.shift + w <= 8
  BY ParsedIsAligned DEF LoadOps
<1>2. w \in 1 .. 8
  BY DEF Widths
<1> HIDE DEF op
<1>3. \A k \in Lanes : new[k] = IF k \in Strobe(op) THEN Place(op, v)[k] ELSE old[k]
  BY DEF Write
<1>4. ASSUME NEW k \in 0 .. w - 1 PROVE Apply(op, new)[k] = v[k]
  <2>1. k \in Lanes /\ k + op.shift \in Lanes /\ k + op.shift \in Strobe(op)
    BY <1>1, <1>2 DEF Lanes, Strobe
  <2>2. Apply(op, new)[k] = new[k + op.shift]
    BY <1>1, <1>2, <2>1 DEF Apply, Lanes
  <2>3. Place(op, v)[k + op.shift] = v[k]
    BY <1>1, <2>1 DEF Place, Lanes
  <2> QED
    BY <1>3, <2>1, <2>2, <2>3
<1>5. \A k \in Lanes \ Strobe(op) : new[k] = old[k]
  BY <1>3
<1> QED
  BY <1>4, <1>5 DEF op

(* The bytes an expectation compares are the ones a load would return.        *)
THEOREM ExpectIsLoad ==
    ASSUME NEW a \in Nat, NEW w \in Widths, NEW word \in Word, NEW v \in Word
    PROVE  LET op == Parse(w, a)
           IN  Agree(op, Place(op, v), word) <=>
                  \A k \in 0 .. w - 1 : Apply(op, word)[k] = v[k]
<1> DEFINE op == Parse(w, a)
<1>1. op \in LoadOps /\ op.size = w /\ op.shift \in Lanes /\ op.shift + w <= 8
  BY ParsedIsAligned DEF LoadOps
<1>2. w \in 1 .. 8
  BY DEF Widths
<1> HIDE DEF op
<1>3. ASSUME NEW k \in 0 .. w - 1
      PROVE  /\ k + op.shift \in Strobe(op)
             /\ Apply(op, word)[k] = word[k + op.shift]
             /\ Place(op, v)[k + op.shift] = v[k]
  BY <1>1, <1>2 DEF Apply, Place, Lanes, Strobe
<1>4. ASSUME NEW l \in Strobe(op)
      PROVE  /\ l - op.shift \in 0 .. w - 1
             /\ (l - op.shift) + op.shift = l
  BY <1>1, <1>2 DEF Lanes, Strobe
<1>5. CASE Agree(op, Place(op, v), word)
  BY <1>3, <1>5 DEF Agree, Mask, op
<1>6. CASE \A k \in 0 .. w - 1 : Apply(op, word)[k] = v[k]
  <2>1. ASSUME NEW l \in Strobe(op) PROVE Place(op, v)[l] = word[l]
    BY <1>3, <1>4, <1>6
  <2> QED
    BY <2>1, <1>6 DEF Agree, Mask, op
<1> QED
  BY <1>5, <1>6 DEF op

----------------------------------------------------------------------------
(* The requests.  On the pipeline the bus has the front of the queue, on the  *)
(* plain bus it has a request exactly while await runs.                       *)
TaskQueue(q) == \E S : q \in Seq(S) /\ Idle \notin S
PlainOps(q) == \E S : q \in Seq(S) /\ \A o \in S : o.do \in {"get", "set"}

(* The request on the bus of a pipeline is its oldest task: nothing is asked  *)
(* that is not in the queue, and no task waits unasked.                       *)
FrontOnBus == mode = "piped" =>
    bus = IF ongoing = <<>> THEN Idle ELSE Head(ongoing)

PipedSide == mode = "piped" =>
    TaskQueue(ongoing) /\ wait # "await" /\ FrontOnBus
BareSide == mode # "piped" =>
    /\ ongoing = <<>> /\ wait # "fence"
    /\ bus # Idle <=> wait = "await"
    /\ PlainOps(ops) /\ (wait = "await" => ops # <<>>)
IInv == PipedSide /\ BareSide

LEMMA EmptyQueue == TaskQueue(<<>>) /\ PlainOps(<<>>)
<1>1. PICK S : S = {}
  OBVIOUS
<1>2. <<>> \in Seq(S) /\ Idle \notin S /\ \A o \in S : o.do \in {"get", "set"}
  BY <1>1, EmptySeq
<1> QED
  BY <1>2 DEF TaskQueue, PlainOps

LEMMA LongerQueue ==
    ASSUME NEW q, TaskQueue(q), NEW t, t # Idle
    PROVE  /\ TaskQueue(Append(q, t)) /\ Append(q, t) # <<>>
           /\ Head(Append(q, t)) = IF q = <<>> THEN t ELSE Head(q)
<1>1. PICK S : q \in Seq(S) /\ Idle \notin S
  BY DEF TaskQueue
<1>2. q \in Seq(S \cup {t})
  BY <1>1, SeqMonotonic
<1>3. Append(q, t) \in Seq(S \cup {t}) /\ Append(q, t) # <<>>
  BY <1>2, AppendProperties
<1>4. Head(Append(q, t)) = IF q = <<>> THEN t ELSE Head(q)
  BY <1>2, HeadTailAppend
<1>5. Idle \notin S \cup {t}
  BY <1>1
<1> QED
  BY <1>3, <1>4, <1>5 DEF TaskQueue

LEMMA ShorterQueue ==
    ASSUME NEW q, TaskQueue(q), q # <<>>
    PROVE  TaskQueue(Tail(q)) /\ Head(q) # Idle
<1>1. PICK S : q \in Seq(S) /\ Idle \notin S
  BY DEF TaskQueue
<1>2. Tail(q) \in Seq(S) /\ Head(q) \in S
  BY <1>1, HeadTailProperties
<1> QED
  BY <1>1, <1>2 DEF TaskQueue

LEMMA FewerOps ==
    ASSUME NEW q, PlainOps(q), q # <<>>
    PROVE  PlainOps(Tail(q)) /\ Head(q).do \in {"get", "set"}
<1>1. PICK S : q \in Seq(S) /\ \A o \in S : o.do \in {"get", "set"}
  BY DEF PlainOps
<1>2. Tail(q) \in Seq(S) /\ Head(q) \in S
  BY <1>1, HeadTailProperties
<1> QED
  BY <1>1, <1>2 DEF PlainOps

LEMMA TasksAreNotIdle ==
    /\ \A c : LoadTask(c) # Idle
    /\ \A c, v : StoreTask(c, v) # Idle /\ ExpectTask(c, v) # Idle
BY DEF LoadTask, StoreTask, ExpectTask, Task, Idle

LEMMA InitIInv == Init => IInv
BY EmptyQueue, Zenon DEF Init, IInv, PipedSide, BareSide, FrontOnBus

(* Submitting puts the task behind the others and keeps what is on the bus.   *)
LEMMA SubmitKeeps ==
    ASSUME PipedSide, mode = "piped", NEW t, t # Idle, Submit(t)
    PROVE  /\ TaskQueue(ongoing')
           /\ bus' = IF ongoing' = <<>> THEN Idle ELSE Head(ongoing')
           /\ bus # Idle => bus' = bus
<1>1. TaskQueue(ongoing) /\ bus = IF ongoing = <<>> THEN Idle ELSE Head(ongoing)
  BY DEF PipedSide, FrontOnBus
<1>2. ongoing' = Append(ongoing, t) /\ bus' = IF bus = Idle THEN t ELSE bus
  BY DEF Submit
<1>3. ongoing # <<>> => Head(ongoing) # Idle
  BY <1>1, ShorterQueue
<1> QED
  BY <1>1, <1>2, <1>3, LongerQueue

LEMMA CallKeeps == IInv /\ Call => IInv'
<1> SUFFICES ASSUME IInv, Call PROVE IInv'
  OBVIOUS
<1>1. /\ UNCHANGED <<mode, bus, ongoing, wait>> /\ wait = "no"
  BY DEF Call, CallSet, CallGet, CallAssign, CallSwap, CallLoad, CallExpect, CallFence,
     Begin
<1>2. PipedSide'
  BY <1>1 DEF IInv, PipedSide, FrontOnBus
<1>3. ASSUME mode # "piped" PROVE PlainOps(ops')
  <2> DEFINE S == {DoGet(c, r) : c \in Cells, r \in {"u", "v"}}
                    \cup {DoSet(c, r) : c \in Cells, r \in {"u", "v"}}
  <2>1. ops' \in Seq(S)
    <3>1. \A x \in Cells : /\ DoGet(x, "u") \in S /\ DoGet(x, "v") \in S
                          /\ DoSet(x, "u") \in S /\ DoSet(x, "v") \in S
      OBVIOUS
    <3> HIDE DEF S
    <3>2. PICK x \in Cells, y \in Cells :
             CallSet(x) \/ CallGet(x) \/ CallAssign(x, y) \/ CallSwap(x, y)
      BY <1>3 DEF Call, CallLoad, CallExpect, CallFence
    <3>3. \/ ops' = <<DoSet(x, "u")>> \/ ops' = <<DoGet(x, "u")>>
          \/ ops' = <<DoGet(y, "u"), DoSet(x, "u")>>
          \/ ops' = <<DoGet(x, "u"), DoGet(y, "v"), DoSet(x, "v"), DoSet(y, "u")>>
      BY <3>2, Zenon DEF CallSet, CallGet, CallAssign, CallSwap, Begin
    <3>4. PICK a \in S, b \in S, c \in S, d \in S :
             ops' = <<a>> \/ ops' = <<a, b>> \/ ops' = <<a, b, c, d>>
      BY <3>1, <3>3
    <3>5. <<a>> \in Seq(S)
      OBVIOUS
    <3>6. <<a, b>> \in Seq(S)
      OBVIOUS
    <3>7. <<a, b, c, d>> \in Seq(S)
      OBVIOUS
    <3> QED
      BY <3>4, <3>5, <3>6, <3>7, Zenon
  <2>2. \A o \in S : o.do \in {"get", "set"}
    BY DEF DoGet, DoSet
  <2> QED
    BY <2>1, <2>2 DEF PlainOps
<1>4. BareSide'
  BY <1>1, <1>3 DEF IInv, BareSide
<1> QED
  BY <1>2, <1>4 DEF IInv

(* The first halves of the calls.                                             *)
LEMMA StartKeeps ==
    IInv /\ (StartGet \/ StartSet \/ StartLoad \/ StartExpect \/ StartFence) =>
        IInv' /\ (bus # Idle /\ mode = "piped" => bus' = bus)
              /\ (mode # "piped" => bus = Idle)
<1> SUFFICES ASSUME IInv, StartGet \/ StartSet \/ StartLoad \/ StartExpect \/ StartFence
             PROVE  IInv' /\ (bus # Idle /\ mode = "piped" => bus' = bus)
                          /\ (mode # "piped" => bus = Idle)
  OBVIOUS
<1>1. mode' = mode /\ Ready
  BY DEF StartGet, StartSet, StartLoad, StartExpect, StartFence
<1>2. CASE mode = "piped"
  <2>1. ASSUME NEW t, t # Idle, Submit(t), wait' # "await"
        PROVE  IInv' /\ (bus # Idle => bus' = bus)
    BY <1>1, <1>2, <2>1, SubmitKeeps DEF IInv, PipedSide, BareSide, FrontOnBus
  <2>2. CASE StartGet
    <3>1. Submit(LoadTask(Now.cell)) /\ wait' = "fence"
      BY <1>2, <2>2 DEF StartGet, Start
    <3> QED
      BY <1>2, <2>1, <3>1, TasksAreNotIdle
  <2>3. CASE StartSet
    <3>1. Submit(StoreTask(Now.cell, reg[Now.reg])) /\ wait' = "no"
      BY <1>2, <2>3 DEF StartSet, Start
    <3> QED
      BY <1>2, <2>1, <3>1, TasksAreNotIdle
  <2>4. CASE StartLoad
    <3>1. Submit(LoadTask(Now.cell)) /\ wait' = wait /\ wait = "no"
      BY <2>4 DEF StartLoad, Ready
    <3> QED
      BY <1>2, <2>1, <3>1, TasksAreNotIdle
  <2>5. CASE StartExpect
    <3>1. Submit(ExpectTask(Now.cell, reg[Now.reg])) /\ wait' = wait /\ wait = "no"
      BY <2>5 DEF StartExpect, Ready
    <3> QED
      BY <1>2, <2>1, <3>1, TasksAreNotIdle
  <2>6. CASE StartFence
    <3>1. UNCHANGED <<bus, ongoing>> /\ wait' = "fence"
      BY <2>6 DEF StartFence
    <3> QED
      BY <1>1, <1>2, <3>1 DEF IInv, PipedSide, BareSide, FrontOnBus
  <2> QED
    BY <1>2, <2>2, <2>3, <2>4, <2>5, <2>6
<1>3. CASE mode # "piped"
  <2>1. /\ Now.do \in {"get", "set"} /\ ops # <<>> /\ wait = "no" /\ bus = Idle
        /\ ongoing = <<>> /\ PlainOps(ops)
    BY <1>1, <1>3, FewerOps DEF Ready, Now, IInv, BareSide
  <2>2. StartGet \/ StartSet
    BY <2>1 DEF StartLoad, StartExpect, StartFence
  <2>3. PICK t : t # Idle /\ bus' = t /\ UNCHANGED ongoing /\ wait' = "await"
    BY <1>3, <2>2, TasksAreNotIdle DEF StartGet, StartSet, Start, Issue
  <2>4. ops' = ops
    BY <1>3, <2>2 DEF StartGet, StartSet
  <2> QED
    BY <1>1, <1>3, <2>1, <2>3, <2>4 DEF IInv, PipedSide, BareSide
<1> QED
  BY <1>2, <1>3

(* The answers: the oldest task leaves the queue, or all stays as it is.      *)
LEMMA TickKeeps ==
    IInv /\ Tick => IInv' /\ mode = "piped" /\ (bus' # bus => ongoing' = Tail(ongoing))
<1> SUFFICES ASSUME IInv, Tick
             PROVE  IInv' /\ mode = "piped" /\ (bus' # bus => ongoing' = Tail(ongoing))
  OBVIOUS
<1>1. /\ mode = "piped" /\ mode' = mode /\ wait' = wait /\ bus # Idle
      /\ bus' = NextOnBus
  BY DEF Tick
<1>2. ongoing' = Tail(ongoing) \/ ongoing' = ongoing
  BY DEF Tick
<1>3. TaskQueue(ongoing) /\ ongoing # <<>> /\ bus = Head(ongoing)
  BY <1>1 DEF IInv, PipedSide, FrontOnBus
<1>4. TaskQueue(ongoing')
  BY <1>2, <1>3, ShorterQueue
<1>5. ongoing' = ongoing => bus' = bus
  BY <1>1, <1>3 DEF NextOnBus
<1> QED
  BY <1>1, <1>2, <1>4, <1>5 DEF IInv, PipedSide, BareSide, FrontOnBus, NextOnBus

LEMMA AwaitKeeps ==
    IInv /\ Await =>
        IInv' /\ mode # "piped" /\ (bus' # bus => bus' = Idle /\ ops' = Tail(ops))
<1> SUFFICES ASSUME IInv, Await
             PROVE  /\ IInv' /\ mode # "piped"
                    /\ bus' # bus => bus' = Idle /\ ops' = Tail(ops)
  OBVIOUS
<1>1. /\ mode' = mode /\ wait = "await" /\ ongoing' = ongoing
      /\ \/ bus' = Idle /\ wait' = "no" /\ ops' = Tail(ops)
         \/ bus' = bus /\ wait' = wait /\ ops' = ops
  BY DEF Await
<1>2. mode # "piped" /\ PlainOps(ops) /\ ops # <<>>
  BY <1>1 DEF IInv, PipedSide, BareSide
<1>3. PlainOps(ops')
  BY <1>1, <1>2, FewerOps
<1> QED
  BY <1>1, <1>2, <1>3 DEF IInv, PipedSide, BareSide

LEMMA FenceKeeps == IInv /\ FenceReturns => IInv' /\ mode = "piped" /\ bus' = bus
<1> SUFFICES ASSUME IInv, FenceReturns PROVE IInv' /\ mode = "piped" /\ bus' = bus
  OBVIOUS
<1>1. UNCHANGED <<mode, bus, ongoing>> /\ wait = "fence" /\ wait' = "no"
  BY DEF FenceReturns
<1> QED
  BY <1>1 DEF IInv, PipedSide, BareSide, FrontOnBus

(* A step keeps the invariant and the request.                                *)
KeepsRequest == bus # Idle /\ bus' # bus =>
    IF mode = "piped" THEN ongoing' = Tail(ongoing) ELSE bus' = Idle /\ ops' = Tail(ops)

LEMMA StepKeeps == IInv /\ [Next]_vars => IInv' /\ KeepsRequest
<1> SUFFICES ASSUME IInv, [Next]_vars PROVE IInv' /\ KeepsRequest
  OBVIOUS
<1>1. CASE Call
  <2>1. bus' = bus
    BY <1>1 DEF Call, CallSet, CallGet, CallAssign, CallSwap, CallLoad, CallExpect,
       CallFence, Begin
  <2> QED
    BY <1>1, <2>1, CallKeeps DEF KeepsRequest
<1>2. CASE StartGet \/ StartSet \/ StartLoad \/ StartExpect \/ StartFence
  BY <1>2, StartKeeps DEF KeepsRequest
<1>3. CASE Tick
  BY <1>3, TickKeeps DEF KeepsRequest
<1>4. CASE FenceReturns
  BY <1>4, FenceKeeps DEF KeepsRequest
<1>5. CASE Await
  BY <1>5, AwaitKeeps DEF KeepsRequest
<1>6. CASE UNCHANGED vars
  BY <1>6 DEF vars, KeepsRequest, IInv, PipedSide, BareSide, FrontOnBus
<1> QED
  BY <1>1, <1>2, <1>3, <1>4, <1>5, <1>6 DEF Next

(* Neither submitting tasks nor starting a call changes a request that is not *)
(* answered yet.                                                              *)
THEOREM RequestsAreStable == Spec => StableRequest
<1>1. IInv /\ [Next]_vars => [KeepsRequest]_vars
  BY StepKeeps
<1>2. Spec => [][KeepsRequest]_vars
  BY <1>1, InitIInv, StepKeeps, PTL DEF Spec
<1> QED
  BY <1>2, PTL DEF StableRequest, KeepsRequest

----------------------------------------------------------------------------
(* Folds.  A set of numbers that is not empty has a least one, so what holds  *)
(* of 0 and goes on from each number to the next holds of all.                *)
LEMMA LeastNumber ==
    ASSUME NEW T, T \subseteq Nat, T # {}
    PROVE  \E n \in T : \A m \in T : n <= m
<1> DEFINE Less == {p \in Nat \X Nat : p[1] < p[2]}
<1>1. IsWellFoundedOn(Less, Nat)
  <2>1. OpToRel(<, Nat) = Less
    BY Zenon DEF OpToRel
  <2> QED
    BY <2>1, NatLessThanWellFounded, Zenon
<1> HIDE DEF Less
<1>2. PICK n \in T : \A m \in T : ~(<<m, n>> \in Less)
  BY <1>1, WFMin
<1>3. ASSUME NEW m \in T PROVE n <= m
  <2>1. n \in Nat /\ m \in Nat /\ <<m, n>> \in Nat \X Nat /\ <<m, n>> \notin Less
    BY <1>2
  <2>2. ~(m < n)
    BY <2>1 DEF Less
  <2> QED
    BY <2>1, <2>2
<1> QED
  BY <1>3

LEMMA Induction ==
    ASSUME NEW S, 0 \in S, \A n \in Nat : n \in S => n + 1 \in S
    PROVE  Nat \subseteq S
<1> SUFFICES ASSUME Nat \ S # {} PROVE FALSE
  OBVIOUS
<1>1. PICK n \in Nat \ S : \A m \in Nat \ S : n <= m
  <2>1. Nat \ S \subseteq Nat
    OBVIOUS
  <2> QED
    BY <2>1, LeastNumber
<1>2. n - 1 \in Nat
  BY <1>1
<1>3. n - 1 \in S
  BY <1>1, <1>2
<1> QED
  BY <1>1, <1>2, <1>3

(* The recursive equation a fold over the first k tasks of q picks a solution *)
(* of, and the memories between the tasks.                                    *)
Folding(q, m, k, h) == [s \in SUBSET (1 .. k) |->
    IF s = {} THEN m ELSE LET x == Max(s) IN Perform(h[s \ {x}], q[x])]
Passes(q, m, P) == P[0] = m /\ \A i \in 1 .. Len(q) : P[i] = Perform(P[i - 1], q[i])

LEMMA MaxIs ==
    ASSUME NEW k \in Nat, NEW s \in SUBSET (1 .. k), k \in s PROVE Max(s) = k
<1>1. \A x \in s : k >= x
  OBVIOUS
<1>2. \A x \in s : (\A y \in s : x >= y) => x = k
  OBVIOUS
<1> QED
  BY <1>1, <1>2 DEF Max

LEMMA FoldingSolved ==
    ASSUME NEW q, NEW m, NEW k \in Nat PROVE \E h : h = Folding(q, m, k, h)
<1> DEFINE S == {j \in Nat : \E h : h = Folding(q, m, j, h)}
<1>1. 0 \in S
  <2> DEFINE h == [s \in SUBSET (1 .. 0) |-> m]
  <2>1. \A s \in SUBSET (1 .. 0) : s = {}
    OBVIOUS
  <2>2. h = Folding(q, m, 0, h)
    BY <2>1 DEF Folding
  <2> QED
    BY <2>2
<1>2. ASSUME NEW j \in Nat, j \in S PROVE j + 1 \in S
  <2>1. PICK h : h = Folding(q, m, j, h)
    BY <1>2
  <2> DEFINE g == [s \in SUBSET (1 .. j + 1) |->
                     IF j + 1 \in s THEN Perform(h[s \ {j + 1}], q[j + 1]) ELSE h[s]]
             R == [s \in SUBSET (1 .. j + 1) |->
                     IF s = {} THEN m ELSE Perform(g[s \ {Max(s)}], q[Max(s)])]
  <2>2. ASSUME NEW s \in SUBSET (1 .. j + 1) PROVE g[s] = R[s]
    <3>1. CASE j + 1 \in s
      <4>1. Max(s) = j + 1 /\ s # {}
        BY <3>1, MaxIs
      <4>2. s \ {j + 1} \in SUBSET (1 .. j + 1) /\ j + 1 \notin s \ {j + 1}
        OBVIOUS
      <4>3. g[s \ {j + 1}] = h[s \ {j + 1}]
        BY <4>2
      <4> QED
        BY <3>1, <4>1, <4>3
    <3>2. CASE j + 1 \notin s /\ s # {}
      <4>1. s \in SUBSET (1 .. j)
        BY <3>2
      <4>2. h[s] = Perform(h[s \ {Max(s)}], q[Max(s)])
        BY <2>1, <3>2, <4>1 DEF Folding
      <4>3. s \ {Max(s)} \in SUBSET (1 .. j + 1) /\ j + 1 \notin s \ {Max(s)}
        BY <3>2
      <4>4. g[s \ {Max(s)}] = h[s \ {Max(s)}]
        BY <4>3
      <4> QED
        BY <3>2, <4>2, <4>4
    <3>3. CASE s = {}
      <4>1. s \in SUBSET (1 .. j) /\ j + 1 \notin s
        BY <3>3
      <4>2. h[s] = m
        BY <2>1, <3>3, <4>1 DEF Folding
      <4> QED
        BY <3>3, <4>1, <4>2
    <3> QED
      BY <3>1, <3>2, <3>3
  <2>3. g = R
    BY <2>2
  <2>4. g = Folding(q, m, j + 1, g)
    BY <2>3 DEF Folding
  <2> QED
    BY <2>4
<1> HIDE DEF S
<1>3. k \in S
  BY <1>1, <1>2, Induction
<1> QED
  BY <1>3 DEF S

(* The fold of the tasks is the memory after the last.                        *)
LEMMA FoldIs ==
    ASSUME NEW S, NEW q \in Seq(S), NEW m, NEW P, Passes(q, m, P)
    PROVE  FoldLeft(Perform, m, q) = P[Len(q)]
<1>1. PICK n \in Nat : n = Len(q) /\ DOMAIN q = 1 .. n
  BY LenProperties
<1> DEFINE h == CHOOSE g : g = Folding(q, m, n, g)
<1>2. FoldLeft(Perform, m, q) = h[1 .. n]
  BY <1>1, Zenon DEF FoldLeft, MapThenFoldSet, Folding
<1>3. h = Folding(q, m, n, h)
  BY FoldingSolved, Zenon
<1> HIDE DEF h
<1> DEFINE T == {k \in Nat : k <= n => h[1 .. k] = P[k]}
<1>4. 0 \in T
  BY <1>3 DEF Folding, Passes
<1>5. ASSUME NEW k \in Nat, k \in T PROVE k + 1 \in T
  <2> SUFFICES ASSUME k + 1 <= n PROVE h[1 .. k + 1] = P[k + 1]
    OBVIOUS
  <2>1. h[1 .. k] = P[k]
    BY <1>1, <1>5
  <2>2. /\ 1 .. k + 1 \in SUBSET (1 .. n) /\ 1 .. k + 1 # {}
        /\ (1 .. k + 1) \ {k + 1} = 1 .. k
    <3>1. 1 .. k + 1 \in SUBSET (1 .. n)
      BY <1>1
    <3>2. k + 1 \in 1 .. k + 1
      OBVIOUS
    <3>3. (1 .. k + 1) \ {k + 1} = 1 .. k
      OBVIOUS
    <3> QED
      BY <3>1, <3>2, <3>3
  <2>3. Max(1 .. k + 1) = k + 1
    BY MaxIs
  <2>4. h[1 .. k + 1] = Perform(h[(1 .. k + 1) \ {k + 1}], q[k + 1])
    BY <1>3, <2>2, <2>3 DEF Folding
  <2>5. k + 1 \in 1 .. Len(q) /\ (k + 1) - 1 = k
    BY <1>1
  <2>6. P[k + 1] = Perform(P[k], q[k + 1])
    BY <2>5 DEF Passes
  <2> QED
    BY <2>1, <2>2, <2>4, <2>6
<1> HIDE DEF T
<1>6. n \in T
  BY <1>4, <1>5, Induction
<1> QED
  BY <1>1, <1>2, <1>6 DEF T

----------------------------------------------------------------------------
(* Cells, and the operations on their words.                                  *)
LEMMA CellFacts ==
    ASSUME NEW c \in Cells
    PROVE  /\ c.width \in Widths /\ c.width \in 1 .. 8 /\ c.addr \in Nat
           /\ Index(c) \in Words /\ Index(c) \in Int
           /\ OpOf(c).size = c.width /\ OpOf(c).shift = Lane(c)
           /\ Lane(c) \in Lanes /\ Lane(c) + c.width <= 8
<1>1. c.addr \in Nat /\ c.width \in Widths /\ c.addr % c.width = 0
  BY CellAssumption
<1>2. PICK a \in Nat, w \in Widths : a = c.addr /\ w = c.width /\ a % w = 0
  BY <1>1
<1>3. a % 8 \in 0 .. 7 /\ ((a % 8) \div w) * w = a % 8 /\ (a % 8) + w <= 8
  <2>1. CASE w = 1
    BY <2>1
  <2>2. CASE w = 2
    BY <1>2, <2>2
  <2>3. CASE w = 4
    BY <1>2, <2>3
  <2>4. CASE w = 8
    BY <1>2, <2>4
  <2> QED
    BY <2>1, <2>2, <2>3, <2>4 DEF Widths
<1>4. Index(c) \in Words /\ Index(c) \in Int
  BY <1>1 DEF Words, Index
<1>5. w \in 1 .. 8
  BY DEF Widths
<1> QED
  BY <1>2, <1>3, <1>4, <1>5 DEF OpOf, Parse, Lane, Lanes

(* A load of a cell gives what plain memory holds there.                      *)
LEMMA GetIsLoad ==
    ASSUME NEW c \in Cells, NEW m, NEW k \in 0 .. c.width - 1
    PROVE  Apply(OpOf(c), m[Index(c)])[k] = Get(m, c)[k]
<1>1. PICK l \in Lanes, w \in 1 .. 8 : l = Lane(c) /\ w = c.width /\ l + w <= 8
  BY CellFacts
<1>2. OpOf(c).size = w /\ OpOf(c).shift = l
  BY <1>1, CellFacts
<1>3. k \in Lanes /\ k < w /\ ~(w = 0 \/ k + l > 7)
  <2>1. k \in 0 .. w - 1
    BY <1>1
  <2>2. l \in 0 .. 7 /\ l + w <= 8
    BY <1>1 DEF Lanes
  <2> QED
    BY <2>1, <2>2 DEF Lanes
<1>4. Apply(OpOf(c), m[Index(c)])[k] = m[Index(c)][k + l]
  BY <1>2, <1>3 DEF Apply
<1>5. Get(m, c)[k] = m[Index(c)][l + k]
  BY <1>1, <1>3 DEF Get
<1>6. k + l = l + k
  BY <1>1, <1>3 DEF Lanes
<1> QED
  BY <1>4, <1>5, <1>6

(* A store to a cell is an assignment to it in plain memory.                  *)
LEMMA SetIsStore ==
    ASSUME NEW c \in Cells, NEW v, NEW m
    PROVE  Perform(m, StoreTask(c, v)) = Set(m, c, v)
<1>1. PICK l \in Lanes, w \in 1 .. 8 : l = Lane(c) /\ w = c.width /\ l + w <= 8
  BY CellFacts
<1>2. OpOf(c).size = w /\ OpOf(c).shift = l
  BY <1>1, CellFacts
<1> DEFINE t == StoreTask(c, v)
           A(old) == Write(old, Strobe(OpOf(c)), Place(OpOf(c), Extended(c, v)))
           B(old) == [k \in Lanes |-> IF Lane(c) <= k /\ k < Lane(c) + c.width
                                      THEN v[k - Lane(c)] ELSE old[k]]
<1>3. ASSUME NEW old PROVE A(old) = B(old)
  <2>1. ASSUME NEW k \in Lanes PROVE A(old)[k] = B(old)[k]
    <3>1. k \in Strobe(OpOf(c)) <=> l <= k /\ k < l + w
      BY <1>1, <1>2 DEF Strobe
    <3>2. ASSUME l <= k, k < l + w PROVE Place(OpOf(c), Extended(c, v))[k] = v[k - l]
      <4>1. k - l \in Lanes /\ k - l < w /\ ~(k < l)
        BY <1>1, <3>2 DEF Lanes
      <4>2. Extended(c, v)[k - l] = v[k - l]
        BY <1>1, <4>1 DEF Extended
      <4> QED
        BY <1>2, <4>1, <4>2 DEF Place
    <3> QED
      BY <1>1, <3>1, <3>2 DEF Write
  <2> QED
    BY <2>1 DEF Write
<1> HIDE DEF A, B
<1>4. /\ t.kind = "store" /\ t.word = Index(c)
      /\ t.strobe = Strobe(OpOf(c)) /\ t.data = Place(OpOf(c), Extended(c, v))
  BY DEF StoreTask, Task
<1>5. Perform(m, t) = [m EXCEPT ![Index(c)] = A(m[Index(c)])]
  BY <1>4 DEF Perform, A
<1>6. Set(m, c, v) = [m EXCEPT ![Index(c)] = B(m[Index(c)])]
  BY DEF Set, B
<1> QED
  BY <1>3, <1>5, <1>6

(* The reference memory takes a store as the device does.                     *)
LEMMA PerformedIs == ASSUME NEW t, t.word \in Int PROVE Performed(t) = Perform(ref, t)
<1>1. CASE t.kind = "store"
  <2> DEFINE w == [addr |-> 8 * t.word, width |-> 8]
             x == Write(ref[t.word], t.strobe, t.data)
  <2>1. Index(w) = t.word /\ Lane(w) = 0 /\ w.width = 8
    <3>1. PICK n \in Int : n = t.word
      OBVIOUS
    <3>2. (8 * n) \div 8 = n /\ (8 * n) % 8 = 0
      OBVIOUS
    <3> QED
      BY <3>1, <3>2 DEF Index, Lane
  <2>2. [k \in Lanes |-> IF Lane(w) <= k /\ k < Lane(w) + w.width
                         THEN x[k - Lane(w)] ELSE ref[t.word][k]] = x
    <3>1. ASSUME NEW k \in Lanes
          PROVE  0 <= k /\ k < 0 + 8 /\ k - 0 = k
      BY DEF Lanes
    <3> QED
      BY <2>1, <3>1 DEF Write
  <2>3. Set(ref, w, x) = [ref EXCEPT ![t.word] = x]
    BY <2>1, <2>2 DEF Set
  <2> QED
    BY <1>1, <2>3 DEF Performed, Perform
<1>2. CASE t.kind # "store"
  BY <1>2 DEF Performed, Perform
<1> QED
  BY <1>1, <1>2

----------------------------------------------------------------------------
(* The line of tasks from the device's memory m to the reference memory r:    *)
(* there are memories between the tasks, each the one before with the task    *)
(* performed, and each task wants what the memory before it holds.            *)
GoodTask(t) == /\ t.kind \in {"load", "store", "expect"} /\ t.word \in Int
               /\ t.op.size \in Widths /\ t.op.shift \in Lanes
               /\ t.op.shift + t.op.size <= 8
Wants(q, P) == \A i \in 1 .. Len(q) : q[i].want = Apply(q[i].op, P[i - 1][q[i].word])
Line(q, m, r) == \E S : /\ q \in Seq(S) /\ \A t \in S : GoodTask(t)
                        /\ \E P : Passes(q, m, P) /\ P[Len(q)] = r /\ Wants(q, P)

LEMMA EmptyLine == ASSUME NEW m, NEW r PROVE Line(<<>>, m, r) <=> m = r
<1>1. ASSUME m = r PROVE Line(<<>>, m, r)
  <2>1. PICK S : S = {}
    OBVIOUS
  <2>2. <<>> \in Seq(S) /\ \A t \in S : GoodTask(t)
    BY <2>1, EmptySeq
  <2>3. Len(<<>>) = 0
    OBVIOUS
  <2> DEFINE P == [i \in 0 .. 0 |-> m]
  <2>4. Passes(<<>>, m, P) /\ P[0] = r /\ Wants(<<>>, P)
    BY <1>1, <2>3 DEF Passes, Wants
  <2> QED
    BY <2>2, <2>3, <2>4 DEF Line
<1>2. Line(<<>>, m, r) => m = r
  BY DEF Line, Passes
<1> QED
  BY <1>1, <1>2

LEMMA LineFolds == ASSUME NEW q, NEW m, NEW r, Line(q, m, r) PROVE FoldLeft(Perform, m, q) = r
<1>1. PICK S, P : q \in Seq(S) /\ Passes(q, m, P) /\ P[Len(q)] = r
  BY DEF Line
<1> QED
  BY <1>1, FoldIs

LEMMA LongerLine ==
    ASSUME NEW q, NEW m, NEW r, Line(q, m, r),
           NEW t, GoodTask(t), t.want = Apply(t.op, r[t.word])
    PROVE  Line(Append(q, t), m, Perform(r, t))
<1>1. PICK S, P : /\ q \in Seq(S) /\ \A x \in S : GoodTask(x)
                  /\ Passes(q, m, P) /\ P[Len(q)] = r /\ Wants(q, P)
  BY DEF Line
<1>2. PICK n \in Nat : n = Len(q)
  BY <1>1, LenProperties
<1>3. PICK p : p = Append(q, t)
  OBVIOUS
<1>4. /\ p \in Seq(S \cup {t}) /\ Len(p) = n + 1 /\ p[n + 1] = t
      /\ \A i \in 1 .. n : p[i] = q[i]
  <2>1. q \in Seq(S \cup {t}) /\ t \in S \cup {t}
    BY <1>1, SeqMonotonic
  <2> QED
    BY <1>2, <1>3, <2>1, AppendProperties
<1> DEFINE R == [i \in 0 .. n + 1 |-> IF i = n + 1 THEN Perform(r, t) ELSE P[i]]
<1>5. Passes(p, m, R)
  <2>1. R[0] = m
    BY <1>1, <1>2 DEF Passes
  <2>2. ASSUME NEW i \in 1 .. n PROVE R[i] = Perform(R[i - 1], p[i])
    <3>1. R[i] = P[i] /\ R[i - 1] = P[i - 1] /\ p[i] = q[i]
      BY <1>4
    <3>2. P[i] = Perform(P[i - 1], q[i])
      BY <1>1, <1>2 DEF Passes
    <3> QED
      BY <3>1, <3>2
  <2>3. R[n + 1] = Perform(R[(n + 1) - 1], p[n + 1])
    <3>1. (n + 1) - 1 = n /\ R[n] = P[n] /\ R[n + 1] = Perform(r, t)
      OBVIOUS
    <3> QED
      BY <1>1, <1>2, <1>4, <3>1
  <2> HIDE DEF R
  <2> QED
    BY <1>4, <2>1, <2>2, <2>3 DEF Passes
<1>6. R[Len(p)] = Perform(r, t)
  BY <1>4
<1>7. Wants(p, R)
  <2>1. ASSUME NEW i \in 1 .. n PROVE p[i].want = Apply(p[i].op, R[i - 1][p[i].word])
    <3>1. R[i - 1] = P[i - 1] /\ p[i] = q[i]
      BY <1>4
    <3>2. q[i].want = Apply(q[i].op, P[i - 1][q[i].word])
      BY <1>1, <1>2 DEF Wants
    <3> QED
      BY <3>1, <3>2
  <2>2. R[(n + 1) - 1] = r
    <3>1. (n + 1) - 1 = n /\ R[n] = P[n]
      OBVIOUS
    <3> QED
      BY <1>1, <1>2, <3>1
  <2> HIDE DEF R
  <2> QED
    BY <1>4, <2>1, <2>2 DEF Wants
<1> HIDE DEF R
<1>8. \A x \in S \cup {t} : GoodTask(x)
  BY <1>1
<1> QED
  BY <1>3, <1>4, <1>5, <1>6, <1>7, <1>8 DEF Line

LEMMA ShorterLine ==
    ASSUME NEW q, NEW m, NEW r, Line(q, m, r), q # <<>>
    PROVE  /\ Line(Tail(q), Perform(m, Head(q)), r)
           /\ GoodTask(Head(q))
           /\ Head(q).want = Apply(Head(q).op, m[Head(q).word])
<1>1. PICK S, P : /\ q \in Seq(S) /\ \A x \in S : GoodTask(x)
                  /\ Passes(q, m, P) /\ P[Len(q)] = r /\ Wants(q, P)
  BY DEF Line
<1>2. PICK n, p : n \in Nat /\ n + 1 = Len(q) /\ p = Tail(q)
  <2>1. Len(q) \in Nat /\ Len(q) # 0
    BY <1>1, LenProperties, EmptySeq
  <2>2. Len(q) - 1 \in Nat /\ (Len(q) - 1) + 1 = Len(q)
    BY <2>1
  <2> QED
    BY <2>2
<1>3. /\ p \in Seq(S) /\ Len(p) = n /\ Head(q) \in S /\ Head(q) = q[1]
      /\ \A i \in 1 .. n : p[i] = q[i + 1]
  BY <1>1, <1>2, HeadTailProperties
<1> DEFINE R == [i \in 0 .. n |-> P[i + 1]]
<1>4. 1 \in 1 .. Len(q) /\ 1 - 1 = 0
  BY <1>2
<1>5. P[1] = Perform(m, Head(q)) /\ Head(q).want = Apply(Head(q).op, m[Head(q).word])
  <2>1. P[0] = m /\ P[1] = Perform(P[1 - 1], q[1])
    BY <1>1, <1>4 DEF Passes
  <2>2. q[1].want = Apply(q[1].op, P[1 - 1][q[1].word])
    BY <1>1, <1>4 DEF Wants
  <2> QED
    BY <1>3, <1>4, <2>1, <2>2
<1>6. ASSUME NEW i \in 1 .. n
      PROVE  /\ R[i] = Perform(R[i - 1], p[i])
             /\ p[i].want = Apply(p[i].op, R[i - 1][p[i].word])
  <2>1. i + 1 \in 1 .. Len(q) /\ (i + 1) - 1 = i /\ i - 1 \in 0 .. n /\ (i - 1) + 1 = i
    BY <1>2
  <2>2. P[i + 1] = Perform(P[i], q[i + 1])
    BY <1>1, <2>1 DEF Passes
  <2>3. q[i + 1].want = Apply(q[i + 1].op, P[i][q[i + 1].word])
    BY <1>1, <2>1 DEF Wants
  <2>4. R[i] = P[i + 1] /\ R[i - 1] = P[i] /\ p[i] = q[i + 1]
    BY <1>3, <2>1
  <2> QED
    BY <2>2, <2>3, <2>4
<1>7. R[0] = P[1] /\ R[n] = r
  BY <1>1, <1>2
<1> HIDE DEF R
<1>8. Passes(p, Perform(m, Head(q)), R) /\ R[Len(p)] = r /\ Wants(p, R)
  BY <1>3, <1>5, <1>6, <1>7 DEF Passes, Wants
<1> QED
  BY <1>1, <1>2, <1>3, <1>5, <1>8 DEF Line

----------------------------------------------------------------------------
(* What is left of a call: the operations to do, from the reference memory    *)
(* and the locals of now, lead to the memory the call should leave.           *)
GoodOp(o) == /\ o.do \in {"get", "set", "load", "expect", "fence"}
             /\ o.do # "fence" => o.cell \in Cells
             /\ o.do \in {"get", "set"} => o.reg \in {"u", "v"}
After(o, st) ==
    [ref |-> IF o.do = "set" THEN Set(st.ref, o.cell, st.reg[o.reg]) ELSE st.ref,
     reg |-> IF o.do = "get"
             THEN [st.reg EXCEPT ![o.reg] = ZeroExtended(o.cell, Get(st.ref, o.cell))]
             ELSE st.reg]
Follows(q, st, R) == R[0] = st /\ \A i \in 1 .. Len(q) : R[i] = After(q[i], R[i - 1])
Leads(q, st, m) == \E S : /\ q \in Seq(S) /\ \A o \in S : GoodOp(o)
                          /\ \E R : Follows(q, st, R) /\ R[Len(q)].ref = m

LEMMA NoneLead == ASSUME NEW st, NEW m, Leads(<<>>, st, m) PROVE st.ref = m
BY DEF Leads, Follows

LEMMA RestLeads ==
    ASSUME NEW q, NEW st, NEW m, Leads(q, st, m), q # <<>>
    PROVE  GoodOp(Head(q)) /\ Leads(Tail(q), After(Head(q), st), m)
<1>1. PICK S, P : /\ q \in Seq(S) /\ \A o \in S : GoodOp(o)
                  /\ Follows(q, st, P) /\ P[Len(q)].ref = m
  BY DEF Leads
<1>2. PICK n, p : n \in Nat /\ n + 1 = Len(q) /\ p = Tail(q)
  <2>1. Len(q) \in Nat /\ Len(q) # 0
    BY <1>1, LenProperties, EmptySeq
  <2>2. Len(q) - 1 \in Nat /\ (Len(q) - 1) + 1 = Len(q)
    BY <2>1
  <2> QED
    BY <2>2
<1>3. /\ p \in Seq(S) /\ Len(p) = n /\ Head(q) \in S /\ Head(q) = q[1]
      /\ \A i \in 1 .. n : p[i] = q[i + 1]
  BY <1>1, <1>2, HeadTailProperties
<1> DEFINE R == [i \in 0 .. n |-> P[i + 1]]
<1>4. 1 \in 1 .. Len(q) /\ 1 - 1 = 0
  BY <1>2
<1>5. P[1] = After(Head(q), st)
  <2>1. P[0] = st /\ P[1] = After(q[1], P[1 - 1])
    BY <1>1, <1>4 DEF Follows
  <2> QED
    BY <1>3, <1>4, <2>1
<1>6. ASSUME NEW i \in 1 .. n PROVE R[i] = After(p[i], R[i - 1])
  <2>1. i + 1 \in 1 .. Len(q) /\ (i + 1) - 1 = i /\ i - 1 \in 0 .. n /\ (i - 1) + 1 = i
    BY <1>2
  <2>2. P[i + 1] = After(q[i + 1], P[i])
    BY <1>1, <2>1 DEF Follows
  <2>3. R[i] = P[i + 1] /\ R[i - 1] = P[i] /\ p[i] = q[i + 1]
    BY <1>3, <2>1
  <2> QED
    BY <2>2, <2>3
<1>7. R[0] = P[1] /\ R[n].ref = m
  BY <1>1, <1>2
<1> HIDE DEF R
<1>8. Follows(p, After(Head(q), st), R) /\ R[Len(p)].ref = m
  BY <1>3, <1>5, <1>6, <1>7 DEF Follows
<1> QED
  BY <1>1, <1>2, <1>3, <1>8 DEF Leads

(* The calls, which have one, two or four operations.                         *)
LEMMA OneLeads ==
    ASSUME NEW a, GoodOp(a), NEW st PROVE Leads(<<a>>, st, After(a, st).ref)
<1> DEFINE x == After(a, st)
           R == [i \in 0 .. 1 |-> IF i = 0 THEN st ELSE x]
           s == <<a>>
<1>1. s \in Seq({a}) /\ Len(s) = 1 /\ s[1] = a
  OBVIOUS
<1>2. R[0] = st /\ R[1] = x
  OBVIOUS
<1> HIDE DEF R
<1>3. R[1] = After(a, R[1 - 1])
  BY <1>2
<1> HIDE DEF x, s
<1>4. Follows(s, st, R)
  BY <1>1, <1>2, <1>3 DEF Follows
<1>5. Leads(s, st, x.ref)
  BY <1>1, <1>2, <1>4 DEF Leads
<1> QED
  BY <1>5 DEF s, x

LEMMA TwoLead ==
    ASSUME NEW a, GoodOp(a), NEW b, GoodOp(b), NEW st
    PROVE  Leads(<<a, b>>, st, After(b, After(a, st)).ref)
<1> DEFINE x == After(a, st)
           y == After(b, x)
           R == [i \in 0 .. 2 |-> IF i = 0 THEN st ELSE IF i = 1 THEN x ELSE y]
           s == <<a, b>>
<1>1. s \in Seq({a, b})
  OBVIOUS
<1>2. Len(s) = 2 /\ s[1] = a /\ s[2] = b
  OBVIOUS
<1>3. R[0] = st /\ R[1] = x /\ R[2] = y
  OBVIOUS
<1> HIDE DEF R
<1>4. R[1] = After(a, R[1 - 1]) /\ R[2] = After(b, R[2 - 1])
  BY <1>3
<1> HIDE DEF x, y, s
<1>5. Follows(s, st, R)
  <2>1. \A i \in 1 .. 2 : i = 1 \/ i = 2
    OBVIOUS
  <2> QED
    BY <1>2, <1>3, <1>4, <2>1 DEF Follows
<1>6. Leads(s, st, y.ref)
  BY <1>1, <1>2, <1>3, <1>5 DEF Leads
<1> QED
  BY <1>6 DEF s, x, y

LEMMA FourLead ==
    ASSUME NEW a, GoodOp(a), NEW b, GoodOp(b), NEW c, GoodOp(c), NEW d, GoodOp(d), NEW st
    PROVE  Leads(<<a, b, c, d>>, st, After(d, After(c, After(b, After(a, st)))).ref)
<1> DEFINE x == After(a, st)
           y == After(b, x)
           z == After(c, y)
           w == After(d, z)
           R == [i \in 0 .. 4 |-> IF i = 0 THEN st ELSE IF i = 1 THEN x ELSE
                                  IF i = 2 THEN y ELSE IF i = 3 THEN z ELSE w]
           s == <<a, b, c, d>>
<1>1. s \in Seq({a, b, c, d})
  OBVIOUS
<1>2. Len(s) = 4 /\ s[1] = a /\ s[2] = b /\ s[3] = c /\ s[4] = d
  OBVIOUS
<1>3. R[0] = st /\ R[1] = x /\ R[2] = y /\ R[3] = z /\ R[4] = w
  OBVIOUS
<1> HIDE DEF R
<1>4. /\ R[1] = After(a, R[1 - 1]) /\ R[2] = After(b, R[2 - 1])
      /\ R[3] = After(c, R[3 - 1]) /\ R[4] = After(d, R[4 - 1])
  BY <1>3
<1> HIDE DEF x, y, z, w, s
<1>5. Follows(s, st, R)
  <2>1. \A i \in 1 .. 4 : i = 1 \/ i = 2 \/ i = 3 \/ i = 4
    OBVIOUS
  <2> QED
    BY <1>2, <1>3, <1>4, <2>1 DEF Follows
<1>6. Leads(s, st, w.ref)
  BY <1>1, <1>2, <1>3, <1>5 DEF Leads
<1> QED
  BY <1>6 DEF s, x, y, z, w

(* An assignment takes the bytes of the cell only.                            *)
LEMMA SetIsNarrow ==
    ASSUME NEW x \in Cells, NEW y \in Cells, x.width = y.width, NEW m, NEW v
    PROVE  Set(m, x, ZeroExtended(y, v)) = Set(m, x, v)
<1>1. PICK l \in Lanes, w \in 1 .. 8 : l = Lane(x) /\ w = x.width /\ w = y.width
  BY CellFacts
<1>2. ASSUME NEW k \in Lanes, l <= k, k < l + w PROVE ZeroExtended(y, v)[k - l] = v[k - l]
  <2>1. k - l \in Lanes /\ k - l < w
    BY <1>2 DEF Lanes
  <2> QED
    BY <1>1, <2>1 DEF ZeroExtended
<1>3. \A old : [k \in Lanes |-> IF Lane(x) <= k /\ k < Lane(x) + x.width
                                THEN ZeroExtended(y, v)[k - Lane(x)] ELSE old[k]]
             = [k \in Lanes |-> IF Lane(x) <= k /\ k < Lane(x) + x.width
                                THEN v[k - Lane(x)] ELSE old[k]]
  BY <1>1, <1>2
<1> QED
  BY <1>3 DEF Set

----------------------------------------------------------------------------
(* The invariant of the data.  The device's memory leads through the tasks to *)
(* the reference memory; an expectation that cannot be met is in the queue or *)
(* has failed the test; what is left of the call leads to what it should      *)
(* leave; and a load that is waited for is the last task, or has answered.    *)
LineSide == Line(Outstanding, mem, ref)

Disagrees(t) == t.kind = "expect" /\ \E k \in 0 .. t.op.size - 1 :
                                        t.data[k + t.op.shift] # t.want[k]
SomeDisagrees(q) == \E i \in 1 .. Len(q) : Disagrees(q[i])
WrongSide ==
    /\ wrong \in BOOLEAN /\ failed \in BOOLEAN
    /\ mode = "piped" => (wrong <=> failed \/ SomeDisagrees(ongoing))
    /\ mode # "piped" => ~wrong /\ ~failed

GoodOps(q) == \E S : q \in Seq(S) /\ \A o \in S : GoodOp(o)
Asked == IF wait = "await" /\ Now.do = "set" THEN Tail(ops) ELSE ops
State == [ref |-> ref, reg |-> reg]
Loaded == \A k \in 0 .. Now.cell.width - 1 : value[k] = Get(ref, Now.cell)[k]
LastLoads(q) == /\ q[Len(q)].kind = "load" /\ q[Len(q)].op = OpOf(Now.cell)
                /\ q[Len(q)].want = Apply(OpOf(Now.cell), ref[Index(Now.cell)])
CallSide ==
    /\ GoodOps(ops) /\ Leads(Asked, State, post)
    /\ wait \in {"no", "fence", "await"} /\ (wait # "no" => ops # <<>>)
    /\ wait = "fence" => Now.do \in {"get", "fence"}
    /\ wait = "fence" /\ Now.do = "get" =>
          IF ongoing = <<>> THEN Loaded ELSE LastLoads(ongoing)
    /\ wait = "await" /\ Now.do = "set" => bus.kind = "store"
    /\ wait = "await" /\ Now.do # "set" =>
          /\ Now.do = "get" /\ bus.kind = "load"
          /\ bus.op = OpOf(Now.cell) /\ bus.word = Index(Now.cell)

Inv == IInv /\ LineSide /\ WrongSide /\ LoadsInOrder /\ CallSide

----------------------------------------------------------------------------
(* A task at the end, and one from the front.                                 *)
LEMMA LastAppended ==
    ASSUME NEW q, TaskQueue(q), NEW t
    PROVE  /\ Append(q, t)[Len(Append(q, t))] = t
           /\ SomeDisagrees(Append(q, t)) <=> SomeDisagrees(q) \/ Disagrees(t)
<1>0. PICK S : q \in Seq(S)
  BY DEF TaskQueue
<1>1. PICK n \in Nat : q \in Seq(S) /\ n = Len(q)
  BY <1>0, LenProperties
<1>2. PICK p : p = Append(q, t)
  OBVIOUS
<1>3. Len(p) = n + 1 /\ p[n + 1] = t /\ \A i \in 1 .. n : p[i] = q[i]
  <2>1. q \in Seq(S \cup {t}) /\ t \in S \cup {t}
    BY <1>1, SeqMonotonic
  <2> QED
    BY <1>1, <1>2, <2>1, AppendProperties
<1>4. SomeDisagrees(p) <=> SomeDisagrees(q) \/ Disagrees(t)
  <2>1. ASSUME NEW i \in 1 .. n + 1, Disagrees(p[i])
        PROVE  SomeDisagrees(q) \/ Disagrees(t)
    <3>1. CASE i = n + 1
      BY <1>3, <2>1, <3>1
    <3>2. CASE i \in 1 .. n
      BY <1>1, <1>3, <2>1, <3>2 DEF SomeDisagrees
    <3> QED
      BY <3>1, <3>2
  <2>2. ASSUME NEW i \in 1 .. n, Disagrees(q[i]) PROVE SomeDisagrees(p)
    <3>1. i \in 1 .. n + 1 /\ Disagrees(p[i])
      BY <1>3, <2>2
    <3> QED
      BY <1>3, <3>1 DEF SomeDisagrees
  <2>3. ASSUME Disagrees(t) PROVE SomeDisagrees(p)
    <3>1. n + 1 \in 1 .. n + 1 /\ Disagrees(p[n + 1])
      BY <1>3, <2>3
    <3> QED
      BY <1>3, <3>1 DEF SomeDisagrees
  <2> QED
    BY <1>1, <1>3, <2>1, <2>2, <2>3 DEF SomeDisagrees
<1> QED
  BY <1>2, <1>3, <1>4

LEMMA FirstTaken ==
    ASSUME NEW q, TaskQueue(q), q # <<>>
    PROVE  /\ Tail(q) = <<>> => q[Len(q)] = Head(q)
           /\ Tail(q) # <<>> => Tail(q)[Len(Tail(q))] = q[Len(q)]
           /\ SomeDisagrees(q) <=> Disagrees(Head(q)) \/ SomeDisagrees(Tail(q))
<1>1. PICK S : q \in Seq(S)
  BY DEF TaskQueue
<1>2. PICK n, p : n \in Nat /\ n + 1 = Len(q) /\ p = Tail(q)
  <2>1. Len(q) \in Nat /\ Len(q) # 0
    BY <1>1, LenProperties, EmptySeq
  <2>2. Len(q) - 1 \in Nat /\ (Len(q) - 1) + 1 = Len(q)
    BY <2>1
  <2> QED
    BY <2>2
<1>3. /\ p \in Seq(S) /\ Len(p) = n /\ Head(q) = q[1]
      /\ \A i \in 1 .. n : p[i] = q[i + 1]
  BY <1>1, <1>2, HeadTailProperties
<1>4. p = <<>> <=> n = 0
  BY <1>3, EmptySeq
<1>5. p = <<>> => q[Len(q)] = Head(q)
  BY <1>2, <1>3, <1>4
<1>6. p # <<>> => p[Len(p)] = q[Len(q)]
  <2>1. n # 0 => n \in 1 .. n
    BY <1>2
  <2> QED
    BY <1>2, <1>3, <1>4, <2>1
<1>7. SomeDisagrees(q) <=> Disagrees(Head(q)) \/ SomeDisagrees(p)
  <2>1. ASSUME NEW i \in 1 .. n + 1, Disagrees(q[i])
        PROVE  Disagrees(Head(q)) \/ SomeDisagrees(p)
    <3>1. CASE i = 1
      BY <1>3, <2>1, <3>1
    <3>2. CASE i # 1
      <4>1. i - 1 \in 1 .. n /\ (i - 1) + 1 = i
        BY <1>2, <3>2
      <4>2. Disagrees(p[i - 1])
        BY <1>3, <2>1, <4>1
      <4> QED
        BY <1>3, <4>1, <4>2 DEF SomeDisagrees
    <3> QED
      BY <3>1, <3>2
  <2>2. ASSUME NEW i \in 1 .. n, Disagrees(p[i]) PROVE SomeDisagrees(q)
    <3>1. i + 1 \in 1 .. Len(q) /\ Disagrees(q[i + 1])
      BY <1>2, <1>3, <2>2
    <3> QED
      BY <3>1 DEF SomeDisagrees
  <2>3. ASSUME Disagrees(Head(q)) PROVE SomeDisagrees(q)
    <3>1. 1 \in 1 .. Len(q) /\ Disagrees(q[1])
      BY <1>2, <1>3, <2>3
    <3> QED
      BY <3>1 DEF SomeDisagrees
  <2> QED
    BY <1>2, <1>3, <2>1, <2>2, <2>3 DEF SomeDisagrees
<1> QED
  BY <1>2, <1>5, <1>6, <1>7

LEMMA FewerGoodOps ==
    ASSUME NEW q, GoodOps(q), q # <<>> PROVE GoodOps(Tail(q)) /\ GoodOp(Head(q))
<1>1. PICK S : q \in Seq(S) /\ \A o \in S : GoodOp(o)
  BY DEF GoodOps
<1>2. Tail(q) \in Seq(S) /\ Head(q) \in S
  BY <1>1, HeadTailProperties
<1> QED
  BY <1>1, <1>2 DEF GoodOps

(* The tasks the calls make.                                                  *)
LEMMA TasksAreGood ==
    ASSUME NEW c \in Cells, NEW v, NEW t \in {LoadTask(c), StoreTask(c, v), ExpectTask(c, v)}
    PROVE  /\ GoodTask(t) /\ t # Idle /\ t.word = Index(c) /\ t.op = OpOf(c)
           /\ t.want = Apply(t.op, ref[t.word])
<1>1. \A kind, data, strobe :
         LET u == Task(kind, c, data, strobe) IN
         /\ u.kind = kind /\ u.word = Index(c) /\ u.op = OpOf(c)
         /\ u.want = Apply(OpOf(c), ref[Index(c)])
  BY DEF Task
<1>2. /\ t.kind \in {"load", "store", "expect"} /\ t.word = Index(c) /\ t.op = OpOf(c)
      /\ t.want = Apply(OpOf(c), ref[Index(c)])
  BY <1>1 DEF LoadTask, StoreTask, ExpectTask
<1>3. GoodTask(t)
  BY <1>2, CellFacts DEF GoodTask
<1> QED
  BY <1>2, <1>3, TasksAreNotIdle

(* Submitting a task leads the line to what the task makes of it.             *)
LEMMA SubmitLine ==
    ASSUME IInv, LineSide, mode' = mode, mem' = mem,
           NEW t, GoodTask(t), t # Idle, t.want = Apply(t.op, ref[t.word]),
           ref' = Perform(ref, t),
           mode = "piped" => Submit(t), mode # "piped" => bus = Idle /\ Issue(t)
    PROVE  LineSide'
<1>1. Line(Append(Outstanding, t), mem, Perform(ref, t))
  BY LongerLine DEF LineSide
<1>2. Outstanding' = Append(Outstanding, t)
  <2>1. CASE mode = "piped"
    BY <2>1 DEF Outstanding, Submit
  <2>2. CASE mode # "piped"
    <3>1. Outstanding = <<>> /\ Outstanding' = <<t>>
      BY <2>2 DEF Outstanding, Issue
    <3>2. Append(<<>>, t) = <<t>>
      OBVIOUS
    <3> QED
      BY <3>1, <3>2
  <2> QED
    BY <2>1, <2>2
<1>3. LineSide' <=> Line(Outstanding', mem', ref')
  BY DEF LineSide, Line, Passes, Wants, Perform
<1> QED
  BY <1>1, <1>2, <1>3

(* A load or an expectation does nothing to the reference memory.             *)
LEMMA QuietTask == ASSUME NEW t, t.kind # "store", NEW m PROVE Perform(m, t) = m
BY DEF Perform

----------------------------------------------------------------------------
LEMMA InitInv == Init => Inv
<1> SUFFICES ASSUME Init PROVE Inv
  OBVIOUS
<1>1. /\ bus = Idle /\ ongoing = <<>> /\ ops = <<>> /\ wait = "no" /\ ref = mem
      /\ post = mem /\ got = NoLoad /\ wrong = FALSE /\ failed = FALSE
  BY DEF Init
<1>2. Outstanding = <<>>
  BY <1>1 DEF Outstanding
<1>3. LineSide
  BY <1>1, <1>2, EmptyLine DEF LineSide
<1>4. ~SomeDisagrees(<<>>)
  BY DEF SomeDisagrees
<1>5. WrongSide
  BY <1>1, <1>4 DEF WrongSide
<1>6. LoadsInOrder
  <2>1. got.op.size = 0
    BY <1>1 DEF NoLoad, Discard
  <2> QED
    BY <2>1 DEF LoadsInOrder
<1>7. CallSide
  <2>1. PICK S : S = {}
    OBVIOUS
  <2>2. <<>> \in Seq(S) /\ \A o \in S : GoodOp(o)
    BY <2>1, EmptySeq
  <2> DEFINE R == [i \in 0 .. 0 |-> State]
  <2>3. Follows(<<>>, State, R) /\ R[Len(<<>>)].ref = post
    BY <1>1 DEF Follows, State
  <2> HIDE DEF R
  <2>4. Leads(<<>>, State, post) /\ GoodOps(<<>>)
    BY <2>2, <2>3 DEF Leads, GoodOps
  <2> QED
    BY <1>1, <2>4 DEF CallSide, Asked
<1> QED
  BY <1>3, <1>5, <1>6, <1>7, InitIInv DEF Inv

(* Every call starts with operations that lead to what it should leave.       *)
LEMMA CallLeads == Call => Leads(ops', [ref |-> ref, reg |-> reg'], post')
<1> SUFFICES ASSUME Call PROVE Leads(ops', [ref |-> ref, reg |-> reg'], post')
  OBVIOUS
<1> DEFINE st == [ref |-> ref, reg |-> reg']
<1>0. ASSUME NEW c \in Cells, NEW r \in {"u", "v"}
      PROVE  GoodOp(DoGet(c, r)) /\ GoodOp(DoSet(c, r))
  BY DEF GoodOp, DoGet, DoSet
<1>1. ASSUME NEW c \in Cells, CallSet(c) PROVE Leads(ops', st, post')
  <2>1. PICK v : ops' = <<DoSet(c, "u")>> /\ reg' = [u |-> v, v |-> Fresh(0)]
                 /\ post' = Set(ref, c, v)
    BY <1>1 DEF CallSet, Begin
  <2>2. reg'["u"] = v
    BY <2>1
  <2>3. After(DoSet(c, "u"), st).ref = Set(ref, c, v)
    BY <2>2 DEF After, DoSet
  <2> HIDE DEF st
  <2> QED
    BY <1>0, <2>1, <2>3, OneLeads
<1>2. ASSUME NEW c \in Cells, CallGet(c) PROVE Leads(ops', st, post')
  <2>1. ops' = <<DoGet(c, "u")>> /\ post' = ref
    BY <1>2 DEF CallGet, Begin
  <2>2. After(DoGet(c, "u"), st).ref = ref
    BY DEF After, DoGet
  <2> HIDE DEF st
  <2> QED
    BY <1>0, <2>1, <2>2, OneLeads
<1>3. ASSUME NEW o, GoodOp(o), o.do \notin {"get", "set"}, ops' = <<o>>, post' = ref
      PROVE  Leads(ops', st, post')
  <2>1. After(o, st).ref = ref
    BY <1>3 DEF After
  <2> HIDE DEF st
  <2> QED
    BY <1>3, <2>1, OneLeads
<1>4. ASSUME NEW c \in Cells, CallLoad(c) \/ CallExpect(c) PROVE Leads(ops', st, post')
  <2>1. PICK d \in {"load", "expect"} : ops' = <<[do |-> d, cell |-> c, reg |-> "u"]>>
                                        /\ post' = ref
    BY <1>4 DEF CallLoad, CallExpect, Begin
  <2>2. GoodOp([do |-> d, cell |-> c, reg |-> "u"])
    BY DEF GoodOp
  <2> QED
    BY <1>3, <2>1, <2>2
<1>5. ASSUME CallFence PROVE Leads(ops', st, post')
  <2>1. ops' = <<[do |-> "fence"]>> /\ post' = ref
    BY <1>5 DEF CallFence, Begin
  <2>2. GoodOp([do |-> "fence"])
    BY DEF GoodOp
  <2> QED
    BY <1>3, <2>1, <2>2
<1>6. ASSUME NEW x \in Cells, NEW y \in Cells, CallAssign(x, y)
      PROVE  Leads(ops', st, post')
  <2>1. /\ ops' = <<DoGet(y, "u"), DoSet(x, "u")>>
        /\ reg' = [u |-> Fresh(0), v |-> Fresh(0)]
        /\ post' = Set(ref, x, ZeroExtended(y, Get(ref, y)))
    BY <1>6 DEF CallAssign, Begin
  <2> DEFINE s1 == After(DoGet(y, "u"), st)
  <2>2. s1.ref = ref /\ s1.reg["u"] = ZeroExtended(y, Get(ref, y))
    BY <2>1 DEF After, DoGet
  <2> HIDE DEF s1, st
  <2>3. After(DoSet(x, "u"), s1).ref = post'
    BY <2>1, <2>2 DEF After, DoSet
  <2> QED
    BY <1>0, <2>1, <2>3, TwoLead DEF s1
<1>7. ASSUME NEW x \in Cells, NEW y \in Cells, CallSwap(x, y)
      PROVE  Leads(ops', st, post')
  <2>1. /\ ops' = <<DoGet(x, "u"), DoGet(y, "v"), DoSet(x, "v"), DoSet(y, "u")>>
        /\ reg' = [u |-> Fresh(0), v |-> Fresh(0)] /\ x.width = y.width
        /\ post' = Set(Set(ref, x, Get(ref, y)), y, Get(ref, x))
    BY <1>7 DEF CallSwap, Begin
  <2> DEFINE s1 == After(DoGet(x, "u"), st)
             s2 == After(DoGet(y, "v"), s1)
             s3 == After(DoSet(x, "v"), s2)
  <2>2. /\ s1.ref = ref /\ DOMAIN s1.reg = {"u", "v"}
        /\ s1.reg["u"] = ZeroExtended(x, Get(ref, x))
    BY <2>1 DEF After, DoGet
  <2> HIDE DEF s1, st
  <2>3. /\ s2.ref = ref /\ s2.reg["u"] = ZeroExtended(x, Get(ref, x))
        /\ s2.reg["v"] = ZeroExtended(y, Get(ref, y))
    BY <2>2 DEF After, DoGet
  <2> HIDE DEF s2
  <2>4. /\ s3.ref = Set(ref, x, ZeroExtended(y, Get(ref, y)))
        /\ s3.reg["u"] = ZeroExtended(x, Get(ref, x))
    BY <2>3 DEF After, DoSet
  <2> HIDE DEF s3
  <2>5. s3.ref = Set(ref, x, Get(ref, y))
    BY <2>1, <2>4, SetIsNarrow
  <2>6. After(DoSet(y, "u"), s3).ref = Set(s3.ref, y, ZeroExtended(x, Get(ref, x)))
    BY <2>4 DEF After, DoSet
  <2>7. After(DoSet(y, "u"), s3).ref = post'
    BY <2>1, <2>5, <2>6, SetIsNarrow
  <2>8. Leads(ops', st, After(DoSet(y, "u"), s3).ref)
    BY <1>0, <2>1, FourLead DEF s1, s2, s3
  <2> QED
    BY <2>7, <2>8
<1> HIDE DEF st
<1>8. Leads(ops', st, post')
  BY <1>1, <1>2, <1>4, <1>5, <1>6, <1>7 DEF Call
<1> QED
  BY <1>8 DEF st

LEMMA CallStep == Inv /\ Call => Inv'
<1> SUFFICES ASSUME Inv, Call PROVE Inv'
  OBVIOUS
<1>1. /\ UNCHANGED <<mode, mem, bus, ongoing, wait, value, failed, ref, got, wrong>>
      /\ wait = "no"
  BY DEF Call, CallSet, CallGet, CallAssign, CallSwap, CallLoad, CallExpect, CallFence,
     Begin
<1>2. IInv'
  BY CallKeeps DEF Inv
<1>3. LineSide'
  BY <1>1, Zenon DEF Inv, LineSide, Outstanding, Line, Passes, Wants, Perform
<1>4. WrongSide'
  BY <1>1, Zenon DEF Inv, WrongSide, SomeDisagrees, Disagrees
<1>5. LoadsInOrder'
  BY <1>1, Zenon DEF Inv, LoadsInOrder
<1>6. Leads(ops', [ref |-> ref, reg |-> reg'], post')
  BY CallLeads
<1>7. Asked' = ops' /\ State' = [ref |-> ref, reg |-> reg']
  BY <1>1 DEF Asked, State
<1>8. (Leads(Asked, State, post))'
  <2>1. (Leads(Asked, State, post))' <=> Leads(Asked', State', post')
    BY DEF Leads, Follows
  <2> QED
    BY <1>6, <1>7, <2>1
<1>9. GoodOps(ops')
  BY <1>6 DEF Leads, GoodOps
<1>10. CallSide'
  BY <1>1, <1>8, <1>9 DEF CallSide, GoodOps
<1> QED
  BY <1>2, <1>3, <1>4, <1>5, <1>10 DEF Inv

LEMMA Primed == /\ (Leads(Asked, State, post))' <=> Leads(Asked', State', post')
                /\ LineSide' <=> Line(Outstanding', mem', ref')
<1>1. (Leads(Asked, State, post))' <=> Leads(Asked', State', post')
  BY DEF Leads, Follows
<1>2. LineSide' <=> Line(Outstanding', mem', ref')
  BY DEF LineSide, Line, Passes, Wants, Perform
<1> QED
  BY <1>1, <1>2

(* The operation about to start, and what is left after it.                   *)
LEMMA OpToStart ==
    ASSUME Inv, Ready
    PROVE  /\ GoodOp(Now) /\ GoodOps(Tail(ops)) /\ GoodOps(ops)
           /\ Leads(ops, State, post)
           /\ Leads(Tail(ops), After(Now, State), post)
           /\ ~failed /\ ops # <<>> /\ wait = "no"
<1>1. /\ GoodOps(ops) /\ ops # <<>> /\ wait = "no" /\ ~failed
      /\ Leads(Asked, State, post)
  BY DEF Inv, CallSide, Ready
<1>2. Asked = ops
  BY <1>1 DEF Asked
<1> QED
  BY <1>1, <1>2, FewerGoodOps, RestLeads DEF Now

LEMMA StartGetStep == Inv /\ StartGet => Inv'
<1> SUFFICES ASSUME Inv, StartGet PROVE Inv'
  OBVIOUS
<1>1. /\ Ready /\ Now.do = "get" /\ Start(LoadTask(Now.cell), "fence")
      /\ UNCHANGED <<mode, mem, ops, reg, failed, ref, post, got, wrong>>
  BY DEF StartGet
<1>2. Now.cell \in Cells
  BY <1>1, OpToStart DEF GoodOp
<1>3. PICK t : /\ t = LoadTask(Now.cell) /\ GoodTask(t) /\ t # Idle
               /\ t.op = OpOf(Now.cell) /\ t.word = Index(Now.cell)
               /\ t.want = Apply(t.op, ref[t.word]) /\ t.kind = "load"
  <2>1. LoadTask(Now.cell).kind = "load"
    BY DEF LoadTask, Task
  <2> QED
    BY <1>2, <2>1, TasksAreGood
<1>4. IInv' /\ (mode # "piped" => bus = Idle)
  BY StartKeeps DEF Inv
<1>5. /\ mode = "piped" => Submit(t) /\ wait' = "fence"
      /\ mode # "piped" => Issue(t) /\ wait' = "await" /\ bus' = t /\ bus = Idle
  BY <1>1, <1>3, <1>4 DEF Start, Issue
<1>6. LineSide'
  BY <1>1, <1>3, <1>5, SubmitLine, QuietTask DEF Inv
<1>7. ~Disagrees(t)
  BY <1>3 DEF Disagrees
<1>8. mode = "piped" => /\ ongoing' = Append(ongoing, t) /\ TaskQueue(ongoing)
                        /\ Append(ongoing, t) # <<>>
  BY <1>3, <1>5, LongerQueue DEF Submit, Inv, IInv, PipedSide
<1>9. WrongSide'
  <2>1. mode = "piped" => (SomeDisagrees(ongoing') <=> SomeDisagrees(ongoing))
    BY <1>7, <1>8, LastAppended
  <2>2. SomeDisagrees(ongoing)' <=> SomeDisagrees(ongoing')
    BY DEF SomeDisagrees, Disagrees
  <2> QED
    BY <1>1, <2>1, <2>2 DEF WrongSide, Inv
<1>10. LoadsInOrder'
  BY <1>1, Zenon DEF Inv, LoadsInOrder
<1>11. CallSide'
  <2>1. Now' = Now /\ State' = State /\ Asked' = ops
    BY <1>1, <1>5 DEF Now, State, Asked
  <2>2. Leads(Asked', State', post')
    BY <1>1, <2>1, OpToStart
  <2>3. GoodOps(ops)'
    BY <1>1, OpToStart DEF GoodOps
  <2>4. ASSUME mode = "piped" PROVE LastLoads(ongoing)' /\ ongoing' # <<>>
    <3>1. ongoing'[Len(ongoing')] = t
      BY <1>8, <2>4, LastAppended
    <3>2. Index(Now.cell)' = Index(Now.cell) /\ OpOf(Now.cell)' = OpOf(Now.cell)
      BY <2>1 DEF Index, OpOf
    <3> QED
      BY <1>1, <1>3, <1>8, <2>1, <2>4, <3>1, <3>2 DEF LastLoads, Apply
  <2>5. ASSUME mode # "piped"
        PROVE  /\ bus'.kind = "load" /\ bus'.op = OpOf(Now.cell)'
               /\ bus'.word = Index(Now.cell)'
    BY <1>3, <1>5, <2>1, <2>5 DEF Index, OpOf
  <2>6. ops' # <<>> /\ Now'.do = "get"
    BY <1>1, <2>1 DEF Ready
  <2> QED
    BY <1>5, <2>2, <2>3, <2>4, <2>5, <2>6, Primed DEF CallSide
<1> QED
  BY <1>4, <1>6, <1>9, <1>10, <1>11 DEF Inv

LEMMA StartSetStep == Inv /\ StartSet => Inv'
<1> SUFFICES ASSUME Inv, StartSet PROVE Inv'
  OBVIOUS
<1>1. PICK v : v = reg[Now.reg]
  OBVIOUS
<1>2. PICK t : /\ t = StoreTask(Now.cell, v)
               /\ Ready /\ Now.do = "set" /\ Start(t, "no") /\ ref' = Performed(t)
               /\ ops' = IF mode = "piped" THEN Tail(ops) ELSE ops
               /\ UNCHANGED <<mode, mem, value, reg, failed, post, got, wrong>>
  BY <1>1 DEF StartSet
<1>3. Now.cell \in Cells
  BY <1>2, OpToStart DEF GoodOp
<1>4. /\ GoodTask(t) /\ t # Idle /\ t.want = Apply(t.op, ref[t.word]) /\ t.kind = "store"
  <2>1. t.kind = "store"
    BY <1>2 DEF StoreTask, Task
  <2> QED
    BY <1>2, <1>3, <2>1, TasksAreGood
<1>5. ref' = Perform(ref, t) /\ ref' = Set(ref, Now.cell, v)
  BY <1>2, <1>3, <1>4, PerformedIs, SetIsStore DEF GoodTask
<1>6. IInv' /\ (mode # "piped" => bus = Idle)
  BY StartKeeps DEF Inv
<1>7. /\ mode = "piped" => Submit(t) /\ wait' = "no"
      /\ mode # "piped" => Issue(t) /\ wait' = "await" /\ bus' = t /\ bus = Idle
  BY <1>2, <1>6 DEF Start, Issue
<1>8. LineSide'
  BY <1>2, <1>4, <1>5, <1>7, SubmitLine DEF Inv
<1>9. ~Disagrees(t)
  BY <1>4 DEF Disagrees
<1>10. WrongSide'
  <2>1. mode = "piped" => ongoing' = Append(ongoing, t) /\ TaskQueue(ongoing)
    BY <1>7 DEF Submit, Inv, IInv, PipedSide
  <2>2. mode = "piped" => (SomeDisagrees(ongoing') <=> SomeDisagrees(ongoing))
    BY <1>9, <2>1, LastAppended
  <2>3. SomeDisagrees(ongoing)' <=> SomeDisagrees(ongoing')
    BY DEF SomeDisagrees, Disagrees
  <2> QED
    BY <1>2, <2>2, <2>3 DEF WrongSide, Inv
<1>11. LoadsInOrder'
  BY <1>2, Zenon DEF Inv, LoadsInOrder
<1>12. State' = After(Now, State)
  <2>1. After(Now, State) = [ref |-> Set(ref, Now.cell, v), reg |-> reg]
    BY <1>1, <1>2 DEF After, State
  <2> QED
    BY <1>2, <1>5, <2>1 DEF State
<1>13. CASE mode = "piped"
  <2>1. ops' = Tail(ops) /\ wait' = "no"
    BY <1>2, <1>7, <1>13
  <2>2. Asked' = Tail(ops)
    BY <2>1 DEF Asked
  <2>3. (Leads(Asked, State, post))'
    BY <1>2, <1>12, <2>2, OpToStart, Primed
  <2>4. GoodOps(ops)'
    BY <1>2, <2>1, OpToStart DEF GoodOps
  <2>5. CallSide'
    BY <2>1, <2>3, <2>4 DEF CallSide
  <2> QED
    BY <1>6, <1>8, <1>10, <1>11, <2>5 DEF Inv
<1>14. CASE mode # "piped"
  <2>1. ops' = ops /\ wait' = "await" /\ bus' = t
    BY <1>2, <1>7, <1>14
  <2>2. Now' = Now
    BY <2>1 DEF Now
  <2>3. Asked' = Tail(ops)
    BY <1>2, <2>1, <2>2 DEF Asked
  <2>4. (Leads(Asked, State, post))'
    BY <1>2, <1>12, <2>3, OpToStart, Primed
  <2>5. GoodOps(ops)' /\ ops' # <<>>
    BY <1>2, <2>1, OpToStart DEF GoodOps
  <2>6. CallSide'
    BY <1>2, <1>4, <2>1, <2>2, <2>4, <2>5 DEF CallSide
  <2> QED
    BY <1>6, <1>8, <1>10, <1>11, <2>6 DEF Inv
<1> QED
  BY <1>13, <1>14

(* The calls of the pipeline that do not wait.                                *)
LEMMA StartOtherStep == Inv /\ (StartLoad \/ StartExpect) => Inv'
<1> SUFFICES ASSUME Inv, StartLoad \/ StartExpect PROVE Inv'
  OBVIOUS
<1>1. /\ Ready /\ Now.do \in {"load", "expect"} /\ ops' = Tail(ops)
      /\ UNCHANGED <<mode, mem, wait, value, reg, failed, ref, post, got>>
  BY DEF StartLoad, StartExpect
<1>2. Now.cell \in Cells /\ ops # <<>> /\ wait = "no" /\ ~failed
  BY <1>1, OpToStart DEF GoodOp
<1>3. mode = "piped"
  BY <1>1, <1>2, FewerOps DEF Inv, IInv, BareSide, Now
<1>4. IInv'
  BY StartKeeps DEF Inv
<1>5. PICK t : /\ t \in {LoadTask(Now.cell), ExpectTask(Now.cell, reg[Now.reg])}
               /\ Submit(t) /\ (wrong' <=> wrong \/ Disagrees(t)) /\ wrong' \in BOOLEAN
  <2>1. CASE StartLoad
    <3>1. ~Disagrees(LoadTask(Now.cell))
      BY DEF Disagrees, LoadTask, Task
    <3>2. wrong' = wrong /\ Submit(LoadTask(Now.cell))
      BY <2>1 DEF StartLoad
    <3>3. wrong \in BOOLEAN
      BY DEF Inv, WrongSide
    <3> QED
      BY <3>1, <3>2, <3>3
  <2>2. CASE StartExpect
    <3>1. PICK c, v, t : /\ c \in Cells /\ c = Now.cell /\ v = reg[Now.reg] /\ t = ExpectTask(c, v)
      BY <1>2
    <3>2. /\ Submit(t)
          /\ wrong' = (wrong \/ \E k \in 0 .. c.width - 1 : v[k] # t.want[k])
      BY <2>2, <3>1 DEF StartExpect
    <3>3. /\ t.kind = "expect" /\ t.op = OpOf(c) /\ t.data = Place(OpOf(c), Extended(c, v))
      BY <3>1 DEF ExpectTask, Task
    <3>4. PICK l \in Lanes, w \in 1 .. 8 : /\ l = Lane(c) /\ w = c.width /\ l + w <= 8
                                           /\ OpOf(c).size = w /\ OpOf(c).shift = l
      BY <3>1, CellFacts
    <3>5. ASSUME NEW k \in 0 .. w - 1 PROVE t.data[k + l] = v[k]
      <4>1. k + l \in Lanes /\ k \in Lanes /\ ~(k + l < l) /\ (k + l) - l = k /\ k < w
        <5>1. l \in 0 .. 7 /\ l + w <= 8 /\ k \in 0 .. w - 1
          BY <3>4 DEF Lanes
        <5> QED
          BY <5>1 DEF Lanes
      <4>2. Extended(c, v)[k] = v[k]
        BY <3>4, <4>1 DEF Extended
      <4> QED
        BY <3>3, <3>4, <4>1, <4>2 DEF Place
    <3>6. Disagrees(t) <=> \E k \in 0 .. c.width - 1 : v[k] # t.want[k]
      BY <3>3, <3>4, <3>5 DEF Disagrees
    <3>7. wrong \in BOOLEAN
      BY DEF Inv, WrongSide
    <3> QED
      BY <3>1, <3>2, <3>6, <3>7
  <2> QED
    BY <2>1, <2>2
<1>6. /\ GoodTask(t) /\ t # Idle /\ t.want = Apply(t.op, ref[t.word])
  <2>1. PICK v : v = reg[Now.reg]
    OBVIOUS
  <2>2. t \in {LoadTask(Now.cell), StoreTask(Now.cell, v), ExpectTask(Now.cell, v)}
    BY <1>5, <2>1
  <2> QED
    BY <1>2, <2>2, TasksAreGood
<1>7. t.kind # "store"
  BY <1>5 DEF LoadTask, ExpectTask, Task
<1>8. LineSide'
  BY <1>1, <1>3, <1>5, <1>6, <1>7, SubmitLine, QuietTask DEF Inv
<1>9. WrongSide'
  <2>1. ongoing' = Append(ongoing, t) /\ TaskQueue(ongoing)
    BY <1>3, <1>5 DEF Submit, Inv, IInv, PipedSide
  <2>2. SomeDisagrees(ongoing') <=> SomeDisagrees(ongoing) \/ Disagrees(t)
    BY <2>1, LastAppended
  <2>3. SomeDisagrees(ongoing)' <=> SomeDisagrees(ongoing')
    BY DEF SomeDisagrees, Disagrees
  <2> QED
    BY <1>1, <1>3, <1>5, <2>2, <2>3 DEF WrongSide, Inv
<1>10. LoadsInOrder'
  BY <1>1, Zenon DEF Inv, LoadsInOrder
<1>11. CallSide'
  <2>1. State' = State /\ After(Now, State) = State
    BY <1>1 DEF State, After
  <2>2. Asked' = Tail(ops) /\ wait' = "no"
    BY <1>1, <1>2 DEF Asked
  <2>3. (Leads(Asked, State, post))'
    BY <1>1, <2>1, <2>2, OpToStart, Primed
  <2>4. GoodOps(ops)'
    BY <1>1, OpToStart DEF GoodOps
  <2> QED
    BY <2>2, <2>3, <2>4 DEF CallSide
<1> QED
  BY <1>4, <1>8, <1>9, <1>10, <1>11 DEF Inv

(* Steps that change neither the memories, the queue nor the history.         *)
LEMMA DataKept ==
    ASSUME Inv, UNCHANGED <<mode, mem, bus, ongoing, failed, ref, got, wrong>>
    PROVE  LineSide' /\ WrongSide' /\ LoadsInOrder'
<1>1. LineSide'
  BY Zenon DEF Inv, LineSide, Outstanding, Line, Passes, Wants, Perform
<1>2. WrongSide'
  BY Zenon DEF Inv, WrongSide, SomeDisagrees, Disagrees
<1>3. LoadsInOrder'
  BY Zenon DEF Inv, LoadsInOrder
<1> QED
  BY <1>1, <1>2, <1>3

LEMMA StartFenceStep == Inv /\ StartFence => Inv'
<1> SUFFICES ASSUME Inv, StartFence PROVE Inv'
  OBVIOUS
<1>1. /\ Ready /\ Now.do = "fence" /\ wait' = "fence"
      /\ UNCHANGED <<mode, mem, bus, ongoing, ops, value, reg, failed, ref, post, got,
                     wrong>>
  BY DEF StartFence
<1>2. LineSide' /\ WrongSide' /\ LoadsInOrder'
  BY <1>1, DataKept
<1>3. IInv'
  BY StartKeeps DEF Inv
<1>4. Now' = Now /\ State' = State /\ Asked' = ops
  BY <1>1 DEF Now, State, Asked
<1>5. (Leads(Asked, State, post))'
  BY <1>1, <1>4, OpToStart, Primed
<1>6. GoodOps(ops)' /\ ops' # <<>>
  BY <1>1, OpToStart DEF GoodOps
<1>7. CallSide'
  BY <1>1, <1>4, <1>5, <1>6 DEF CallSide
<1> QED
  BY <1>2, <1>3, <1>7 DEF Inv

(* Steps that leave the call and what it waits for alone.                     *)
LEMMA CallKept ==
    ASSUME Inv, UNCHANGED <<mode, bus, ongoing, ops, wait, value, reg, ref, post>>
    PROVE  CallSide'
<1>1. Now' = Now /\ State' = State /\ Asked' = Asked
  BY DEF Now, State, Asked
<1>2. (Leads(Asked, State, post))'
  BY <1>1, Primed DEF Inv, CallSide
<1>3. GoodOps(ops)'
  BY DEF Inv, CallSide, GoodOps
<1>4. Loaded' <=> Loaded
  BY <1>1 DEF Loaded, Get, Index, Lane
<1>5. Index(Now.cell)' = Index(Now.cell) /\ OpOf(Now.cell)' = OpOf(Now.cell)
  BY <1>1 DEF Index, OpOf
<1>6. LastLoads(ongoing)' <=> LastLoads(ongoing)
  BY <1>1, <1>5 DEF LastLoads, Apply
<1> QED
  BY <1>1, <1>2, <1>3, <1>4, <1>5, <1>6 DEF Inv, CallSide

(* The answer to the oldest task: it leaves the line, and gives what it wants.*)
LEMMA AnswerLine ==
    ASSUME LineSide, NEW t, Outstanding # <<>>, t = Head(Outstanding),
           Outstanding' = Tail(Outstanding), ref' = ref, Answered(t)
    PROVE  LineSide' /\ GoodTask(t) /\ t.want = Apply(t.op, mem[t.word])
<1>1. /\ Line(Tail(Outstanding), Perform(mem, t), ref)
      /\ GoodTask(t) /\ t.want = Apply(t.op, mem[t.word])
  BY ShorterLine DEF LineSide
<1>2. mem' = Perform(mem, t)
  BY DEF Answered, Perform
<1> QED
  BY <1>1, <1>2, Primed

(* What a task asks of the word the device answers with.                      *)
LEMMA ExpectationIs ==
    ASSUME NEW t, GoodTask(t), t.kind = "expect", NEW word, t.want = Apply(t.op, word)
    PROVE  Agree(t.op, t.data, word) <=> ~Disagrees(t)
<1>1. PICK l \in 0 .. 7, w \in 1 .. 8 : l = t.op.shift /\ w = t.op.size /\ l + w <= 8
  BY DEF GoodTask, Lanes, Widths
<1>2. Strobe(t.op) = {k \in Lanes : l <= k /\ k < l + w}
  BY <1>1 DEF Strobe
<1>3. ASSUME NEW k \in 0 .. w - 1
      PROVE  k + l \in Strobe(t.op) /\ t.want[k] = word[k + l]
  <2>1. l \in 0 .. 7 /\ w \in 1 .. 8 /\ l + w <= 8 /\ k \in 0 .. w - 1
    BY <1>1
  <2>2. k \in Lanes /\ ~(w = 0 \/ k + l > 7) /\ k + l \in Lanes /\ l <= k + l /\ k + l < l + w
    BY <2>1 DEF Lanes
  <2> QED
    BY <1>1, <1>2, <2>2 DEF Apply
<1>4. ASSUME NEW x \in Strobe(t.op) PROVE x - l \in 0 .. w - 1 /\ (x - l) + l = x
  <2>1. x \in 0 .. 7 /\ l <= x /\ x < l + w
    BY <1>2 DEF Lanes
  <2> QED
    BY <2>1
<1>5. Disagrees(t) <=> \E k \in 0 .. w - 1 : t.data[k + l] # word[k + l]
  BY <1>1, <1>3 DEF Disagrees
<1>6. Agree(t.op, t.data, word) <=> \A x \in Strobe(t.op) : t.data[x] = word[x]
  BY DEF Agree, Mask
<1>7. ASSUME NEW x \in Strobe(t.op), t.data[x] # word[x]
      PROVE  \E k \in 0 .. w - 1 : t.data[k + l] # word[k + l]
  BY <1>4, <1>7
<1> QED
  BY <1>3, <1>5, <1>6, <1>7

(* A load answered into a variable, or returned: the bytes it wants.          *)
LEMMA LoadAnswers ==
    ASSUME NEW t, GoodTask(t), NEW word, t.want = Apply(t.op, word), NEW old,
           NEW k \in 0 .. t.op.size - 1
    PROVE  ApplyTo(t.op, word, old)[k] = t.want[k]
<1>1. k \in Lanes /\ k < t.op.size
  BY DEF GoodTask, Widths, Lanes
<1> QED
  BY <1>1 DEF ApplyTo

LEMMA TickStep == Inv /\ Tick => Inv'
<1> SUFFICES ASSUME Inv, Tick PROVE Inv'
  OBVIOUS
<1>1. /\ mode = "piped" /\ bus # Idle /\ ~failed
      /\ wait = "fence" \/ ops = <<>>
      /\ bus' = NextOnBus
      /\ UNCHANGED <<mode, ops, wait, reg, ref, post, wrong>>
  BY DEF Tick
<1>2. IInv'
  BY TickKeeps DEF Inv
<1>3. TaskQueue(ongoing) /\ ongoing # <<>> /\ bus = Head(ongoing) /\ wait # "await"
  BY <1>1 DEF Inv, IInv, PipedSide, FrontOnBus
<1>4. CASE UNCHANGED <<ongoing, mem, value, got, failed>>
  <2>1. bus' = bus
    BY <1>1, <1>3, <1>4 DEF NextOnBus
  <2>2. LineSide' /\ WrongSide' /\ LoadsInOrder'
    BY <1>1, <1>4, <2>1, DataKept
  <2>3. CallSide'
    BY <1>1, <1>4, <2>1, CallKept
  <2> QED
    BY <1>2, <2>2, <2>3 DEF Inv
<1>5. CASE ongoing' = Tail(ongoing) /\ Answered(bus) /\ Answer(Head(ongoing))
  <2>1. PICK t : t = Head(ongoing)
    OBVIOUS
  <2>2. Outstanding = ongoing /\ Outstanding' = Tail(ongoing)
    BY <1>1, <1>5 DEF Outstanding
  <2>3. LineSide' /\ GoodTask(t) /\ t.want = Apply(t.op, mem[t.word])
    BY <1>1, <1>3, <1>5, <2>1, <2>2, AnswerLine DEF Inv
  <2>4. /\ t.kind = "load" => /\ value' = ApplyTo(t.op, mem[t.word], value)
                              /\ got' = [op |-> t.op, want |-> t.want, have |-> value']
                              /\ failed' = failed
        /\ t.kind = "expect" => /\ failed' = ~Agree(t.op, t.data, mem[t.word])
                                /\ UNCHANGED <<value, got>>
        /\ t.kind = "store" => UNCHANGED <<value, got, failed>>
    BY <1>5, <2>1 DEF Answer
  <2>5. t.kind \in {"load", "store", "expect"}
    BY <2>3 DEF GoodTask
  <2>6. failed' \in BOOLEAN /\ (failed' <=> Disagrees(t))
    <3>1. CASE t.kind = "expect"
      BY <2>3, <2>4, <3>1, ExpectationIs
    <3>2. CASE t.kind # "expect"
      BY <1>1, <2>4, <2>5, <3>2 DEF Disagrees, Inv, WrongSide
    <3> QED
      BY <3>1, <3>2
  <2>7. WrongSide'
    <3>1. SomeDisagrees(ongoing) <=> Disagrees(t) \/ SomeDisagrees(ongoing')
      BY <1>3, <1>5, <2>1, FirstTaken
    <3>2. SomeDisagrees(ongoing)' <=> SomeDisagrees(ongoing')
      BY DEF SomeDisagrees, Disagrees
    <3> QED
      BY <1>1, <2>6, <3>1, <3>2 DEF WrongSide, Inv
  <2>8. LoadsInOrder'
    <3>1. CASE t.kind = "load"
      <4>1. got'.op = t.op /\ got'.want = t.want /\ got'.have = value'
        BY <2>4, <3>1
      <4>2. \A k \in 0 .. t.op.size - 1 : value'[k] = t.want[k]
        BY <2>3, <2>4, <3>1, LoadAnswers
      <4> QED
        BY <4>1, <4>2 DEF LoadsInOrder
    <3>2. CASE t.kind # "load"
      <4>1. got' = got
        BY <2>4, <2>5, <3>2
      <4> QED
        BY <4>1, Zenon DEF LoadsInOrder, Inv
    <3> QED
      BY <3>1, <3>2
  <2>9. CallSide'
    <3>1. Now' = Now /\ State' = State /\ Asked' = Asked
      BY <1>1 DEF Now, State, Asked
    <3>2. (Leads(Asked, State, post))'
      BY <1>1, <3>1, Primed DEF Inv, CallSide
    <3>3. GoodOps(ops)'
      BY <1>1 DEF Inv, CallSide, GoodOps
    <3>4. ASSUME wait = "fence", Now.do = "get"
          PROVE  IF ongoing' = <<>> THEN Loaded' ELSE LastLoads(ongoing)'
      <4>1. LastLoads(ongoing) /\ Now.cell \in Cells
        BY <1>3, <3>4, FewerGoodOps DEF Inv, CallSide, Now, GoodOp
      <4>2. CASE ongoing' = <<>>
        <5>1. ongoing[Len(ongoing)] = t
          BY <1>3, <1>5, <2>1, <4>2, FirstTaken
        <5>2. /\ t.kind = "load" /\ t.op = OpOf(Now.cell)
              /\ t.want = Apply(OpOf(Now.cell), ref[Index(Now.cell)])
          BY <4>1, <5>1 DEF LastLoads
        <5>3. \A k \in 0 .. Now.cell.width - 1 : value'[k] = Get(ref, Now.cell)[k]
          <6>1. t.op.size = Now.cell.width
            BY <4>1, <5>2, CellFacts
          <6>2. ASSUME NEW k \in 0 .. Now.cell.width - 1
                PROVE  value'[k] = Get(ref, Now.cell)[k]
            <7>1. value'[k] = t.want[k]
              BY <2>3, <2>4, <5>2, <6>1, LoadAnswers
            <7>2. t.want[k] = Get(ref, Now.cell)[k]
              BY <4>1, <5>2, GetIsLoad
            <7> QED
              BY <7>1, <7>2
          <6> QED
            BY <6>2
        <5>4. Get(ref, Now.cell)' = Get(ref, Now.cell)
          BY <1>1, <3>1 DEF Get, Index, Lane
        <5> QED
          BY <3>1, <4>2, <5>3, <5>4 DEF Loaded
      <4>3. CASE ongoing' # <<>>
        <5>1. ongoing'[Len(ongoing')] = ongoing[Len(ongoing)]
          BY <1>3, <1>5, <4>3, FirstTaken
        <5>2. Index(Now.cell)' = Index(Now.cell) /\ OpOf(Now.cell)' = OpOf(Now.cell)
          BY <3>1 DEF Index, OpOf
        <5> QED
          BY <1>1, <4>1, <4>3, <5>1, <5>2 DEF LastLoads, Apply
      <4> QED
        BY <4>2, <4>3
    <3> QED
      BY <1>1, <1>3, <3>1, <3>2, <3>3, <3>4 DEF Inv, CallSide
  <2> QED
    BY <1>2, <2>3, <2>7, <2>8, <2>9 DEF Inv
<1> QED
  BY <1>4, <1>5 DEF Tick

LEMMA LoadedExtends ==
    ASSUME NEW c \in Cells, NEW v, NEW u, \A k \in 0 .. c.width - 1 : v[k] = u[k]
    PROVE  ZeroExtended(c, v) = ZeroExtended(c, u)
<1>1. c.width \in 1 .. 8
  BY CellFacts
<1>2. ASSUME NEW k \in Lanes, k < c.width PROVE v[k] = u[k]
  <2>1. k \in 0 .. c.width - 1
    BY <1>1, <1>2 DEF Lanes
  <2> QED
    BY <2>1
<1> QED
  BY <1>2 DEF ZeroExtended

(* The fence: what was waited for has been answered.                          *)
LEMMA FenceStep == Inv /\ FenceReturns => Inv'
<1> SUFFICES ASSUME Inv, FenceReturns PROVE Inv'
  OBVIOUS
<1>1. /\ wait = "fence" /\ ongoing = <<>> /\ wait' = "no" /\ ops' = Tail(ops)
      /\ UNCHANGED <<mode, mem, bus, ongoing, value, failed, ref, post, got, wrong>>
      /\ reg' = IF Now.do = "get" THEN [reg EXCEPT ![Now.reg] =
                                          ZeroExtended(Now.cell, value)]
                                  ELSE reg
  BY DEF FenceReturns
<1>2. IInv'
  BY FenceKeeps DEF Inv
<1>3. LineSide' /\ WrongSide' /\ LoadsInOrder'
  BY <1>1, DataKept
<1>4. /\ GoodOps(ops) /\ ops # <<>> /\ Leads(ops, State, post)
      /\ Now.do \in {"get", "fence"} /\ (Now.do = "get" => Loaded)
  BY <1>1 DEF Inv, CallSide, Asked
<1>5. GoodOps(Tail(ops)) /\ Leads(Tail(ops), After(Now, State), post)
  BY <1>4, FewerGoodOps, RestLeads DEF Now
<1>6. State' = After(Now, State)
  <2>1. CASE Now.do = "get"
    <3>1. ZeroExtended(Now.cell, value) = ZeroExtended(Now.cell, Get(ref, Now.cell))
      BY <1>4, <2>1, LoadedExtends, FewerGoodOps DEF Loaded, Now, GoodOp
    <3> QED
      BY <1>1, <2>1, <3>1 DEF State, After
  <2>2. CASE Now.do = "fence"
    BY <1>1, <2>2 DEF State, After
  <2> QED
    BY <1>4, <2>1, <2>2
<1>7. Asked' = Tail(ops)
  BY <1>1 DEF Asked
<1>8. (Leads(Asked, State, post))'
  BY <1>1, <1>5, <1>6, <1>7, Primed
<1>9. GoodOps(ops)'
  BY <1>1, <1>5 DEF GoodOps
<1>10. CallSide'
  BY <1>1, <1>8, <1>9 DEF CallSide
<1> QED
  BY <1>2, <1>3, <1>10 DEF Inv

(* The answer on the plain bus; the comparison with the reference holds.      *)
LEMMA AwaitStep == Inv /\ Await => Inv'
<1> SUFFICES ASSUME Inv, Await PROVE Inv'
  OBVIOUS
<1>1. /\ wait = "await" /\ ~failed
      /\ UNCHANGED <<mode, ongoing, ref, post, wrong>>
  BY DEF Await
<1>2. IInv' /\ mode # "piped"
  BY AwaitKeeps DEF Inv
<1>3. bus # Idle /\ ops # <<>> /\ Outstanding = <<bus>>
  BY <1>1, <1>2 DEF Inv, IInv, BareSide, Outstanding
<1>4. CASE UNCHANGED <<mem, bus, wait, ops, value, reg, got, failed>>
  <2>1. LineSide' /\ WrongSide' /\ LoadsInOrder'
    BY <1>1, <1>4, DataKept
  <2>2. CallSide'
    BY <1>1, <1>4, CallKept
  <2> QED
    BY <1>2, <2>1, <2>2 DEF Inv
<1>5. CASE /\ Answered(bus) /\ bus' = Idle /\ wait' = "no" /\ ops' = Tail(ops)
           /\ IF bus.kind = "load"
              THEN /\ value' = Apply(bus.op, mem[bus.word])
                   /\ reg' = [reg EXCEPT ![Now.reg] = ZeroExtended(Now.cell, value')]
                   /\ got' = [op |-> bus.op, want |-> bus.want, have |-> value']
                   /\ failed' = (mem[bus.word] # ref[bus.word])
              ELSE UNCHANGED <<value, reg, got, failed>>
  <2>1. Outstanding # <<>> /\ bus = Head(Outstanding) /\ Tail(Outstanding) = <<>>
    BY <1>3
  <2>2. Outstanding' = <<>>
    BY <1>1, <1>2, <1>5 DEF Outstanding
  <2>3. LineSide' /\ GoodTask(bus) /\ bus.want = Apply(bus.op, mem[bus.word])
    BY <1>1, <1>5, <2>1, <2>2, AnswerLine DEF Inv
  <2>4. GoodOps(ops) /\ Leads(Asked, State, post)
    BY DEF Inv, CallSide
  <2>5. GoodOps(ops') /\ GoodOp(Now)
    BY <1>3, <1>5, <2>4, FewerGoodOps DEF Now
  <2>6. GoodOps(ops)'
    BY <2>5 DEF GoodOps
  <2>7. Asked' = Tail(ops)
    BY <1>5 DEF Asked
  <2>8. CASE Now.do = "set"
    <3>1. bus.kind = "store" /\ Asked = Tail(ops)
      BY <1>1, <2>8 DEF Inv, CallSide, Asked
    <3>2. UNCHANGED <<value, reg, got, failed>>
      BY <1>5, <3>1
    <3>3. State' = State
      BY <1>1, <3>2 DEF State
    <3>4. (Leads(Asked, State, post))'
      BY <1>1, <2>4, <2>7, <3>1, <3>3, Primed
    <3>5. CallSide'
      BY <1>5, <2>6, <3>4 DEF CallSide
    <3>6. LoadsInOrder'
      BY <3>2, Zenon DEF Inv, LoadsInOrder
    <3>7. WrongSide'
      BY <1>1, <1>2, <3>2 DEF Inv, WrongSide
    <3> QED
      BY <1>2, <2>3, <3>5, <3>6, <3>7 DEF Inv
  <2>9. CASE Now.do # "set"
    <3>1. /\ Now.do = "get" /\ bus.kind = "load" /\ bus.op = OpOf(Now.cell)
          /\ bus.word = Index(Now.cell) /\ Asked = ops /\ Now.cell \in Cells
      BY <1>1, <2>5, <2>9 DEF Inv, CallSide, Asked, GoodOp
    <3>2. /\ value' = Apply(bus.op, mem[bus.word])
          /\ reg' = [reg EXCEPT ![Now.reg] = ZeroExtended(Now.cell, value')]
          /\ got' = [op |-> bus.op, want |-> bus.want, have |-> value']
          /\ failed' = (mem[bus.word] # ref[bus.word])
      BY <1>5, <3>1
    <3>3. mem = ref
      <4>1. Line(Tail(Outstanding), Perform(mem, bus), ref)
        BY <2>1, ShorterLine DEF Inv, LineSide
      <4>2. Perform(mem, bus) = mem
        BY <3>1 DEF Perform
      <4>3. Line(<<>>, mem, ref)
        BY <2>1, <4>1, <4>2
      <4> QED
        BY <4>3, EmptyLine
    <3>4. failed' = FALSE
      BY <3>2, <3>3
    <3>5. WrongSide'
      BY <1>1, <1>2, <3>4 DEF Inv, WrongSide
    <3>6. LoadsInOrder'
      BY <2>3, <3>2 DEF LoadsInOrder
    <3>7. ZeroExtended(Now.cell, value') = ZeroExtended(Now.cell, Get(ref, Now.cell))
      <4>1. \A k \in 0 .. Now.cell.width - 1 : value'[k] = Get(ref, Now.cell)[k]
        BY <3>1, <3>2, <3>3, GetIsLoad
      <4> QED
        BY <3>1, <4>1, LoadedExtends
    <3>8. State' = After(Now, State)
      BY <1>1, <3>1, <3>2, <3>7 DEF State, After
    <3>9. Leads(Tail(ops), After(Now, State), post)
      BY <1>3, <2>4, <3>1, RestLeads DEF Now
    <3>10. (Leads(Asked, State, post))'
      BY <1>1, <2>7, <3>8, <3>9, Primed
    <3>11. CallSide'
      BY <1>5, <2>6, <3>10 DEF CallSide
    <3> QED
      BY <1>2, <2>3, <3>5, <3>6, <3>11 DEF Inv
  <2> QED
    BY <2>8, <2>9
<1> QED
  BY <1>4, <1>5 DEF Await

LEMMA InvStep == Inv /\ [Next]_vars => Inv'
<1> SUFFICES ASSUME Inv, [Next]_vars PROVE Inv'
  OBVIOUS
<1>1. CASE Call
  BY <1>1, CallStep
<1>2. CASE StartGet
  BY <1>2, StartGetStep
<1>3. CASE StartSet
  BY <1>3, StartSetStep
<1>4. CASE StartLoad \/ StartExpect
  BY <1>4, StartOtherStep
<1>5. CASE StartFence
  BY <1>5, StartFenceStep
<1>6. CASE Tick
  BY <1>6, TickStep
<1>7. CASE FenceReturns
  BY <1>7, FenceStep
<1>8. CASE Await
  BY <1>8, AwaitStep
<1>9. CASE UNCHANGED vars
  <2>1. UNCHANGED <<mode, mem, bus, ongoing, ops, wait, value, reg, failed, ref, post,
                    got, wrong>>
    BY <1>9 DEF vars
  <2>2. IInv'
    BY <1>9, StepKeeps DEF Inv
  <2> QED
    BY <2>1, <2>2, DataKept, CallKept DEF Inv
<1> QED
  BY <1>1, <1>2, <1>3, <1>4, <1>5, <1>6, <1>7, <1>8, <1>9 DEF Next

THEOREM Invariance == Spec => []Inv
<1> QED
  BY InitInv, InvStep, PTL DEF Spec

----------------------------------------------------------------------------
(* The stores in the queue, performed in order, take the device's memory to   *)
(* the one the program has asked for: none is lost, repeated or overtaken.    *)
THEOREM NoStoreIsLost == Spec => []NothingLost
<1>1. Inv => NothingLost
  BY LineFolds DEF Inv, LineSide, NothingLost
<1> QED
  BY <1>1, Invariance, PTL

(* A load answers with what the cell had when it was submitted, whatever was  *)
(* queued before and behind it.                                               *)
THEOREM LoadsAnswerInOrder == Spec => []LoadsInOrder
<1>1. Inv => LoadsInOrder
  BY DEF Inv
<1> QED
  BY <1>1, Invariance, PTL

(* When a call returns, the memory the program has asked for is what the call *)
(* does to plain variables, also where its parts are several tasks.           *)
THEOREM CallsAreAtomic == Spec => []CallsAtomic
<1>1. Inv => CallsAtomic
  <2> SUFFICES ASSUME Inv, ops = <<>>, wait = "no" PROVE ref = post
    BY DEF CallsAtomic
  <2>1. Leads(<<>>, State, post)
    BY DEF Inv, CallSide, Asked
  <2> QED
    BY <2>1, NoneLead DEF State
<1> QED
  BY <1>1, Invariance, PTL

(* The comparison fails a test only if an expectation was wrong when it was   *)
(* submitted, and has then done so when the queue is empty.                   *)
THEOREM TestsFailRightly == Spec => []FailsRightly
<1>1. Inv => FailsRightly
  <2> SUFFICES ASSUME Inv PROVE FailsRightly
    OBVIOUS
  <2>1. ongoing = <<>> => ~SomeDisagrees(ongoing)
    BY DEF SomeDisagrees
  <2> QED
    BY <2>1 DEF Inv, WrongSide, FailsRightly
<1> QED
  BY <1>1, Invariance, PTL
=============================================================================

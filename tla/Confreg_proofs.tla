--------------------------- MODULE Confreg_proofs ---------------------------
(* Proofs about Confreg, for any number of typed chars, stores and resets:    *)
(* chars pass once and in order both ways, registers hold the last store, and *)
(* the number monitor is exact.                                               *)
EXTENDS Confreg, SequenceTheorems, TLAPS

Types == /\ ctx \in Contexts /\ ctx0 \in Contexts
         /\ accessed \in BOOLEAN /\ wrong \in BOOLEAN /\ off \in BOOLEAN
         /\ resets \in Nat /\ typed \in Nat

LEMMA Halves == /\ Half \subseteq Nat /\ 0 \in Half /\ 1 \in Half
                /\ LastAscii + 1 \in Half
BY HalfAssumption

LEMMA KeptIsWord == ASSUME NEW r, NEW d \in Word PROVE Kept(r, d) \in Word
<1>1. d[1] \in Half /\ d[2] \in Half /\ d = <<d[1], d[2]>>
  BY DEF Word
<1>2. Low(d) % 2 \in {0, 1}
  BY <1>1, Halves DEF Low
<1>3. /\ <<0, Low(d)>> \in Word /\ <<d[2], d[1]>> \in Word /\ <<0, 0>> \in Word
      /\ <<0, 1>> \in Word /\ <<0, Low(d) % 2>> \in Word /\ Ones \in Word
  BY <1>1, <1>2, Halves DEF Word, Low, Ones
<1> HIDE DEF Word
<1> QED
  BY <1>3, Zenon DEF Kept

LEMMA NewContextIsContext == NewContext \in Contexts
<1>1. Zero \in Word
  BY Halves DEF Zero, Word
<1> QED
  BY <1>1, Halves DEF NewContext, Contexts

LEMMA InitTypes == Init => Types
<1> SUFFICES ASSUME Init PROVE Types
  OBVIOUS
<1>1. ctx \in Contexts /\ ctx0 \in Contexts
  BY NewContextIsContext DEF Init
<1>2. accessed = FALSE /\ wrong = FALSE /\ off = FALSE /\ resets = 0 /\ typed = 0
  BY DEF Init
<1> QED
  BY <1>1, <1>2 DEF Types

LEMMA TypesStep == Types /\ [Next]_vars => Types'
<1> SUFFICES ASSUME Types, [Next]_vars PROVE Types'
  OBVIOUS
<1> USE DEF Types
<1>1. CASE GetChar
  BY <1>1 DEF GetChar, hist
<1>2. CASE PushChar
  BY <1>2 DEF PushChar, hist
<1>3. CASE LoadRXD
  BY <1>3 DEF LoadRXD, Contexts, input
<1>4. CASE StoreTXD
  BY <1>4 DEF StoreTXD, StartStore, Contexts, input
<1>5. CASE StoreRejected
  BY <1>5 DEF StoreRejected, StartStore, input
<1>6. CASE Store
  <2> PICK r \in Stored, d \in Word : Store!(r, d)
    BY <1>6 DEF Store
  <2> DEFINE v == Kept(r, d)
  <2>1. v \in Word
    BY KeptIsWord
  <2>2. Low(v) \in Half
    BY <2>1 DEF Word, Low
  <2>3. ctx' = Context(r, v)
    OBVIOUS
  <2> HIDE DEF v
  <2>4. Context(r, v) \in Contexts
    BY <2>1, <2>2 DEF Context, Contexts
  <2>5. ctx' \in Contexts
    BY <2>3, <2>4
  <2> QED
    BY <2>5 DEF StartStore, input
<1>7. CASE Sync
  <2>1. CASE AssertFails
    BY <2>1, Zenon DEF AssertFails, hist, input
  <2>2. CASE Commit
    <3>1. Avail \in BOOLEAN
      BY DEF Avail
    <3>2. Cleared \in Contexts
      BY <3>1 DEF Cleared, Contexts
    <3>3. /\ ctx0' = ctx /\ ctx' = Cleared /\ accessed' = FALSE
          /\ UNCHANGED <<wrong, off, resets, typed>>
      BY <2>2 DEF Commit
    <3>4. ctx' \in Contexts /\ ctx0' \in Contexts /\ accessed' \in BOOLEAN
      BY <3>2, <3>3
    <3>5. wrong' \in BOOLEAN /\ off' \in BOOLEAN /\ resets' \in Nat /\ typed' \in Nat
      BY <3>3
    <3> QED
      BY <3>4, <3>5
  <2> QED
    BY <1>7, <2>1, <2>2 DEF Sync
<1>8. CASE Reset
  <2>1. /\ resets' = resets + 1 /\ ctx' = NewContext /\ ctx0' = NewContext
        /\ UNCHANGED <<accessed, wrong, off, typed>>
    BY <1>8 DEF Reset
  <2>2. ctx' \in Contexts /\ ctx0' \in Contexts /\ resets' \in Nat /\ typed' \in Nat
    BY <2>1, NewContextIsContext
  <2>3. accessed' \in BOOLEAN /\ wrong' \in BOOLEAN /\ off' \in BOOLEAN
    BY <2>1
  <2> QED
    BY <2>2, <2>3
<1>9. CASE UNCHANGED vars
  BY <1>9 DEF vars, input, hist
<1> QED
  BY <1>1, <1>2, <1>3, <1>4, <1>5, <1>6, <1>7, <1>8, <1>9 DEF Next

----------------------------------------------------------------------------
(* The number monitor.  Between two syncs the context holds at most one store *)
(* the model has not seen; it is a wrong one exactly if Checkout will say so. *)
Right == \/ current = ctx.num[1]
         \/ current + 1 = ctx.num[1] /\ ctx.num[2] = ctx.num[1]
MonitorSide ==
    /\ ~off => ctx.monitor
    /\ resets = 0 /\ ~off /\ panic = "" /\ ~accessed => ~wrong /\ current = ctx.num[1]
    /\ resets = 0 /\ ~off /\ panic = "" /\ accessed => (wrong <=> ~Right)
    /\ resets = 0 /\ ~off /\ panic = "num" => wrong

LEMMA InitMonitor == Init => MonitorSide
<1> SUFFICES ASSUME Init PROVE MonitorSide
  OBVIOUS
<1>1. ctx.monitor /\ current = ctx.num[1]
  BY DEF Init, NewContext, Zero
<1>2. panic = "" /\ ~accessed /\ ~wrong
  BY DEF Init
<1> QED
  BY <1>1, <1>2 DEF MonitorSide

(* A store changes the number only if it is one to NUM.                       *)
LEMMA NumOfContext ==
    ASSUME ctx \in Contexts, NEW r, NEW v
    PROVE  Context(r, v).num = IF r = "NUM" THEN v ELSE ctx.num
BY DEF Context, Contexts

LEMMA StoreMonitor == Types /\ MonitorSide /\ Store => MonitorSide'
<1> SUFFICES ASSUME Types, MonitorSide, Store PROVE MonitorSide'
  OBVIOUS
<1> PICK r \in Stored, d \in Word : Store!(r, d)
  BY DEF Store
<1>1. ctx' = Context(r, Kept(r, d))
  OBVIOUS
<1>2. r = "NUM" => Kept(r, d) = d
  BY DEF Kept
<1>3. ctx'.num = IF r = "NUM" THEN d ELSE ctx.num
  BY <1>1, <1>2, NumOfContext DEF Types
<1>4. wrong' = (wrong \/ (r = "NUM" /\ ~Counts(ctx.num, d)))
  OBVIOUS
<1>5. off' = (off \/ ~ctx'.monitor)
  OBVIOUS
<1>6. /\ panic = "" /\ ~accessed /\ accessed' /\ resets' = resets /\ panic' = panic
      /\ current' = current
  BY DEF StartStore
<1>7. off' \/ resets # 0 \/ (~wrong /\ current = ctx.num[1])
  BY <1>5, <1>6 DEF MonitorSide
<1>8. CASE ~off' /\ resets = 0
  <2>1. CASE r = "NUM"
    BY <1>3, <1>4, <1>6, <1>7, <1>8, <2>1 DEF Counts, Right, MonitorSide
  <2>2. CASE r # "NUM"
    BY <1>3, <1>4, <1>6, <1>7, <1>8, <2>2 DEF Right, MonitorSide
  <2> QED
    BY <2>1, <2>2
<1> QED
  BY <1>5, <1>6, <1>8 DEF MonitorSide

LEMMA SyncMonitor == Types /\ MonitorSide /\ Sync => MonitorSide'
<1> SUFFICES ASSUME Types, MonitorSide, Sync PROVE MonitorSide'
  OBVIOUS
<1>1. CASE AssertFails
  <2>1. panic' = "fifo" /\ off' = off /\ ctx' = ctx
    BY <1>1, Zenon DEF AssertFails, hist
  <2> QED
    BY <2>1 DEF MonitorSide
<1>2. CASE Commit
  <2>1. /\ panic = "" /\ ctx' = Cleared /\ accessed' = FALSE /\ resets' = resets
        /\ wrong' = wrong /\ off' = off /\ Checkout(ctx)
    BY <1>2 DEF Commit, Sync
  <2>2. ctx'.num = ctx.num /\ ctx'.monitor = ctx.monitor
    BY <2>1 DEF Cleared, Contexts, Types
  <2>3. CASE resets = 0 /\ ~off
    <3>1. ctx.monitor
      BY <2>3 DEF MonitorSide
    <3>2. Right => current' = ctx.num[1] /\ panic' = ""
      BY <2>1, <3>1 DEF Checkout, NumPassed, Right
    <3>3. ~Right => panic' = "num"
      BY <2>1, <3>1 DEF Checkout, NumPassed, Right
    <3>4. wrong <=> ~Right
      BY <2>1, <2>3 DEF MonitorSide, Right, Types
    <3> QED
      BY <2>1, <2>2, <2>3, <3>1, <3>2, <3>3, <3>4 DEF MonitorSide
  <2> QED
    BY <2>1, <2>2, <2>3 DEF MonitorSide
<1> QED
  BY <1>1, <1>2 DEF Sync

LEMMA MonitorStep == Types /\ MonitorSide /\ [Next]_vars => MonitorSide'
<1> SUFFICES ASSUME Types, MonitorSide, [Next]_vars PROVE MonitorSide'
  OBVIOUS
<1>1. CASE GetChar \/ PushChar \/ UNCHANGED vars
  <2>1. /\ ctx' = ctx /\ off' = off /\ wrong' = wrong /\ resets' = resets
        /\ panic' = panic /\ accessed' = accessed /\ current' = current
    BY <1>1, Zenon DEF GetChar, PushChar, vars, hist
  <2> QED
    BY <2>1 DEF MonitorSide, Right
<1>2. CASE LoadRXD
  <2>1. /\ off' = off /\ wrong' = wrong /\ resets' = resets /\ panic' = panic
        /\ current' = current /\ ~accessed /\ accessed' /\ panic = ""
    BY <1>2 DEF LoadRXD
  <2>2. ctx'.num = ctx.num /\ ctx'.monitor = ctx.monitor
    BY <1>2 DEF LoadRXD, Types, Contexts
  <2> QED
    BY <2>1, <2>2 DEF MonitorSide, Right
<1>3. CASE StoreTXD
  <2>1. /\ off' = off /\ wrong' = wrong /\ resets' = resets /\ panic' = panic
        /\ current' = current /\ ~accessed /\ accessed' /\ panic = ""
    BY <1>3 DEF StoreTXD, StartStore
  <2>2. ctx'.num = ctx.num /\ ctx'.monitor = ctx.monitor
    BY <1>3 DEF StoreTXD, Types, Contexts
  <2> QED
    BY <2>1, <2>2 DEF MonitorSide, Right
<1>4. CASE StoreRejected
  <2>1. panic' = "uart" /\ off' = off /\ ctx' = ctx
    BY <1>4 DEF StoreRejected
  <2> QED
    BY <2>1 DEF MonitorSide
<1>5. CASE Reset
  <2>1. resets' = resets + 1 /\ ctx' = NewContext /\ off' = off
    BY <1>5 DEF Reset
  <2>2. resets' # 0 /\ ctx'.monitor
    BY <2>1 DEF NewContext, Types
  <2> QED
    BY <2>2 DEF MonitorSide
<1> QED
  BY <1>1, <1>2, <1>3, <1>4, <1>5, StoreMonitor, SyncMonitor DEF Next

(* The number monitor stops a program that never switched it off exactly when *)
(* it has skipped or not acknowledged a number, whatever else it stores.      *)
THEOREM MonitorIsExact == Spec => []MonitorExact
<1>1. Types /\ MonitorSide => MonitorExact
  BY DEF MonitorExact, MonitorSide, Types
<1> QED
  BY <1>1, InitTypes, InitMonitor, TypesStep, MonitorStep, PTL DEF Spec

----------------------------------------------------------------------------
(* Sequences: the three places a char can be in, one after the other.         *)
LEMMA Parts ==
    ASSUME NEW r \in Seq(Nat), NEW q \in Seq(Nat), NEW h \in Seq(Nat)
    PROVE  /\ r \o (q \o h) \in Seq(Nat)
           /\ Len(r \o (q \o h)) = Len(r) + Len(q) + Len(h)
           /\ Len(r) \in Nat /\ Len(q) \in Nat /\ Len(h) \in Nat
           /\ \A j \in 1 .. Len(r) + Len(q) + Len(h) :
                 (r \o (q \o h))[j] =
                    IF j <= Len(r) THEN r[j]
                    ELSE IF j <= Len(r) + Len(q) THEN q[j - Len(r)]
                    ELSE h[j - Len(r) - Len(q)]
<1>1. /\ q \o h \in Seq(Nat) /\ Len(q \o h) = Len(q) + Len(h)
      /\ \A j \in 1 .. Len(q) + Len(h) :
            (q \o h)[j] = IF j <= Len(q) THEN q[j] ELSE h[j - Len(q)]
  BY ConcatProperties
<1>2. /\ r \o (q \o h) \in Seq(Nat) /\ Len(r \o (q \o h)) = Len(r) + Len(q \o h)
      /\ \A j \in 1 .. Len(r) + Len(q \o h) :
            (r \o (q \o h))[j] = IF j <= Len(r) THEN r[j] ELSE (q \o h)[j - Len(r)]
  BY <1>1, ConcatProperties
<1>3. Len(r) \in Nat /\ Len(q) \in Nat /\ Len(h) \in Nat
  BY LenProperties
<1> QED
  BY <1>1, <1>2, <1>3

(* The j-th char of the line: read, in the queue, or in the thread.           *)
Char(r, q, c, j) == IF j <= Len(r) THEN r[j]
                    ELSE IF j <= Len(r) + Len(q) THEN q[j - Len(r)] ELSE c

LEMMA TakeFirst ==     \* the head of the queue is read
    ASSUME NEW r \in Seq(Nat), NEW q \in Seq(Nat), q # <<>>, NEW c, NEW j \in Nat \ {0}
    PROVE  /\ Append(r, Head(q)) \in Seq(Nat) /\ Tail(q) \in Seq(Nat)
           /\ Len(Append(r, Head(q))) + Len(Tail(q)) = Len(r) + Len(q)
           /\ Char(Append(r, Head(q)), Tail(q), c, j) = Char(r, q, c, j)
<1> DEFINE r2 == Append(r, Head(q))
           q2 == Tail(q)
<1>1. /\ Head(q) \in Nat /\ Head(q) = q[1] /\ q2 \in Seq(Nat) /\ Len(q2) = Len(q) - 1
      /\ \A k \in 1 .. Len(q2) : q2[k] = q[k + 1]
  BY HeadTailProperties
<1>2. /\ r2 \in Seq(Nat) /\ Len(r2) = Len(r) + 1 /\ r2[Len(r) + 1] = q[1]
      /\ \A k \in 1 .. Len(r) : r2[k] = r[k]
  BY <1>1, AppendProperties
<1>3. Len(r) \in Nat /\ Len(q) \in Nat
  BY LenProperties
<1> HIDE DEF r2, q2
<1>4. Char(r2, q2, c, j) = Char(r, q, c, j)
  <2>1. CASE j <= Len(r)
    BY <1>1, <1>2, <1>3, <2>1 DEF Char
  <2>2. CASE j = Len(r) + 1
    <3>1. Len(q) > 0
      BY <1>3, EmptySeq
    <3> QED
      BY <1>1, <1>2, <1>3, <2>2, <3>1 DEF Char
  <2>3. CASE j > Len(r) + 1 /\ j <= Len(r) + Len(q)
    <3>1. j - Len(r2) \in 1 .. Len(q2) /\ (j - Len(r2)) + 1 = j - Len(r)
      BY <1>1, <1>2, <1>3, <2>3
    <3>2. q2[j - Len(r2)] = q[j - Len(r)]
      BY <1>1, <3>1
    <3> QED
      BY <1>1, <1>2, <1>3, <2>3, <3>2 DEF Char
  <2>4. CASE j > Len(r) + 1 /\ j > Len(r) + Len(q)
    BY <1>1, <1>2, <1>3, <2>4 DEF Char
  <2> QED
    BY <1>3, <2>1, <2>2, <2>3, <2>4
<1> QED
  BY <1>1, <1>2, <1>3, <1>4 DEF r2, q2

LEMMA MoveLast ==      \* from the thread into the queue
    ASSUME NEW r \in Seq(Nat), NEW q \in Seq(Nat), NEW c \in Nat, NEW d,
           NEW j \in 1 .. Len(r) + Len(q) + 1
    PROVE  /\ Append(q, c) \in Seq(Nat) /\ Len(Append(q, c)) = Len(q) + 1
           /\ Char(r, Append(q, c), d, j) = Char(r, q, c, j)
<1> DEFINE q2 == Append(q, c)
<1>1. /\ q2 \in Seq(Nat) /\ Len(q2) = Len(q) + 1 /\ q2[Len(q) + 1] = c
      /\ \A k \in 1 .. Len(q) : q2[k] = q[k]
  BY AppendProperties
<1>2. Len(r) \in Nat /\ Len(q) \in Nat
  BY LenProperties
<1> HIDE DEF q2
<1>3. Char(r, q2, d, j) = Char(r, q, c, j)
  <2>1. CASE j <= Len(r)
    BY <1>1, <1>2, <2>1 DEF Char
  <2>2. CASE j > Len(r) /\ j <= Len(r) + Len(q)
    <3>1. j - Len(r) \in 1 .. Len(q)
      BY <1>2, <2>2
    <3>2. q2[j - Len(r)] = q[j - Len(r)]
      BY <1>1, <3>1
    <3> QED
      BY <1>1, <1>2, <2>2, <3>2 DEF Char
  <2>3. CASE j = Len(r) + Len(q) + 1
    BY <1>1, <1>2, <2>3 DEF Char
  <2>4. \/ j <= Len(r)
        \/ j > Len(r) /\ j <= Len(r) + Len(q)
        \/ j = Len(r) + Len(q) + 1
    BY <1>2
  <2> QED
    BY <2>1, <2>2, <2>3, <2>4
<1> QED
  BY <1>1, <1>3 DEF q2

----------------------------------------------------------------------------
(* What is announced is there: only sync takes a char, and it recomputes      *)
(* uart_avail when it does; the thread only adds.                             *)
InputSide ==
    /\ ififo \in Seq(Nat) /\ received \in Seq(Nat) /\ (hand = NoChar \/ hand \in Nat)
    /\ ctx.avail => ififo # <<>>
    /\ ctx.fetched => ctx.avail /\ accessed
    /\ panic # "fifo"

LEMMA InitInput == Init => InputSide
<1> SUFFICES ASSUME Init PROVE InputSide
  OBVIOUS
<1>1. ififo = <<>> /\ received = <<>> /\ hand = NoChar /\ panic = ""
  BY DEF Init
<1>2. ~ctx.avail /\ ~ctx.fetched
  BY DEF Init, NewContext
<1>3. <<>> \in Seq(Nat)
  BY EmptySeq
<1> QED
  BY <1>1, <1>2, <1>3 DEF InputSide

(* The stores leave the input alone.                                          *)
LEMMA StoresKeepInput ==
    Types /\ (StoreTXD \/ StoreRejected \/ Store) =>
        /\ UNCHANGED <<ififo, hand, typed, received, lost>>
        /\ ctx'.avail = ctx.avail /\ ctx'.fetched = ctx.fetched
        /\ ~accessed /\ accessed' /\ panic' # "fifo"
<1> SUFFICES ASSUME Types, StoreTXD \/ StoreRejected \/ Store
             PROVE  /\ UNCHANGED <<ififo, hand, typed, received, lost>>
                    /\ ctx'.avail = ctx.avail /\ ctx'.fetched = ctx.fetched
                    /\ ~accessed /\ accessed' /\ panic' # "fifo"
  OBVIOUS
<1>1. /\ UNCHANGED <<ififo, hand, typed, received, lost>>
      /\ ~accessed /\ accessed' /\ panic = ""
  BY DEF StoreTXD, StoreRejected, Store, StartStore, input
<1>2. panic' # "fifo"
  BY <1>1 DEF StoreTXD, StoreRejected, Store
<1>3. CASE StoreTXD \/ StoreRejected
  <2>1. ctx'.avail = ctx.avail /\ ctx'.fetched = ctx.fetched
    BY <1>3 DEF StoreTXD, StoreRejected, Types, Contexts
  <2> QED
    BY <1>1, <1>2, <2>1
<1>4. CASE Store
  <2> PICK r \in Stored, d \in Word : Store!(r, d)
    BY <1>4 DEF Store
  <2>1. ctx' = Context(r, Kept(r, d))
    OBVIOUS
  <2>2. \A v : Context(r, v).avail = ctx.avail /\ Context(r, v).fetched = ctx.fetched
    BY DEF Context, Types, Contexts
  <2> QED
    BY <1>1, <1>2, <2>1, <2>2
<1> QED
  BY <1>3, <1>4

LEMMA InputStep == Types /\ InputSide /\ [Next]_vars => InputSide'
<1> SUFFICES ASSUME Types, InputSide, [Next]_vars PROVE InputSide'
  OBVIOUS
<1>1. CASE GetChar \/ UNCHANGED vars
  <2>1. /\ ctx' = ctx /\ ififo' = ififo /\ received' = received /\ panic' = panic
        /\ accessed' = accessed
    BY <1>1, Zenon DEF GetChar, vars, hist, input
  <2>2. hand' = NoChar \/ hand' \in Nat
    BY <1>1 DEF GetChar, vars, input, Types, InputSide
  <2> QED
    BY <2>1, <2>2 DEF InputSide
<1>2. CASE PushChar
  <2>1. /\ ctx' = ctx /\ received' = received /\ panic' = panic /\ accessed' = accessed
        /\ hand' = NoChar /\ ififo' = Append(ififo, hand) /\ hand # NoChar
    BY <1>2, Zenon DEF PushChar, hist
  <2>2. ififo' \in Seq(Nat) /\ ififo' # <<>>
    BY <2>1, AppendProperties DEF InputSide
  <2> QED
    BY <2>1, <2>2 DEF InputSide
<1>3. CASE LoadRXD
  <2>1. ififo' = ififo /\ hand' = hand /\ panic' = panic /\ accessed' /\ ~accessed
    BY <1>3 DEF LoadRXD, input
  <2>2. CASE ctx.avail
    <3>1. ctx'.avail = ctx.avail
      BY <1>3, <2>2 DEF LoadRXD, Types, Contexts
    <3>2. received' = Append(received, Head(ififo)) /\ Head(ififo) \in Nat
      BY <1>3, <2>2, HeadTailProperties DEF LoadRXD, InputSide
    <3>3. received' \in Seq(Nat)
      BY <3>2, AppendProperties DEF InputSide
    <3> QED
      BY <2>1, <2>2, <3>1, <3>3 DEF InputSide
  <2>3. CASE ~ctx.avail
    BY <1>3, <2>1, <2>3 DEF LoadRXD, InputSide
  <2> QED
    BY <2>2, <2>3
<1>4. CASE StoreTXD \/ StoreRejected \/ Store
  BY <1>4, StoresKeepInput DEF InputSide
<1>5. CASE Sync
  <2>1. Commit
    BY <1>5 DEF Sync, InputSide
  <2>2. /\ ififo' = Popped /\ ctx' = Cleared /\ hand' = hand /\ received' = received
        /\ Checkout(ctx)
    BY <2>1 DEF Commit
  <2>3. Popped \in Seq(Nat)
    BY HeadTailProperties DEF Popped, InputSide
  <2>4. ctx'.avail = (Popped # <<>>) /\ ~ctx'.fetched
    BY <2>2 DEF Cleared, Avail, Types, Contexts
  <2>5. panic' # "fifo"
    BY <2>2 DEF Checkout, InputSide
  <2> QED
    BY <2>2, <2>3, <2>4, <2>5 DEF InputSide
<1>6. CASE Reset
  <2>1. ififo' = <<>> /\ ctx' = NewContext /\ UNCHANGED <<hand, received, panic>>
    BY <1>6 DEF Reset
  <2>2. ~ctx'.avail /\ ~ctx'.fetched /\ <<>> \in Seq(Nat)
    BY <2>1, EmptySeq DEF NewContext
  <2> QED
    BY <2>1, <2>2 DEF InputSide
<1> QED
  BY <1>1, <1>2, <1>3, <1>4, <1>5, <1>6 DEF Next

(* The assertion of sync never fails, and a char announced in UART_LSR is     *)
(* still in the queue whenever the program reads it.                          *)
THEOREM InputIsThere == Spec => []InputThere
<1>1. InputSide => InputThere
  BY DEF InputSide, InputThere
<1> QED
  BY <1>1, InitTypes, TypesStep, InitInput, InputStep, PTL DEF Spec

----------------------------------------------------------------------------
(* The chars on their way: those read, the queue without the one a load has   *)
(* marked, the one in the thread.  They rise, and every char typed is there   *)
(* or was lost in a reset.                                                    *)
Queue == IF ctx.fetched THEN Tail(ififo) ELSE ififo
Long == Len(received) + Len(Queue) + (IF hand = NoChar THEN 0 ELSE 1)
At(j) == Char(received, Queue, hand, j)

LineSide == /\ \A j \in 1 .. Long : At(j) \in 1 .. typed
            /\ \A j, k \in 1 .. Long : j < k => At(j) < At(k)
            /\ \A c \in 1 .. typed : c \in lost \/ \E j \in 1 .. Long : At(j) = c

LEMMA SameLine ==
    ASSUME LineSide, typed' = typed, lost' = lost, Long' = Long,
           \A j \in 1 .. Long : At(j)' = At(j)
    PROVE  LineSide'
BY DEF LineSide

LEMMA QueueIsSeq ==
    InputSide => /\ Queue \in Seq(Nat) /\ Len(Queue) \in Nat /\ Len(received) \in Nat
                 /\ Long \in Nat
<1> SUFFICES ASSUME InputSide PROVE Queue \in Seq(Nat) /\ received \in Seq(Nat)
  BY LenProperties DEF Long
<1>1. ctx.fetched => ififo # <<>>
  BY DEF InputSide
<1> QED
  BY <1>1, HeadTailProperties DEF Queue, InputSide

LEMMA InitLine == Init => LineSide
<1> SUFFICES ASSUME Init PROVE LineSide
  OBVIOUS
<1>1. ififo = <<>> /\ received = <<>> /\ hand = NoChar /\ typed = 0
  BY DEF Init
<1>2. ~ctx.fetched
  BY DEF Init, NewContext
<1>3. Long = 0
  BY <1>1, <1>2 DEF Long, Queue
<1> QED
  BY <1>1, <1>3 DEF LineSide

LEMMA LoadKeepsLine == Types /\ InputSide /\ LineSide /\ LoadRXD => LineSide'
<1> SUFFICES ASSUME Types, InputSide, LineSide, LoadRXD PROVE LineSide'
  OBVIOUS
<1>1. /\ ififo' = ififo /\ hand' = hand /\ typed' = typed /\ lost' = lost
      /\ ~ctx.fetched
  BY DEF LoadRXD, input, InputSide
<1>2. CASE ctx.avail
  <2>1. /\ received' = Append(received, Head(ififo)) /\ ctx'.fetched
        /\ ififo # <<>> /\ ififo \in Seq(Nat) /\ received \in Seq(Nat)
    BY <1>2 DEF LoadRXD, InputSide, Types, Contexts
  <2>2. Queue = ififo /\ Queue' = Tail(ififo)
    BY <1>1, <2>1 DEF Queue
  <2>3. Len(received') + Len(Queue') = Len(received) + Len(Queue)
    BY <2>1, <2>2, TakeFirst
  <2>4. Long' = Long
    BY <1>1, <2>3 DEF Long
  <2>5. ASSUME NEW j \in 1 .. Long PROVE At(j)' = At(j)
    BY <1>1, <2>1, <2>2, TakeFirst DEF At
  <2> QED
    BY <1>1, <2>4, <2>5, SameLine
<1>3. CASE ~ctx.avail
  <2>1. ctx' = ctx /\ received' = received
    BY <1>3 DEF LoadRXD
  <2> QED
    BY <1>1, <2>1, SameLine DEF Long, At, Queue
<1> QED
  BY <1>2, <1>3

LEMMA PushKeepsLine == Types /\ InputSide /\ LineSide /\ PushChar => LineSide'
<1> SUFFICES ASSUME Types, InputSide, LineSide, PushChar PROVE LineSide'
  OBVIOUS
<1>1. /\ ififo' = Append(ififo, hand) /\ hand # NoChar /\ hand \in Nat
      /\ hand' = NoChar
      /\ ctx' = ctx /\ received' = received /\ typed' = typed /\ lost' = lost
  BY Zenon DEF PushChar, hist, InputSide
<1>2. Queue \in Seq(Nat) /\ received \in Seq(Nat) /\ Len(Queue) \in Nat /\ Len(received) \in Nat
  BY QueueIsSeq DEF InputSide
<1>3. Queue' = Append(Queue, hand)
  <2>1. ctx.fetched => ififo # <<>>
    BY DEF InputSide
  <2>2. ififo # <<>> => Tail(Append(ififo, hand)) = Append(Tail(ififo), hand)
    BY HeadTailAppend DEF InputSide
  <2> QED
    BY <1>1, <2>1, <2>2 DEF Queue
<1>4. Len(Append(Queue, hand)) = Len(Queue) + 1
  BY <1>1, <1>2, AppendProperties
<1>5. Long' = Long /\ Long = Len(received) + Len(Queue) + 1
  BY <1>1, <1>2, <1>3, <1>4 DEF Long
<1>6. ASSUME NEW j \in 1 .. Long PROVE At(j)' = At(j)
  <2>1. j \in 1 .. Len(received) + Len(Queue) + 1
    BY <1>5
  <2> QED
    BY <1>1, <1>2, <1>3, <2>1, MoveLast DEF At
<1> QED
  BY <1>1, <1>5, <1>6, SameLine

(* The only step that lengthens the line.                                     *)
LEMMA GetExtendsLine == Types /\ InputSide /\ LineSide /\ GetChar => LineSide'
<1> SUFFICES ASSUME Types, InputSide, LineSide, GetChar PROVE LineSide'
  OBVIOUS
<1>1. /\ hand = NoChar /\ hand' = typed + 1 /\ typed' = typed + 1 /\ typed \in Nat
      /\ ctx' = ctx /\ received' = received /\ ififo' = ififo /\ lost' = lost
  BY Zenon DEF GetChar, hist, Types
<1>2. Len(Queue) \in Nat /\ Len(received) \in Nat
  BY QueueIsSeq
<1>3. Queue' = Queue /\ hand' # NoChar
  BY <1>1 DEF Queue, NoChar
<1>4. Long = Len(received) + Len(Queue) /\ Long' = Long + 1 /\ Long \in Nat
  BY <1>1, <1>2, <1>3 DEF Long
<1> PICK m \in Nat : m = Long + 1
  BY <1>4
<1>5. At(m)' = typed + 1
  BY <1>1, <1>2, <1>3, <1>4 DEF At, Char
<1>6. \A j \in 1 .. Long : At(j)' = At(j)
  BY <1>1, <1>2, <1>3, <1>4 DEF At, Char
<1>7. \A j \in 1 .. Long' : At(j)' \in 1 .. typed'
  <2> SUFFICES ASSUME NEW j \in 1 .. Long' PROVE At(j)' \in 1 .. typed'
    OBVIOUS
  <2>1. CASE j \in 1 .. Long
    <3>1. At(j)' = At(j) /\ At(j) \in 1 .. typed
      BY <1>6, <2>1 DEF LineSide
    <3> QED
      BY <1>1, <3>1
  <2>2. CASE j = m
    BY <1>1, <1>5, <2>2
  <2> QED
    BY <1>4, <2>1, <2>2
<1>8. \A j, k \in 1 .. Long' : j < k => At(j)' < At(k)'
  <2> SUFFICES ASSUME NEW j \in 1 .. Long', NEW k \in 1 .. Long', j < k
               PROVE  At(j)' < At(k)'
    OBVIOUS
  <2>1. j \in 1 .. Long /\ At(j)' = At(j) /\ At(j) \in 1 .. typed
    BY <1>4, <1>6 DEF LineSide
  <2>2. CASE k \in 1 .. Long
    BY <1>6, <2>1, <2>2 DEF LineSide
  <2>3. CASE k = m
    <3>1. At(k)' = typed + 1
      BY <1>5, <2>3
    <3> QED
      BY <1>1, <2>1, <3>1
  <2> QED
    BY <1>4, <2>2, <2>3
<1>9. \A c \in 1 .. typed' : c \in lost' \/ \E j \in 1 .. Long' : At(j)' = c
  <2> SUFFICES ASSUME NEW c \in 1 .. typed'
               PROVE  c \in lost' \/ \E j \in 1 .. Long' : At(j)' = c
    OBVIOUS
  <2>1. CASE c \in 1 .. typed
    <3>1. c \in lost \/ \E j \in 1 .. Long : At(j) = c
      BY <2>1 DEF LineSide
    <3>2. \A j \in 1 .. Long : j \in 1 .. Long'
      BY <1>4
    <3> QED
      BY <1>1, <1>6, <3>1, <3>2
  <2>2. CASE c = typed + 1
    <3>1. m \in 1 .. Long'
      BY <1>4
    <3> QED
      BY <1>5, <2>2, <3>1
  <2> QED
    BY <1>1, <2>1, <2>2
<1> QED
  BY <1>7, <1>8, <1>9 DEF LineSide

(* A reset takes the queue out of the line.                                   *)
LEMMA ResetCutsLine == Types /\ InputSide /\ LineSide /\ Reset => LineSide'
<1> SUFFICES ASSUME Types, InputSide, LineSide, Reset PROVE LineSide'
  OBVIOUS
<1> DEFINE R == Len(received)
           Q == Len(Queue)
           Old(j) == IF j <= R THEN j ELSE R + Q + 1
<1>1. /\ ififo' = <<>> /\ ctx' = NewContext /\ lost' = lost \cup ToSet(ififo)
      /\ UNCHANGED <<hand, typed, received>>
  BY DEF Reset
<1>2. R \in Nat /\ Q \in Nat /\ Queue \in Seq(Nat)
  BY QueueIsSeq
<1>3. Queue' = <<>> /\ Len(Queue') = 0
  BY <1>1 DEF Queue, NewContext
<1>4. Long' = R + (IF hand = NoChar THEN 0 ELSE 1)
  BY <1>1, <1>2, <1>3 DEF Long
<1>5. ASSUME NEW j \in 1 .. Long' PROVE Old(j) \in 1 .. Long /\ At(j)' = At(Old(j))
  <2>1. CASE j <= R
    BY <1>1, <1>2, <1>3, <1>4, <2>1 DEF At, Char, Long
  <2>2. CASE j > R
    <3>1. hand # NoChar /\ j = R + 1
      BY <1>2, <1>4, <2>2
    <3>2. At(j)' = hand
      BY <1>1, <1>2, <1>3, <3>1 DEF At, Char
    <3>3. At(R + Q + 1) = hand /\ R + Q + 1 \in 1 .. Long
      BY <1>2, <3>1 DEF At, Char, Long
    <3> QED
      BY <2>2, <3>1, <3>2, <3>3, <1>2
  <2> QED
    BY <1>2, <1>4, <2>1, <2>2
<1>6. \A j \in 1 .. Long' : At(j)' \in 1 .. typed'
  BY <1>1, <1>5 DEF LineSide
<1>7. ASSUME NEW j \in 1 .. Long', NEW k \in 1 .. Long', j < k
      PROVE  At(j)' < At(k)'
  <2>1. j <= R
    BY <1>2, <1>4, <1>7
  <2>2. Old(j) < Old(k)
    BY <1>2, <1>7, <2>1
  <2>3. Old(j) \in 1 .. Long /\ Old(k) \in 1 .. Long
    BY <1>5
  <2>4. At(Old(j)) < At(Old(k))
    BY <2>2, <2>3 DEF LineSide
  <2> QED
    BY <1>5, <2>4
<1>8. ASSUME NEW c \in 1 .. typed' PROVE c \in lost' \/ \E j \in 1 .. Long' : At(j)' = c
  <2>1. CASE c \in lost
    BY <1>1, <2>1
  <2>2. ASSUME NEW j \in 1 .. Long, At(j) = c
        PROVE  c \in lost' \/ \E k \in 1 .. Long' : At(k)' = c
    <3>1. CASE j <= R
      <4>1. j \in 1 .. Long'
        BY <1>2, <1>4, <3>1
      <4>2. Old(j) = j
        BY <3>1
      <4> QED
        BY <1>5, <2>2, <4>1, <4>2
    <3>2. CASE j > R /\ j <= R + Q
      <4>1. j - R \in 1 .. Q /\ c = Queue[j - R]
        BY <1>2, <2>2, <3>2 DEF At, Char
      <4>2. c \in ToSet(ififo)
        <5>1. CASE ctx.fetched
          <6>1. Queue = Tail(ififo) /\ ififo # <<>> /\ ififo \in Seq(Nat)
            BY <5>1 DEF Queue, InputSide
          <6>2. /\ Len(Queue) = Len(ififo) - 1 /\ Len(ififo) \in Nat
                /\ \A k \in 1 .. Len(Queue) : Queue[k] = ififo[k + 1]
            BY <6>1, HeadTailProperties, LenProperties
          <6>3. c = ififo[j - R + 1] /\ j - R + 1 \in DOMAIN ififo
            BY <4>1, <6>1, <6>2, LenProperties
          <6> QED
            BY <6>3 DEF ToSet
        <5>2. CASE ~ctx.fetched
          <6>1. Queue = ififo /\ DOMAIN ififo = 1 .. Len(ififo)
            BY <5>2, LenProperties DEF Queue, InputSide
          <6> QED
            BY <4>1, <6>1 DEF ToSet
        <5> QED
          BY <5>1, <5>2
      <4> QED
        BY <1>1, <4>2
    <3>3. CASE j > R + Q
      <4>1. hand # NoChar /\ j = R + Q + 1
        BY <1>2, <3>3 DEF Long
      <4>2. PICK m \in 1 .. Long' : m = R + 1
        BY <1>2, <1>4, <4>1
      <4>3. Old(m) = j
        BY <1>2, <4>1, <4>2
      <4>4. At(m)' = c
        BY <1>5, <2>2, <4>3
      <4> QED
        BY <4>4
    <3> QED
      BY <1>2, <3>1, <3>2, <3>3 DEF Long
  <2>3. c \in lost \/ \E j \in 1 .. Long : At(j) = c
    BY <1>1 DEF LineSide
  <2> QED
    BY <2>1, <2>2, <2>3
<1> QED
  BY <1>6, <1>7, <1>8 DEF LineSide

LEMMA SyncKeepsLine == Types /\ InputSide /\ LineSide /\ Sync => LineSide'
<1> SUFFICES ASSUME Types, InputSide, LineSide, Sync PROVE LineSide'
  OBVIOUS
<1>1. Commit
  BY DEF Sync, InputSide
<1>2. /\ ififo' = Popped /\ ctx' = Cleared
      /\ hand' = hand /\ received' = received /\ typed' = typed /\ lost' = lost
  BY <1>1 DEF Commit
<1>3. ~ctx'.fetched
  BY <1>2 DEF Cleared, Types, Contexts
<1>4. Queue' = Queue
  BY <1>2, <1>3 DEF Queue, Popped
<1> QED
  BY <1>2, <1>4, SameLine DEF Long, At

LEMMA LineStep == Types /\ InputSide /\ LineSide /\ [Next]_vars => LineSide'
<1> SUFFICES ASSUME Types, InputSide, LineSide, [Next]_vars PROVE LineSide'
  OBVIOUS
<1>1. CASE StoreTXD \/ StoreRejected \/ Store
  <2>1. /\ UNCHANGED <<ififo, hand, typed, received, lost>>
        /\ ctx'.fetched = ctx.fetched
    BY <1>1, StoresKeepInput
  <2>2. Queue' = Queue
    BY <2>1 DEF Queue
  <2> QED
    BY <2>1, <2>2, SameLine DEF Long, At
<1>2. CASE UNCHANGED vars
  <2>1. /\ ififo' = ififo /\ ctx' = ctx /\ hand' = hand /\ received' = received
        /\ typed' = typed /\ lost' = lost
    BY <1>2, Zenon DEF vars, hist, input
  <2>2. Queue' = Queue
    BY <2>1 DEF Queue
  <2> QED
    BY <2>1, <2>2, SameLine DEF Long, At
<1> QED
  BY <1>1, <1>2, GetExtendsLine, PushKeepsLine, LoadKeepsLine, SyncKeepsLine,
     ResetCutsLine DEF Next

(* The line, as InputOnce writes it.                                          *)
LEMMA LineIsInput == Types /\ InputSide /\ LineSide => InputOnce
<1> SUFFICES ASSUME Types, InputSide, LineSide PROVE InputOnce
  OBVIOUS
<1> DEFINE h == IF hand = NoChar THEN <<>> ELSE <<hand>>
           s == received \o Waiting
<1>1. received \in Seq(Nat) /\ Queue \in Seq(Nat)
  BY QueueIsSeq DEF InputSide
<1>2. /\ h \in Seq(Nat) /\ Len(h) = IF hand = NoChar THEN 0 ELSE 1
      /\ hand # NoChar => h[1] = hand
  <2>1. CASE hand = NoChar
    BY <2>1, EmptySeq
  <2>2. CASE hand # NoChar
    <3>1. hand \in Nat
      BY <2>2 DEF InputSide
    <3> QED
      BY <2>2, <3>1
  <2> QED
    BY <2>1, <2>2
<1>3. s = received \o (Queue \o h)
  BY DEF Waiting, Queue
<1> HIDE DEF h, s
<1>4. /\ s \in Seq(Nat) /\ Len(s) = Len(received) + Len(Queue) + Len(h)
      /\ Len(received) \in Nat /\ Len(Queue) \in Nat /\ Len(h) \in Nat
      /\ \A j \in 1 .. Len(received) + Len(Queue) + Len(h) :
            s[j] = IF j <= Len(received) THEN received[j]
                   ELSE IF j <= Len(received) + Len(Queue) THEN Queue[j - Len(received)]
                   ELSE h[j - Len(received) - Len(Queue)]
  <2>1. PICK q \in Seq(Nat), t \in Seq(Nat) : q = Queue /\ t = h
    BY <1>1, <1>2
  <2>2. s = received \o (q \o t)
    BY <1>3, <2>1
  <2> QED
    BY <1>1, <2>1, <2>2, Parts
<1>5. DOMAIN s = 1 .. Long /\ Long \in Nat
  BY <1>2, <1>4, LenProperties DEF Long
<1>6. ASSUME NEW j \in 1 .. Long PROVE s[j] = At(j)
  <2>1. CASE j <= Len(received) + Len(Queue)
    BY <1>2, <1>4, <2>1 DEF At, Char, Long
  <2>2. CASE j > Len(received) + Len(Queue)
    <3>1. hand # NoChar /\ j - Len(received) - Len(Queue) = 1
      BY <1>4, <2>2 DEF Long
    <3>2. s[j] = h[1]
      BY <1>2, <1>4, <2>2, <3>1 DEF Long
    <3> QED
      BY <1>2, <1>4, <2>2, <3>1, <3>2 DEF At, Char
  <2> QED
    BY <1>4, <2>1, <2>2 DEF Long
<1>7. \A j, k \in DOMAIN s : j < k => s[j] < s[k]
  BY <1>5, <1>6 DEF LineSide
<1>8. ASSUME NEW c \in (1 .. typed) \ lost PROVE c \in ToSet(s)
  <2>1. PICK j \in 1 .. Long : At(j) = c
    BY DEF LineSide
  <2>2. s[j] = c /\ j \in DOMAIN s
    BY <1>5, <1>6, <2>1
  <2> QED
    BY <2>2 DEF ToSet
<1>9. /\ \A j, k \in DOMAIN (received \o Waiting) :
            j < k => (received \o Waiting)[j] < (received \o Waiting)[k]
      /\ (1 .. typed) \ lost \subseteq ToSet(received \o Waiting)
  BY <1>7, <1>8 DEF s
<1> QED
  BY <1>9, Zenon DEF InputOnce

(* Every typed char reaches the program once and in order, whatever the       *)
(* thread, the loads, the syncs and the resets do in between; only a reset    *)
(* loses the chars it finds in the queue.                                     *)
THEOREM InputPassesOnce == Spec => []InputOnce
BY InitTypes, TypesStep, InitInput, InputStep, InitLine, LineStep, LineIsInput, PTL
   DEF Spec

----------------------------------------------------------------------------
(* The stores of a cycle, folded over the registers: at most one.             *)
(* A fold picks a solution of its recursive equation, so any solution shows   *)
(* that what it picks is one.                                                 *)
Folding(before, iter) == [s \in SUBSET (DOMAIN changes) |->
    IF s = {} THEN before ELSE LET x == Max(s) IN Apply(changes[x], iter[s \ {x}])]

LEMMA Folded ==
    ASSUME NEW before, NEW g, g = Folding(before, g)
    PROVE  \E iter : iter = Folding(before, iter) /\ Committed(before) = iter[DOMAIN changes]
<1>1. Committed(before) = (CHOOSE iter : iter = Folding(before, iter))[DOMAIN changes]
  BY Zenon DEF Committed, FoldLeft, MapThenFoldSet, Folding
<1>2. LET c == CHOOSE iter : iter = Folding(before, iter) IN c = Folding(before, c)
  BY Zenon
<1> QED
  BY <1>1, <1>2

LEMMA NoneCommitted == ASSUME NEW before, changes = <<>> PROVE Committed(before) = before
<1>1. DOMAIN changes = {}
  OBVIOUS
<1> DEFINE g == [s \in SUBSET (DOMAIN changes) |-> before]
<1>2. g = Folding(before, g)
  BY <1>1 DEF Folding
<1> HIDE DEF g
<1>3. PICK iter : iter = Folding(before, iter) /\ Committed(before) = iter[DOMAIN changes]
  BY <1>2, Folded
<1> QED
  BY <1>1, <1>3 DEF Folding

LEMMA OneCommitted ==
    ASSUME NEW before, NEW c, changes = <<c>>
    PROVE  Committed(before) = Apply(c, before)
<1>1. DOMAIN changes = {1} /\ changes[1] = c
  OBVIOUS
<1>2. Max({1}) = 1
  BY DEF Max
<1>3. \A s \in SUBSET {1} : s = {} \/ s = {1}
  OBVIOUS
<1> DEFINE g == [s \in SUBSET (DOMAIN changes) |-> IF s = {} THEN before ELSE Apply(c, before)]
<1>4. g = Folding(before, g)
  <2>1. ASSUME NEW s \in SUBSET {1}, s # {}
        PROVE  Apply(changes[Max(s)], g[s \ {Max(s)}]) = Apply(c, before)
    <3>1. s = {1}
      BY <1>3, <2>1
    <3>2. Max(s) = 1 /\ s \ {Max(s)} = {}
      BY <1>2, <3>1
    <3> QED
      BY <1>1, <3>2
  <2> QED
    BY <1>1, <2>1 DEF Folding
<1> HIDE DEF g
<1>5. PICK iter : iter = Folding(before, iter) /\ Committed(before) = iter[DOMAIN changes]
  BY <1>4, Folded
<1>6. iter[{}] = before
  BY <1>5 DEF Folding
<1>7. iter[{1}] = Apply(changes[1], iter[{1} \ {1}])
  BY <1>1, <1>2, <1>5 DEF Folding
<1> QED
  BY <1>1, <1>5, <1>6, <1>7

----------------------------------------------------------------------------
(* The registers: a store waits in changes for the sync of its cycle, and     *)
(* last is what the registers will hold then, those apart with a store a      *)
(* reset should have undone.                                                  *)
Places == Registers \cup {"TIMER"}
RegisterFile(m) == /\ DOMAIN m = Places /\ m = [r \in Places |-> m[r]]
                   /\ \A r \in Registers : m[r] \in Word
                   /\ m["TIMER"] \in 0 .. TimerRange - 1
Pending(m) == IF changes = <<>> THEN m ELSE Apply(changes[1], m)
RegisterSide ==
    /\ RegisterFile(mem)
    /\ changes = <<>> \/ (accessed /\ \E c \in Stored \X Word : changes = <<c>>)
    /\ DOMAIN last = Places /\ last = [r \in Places |-> last[r]]
    /\ \A r \in Registers \ undone : last[r] = Pending(mem)[r]

LEMMA NewMemIsFile == RegisterFile(NewMem)
<1>1. Zero \in Word /\ Ones \in Word /\ <<0, 1>> \in Word
  BY Halves DEF Zero, Ones, Word
<1>2. "TIMER" \notin Registers /\ 0 \in 0 .. TimerRange - 1
  BY BoundsAssumption DEF Registers
<1> HIDE DEF Word
<1>3. NewMem["TIMER"] = 0
  BY DEF NewMem
<1>4. ASSUME NEW r \in Registers PROVE NewMem[r] \in Word
  BY <1>1, <1>2, Zenon DEF NewMem
<1>5. DOMAIN NewMem = Places /\ NewMem = [r \in Places |-> NewMem[r]]
  BY DEF NewMem, Places
<1> QED
  BY <1>2, <1>3, <1>4, <1>5 DEF RegisterFile

LEMMA InitRegisters == Init => RegisterSide
<1> SUFFICES ASSUME Init PROVE RegisterSide
  OBVIOUS
<1>1. mem = NewMem /\ last = NewMem /\ changes = <<>>
  BY DEF Init
<1>2. Pending(mem) = mem
  BY <1>1 DEF Pending
<1> QED
  BY <1>1, <1>2, NewMemIsFile DEF RegisterSide, RegisterFile

(* A store of the cycle changes its register alone.                           *)
LEMMA AppliedTo ==
    ASSUME NEW m, RegisterFile(m), NEW c \in Stored \X Word
    PROVE  /\ RegisterFile(Apply(c, m))
           /\ \A r \in Registers : Apply(c, m)[r] = IF r = c[1] THEN c[2] ELSE m[r]
<1>1. c[1] \in Registers /\ c[2] \in Word
  BY BoundsAssumption
<1>2. c[1] # "TIMER" /\ Registers \subseteq Places
  BY <1>1 DEF Registers, Places
<1>3. \A r \in Places : Apply(c, m)[r] = IF r = c[1] THEN c[2] ELSE m[r]
  BY <1>1, <1>2 DEF Apply, RegisterFile
<1>4. DOMAIN Apply(c, m) = Places /\ Apply(c, m) = [r \in Places |-> Apply(c, m)[r]]
  BY DEF Apply, RegisterFile
<1>5. "TIMER" \in Places
  BY DEF Places
<1> HIDE DEF Word
<1>6. \A r \in Registers : Apply(c, m)[r] \in Word
  BY <1>1, <1>2, <1>3 DEF RegisterFile
<1>7. Apply(c, m)["TIMER"] = m["TIMER"]
  BY <1>2, <1>3, <1>5
<1> QED
  BY <1>2, <1>3, <1>4, <1>6, <1>7 DEF RegisterFile

(* Folding the stores of the cycle is applying the one there is.              *)
LEMMA CommittedIs == ASSUME RegisterSide, NEW m PROVE Committed(m) = Pending(m)
<1>1. CASE changes = <<>>
  BY <1>1, NoneCommitted DEF Pending
<1>2. ASSUME NEW c \in Stored \X Word, changes = <<c>> PROVE Committed(m) = Pending(m)
  <2>1. changes # <<>> /\ changes[1] = c
    BY <1>2
  <2> QED
    BY <1>2, <2>1, OneCommitted, Zenon DEF Pending
<1> QED
  BY <1>1, <1>2 DEF RegisterSide

(* So the sync leaves a register file.                                        *)
LEMMA CommittedIsFile ==
    ASSUME RegisterSide, NEW m, RegisterFile(m)
    PROVE  /\ RegisterFile(Committed(m))
           /\ DOMAIN Committed(m) = Places
<1>1. CASE changes = <<>>
  BY <1>1, NoneCommitted DEF RegisterFile
<1>2. ASSUME NEW c \in Stored \X Word, changes = <<c>>
      PROVE  /\ RegisterFile(Committed(m))
             /\ DOMAIN Committed(m) = Places
  <2>1. Committed(m) = Apply(c, m) /\ RegisterFile(Apply(c, m))
    BY <1>2, OneCommitted, AppliedTo
  <2> QED
    BY <2>1 DEF RegisterFile
<1> QED
  BY <1>1, <1>2 DEF RegisterSide

LEMMA StoreRegisters == Types /\ RegisterSide /\ Store => RegisterSide'
<1> SUFFICES ASSUME Types, RegisterSide, Store PROVE RegisterSide'
  OBVIOUS
<1> PICK r \in Stored, d \in Word : Store!(r, d)
  BY DEF Store
<1>1. PICK v \in Word : v = Kept(r, d)
  BY KeptIsWord
<1>2. /\ changes' = Append(changes, <<r, v>>) /\ last' = [last EXCEPT ![r] = v]
      /\ undone' = undone \ {r} /\ mem' = mem /\ ~accessed /\ accessed'
  BY <1>1 DEF StartStore
<1>3. changes = <<>> /\ changes' = <<<<r, v>>>>
  <2>1. changes = <<>>
    BY <1>2, Zenon DEF RegisterSide
  <2>2. Append(<<>>, <<r, v>>) = <<<<r, v>>>>
    OBVIOUS
  <2> QED
    BY <1>2, <2>1, <2>2, Zenon
<1>4. PICK c \in Stored \X Word : c = <<r, v>>
  BY <1>1
<1>5. Pending(mem) = mem
  BY <1>3 DEF Pending
<1>6. changes' # <<>> /\ changes'[1] = c
  BY <1>3, <1>4
<1>7. (Pending(mem))' = Apply(c, mem)
  BY <1>2, <1>6, Zenon DEF Pending, Apply
<1>8. ASSUME NEW q \in Registers \ undone' PROVE last'[q] = Apply(c, mem)[q]
  <2>1. q \in Places /\ q \in Registers /\ (q # r => q \notin undone)
    BY <1>2 DEF Places
  <2>2. Apply(c, mem)[q] = IF q = c[1] THEN c[2] ELSE mem[q]
    BY <2>1, AppliedTo DEF RegisterSide
  <2>3. c[1] = r /\ c[2] = v
    BY <1>4
  <2>4. CASE q = r
    BY <1>2, <2>1, <2>2, <2>3, <2>4 DEF RegisterSide
  <2>5. CASE q # r
    <3>1. last'[q] = last[q]
      BY <1>2, <2>1, <2>5 DEF RegisterSide
    <3>2. last[q] = mem[q]
      BY <1>5, <2>1, <2>5 DEF RegisterSide
    <3> QED
      BY <2>2, <2>3, <2>5, <3>1, <3>2
  <2> QED
    BY <2>4, <2>5
<1>9. DOMAIN last' = Places /\ last' = [q \in Places |-> last'[q]]
  BY <1>2 DEF RegisterSide
<1>10. (RegisterFile(mem))'
  BY <1>2, Zenon DEF RegisterSide, RegisterFile
<1> QED
  BY <1>2, <1>3, <1>4, <1>7, <1>8, <1>9, <1>10 DEF RegisterSide

(* The sync applies the store of the cycle and leaves none.                   *)
LEMMA SyncRegisters == Types /\ RegisterSide /\ Sync => RegisterSide'
<1> SUFFICES ASSUME Types, RegisterSide, Sync PROVE RegisterSide'
  OBVIOUS
<1>1. CASE AssertFails
  <2>1. /\ UNCHANGED <<mem, changes, last, undone, accessed>>
    BY <1>1, Zenon DEF AssertFails, hist
  <2>2. (Pending(mem))' = Pending(mem)
    BY <2>1, Zenon DEF Pending, Apply
  <2>3. (RegisterFile(mem))'
    BY <2>1, Zenon DEF RegisterSide, RegisterFile
  <2> QED
    BY <2>1, <2>2, <2>3 DEF RegisterSide
<1>2. CASE Commit
  <2>1. /\ mem' = [Committed(mem) EXCEPT !["TIMER"] = Incremented(@)]
        /\ changes' = <<>> /\ last' = last /\ undone' = undone
    BY <1>2 DEF Commit
  <2>2. PICK m : m = Committed(mem) /\ RegisterFile(m) /\ DOMAIN m = Places
    BY CommittedIsFile DEF RegisterSide
  <2>3. mem' = [m EXCEPT !["TIMER"] = Incremented(m["TIMER"])]
    BY <2>1, <2>2
  <2>4. Incremented(m["TIMER"]) \in 0 .. TimerRange - 1
    BY <2>2, BoundsAssumption DEF RegisterFile, Incremented
  <2>5. "TIMER" \in Places /\ "TIMER" \notin Registers /\ Registers \subseteq Places
    BY DEF Places, Registers
  <2>6. mem'["TIMER"] \in 0 .. TimerRange - 1 /\ \A r \in Registers : mem'[r] = m[r]
    BY <2>2, <2>3, <2>4, <2>5
  <2>7. DOMAIN mem' = Places /\ mem' = [r \in Places |-> mem'[r]]
    BY <2>2, <2>3 DEF RegisterFile
  <2>8. (RegisterFile(mem))'
    BY <2>2, <2>6, <2>7 DEF RegisterFile
  <2>10. (Pending(mem))' = mem'
    BY <2>1 DEF Pending
  <2>11. \A r \in Registers \ undone' : last'[r] = mem'[r]
    <3>1. Pending(mem) = m
      BY <2>2, CommittedIs
    <3> QED
      BY <2>1, <2>6, <3>1 DEF RegisterSide
  <2> QED
    BY <2>1, <2>8, <2>10, <2>11 DEF RegisterSide
<1> QED
  BY <1>1, <1>2 DEF Sync

(* A reset with a store of the cycle waiting: the store's register is undone, *)
(* and applying the store leaves the others at their reset values.            *)
LEMMA ResetRegisters == RegisterSide /\ Reset => RegisterSide'
<1> SUFFICES ASSUME RegisterSide, Reset PROVE RegisterSide'
  OBVIOUS
<1>1. /\ mem' = NewMem /\ last' = NewMem
      /\ undone' = {changes[k][1] : k \in DOMAIN changes}
      /\ changes' = changes /\ accessed' = accessed
  BY DEF Reset, ResetMem
<1>2. (Pending(mem))' = Pending(NewMem)
  BY <1>1, Zenon DEF Pending, Apply
<1>3. ASSUME NEW r \in Registers \ undone' PROVE NewMem[r] = Pending(NewMem)[r]
  <2>1. CASE changes = <<>>
    BY <2>1 DEF Pending
  <2>2. ASSUME NEW c \in Stored \X Word, changes = <<c>>
        PROVE  NewMem[r] = Pending(NewMem)[r]
    <3>1. changes # <<>> /\ changes[1] = c /\ 1 \in DOMAIN changes
      BY <2>2
    <3>2. r # c[1]
      BY <1>1, <3>1
    <3>3. Pending(NewMem) = Apply(c, NewMem)
      BY <3>1, Zenon DEF Pending
    <3> QED
      BY <3>2, <3>3, AppliedTo, NewMemIsFile
  <2> QED
    BY <2>1, <2>2 DEF RegisterSide
<1>4. (RegisterFile(mem))'
  <2>1. RegisterFile(NewMem)
    BY NewMemIsFile
  <2> QED
    BY <1>1, <2>1, Zenon DEF RegisterFile
<1>5. DOMAIN last' = Places /\ last' = [r \in Places |-> last'[r]]
  BY <1>1, NewMemIsFile DEF RegisterFile
<1> QED
  BY <1>1, <1>2, <1>3, <1>4, <1>5 DEF RegisterSide

LEMMA RegisterStep == Types /\ RegisterSide /\ [Next]_vars => RegisterSide'
<1> SUFFICES ASSUME Types, RegisterSide, [Next]_vars PROVE RegisterSide'
  OBVIOUS
<1>1. CASE GetChar \/ PushChar \/ LoadRXD \/ StoreTXD \/ StoreRejected \/ UNCHANGED vars
  <2>1. UNCHANGED <<mem, changes, last, undone>> /\ (accessed => accessed')
    <3>1. CASE GetChar \/ PushChar
      BY <3>1 DEF GetChar, PushChar, hist
    <3>3. CASE UNCHANGED vars
      BY <3>3, Zenon DEF vars, hist
    <3>2. CASE LoadRXD \/ StoreTXD \/ StoreRejected
      BY <3>2 DEF LoadRXD, StoreTXD, StoreRejected, StartStore
    <3> QED
      BY <1>1, <3>1, <3>2, <3>3
  <2>2. (Pending(mem))' = Pending(mem)
    BY <2>1, Zenon DEF Pending, Apply
  <2>3. (RegisterFile(mem))'
    BY <2>1, Zenon DEF RegisterSide, RegisterFile
  <2> QED
    BY <2>1, <2>2, <2>3 DEF RegisterSide
<1> QED
  BY <1>1, StoreRegisters, SyncRegisters, ResetRegisters DEF Next

(* Between two cycles every register holds what was last stored to it since   *)
(* the last reset, in the form it keeps, or its reset value: no store is lost *)
(* or applied twice.  Set aside is a register with a store in the very cycle  *)
(* of a reset, which confreg.cpp keeps, until the next store to it.           *)
THEOREM RegistersHoldStores == Spec => []LoadsLastStore
<1>1. RegisterSide => LoadsLastStore
  <2> SUFFICES ASSUME RegisterSide, ~accessed, NEW r \in Registers \ undone
               PROVE  mem[r] = last[r]
    BY DEF LoadsLastStore
  <2>1. changes = <<>>
    BY DEF RegisterSide
  <2>2. Pending(mem) = mem
    BY <2>1 DEF Pending
  <2> QED
    BY <2>2 DEF RegisterSide
<1> QED
  BY <1>1, InitTypes, TypesStep, InitRegisters, RegisterStep, PTL DEF Spec

----------------------------------------------------------------------------
(* The bounds of the input and of the number last seen.                       *)
Chars == 1 .. NTyped
BoundsSide == /\ typed \in 0 .. NTyped /\ hand \in Chars \cup {NoChar}
              /\ ififo \in Seq(Chars) /\ current \in Half

LEMMA InitBounds == Init => BoundsSide
<1> SUFFICES ASSUME Init PROVE BoundsSide
  OBVIOUS
<1>1. typed = 0 /\ hand = NoChar /\ ififo = <<>> /\ current = 0
  BY DEF Init
<1>2. <<>> \in Seq(Chars)
  BY EmptySeq
<1> QED
  BY <1>1, <1>2, Halves, BoundsAssumption DEF BoundsSide

LEMMA BoundsStep == Types /\ InputSide /\ BoundsSide /\ [Next]_vars => BoundsSide'
<1> SUFFICES ASSUME Types, InputSide, BoundsSide, [Next]_vars PROVE BoundsSide'
  OBVIOUS
<1> HIDE DEF Chars
<1>1. CASE GetChar
  <2>1. /\ typed < NTyped /\ typed' = typed + 1 /\ hand' = typed + 1
        /\ UNCHANGED <<ififo, current>>
    BY <1>1, Zenon DEF GetChar
  <2>2. typed' \in 0 .. NTyped /\ hand' \in Chars
    BY <2>1, BoundsAssumption DEF BoundsSide, Chars
  <2> QED
    BY <2>1, <2>2 DEF BoundsSide
<1>2. CASE PushChar
  <2>1. /\ ififo' = Append(ififo, hand) /\ hand' = NoChar /\ hand # NoChar
        /\ UNCHANGED <<typed, current>>
    BY <1>2, Zenon DEF PushChar
  <2>2. ififo' \in Seq(Chars)
    BY <2>1, AppendProperties DEF BoundsSide
  <2> QED
    BY <2>1, <2>2 DEF BoundsSide
<1>3. CASE LoadRXD \/ StoreTXD \/ StoreRejected \/ Store \/ UNCHANGED vars
  <2>1. UNCHANGED <<typed, hand, ififo, current>>
    <3>1. CASE Store
      BY <3>1 DEF Store, StartStore, input
    <3>2. CASE LoadRXD \/ StoreTXD \/ StoreRejected \/ UNCHANGED vars
      BY <3>2, Zenon DEF LoadRXD, StoreTXD, StoreRejected, StartStore, vars, input
    <3> QED
      BY <1>3, <3>1, <3>2
  <2> QED
    BY <2>1 DEF BoundsSide
<1>4. CASE Sync
  <2>1. Commit
    BY <1>4 DEF Sync, InputSide
  <2>2. ififo' = Popped /\ UNCHANGED <<hand, typed>> /\ Checkout(ctx)
    BY <2>1 DEF Commit
  <2>3. Popped \in Seq(Chars)
    <3>1. ctx.fetched => ififo # <<>>
      BY DEF InputSide
    <3> QED
      BY <3>1, HeadTailProperties DEF Popped, BoundsSide
  <2>4. current' = ctx.num[1] \/ current' = current
    BY <2>2 DEF Checkout
  <2>5. ctx.num[1] \in Half
    BY DEF Types, Contexts, Word
  <2> QED
    BY <2>2, <2>3, <2>4, <2>5 DEF BoundsSide
<1>5. CASE Reset
  <2>1. ififo' = <<>> /\ UNCHANGED <<hand, typed, current>>
    BY <1>5 DEF Reset
  <2> QED
    BY <2>1, EmptySeq DEF BoundsSide
<1> QED
  BY <1>1, <1>2, <1>3, <1>4, <1>5 DEF Next

(* Every variable of the configuration registers stays in its type: above     *)
(* all, the number the model compares with, the timer and the words that      *)
(* registers make of what is stored stay in range.                            *)
THEOREM ConfregTypes == Spec => []TypeOK
<1>1. Types /\ RegisterSide /\ BoundsSide => TypeOK
  <2> SUFFICES ASSUME Types, RegisterSide, BoundsSide PROVE TypeOK
    OBVIOUS
  <2>1. changes \in Seq(Stored \X Word)
    <3>1. \A c \in Stored \X Word : <<c>> \in Seq(Stored \X Word)
      OBVIOUS
    <3>2. <<>> \in Seq(Stored \X Word)
      BY EmptySeq
    <3> QED
      BY <3>1, <3>2 DEF RegisterSide
  <2> QED
    BY <2>1 DEF TypeOK, Types, RegisterSide, RegisterFile, BoundsSide, Chars
<1> QED
  BY <1>1, InitTypes, TypesStep, InitInput, InputStep, InitRegisters, RegisterStep,
     InitBounds, BoundsStep, PTL DEF Spec

----------------------------------------------------------------------------
(* The output: a char waits in the context for the sync of its cycle.         *)
(* What the program sent, and what waits.                                     *)
Sending == IF ctx.written THEN <<ctx.data>> ELSE <<>>
Printing == IF ctx.vwritten /\ ctx.vdata <= LastAscii THEN <<ctx.vdata>> ELSE <<>>

Output == resets = 0 => /\ told = sent \o Sending
                        /\ panic = "" => shown = printed \o Printing
OutputSide == /\ told \in Seq(Half) /\ sent \in Seq(Half)
              /\ shown \in Seq(Half) /\ printed \in Seq(Half)
              /\ ctx.written \/ ctx.vwritten => accessed
              /\ Output

LEMMA Concat ==
    ASSUME NEW s \in Seq(Half), NEW c \in Half
    PROVE  s \o <<>> = s /\ s \o <<c>> = Append(s, c) /\ Append(s, c) \in Seq(Half)
<1>1. s \o <<>> = s
  BY ConcatEmptySeq
<1>2. s \o <<c>> = Append(s, c) /\ Append(s, c) \in Seq(Half)
  BY AppendIsConcat, AppendProperties
<1> QED
  BY <1>1, <1>2

LEMMA InitOutput == Init => OutputSide
<1> SUFFICES ASSUME Init PROVE OutputSide
  OBVIOUS
<1>1. /\ told = <<>> /\ sent = <<>> /\ shown = <<>> /\ printed = <<>>
      /\ ~ctx.written /\ ~ctx.vwritten
  BY DEF Init, NewContext
<1>2. Sending = <<>> /\ Printing = <<>>
  BY <1>1 DEF Sending, Printing
<1>3. <<>> \in Seq(Half) /\ <<>> \o <<>> = <<>>
  BY EmptySeq, Concat
<1> QED
  BY <1>1, <1>2, <1>3 DEF OutputSide, Output

(* A step that touches none of it.                                            *)
LEMMA OutputKept ==
    ASSUME Types, OutputSide, UNCHANGED <<told, sent, shown, printed, resets>>,
           panic' = "" => panic = "", accessed => accessed',
           UNCHANGED <<Sending, Printing>>,
           ctx'.written = ctx.written, ctx'.vwritten = ctx.vwritten
    PROVE  OutputSide'
BY DEF OutputSide, Output

LEMMA OutputStep == Types /\ OutputSide /\ [Next]_vars => OutputSide'
<1> SUFFICES ASSUME Types, OutputSide, [Next]_vars PROVE OutputSide'
  OBVIOUS
<1>1. CASE GetChar \/ PushChar \/ UNCHANGED vars
  <2>1. UNCHANGED <<told, sent, shown, printed, resets, panic, accessed, ctx>>
    <3>1. CASE GetChar \/ PushChar
      BY <3>1, Zenon DEF GetChar, PushChar, hist
    <3>2. CASE UNCHANGED vars
      BY <3>2, Zenon DEF vars, hist
    <3> QED
      BY <1>1, <3>1, <3>2
  <2>2. UNCHANGED <<Sending, Printing>>
    BY <2>1, Zenon DEF Sending, Printing
  <2> QED
    BY <2>1, <2>2, OutputKept
<1>2. CASE LoadRXD
  <2>1. /\ UNCHANGED <<told, sent, shown, printed, resets, panic>> /\ accessed'
        /\ ctx' = ctx \/ ctx' = [ctx EXCEPT !.fetched = TRUE]
    BY <1>2 DEF LoadRXD
  <2>2. /\ ctx'.written = ctx.written /\ ctx'.data = ctx.data
        /\ ctx'.vwritten = ctx.vwritten /\ ctx'.vdata = ctx.vdata
    BY <2>1 DEF Types, Contexts
  <2>3. UNCHANGED <<Sending, Printing>>
    BY <2>2, Zenon DEF Sending, Printing
  <2> QED
    BY <2>1, <2>2, <2>3, OutputKept
<1>3. CASE StoreRejected
  <2>1. panic' = "uart" /\ UNCHANGED <<told, sent, shown, printed, resets, ctx>> /\ accessed'
    BY <1>3 DEF StoreRejected, StartStore
  <2>2. UNCHANGED <<Sending, Printing>>
    BY <2>1, Zenon DEF Sending, Printing
  <2> QED
    BY <2>1, <2>2, OutputKept
<1>4. CASE StoreTXD
  <2>1. PICK c \in Half : ctx' = [ctx EXCEPT !.written = TRUE, !.data = c]
                          /\ told' = Append(told, c)
    BY <1>4 DEF StoreTXD
  <2>2. /\ UNCHANGED <<sent, shown, printed, resets, panic>> /\ ~accessed /\ accessed'
    BY <1>4 DEF StoreTXD, StartStore
  <2>3. ~ctx.written /\ Sending = <<>>
    BY <2>2 DEF OutputSide, Sending
  <2>4. /\ ctx'.written /\ ctx'.data = c
        /\ ctx'.vwritten = ctx.vwritten /\ ctx'.vdata = ctx.vdata
    BY <2>1 DEF Types, Contexts
  <2>5. Sending' = <<c>> /\ Printing' = Printing
    BY <2>4, Zenon DEF Sending, Printing
  <2>6. resets = 0 => told = sent
    BY <2>3, Concat DEF OutputSide, Output
  <2>7. resets' = 0 => told' = sent' \o Sending'
    BY <2>1, <2>2, <2>5, <2>6, Concat DEF OutputSide
  <2>8. Output'
    BY <2>2, <2>5, <2>7 DEF OutputSide, Output
  <2> QED
    BY <2>1, <2>2, <2>8, Concat DEF OutputSide
<1>5. CASE Store
  <2> PICK r \in Stored, d \in Word : Store!(r, d)
    BY <1>5 DEF Store
  <2>1. PICK v \in Word : v = Kept(r, d) /\ ctx' = Context(r, v)
    BY KeptIsWord
  <2>2. /\ UNCHANGED <<told, sent, printed, resets, panic>> /\ ~accessed /\ accessed'
        /\ shown' = IF r = "VIRTUAL_UART" /\ Low(d) <= LastAscii
                    THEN Append(shown, Low(d)) ELSE shown
    BY DEF StartStore
  <2>3. ~ctx.written /\ ~ctx.vwritten /\ Printing = <<>>
    BY <2>2 DEF OutputSide, Printing
  <2>4. CASE r = "VIRTUAL_UART"
    <3>1. Low(v) = Low(d) /\ Low(d) \in Half
      BY <2>1, <2>4 DEF Kept, Low, Word
    <3>2. /\ ctx'.vwritten /\ ctx'.vdata = Low(d)
          /\ ctx'.written = ctx.written /\ ctx'.data = ctx.data
      BY <2>1, <2>4, <3>1 DEF Context, Types, Contexts
    <3>3. /\ Sending' = Sending
          /\ Printing' = IF Low(d) <= LastAscii THEN <<Low(d)>> ELSE <<>>
      BY <3>2, Zenon DEF Sending, Printing
    <3>4. resets = 0 /\ panic = "" => shown = printed
      <4>1. printed \o <<>> = printed
        BY Concat DEF OutputSide
      <4>2. resets = 0 /\ panic = "" => shown = printed \o Printing
        BY DEF OutputSide, Output
      <4> QED
        BY <2>3, <4>1, <4>2
    <3>5. resets = 0 /\ panic = "" => shown' = printed' \o Printing'
      BY <2>2, <2>4, <3>1, <3>3, <3>4, Concat DEF OutputSide
    <3>6. Output'
      BY <2>2, <3>3, <3>5 DEF OutputSide, Output
    <3>7. shown' \in Seq(Half)
      BY <2>2, <3>1, Concat DEF OutputSide
    <3> QED
      BY <2>2, <3>6, <3>7 DEF OutputSide
  <2>5. CASE r # "VIRTUAL_UART"
    <3>1. /\ ctx'.written = ctx.written /\ ctx'.data = ctx.data
          /\ ctx'.vwritten = ctx.vwritten /\ ctx'.vdata = ctx.vdata
      BY <2>1, <2>5 DEF Context, Types, Contexts
    <3>2. UNCHANGED <<Sending, Printing>>
      BY <3>1, Zenon DEF Sending, Printing
    <3> QED
      BY <2>2, <2>5, <3>1, <3>2, OutputKept
  <2> QED
    BY <2>4, <2>5
<1>6. CASE Sync
  <2>1. CASE AssertFails
    <3>1. panic' = "fifo" /\ UNCHANGED <<told, sent, shown, printed, resets, ctx, accessed>>
      BY <2>1, Zenon DEF AssertFails, hist
    <3>2. UNCHANGED <<Sending, Printing>>
      BY <3>1, Zenon DEF Sending, Printing
    <3> QED
      BY <3>1, <3>2, OutputKept
  <2>2. CASE Commit
    <3>1. /\ sent' = IF ctx.written THEN Append(sent, ctx.data) ELSE sent
          /\ ctx' = Cleared /\ Checkout(ctx)
          /\ UNCHANGED <<told, shown, resets>>
      BY <2>2 DEF Commit
    <3>2. panic = ""
      BY <1>6 DEF Sync
    <3>3. ~ctx'.written /\ ~ctx'.vwritten
      BY <3>1 DEF Cleared, Types, Contexts
    <3>4. Sending' = <<>> /\ Printing' = <<>>
      BY <3>3 DEF Sending, Printing
    <3>5. ctx.data \in Half /\ ctx.vdata \in Half
      BY DEF Types, Contexts
    <3>6. sent' = sent \o Sending /\ sent' \in Seq(Half)
      BY <3>1, <3>5, Concat DEF Sending, OutputSide
    <3>7. printed' = IF panic' = "" /\ ctx.vwritten /\ ctx.vdata <= LastAscii
                     THEN Append(printed, ctx.vdata) ELSE printed
      BY <3>1 DEF Checkout
    <3>8. panic' = "" => printed' = printed \o Printing
      BY <3>5, <3>7, Concat DEF Printing, OutputSide
    <3>9. printed' \in Seq(Half)
      BY <3>5, <3>7, Concat DEF OutputSide
    <3>10. /\ resets = 0 => told = sent \o Sending
           /\ resets = 0 => shown = printed \o Printing
      BY <3>2 DEF OutputSide, Output
    <3>11. sent' \o <<>> = sent' /\ printed' \o <<>> = printed'
      BY <3>6, <3>9, Concat
    <3>12. Output'
      BY <3>1, <3>4, <3>6, <3>8, <3>10, <3>11 DEF Output
    <3> QED
      BY <3>1, <3>3, <3>6, <3>9, <3>12 DEF OutputSide
  <2> QED
    BY <1>6, <2>1, <2>2 DEF Sync
<1>7. CASE Reset
  <2>1. /\ resets' = resets + 1 /\ ctx' = NewContext
        /\ UNCHANGED <<told, sent, shown, printed>>
    BY <1>7 DEF Reset
  <2>2. ~ctx'.written /\ ~ctx'.vwritten /\ resets' # 0
    BY <2>1 DEF NewContext, Types
  <2>3. Output'
    BY <2>2 DEF Output
  <2> QED
    BY <2>1, <2>2, <2>3 DEF OutputSide
<1> QED
  BY <1>1, <1>2, <1>3, <1>4, <1>5, <1>6, <1>7 DEF Next

(* Every char stored to UART_TXD is sent once and in order, and every ASCII   *)
(* char stored to VIRTUAL_UART is printed once and in order, by the sync of   *)
(* its cycle.                                                                 *)
THEOREM OutputPassesOnce == Spec => []OutputOnce
<1>1. OutputSide => OutputOnce
  <2> SUFFICES ASSUME OutputSide PROVE OutputOnce
    OBVIOUS
  <2>1. resets = 0 => Lag(told, sent, IF ctx.written THEN <<ctx.data>> ELSE <<>>)
    BY DEF OutputSide, Output, Lag, Sending
  <2>2. resets = 0 /\ panic = "" =>
           Lag(shown, printed, IF ctx.vwritten /\ ctx.vdata <= LastAscii
                               THEN <<ctx.vdata>> ELSE <<>>)
    BY DEF OutputSide, Output, Lag, Printing
  <2> QED
    BY <2>1, <2>2, Zenon DEF OutputOnce
<1> QED
  BY <1>1, InitTypes, TypesStep, InitOutput, OutputStep, PTL DEF Spec
=============================================================================

# A verification development for the arch2025 RISC-V core

This directory holds TLA+ specifications of the RV64 core of this repository
(`vsrc/`), of the bus system around it and of the simulator (`verilate/`: memory,
configuration registers, test runner and test bus), the TLC runs that check them on small
instances, and TLAPS proofs of the properties that matter most.  Everything is translated from the
SystemVerilog and C++ sources; the reports under `docs/` were read for what the
code is meant to do.  `PROJECT.json` maps every definition to the lines it stands
for.

## 1. The system

| Part | Source | State it keeps | Operations |
|---|---|---|---|
| Five-stage core | `vsrc/src/core.sv`, `vsrc/pipeline/**` | `pc`, the stage registers `dataF` to `dataW`, `REG`, `CSR`, `priviledgeMode`, the delayed stall and branch signals, the interrupt flags, the request register of `memory.sv` | one clock edge |
| Bus converters | `IBusToCBus.sv`, `DBusToCBus.sv` | none | combinational |
| Arbiter | `CBusArbiter.sv` | `busy`, `index` | pick a request, release the bus |
| MMU | `MMU.sv` | walk state, saved request, walk address, physical address | start, three table reads, final access |
| PMP check | `PMP.sv` | none (two CSRs) | pass or answer in the memory's place |
| Multiplier, divider | `mul_div_unit.sv` | none (loops unrolled) | combinational |
| Simulated memory | `cbus_device.cpp`, `axi.h`, `memory.cpp` | transaction, memory words, image | load an image, start, beat, pause, reset |
| AXI bridge | `CBusToAXI.sv` | open channels, saved request, beats left | start, five channel handshakes |
| Configuration registers | `confreg.cpp`, `model.cpp` (`checkout_confreg`) | registers, two contexts, stores of the cycle, UART input queue, last number | load, store, sync, reset, input thread, check |
| Test runner | `testbench.cpp`, `testbench.h` | worker processes, a pair of pipes each, counters | fork, serve, close, kill, wait; ask, take, run |
| Test bus | `bus.h`, `cell.h` | request, task queue, destination variables | load, store, expect, tick, fence, await; cell reads, writes, swaps |
| Board | `vivado/src/**`, `mycpu_top.sv` | memory answer registers, UART | reads, writes, character output |

How they interact.  The core fetches over the instruction bus and loads and stores
over the data bus.  The converters turn both into cache-bus requests; the arbiter
contains the MMU and the PMP check and puts one request at a time on the outgoing
bus, preferring data.  A single response word (`ready`, `last`, `data`) travels
back combinationally through the PMP check and the MMU to the port the arbiter's
index selects.  The core stalls on either bus; traps, returns and CSR writes change
the mode and `satp`, which the MMU and the PMP check read combinationally.
Interrupt lines come from outside.

In the simulator the cache bus ends in a router to the memory and the configuration
registers; the model looks at the registers after each cycle, and a thread feeds their
UART with what is typed.  A test bench drives a data bus instead of the core, through
memory cells over a queue of tasks, one process or several running its tests.

What is hard in it:

- *Interleaving.*  A fetch can be answered while the memory stage is stalled and the
  other way round, a branch can be resolved in either situation, and
  `forceflush` moves the pipeline exactly once in between.  The workers of the test
  runner ask, end and die at any moment; the input thread runs beside the cycles.
- *Squashing.*  Slots keep their register numbers and lose their control bits;
  stalls and forwarding look at both.
- *Traps and interrupts.*  `pc`, the CSRs and the mode move in different stages; an
  interrupt replaces an instruction that may still be squashed, stalled or dropped.
- *Stale inputs.*  The MMU and the PMP check look at the current mode, the current index
  and the current request in states that outlive them; `uart_avail` is a cycle old.
- *Ordering.*  The AXI channels complete in any order, and the cache bus is answered
  before the write is done; a queued store is performed calls later.
- *Partial failure.*  A worker's death is seen only as the end of file of its pipe.
- *Liveness.*  `pc` waits for the fetch, the fetch for the arbiter, the arbiter for
  data, data for the memory stage; the master waits for every worker in turn.

What makes each part correct:

- core: it implements the one-instruction-at-a-time machine; each instruction is
  committed once; requests on the bus are stable; commits go on;
- arbiter, MMU, PMP: a request on the bus is stable, allowed and answered to the
  port, for the address and in the direction that was asked; the bus is released;
- memory and bridge: the words of a burst, once, in order, on one memory;
- multiplier and divider: the results of the M extension, for every operand;
- configuration registers: chars pass once and in order both ways, registers hold the
  last store since the reset, the monitor stops the wrong programs and no other;
- test runner: each test is run at most once, the report counts what passed, a failure
  is noticed, the run ends and leaves no process;
- test bus: tasks are performed in order and once, cells behave as variables.

## 2. Modules

| Module | Models | State and actions |
|---|---|---|
| `InstructionSet` | words, instruction classes, control bits, packed CSR fields | constants only |
| `ISA` | the abstract machine: one instruction, or one interrupt, per step | `pc reg csr mode mem`; one action per class, `EnterTrap`, `Interrupt` |
| `CBusArbiter` | `select`, `busy`, `index` | operators used by the next two |
| `Pipeline` | the core, the arbiter and a single-beat memory | every register of `core.sv` and `memory.sv`; `Edge(iok, dok)` is a clock edge, called by `Wait`, `FetchDone`, `DataDone` for the three possible responses of the cycle |
| `MC_Pipeline` | programs for TLC | |
| `MemPath` | converters, arbiter, MMU, PMP check; core and memory as environment | `Clock(last)` is a clock edge: `CoreStep`, `ArbiterStep`, `MmuStep`, `DevStep` |
| `PMP` | what the PMP check decides, against the architecture's regions | operators; `MemPath` asks it about each request |
| `MC_MemPath` | two pages and a table | |
| `CBusRequests` | cache-bus requests, the master, burst addresses | constants only |
| `CBus` | abstract specification: what a cache-bus slave promises | `Issue`, `Beat` |
| `BusDevice` | `CBusDevice` with `AXITransaction` and the words of `BlockMemory` | `Clock`: eval_resp, eval_req and sync of one cycle |
| `AxiBridge` | `CBusToAXI` between the master and an AXI slave | `Clock(handshake)` for the set of channels completed in the cycle |
| `MulDiv` | the loops of `mul_div_unit.sv` | `Multiply`, `Divide` (a pass each), `Return` |
| `WorkerPool` | `run_testbench`: serial and parallel | worker steps `Ask` to `FailTest`; the master's `Spawn`, `Select`, `Skip`, `Serve`, `NoticeDeath`, `Close`, `Reap`, `Finish` and the serial loop |
| `TestRun` | abstract specification: what a run of the test bench promises | `Start`, `Pass`, `Fail`, `Kill`, `Report` |
| `Confreg` | `Confreg`, its input thread, `checkout_confreg` | `GetChar`, `PushChar`, one action per kind of load and store, `Sync`, `Reset` |
| `LoadOp` | `LoadOp` and the lanes of a word (`bus.h`, `memory.cpp`) | operators on words of eight bytes |
| `DBusPipeline` | `MemoryCellGen` over `DBusGen` and `DBusPipelineGen`, with the comparing wrapper of `testbench.h` | calls (`Call`), their first halves (`StartGet`, ...), `Tick`, `FenceReturns`, `Await` |
| `MC_DBusPipeline` | cells and byte names for TLC | |
| `BlockMemory` | the image loader, stores and reset of `memory.cpp` | `MapByte`, `Save`, `Store`, `Reset` |

The proofs about a module `M` are in `M_proofs`; those about `PMP` are in `MemPath_proofs`.

Operators whose comment calls them *variants* are plausible mistakes in the definition
that follows them.  No specification uses them; they are put in its place to see that
the property of the run notices.

### Abstractions

- **Words** of the core are numbers below `WordMod`; every ALU operation is one addition,
  because the properties of the core only tell which operands an instruction got.
  Addresses count half-words, so an odd address is a misaligned one.  `MulDiv` has the
  arithmetic.
- **Instructions** are one representative of each class the decoder gives different
  control bits.  CSRs are the five the traps and interrupts use; the other ones are
  plain storage for the core.  `sstatus`, which `csrfile.sv` also maps on `mstatus`,
  is left out.
- **Instruction memory** is fixed and separate from data memory, as in every test of
  the repository; a program wraps round at its end so that all states have a successor.
- **Addresses in `MemPath`** are the paths that lead to them: the word read at path `p`
  and indexed with `v` gives the address `Append(p, v)`.  The translation of `v` under
  `root` is `<<root, v, v, v, v>>`, and a walk that mixed two requests shows it.
- **The core in `MemPath`** is what `core.sv` and `memory.sv` guarantee on their buses:
  `pc`, the mode and the instruction in E change only on an answer; the data request
  follows E by a cycle; at most two queued instructions can enter E without a fetch;
  `satp` is written by a CSR instruction in its first cycle in E.  Two things are
  assumptions on the program that the code does not enforce: only machine mode writes
  `satp` (`WritesSatp`; see section 5), and the PMP entry does not change during a run.
- **Responses** carry data only with `ready`: without one the fetched word is zero.
- **Strobes** are left out of the cache bus: a write replaces the word.  `LoadOp`,
  `DBusPipeline` and `BlockMemory` have the lanes.
- **`ntx`** of `CBusDevice` equals `tx` after each enabled `sync` and is not a variable.
- **Reset** of the hardware is the initial state; it is not asserted again.
- **Pipes** are queues whose readers see the end of file when they are empty and no
  process holds the writing end.  A dead worker's pipe keeps the char it left.  `select`
  returns the set of readable pipes of its moment.
- **A cycle of `Confreg`** is at most one access followed by `sync`: the loop that calls
  the device and the registers is the generated model's and not in the repository.  A
  word is two halves, which stand for the fields the code cuts out of it; registers that
  only keep what is stored are one kind (`LED`); the timer counts modulo a small number
  and is not stored to.
- **Bytes in `DBusPipeline` and `BlockMemory`** are names that tell where a byte came
  from.  The device on the test bus is external: it answers in a cycle of its choice.

## 3. Runs

Runs that must pass:

| Run | Question | Instance |
|---|---|---|
| `Core` | Is the pipeline the sequential machine, for every memory latency, under register, load-use, store, branch and link hazards; under `ecall`, illegal words, `mret` to user mode, CSR writes and jumps to misaligned addresses; under an interrupt at any cycle?  Are instructions committed once, requests stable, does it go on? | all bodies of four over the hazard alphabet, of three over the two trap alphabets, of three with a timer line that may rise at any cycle and stays up; 3 registers, 2 memory cells, words modulo 32 |
| `MemPath` | Are requests on the bus stable and allowed, are fetches and untranslated data accesses answered with their own word, is the bus released?  Does the PMP check decide as the architecture says, user accesses outside of the entry's region apart (section 5)? | two pages, one table; the entry denies one page to user mode; decisions for naturally aligned regions of the four sizes the code knows, words and ranges, at and next to every edge |
| `BusDevice` | Does the simulated memory implement `CBus`, with bursts, unaligned starts and pauses? | 4 words, beats of a half-word and a word, 1, 2 and 4 beats |
| `AxiBridge` | Does the bridge implement `CBus` in every channel order, and keep the AXI rules? | 2 words, half-word beats, 1, 2 and 4 beats |
| `MulDiv` | Are the loops right on every operand? | 6-bit words, 3-bit W forms |
| `WorkerPool` | Does the runner implement `TestRun`, report every failure, never write to a dead worker, keep the pipes of asking workers open, and end? | 3 tests that pass or abort at any moment; 1, 2 and 4 workers |
| `Confreg` | Do chars pass once and in order, do registers hold the last store since the reset (a store in the very cycle of a reset apart, section 5), is the monitor exact? | 2 typed chars, 2 stores to six registers, 1 reset, 3 values per half word |
| `DBusPipeline` | Do calls on cells behave as plain variables over both buses, with queued stores? | 3 calls on four cells of one, two and eight bytes in two words, two of them overlapping a third |

Why the bounds are enough.  A hazard of the core involves the instructions in F, D, E
and M, so bodies of four over an alphabet with each class as producer and as consumer
put every class next to every other at every distance; the loop adds the wrap-round.
A trap or interrupt involves the instruction before, the one replaced and the one
after: three.  Latency is not bounded: `Wait` may be taken any number of times.  The
walk state holds one request, so two pages tell a mixed walk from a right one.  The
burst logic depends on the place of the start in its block; all are tried.  The
divider's loop has no constants but the width; 6 bits give every sign, the zero divisor,
the overflow and divisors with the top bit set.  The pool has a state per worker and two
counters: two workers race, four are more than the tests, so that some are told to stop
at once, and one takes the serial path; three tests let a worker have a second one while
another has its first.  `Confreg` keeps one context between two syncs, so a second char,
a second store and a reset in between are what can be mixed up.  A call on cells is at
most four accesses; three calls put a queued store before, between and after the two
reads of a swap.

Runs that show a disagreement between the code and what is said of it (each is a finding
in `PROJECT.json`):

| Run | What happens |
|---|---|
| `LostInterrupt` | `receive_interrupt` is cleared when the decoder outputs the interrupt, also when that slot is dropped by a memory stall or squashed; the raised line is never noticed again |
| `Misrouted` | `busy` is cleared by the answer to each page-table read (`CBusArbiter.sv:93`), and the arbiter picks again while the MMU goes on with its walk; a load that comes up during the walk of a fetch is picked after the first read, and is answered with the word at the translation of the fetch's address |
| `BlockedForever` | a denied request never reaches the memory, so its `last` never comes and the arbiter stays busy |
| `LostImage` | the loader's byte mask is a shifted 32-bit constant: loading a byte clears the upper half of its word, so that of the bytes 1 to 8 the bytes 5 to 7 are lost; the shifts by 32 or more, for the bytes 5 to 8, are undefined: where they give 0 the word is left as 1, 2, 3, 4, 0, 0, 0, 8, and each one done as a shift by 32 less costs a byte of the lower half too |

### Fairness

`FairSpec` of `Pipeline` and `MemPath` assumes that the clock ticks (`WF` of `Next`) and
that the memory answers a request that stays on the bus (`WF` of the answer actions).
The memory of the simulator does so in the next cycle and the board's in two.  In
`BusDevice` the pauses are drawn in every cycle with a probability below one, so enabled
cycles keep coming (`WF` of a cycle that enables the next).  In `AxiBridge` the slave
completes each channel that stays open to it, which AXI requires.  In `WorkerPool` the
master and every worker are processes that are scheduled (`WF` of their steps), and every
test ends, passed or not.  In `Confreg` the clock ticks and the thread pushes a char it
holds.  In `DBusPipeline` the program runs and the device answers in the end.  `MulDiv`
and the runs without liveness properties need none.  Progress of a core with denied
requests is not claimed: `BlockedForever` shows why, so `FetchesGoOn` and
`BusReleasedUnlessDenied` speak of behaviours in which nothing is denied.

### The refinements

`Pipeline` implements `ISA`.  The abstract state is the one after every instruction that
has reached E is finished: registers as they will be after M and E, CSRs after their
pending writes, memory after E's store, and as `pc` the oldest instruction not yet in E
(D, else the pending branch target, else F, else the fetch address).  An instruction
therefore happens atomically when it moves from D to E; every other edge is a stutter.

`BusDevice` and `AxiBridge` implement `CBus`.  For the bridge the abstract memory is the
slave's memory with the words of a write the slave has taken but not yet stored.

`WorkerPool` implements `TestRun`: the outcomes of the tests, and the number printed when
the master is done.  A test is started when a worker takes its number from the pipe, not
when the master hands it out, so a number left in a dead worker's pipe stays waiting.

## 4. Proofs

TLAPS checks, for every value of the constants:

| Theorem | Says |
|---|---|
| `MemPath_proofs!TypesHold` | every variable of `MemPath` keeps its type |
| `MemPath_proofs!BusIsStable` | a request the memory has taken does not change before its answer |
| `MemPath_proofs!FetchesAreServed` | a fetch gets the word at the translation of its own `pc` |
| `MemPath_proofs!BareAccessesAreServed` | an untranslated access is served at its address and in its direction |
| `MemPath_proofs!Protection` | the memory never works on a transaction the PMP entry forbids |
| `MemPath_proofs!DecisionIsRight` | the PMP check decides requests inside the entry's region, and those of machine mode outside of it, as the architecture says, for the sizes the code knows |
| `Pipeline_proofs!TypesHold` | every register of the core keeps its type |
| `Pipeline_proofs!PipelineIsSequential` | the pipeline implements `ISA`, for any program, latency and interrupts, where the moments named in `Precise` do not come |
| `Pipeline_proofs!EveryCommitOnce` | an instruction is reported to the commit port once and only once |
| `Pipeline_proofs!RequestsBelongToE` | the request register belongs to the access in E, for any program |
| `Pipeline_proofs!RequestsAreHeld` | the core does not change the request the arbiter is serving |
| `AxiBridge_proofs!OneTransaction` | the slave never has two transactions, or one the bridge forgot |
| `AxiBridge_proofs!PayloadsAreHeld` | a channel keeps its payload until it is taken |
| `AxiBridge_proofs!BridgeImplementsCBus` | the bridge implements `CBus`, in every order of the channels |
| `BusDevice_proofs!DeviceImplementsCBus` | the simulated memory implements `CBus`, for every burst and pause |
| `WorkerPool_proofs!TypesHold` | every variable of the pool keeps its type |
| `WorkerPool_proofs!PipesHold` | the master never writes to a worker that is gone, and a worker never asks over a pipe the master has closed |
| `WorkerPool_proofs!FailuresAreReported` | a failure is reported exactly when a test failed |
| `WorkerPool_proofs!PoolRefinesTestRun` | the pool implements `TestRun`, for any numbers of tests and workers |
| `Confreg_proofs!MonitorIsExact` | the monitor stops the wrong programs and no other (without a reset, unless switched off) |
| `Confreg_proofs!InputIsThere` | an announced char is there when it is read |
| `Confreg_proofs!InputPassesOnce` | typed chars reach the program once and in order, or are lost to a reset |
| `Confreg_proofs!OutputPassesOnce` | chars stored for output are printed once and in order (without a reset) |
| `Confreg_proofs!RegistersHoldStores` | a register holds the last store since the reset; one stored to in the cycle of a reset is set aside until its next store |
| `Confreg_proofs!ConfregTypes` | every variable keeps its type and its bound |
| `MulDiv_proofs!Divides` | each pass of the divider keeps the invariant of long division, for every width |
| `MulDiv_proofs!Returns` | products, quotients and remainders are those of the M extension, for every width and operand |
| `DBusPipeline_proofs!RequestsAreStable` | a request on the test bus does not change before its answer |
| `DBusPipeline_proofs!NoStoreIsLost` | the memory with the queued stores performed in order is the one the program asked for |
| `DBusPipeline_proofs!LoadsAnswerInOrder` | a load returns the bytes stored when it was submitted |
| `DBusPipeline_proofs!CallsAreAtomic` | a finished call on cells did what it does on plain variables |
| `DBusPipeline_proofs!TestsFailRightly` | a test is failed exactly for an expectation that was wrong when submitted |
| `DBusPipeline_proofs!StoreThenLoad` | loading what was stored at an aligned address gives it back and leaves the other lanes |
| `DBusPipeline_proofs!ExpectIsLoad` | an expectation compares exactly the bytes a load returns |

The inductive invariants.

- `MemPath`: the properties speak of the answer and of the bus; why they hold is in the
  walk.  `WalkSide` says that a walk under way is in user mode under an unchanged `satp`,
  that its saved request is still the one its port makes (or about to be), and that its
  path is a prefix of that request's translation.  It is preserved because the core cannot
  change `pc`, mode or `satp` while a request of its is unanswered (`DataSide`, `queued`,
  `fresh`).  `DeviceSide` links the memory's transaction to the bus.
  `DecisionIsRight` needs no step: the pattern match of `PMP.sv` on an aligned address is
  the region of each size (`NapotRegion`); inside it check and architecture ask for the
  same permissions, and outside the check allows and the architecture allows machine mode
  (`DecidesAsGranted`).  The rest, user accesses outside of the region, is where they
  differ (section 5).
- `Pipeline`: `StallSide` says that the delayed stall belongs to the access in E and
  `BusSide` that a busy arbiter serves a request the core still makes; with these,
  `RequestOfE` is inductive and `RequestHeld` follows for each step.  `CommitsOnce` needs
  more of the control.  `ValidSide` says that the stages fill from the front; `SettledSide`
  that, once a request is out or an access is waited for, what is written a cycle after the
  stages move (registers, CSRs, the delayed branch) has been written; `BranchSide` that a
  branch is acted on while the branching slot is still there or has left a bubble;
  `OddSide` that a misaligned `pc` lets only traps in and no access wait.  `ShownSide` and
  `TurnSide` then tell at which point of the wait of the access in E the slot in M is
  reported: it has been when the data request has its turn on the bus, and not before.
- `Pipeline` as an implementation of `ISA`: `InOrder` says what each stage owes the program.
  `ShapeSide` ties a slot's word, class and exception together and `ZeroSide` keeps `x0`
  zero.  `DSide` is the heart: the operands of D's instruction, after forwarding, its CSR
  value and its status are those of the abstract state, it is the word at its address or a
  trap that may stand there (`Right`), and the next word follows it.  It is established
  when the slot leaves F (`OperandsArrive` for the forwarding and the load-use stall,
  `CsrArrives` for the CSRs), from `FSide`, which says the same of a fetched word and that
  nothing ahead of it jumps.  `ESide` is what tells forwarding, which compares addresses,
  that E's instruction is another one; `PendingSide` follows a branch whose instruction
  has left D; `QuietSide` is the case of a misaligned `pc`, where the stages run ahead of
  the registers.  `ArchStands` and `ArchGoes` then show the abstract state changing only by
  the instruction that enters E (`TrapIsTaken`, `InstructionIsDone`), all else being a
  stutter (`StuttersElse`).
- `AxiBridge`: `ChannelSide` says that a request opens either the read or the write
  channels, that an open address or data channel has not been taken by the slave, that
  its response channel is then open too, and that the request is still on the cache bus
  while data is open.  The last part is what holds the data payload.  For the refinement
  `DataSide` adds that, while a data channel is open, the request on the bus is the saved
  one and the beats the count has passed are those the slave has sent or taken.  A word
  taken is one more word of the abstract memory (`OneMoreWritten`); the response moves the
  words to the slave's memory and is a stutter.
- `BusDevice`: `TxSide` says that a transaction is the request still on the bus and that
  its address is the one of the beat it has come to.  `NextInBlock` is why: wrapping by
  comparison with the block's bounds, as `axi.h` does, is wrapping by the block's size.
- `WorkerPool`: `Turn` says where a worker and its pipes can be together; with `PipeSide`
  it gives `PipesHold`.  `TaskSide` says
  that a test number is with one worker at most; `OutcomeSide` what a test's outcome tells
  about who has it; `PipeSide` that a pipe the master has closed is that of a worker told
  to stop, after the last test was handed out; `DeathSide` that a failed test and a dead
  worker on an open pipe come together until the master notices; `CountSide` that the tests
  counted and the workers about to ask again are the tests that passed.
- `Confreg`: `MonitorSide` says that the context holds at most one store the model has not
  seen and whether it is a wrong one; `InputSide` that a char marked by a load was
  announced and is still first; `LineSide` that the chars read, queued and in the thread
  are one increasing line without holes.  `RegisterSide` says that the stores of the cycle
  applied in order to the registers give the last stores since the reset, but for the
  registers of stores a reset should have undone; `OutputSide` that what was told
  to be printed is what was printed followed by the context's pending chars.
- `MulDiv`: the loop invariant of long division (`Divided`: the operand's leading bits are
  quotient times divisor plus remainder, and the remainder is less than the divisor), and
  for the multiplier `MultiplySide`: product plus multiplicand times the multiplier's
  remaining bits is the result modulo the width.  Powers of two are a recursive function
  (`Pow2`), which the proofs unfold.
- `DBusPipeline`: `PipedSide` says that the request on the bus is the oldest task of the
  queue, `BareSide` that there is one exactly while `await` runs.  `LineSide` names the
  memories between the tasks of the queue: each load and expectation wants the bytes of
  the memory before it and the last memory is the program's (`ref`); the fold of
  `NothingLost` is that chain.  `WrongSide` says that a wrong expectation has failed the
  test or is still queued.  `CallSide` does the same for the steps of a call that are left:
  from the current memory they lead to what the call does to variables (`Leads`).

They rest on the assumptions named in the modules: programs are non-empty sequences of
the classes of words (`nop`, `trap` and `softtrap` are what decode makes of them, and a
store names no destination), `WordMod` is a multiple of 8 and at least 32, `Bare` is no table and `Zero`
no address, bursts have 1, 2, 4, 8 or 16 beats of one or two half-words, pools have a
worker, cells are aligned, the narrow forms of the multiplier have half its width, the
stores of `Confreg` go to its registers, PMP entries and addresses are numbers.  The
theorems about `MemPath` are also about programs that write `satp` in machine mode only:
its guard `WritesSatp` says so, not the code.

`PipelineIsSequential` has a hypothesis, `[]Precise`, because without it the statement is
false: section 5 lists moments at which the core is not the sequential machine.  `Precise`
names them as states of the pipeline, and nothing else: a misaligned access in D
(`decoder.sv:62`), the trap of an unknown SYSTEM word in D (`decoder.sv:582`), a trap
without a word in user mode in D (`core.sv:229`), and an interrupt noticed under an
`mstatus` that the trap or return in E is about to replace by one that would not let it in
(`core.sv:66`).  All other behaviours are covered, with any number of lines rising and
falling.  The hypothesis is met by every behaviour of the `Core` run: with `INVARIANT
Precise` added to `Core.cfg` TLC finds no state that breaks it.

Every safety invariant, action property and refinement of the runs that must pass is
proved.  Only model-checked is liveness, which is outside the prover's temporal reasoning.
Facts about sequences of any length, folds and `Pow2` are proved by taking a least
counterexample among the numbers.

## 5. Other divergences not covered by a run

The programs, entries and calls of the runs that must pass stay away from these cases, or
their properties set the cases aside by name (`UserOutside` in `PMP`, `undone` in `Confreg`),
and say so where they do.

In the core:

- `core.sv:66` looks at `mstatus.mie` at fetch, and the bit is cleared when the trap reaches
  the memory stage; a second enabled line that rises in between is taken on the handler's
  first instruction and overwrites `mepc`.
- `core.sv:229` updates the mode only for a slot with a non-zero instruction word.  The
  trap of an all-zero word, or of a misaligned fetch (which has no word), in user mode
  jumps to the handler and stays in user mode, though `execute.sv:144` sets
  `priviledgeMode_new = 2'b11`.
- `decoder.sv:62-71` reports a misaligned load or store on the instruction being fetched
  then: `mepc` is that one's address and the access is performed.  `docs/report.md:22`
  records that this half of the misalignment test does not pass.
- `decoder.sv:582-590` raises an exception for an unknown SYSTEM word (`ebreak`,
  `sfence.vma`) without `csrsrc`: the CSRs and the mode change, `pc` does not.
- `decoder.sv:593-625` does not look at the mode for CSR instructions; the test
  `<illegal_instr>` of `ready-to-run/lab+/4` expects a trap in user mode.  A user program
  can write `satp`; turning translation on this way withdraws the request the memory is
  working on.  `MemPath` excludes it: without the guard on the mode in `WritesSatp`, TLC
  finds `StableOnBus` violated.
- `MMU.sv:197` gives page-table reads the strobe `8'hFF`; `common.sv:183` says a read's
  strobe is zero, and the strobe is the write enable of the board's memory.
- `PMP.sv:71-90` takes every NAPOT pattern with three or more trailing ones for 4 KB, and
  `PMP.sv:101` lets a user access that matches no entry pass, which `test_pmp.sv:54`
  expects to be blocked, as the architecture does.  `Granted` states the architecture's
  rule and `PmpDecision` leaves this case out (`UserOutside`).

In the simulator:

- `cell.h:115` reads a cell of eight bytes over the queue into a `uint32_t`, though
  `cell.h:145` lists eight among the "supported memory widths"; the load writes past the
  variable.  Over the queue the run writes such a cell and reads only the
  narrower ones.
- A raw store over the queue with an empty strobe is taken for an expectation (`bus.h`,
  `DBusPipelineGen`); cells never make one.  `cell.h:275` allocates cells one behind the
  other without aligning them.
- `testbench.cpp:220`: a pool of no workers runs no test and reports that 0 tests passed; a
  skipped test (`testbench.cpp:262`) counts as passed.
- `Confreg::reset` sets the registers back but keeps the stores of the cycle, which
  the next `sync` then makes (`undone` in `Confreg` names their registers and
  `LoadsLastStore` sets them aside), and the model's `_current_num`; the number monitor, switched off and on again after several
  numbers, stops a program that skipped none (`model.cpp:143`).
- `memory.h:25` says of the mask of `store` that it "is 32 bits"; the callers pass 64.
- `_fst_enabled` (`model.h:88`) has no initial value until the option parser sets it.

## 6. Not modelled

- The board (`bram_wrapper.sv`, `cbus_crossbar.sv`, `device.sv`, `mycpu_top.sv`): it has
  two clock domains and generated memories whose timing is not in the repository, so a
  model would be of assumptions about them.
- `SimpleArbiter.sv`, `CBusMultiplexer.sv`: no top level instantiates them.
- The address router of the simulator: a search in a table that is built once.
- Of the test bench: the defer lists, the status line, the skip plug-in, the cell
  factory, bursts and the instruction-side helpers.  They do not meet the worker pool or
  the queue.  `ThreadWorker` is modelled as the input thread of `Confreg`; the thread is
  not stopped there, as the destructor of `Confreg` runs when the process ends.
- Command line, text comparison, traces and waveforms of the simulator: input and output
  only.
- Test images, generated IP and third-party headers.

## 7. Possible extensions

1. `Pipeline` and `MemPath` composed on small programs, so that the environment of
   `MemPath` is the core itself.
2. A condition on programs alone that implies `[]Precise`, proved to do so.
3. The board, once the timing of its memories is fixed in the repository.

# TLA+ models of the TCE processor simulator

TCE (the TTA-based codesign environment) designs, programs and simulates
transport-triggered processors.  This project specifies the core of its
interpretive simulator (`src/tce/src/applibs/Simulator`): the moves of an
instruction, the units that carry out operations and the detectors of their
conflicts, the control unit, the data memory, the loop that simulates clock
cycles, the stop points and the observers that listen to it, and the threads
and signal handlers that start and stop it.  Everything the other tools claim
about a machine or a program (cycle counts, exploration results, debugging)
rests on this part, its state is spread over caches, counters and flags that
have to agree, and it is shared by several threads without a lock.

## 1. Inventory

### The simulator

| Part | State | Operations | Interacts with |
|---|---|---|---|
| Function unit (`FUState`, the operation executors) | `idle_`, `trigger_`, `nextOperation_`, `nextExecutor_`, `activeExecutors_`; per executor a ring of results or a pool of executing operations | port writes, `endClock`, `advanceClock` | called by `MachineState` unless idle |
| Conflict detectors (`FSAFUResourceConflictDetector`, `FUFiniteStateAutomaton`) | state, next state, an automaton built on demand with a collision matrix per state | issue, advance, reset | executors, `simulateCycle` |
| Global control unit (`GCUState`, `TransportPipeline`) | program counter, return address, pending transfer and its time, trigger | jump, call, return; `endClock`, `advanceClock`, `reset` | `simulateCycle` |
| Moves, guards, long immediates (`ExecutableInstruction`, `ExecutableMove`, `GuardState`, `LongImmediateUnitState`, `BusState`) | registers, bus values and squash flags, guard history rings | `execute`, `endClock`, `advanceClock` | `simulateCycle` |
| Data memory (`Memory`, `IdealSRAM`, `PagedArray`, `MemorySystem`) | contents, queue of write requests | `read`, `write`, `advanceClock`, `reset` | triggers of loads and stores, `simulateCycle`, kill |
| Controller (`SimulationController`, `TTASimulationController`) | `state_`, `stopRequested_`, `stopReasons_`, program counter | `run`, `runUntil`, `step`, `next`, `reset`, `prepareToStop` | front end, events |
| Front end (`SimulatorFrontend`, `TTASim`, Proxim) | timeout threads, the controller | commands, stop requests, timeouts, kill | controller, from several threads |
| Stop points (`StopPointManager`, `Breakpoint`, `Watch`) | map and list of stop points, caches of watches | add, delete, enable, disable, ignore, condition, event | events of the cycle, `prepareToStop` |
| Events and trackers (`Informer`, `ExecutionTracker`, `RFAccessTracker`, `ProcedureTransferTracker`, `BusTracker`) | list of listeners by address; a controller and a database per tracker | register, unregister, `handleEvent`; made and destroyed by `mach`, `prog`, `kill` and the tracing settings | controller, front end |
| Trace database | rows of a database | insertions by the trackers | trackers |
| Compiled simulator | generated C++ | compile, run | front end |
| Remote and custom targets | connection to hardware | run, stop, read | front end |

### The rest of TCE

Scheduler and LLVM back end, assembler, program image generator, object models
of machines and programs, TPEF files, design space explorer and estimator,
processor generator, hardware databases and the graphical editors.  They are
sequential translations, containers or searches; `PROJECT.json` lists each with
the reason it is left out.

### What is hard

* Shortcuts: units that say they are idle are not called, executors that are
  believed inactive are not visited, idle detectors are not advanced.  The flags
  behind the shortcuts are set in one cycle and used in another.
* Exceptions: any unit may throw in the middle of a cycle; `simulateCycle`
  gives the cycle up where it is, and resuming executes the same instruction
  over what was left behind.
* Data built or cached while it is used: the automaton of a detector resolves a
  transition when it is first taken, a watch answers from a cache.
* Lists that change while they are walked: stop points delete themselves inside
  the event, and the manager then leaves the list of listeners.
* Raw pointers between objects with different lives: trackers outlive
  controllers, list entries outlive trackers.
* Threads: `state_`, `stopRequested_` and `stopReasons_` are read and written
  by the simulation thread, timeout threads, signal handlers and the graphical
  interface without a lock.
* Order inside a cycle: guards, reads and writes of the moves; `endClock` of
  all units, commit of the memories, `advanceClock` of all units.
* Reset and kill, which must bring every flag back.

### What makes each part correct

* Function unit: results appear exactly after the latency; no operation is
  skipped, lost or overwritten.
* Conflict detector: exactly the operations that would use a resource twice in
  a cycle are refused, in whatever order the automaton was discovered.
* Control unit: a transfer takes effect exactly after the delay slots.
* Moves: all moves of an instruction happen at once, under guards that are as
  old as their latency says; the bus trace shows what was transported.
* Memory: loads see the stores of earlier cycles and none of their own; no
  access outside the address space.
* Controller and front end: a stop request is never lost; a command that was
  asked to stop returns; a stop has a reason; a finished simulation stays
  finished until it is killed; killing ends it.
* Stop points: the simulation stops exactly where an enabled, unignored stop
  point whose condition holds fires, and the report names it.
* Trackers: every living tracker hears of every cycle once, and belongs to the
  loaded simulation; nothing that was destroyed is called.

The list of hazards in `PROJECT.json` gives the line where each of these can go
wrong, and the property that watches it or the reason why none does.

## 2. Modules

| Module | Models |
|---|---|
| `OperationExecutors` | the three executors as operators on their state: result ring (`SimpleOperationExecutor`), single cycle (`OneCycleOperationExecutor`), pool of executing operations (`MultiLatencyOperationExecutor`) |
| `FUState` | a function unit in the phases of a cycle; extends `OperationExecutors` |
| `FUPipeline` | abstract: an operation started now delivers its results after their latencies |
| `ConflictDetector` | the conflict detector of a unit and its lazily built automaton |
| `ResourceReservations` | abstract: the reservations of the operations in flight |
| `GCUState` | the control unit in the phases of a cycle, with exceptions, resumption and kill |
| `DelayedTransfer` | abstract: the delay-slot architecture |
| `Transports` | the loops over the moves of an instruction, guard rings, buses, immediates |
| `ParallelMoves` | abstract: simultaneous moves under delayed guards |
| `DataMemory` | the memory in the cycle, with failed cycles and kill |
| `SynchronousMemory` | abstract: loads of a cycle, then its stores |
| `SimulationController` | the simulation thread: the four commands, one step per assignment and test |
| `SimulatorFrontend` | extends it with timeout threads, stop requests and kills |
| `StopPoints` | the stop point manager, breakpoints, caching watches, the commands on them |
| `DebuggerStops` | abstract: what breakpoints and watches promise a user |
| `SimulationEvents` | the list of listeners, the trackers and their lives, on a heap |
| `FUStateProofs`, `ConflictDetectorProofs`, `GCUStateProofs`, `TransportsProofs`, `DataMemoryProofs`, `SimulatorFrontendProofs`, `StopPointsProofs`, `SimulationEventsProofs` | theorems about the module they are named after |
| `MCFUState`, `MCConflictDetector`, `MCTransports`, `MCSimulatorFrontend`, `MCSimulationEvents` | constants for the runs |

Definitions carry the names of the code; the comment of a variable gives the
member it stands for, and `map` in `PROJECT.json` the lines of every definition.
A definition named after another one with a suffix (`Prologue_StateFirst`) is a
slip that a property was seen to catch (the `mutants` of `PROJECT.json`); no
specification uses it.

**Function units.**  `WriteOperand`, `WriteTriggerPort` and the opcode-setting
port writes are the moves of an instruction; `EndClock` starts the triggered
operation; `AdvanceClock` has the three branches of the code (nothing to do,
the one-executor shortcut, all executors).  Values are opaque: the models tell
apart which operation, started when, delivers to which port.  `Detailed`
selects the executors of the detailed simulation model, `HasContext` a unit
whose operation context keeps it from being idle.  Runtime errors are left out
of this model (see 5).

**Conflict detectors.**  `Issue` is `issueOperation`, with the transition
resolved when it is unknown: a conflict makes it illegal, otherwise the
successor matrix is looked up among the states or becomes a new one.  The
executor refuses an illegal operation with an exception; any cycle may also be
given up for another reason, and the same instruction is then executed again
over the state that was left.  An idle detector is skipped, as in the code.  A
matrix is a set of (operation, delay) pairs.  `reserved` is a history variable:
the reservations that the operations in flight still have, which the abstract
specification is about.

**Control unit.**  A program is a function from addresses to control moves, all
of them being enumerated by `Init`.  `simulateCycle` is split at the points
where an exception can leave it.  A replayed instruction finds the trigger and
pending transfer of its first try; a transfer in the delay slots of another is
refused with an exception, as in the code.  Simulations are restarted only after
an orderly stop (see 5 for why).

**Moves.**  `execute` is four loops, one step per move or immediate: guards,
reads, writes, immediate updates; then the units write their ports and the
guard rings advance, or the cycle fails.  Which instruction follows is open,
except that one that failed is executed again.  A kill resets neither
registers nor guards.  Immediate registers belong to units that extend by the
sign (`SignExtending`) or by zeros.

**Memory.**  A unit is "fast" (accesses the memory in `endClock`) or "multi"
(in `advanceClock`).  Unsigned arithmetic of `checkRange` is taken modulo
2^AddressBits; packing and unpacking of words is computed.  `earlier` is a
history variable: the memory as earlier cycles left it, which the abstract
specification calls its memory.

**Controller and front end.**  The prologue of a command is a sequence of three
assignments whose order differs between `step` and the others; each is a step.
`simulateCycle` is one step for the program counter and the status, since the
other threads read nothing else.  `prepareToStop` is a test, a flag and a
reason; a requester in `Handlers` does the three without interruption, as a
signal handler does.  `GuiSpec` adds the kill of Proxim, which may come at any
time.

**Stop points.**  Commands come between cycles, in the thread that runs the
simulation.  The event is split where the code deletes stop points after the
simulation was told to stop.  The watched expression and the next instruction
are open; a condition is "the expression is not 0".  `fired` is a history
variable.  The refinement hides the list, the registration, the stop cycle and
the caches; a watch is "in doubt" while its cache is tagged with a later cycle
than the current one, which only a kill brings about.

**Events and trackers.**  The listeners are pairs of an event and an address,
and a destroyed object leaves a free address that the next one may be given, so
the model has a small heap.  An object records whether its controller and its
database are those of the front end.  The loop of `handleEvent` is one step per
entry, and the last stop point may delete itself in it.  A process that calls
a destroyed listener, uses a deleted controller, writes to a finished database
or fails an assertion stops in `fault`.  `prog` may be given at any time: its
program is accepted (`LoadProgram`), refused (`LoadProgramFails`), or accepted
with data for which the machine has no place (`LoadProgramWithoutData`, which
returns before the tracing is initialized).  As in the code, it does not look
whether a simulation is loaded, and finishes none: trackers keep living with a
deleted controller, and `initializeTracing` makes new ones of two of the four
kinds over them.  Two history variables name what was left behind: `outlived`
the living trackers whose controller such a `prog` deleted, `left` the entries
that destructors did not take out of the list.

## 3. Runs

| Run | Configuration | Question and answer |
|---|---|---|
| `fu` | `MCFUState.cfg` | A ring-buffer, a single-cycle and a two-result operation sharing ports.  No sequence of triggers makes a shortcut skip or delay an operation (`InFlightServed`), a start always finds a free cell (`StartTakesFreeCell`), idle units are empty, the pending count is the content of the ring, and the unit implements `FUPipeline`. |
| `fu_detailed` | `MCFUStateDetailed.cfg` | The same for the pool executors. |
| `conflicts` | `MCConflictDetector.cfg` | A blocking and a pipelined operation with a shared stage, errors, repeated instructions, idle cycles, kills: the automaton is sound however it is discovered, and the detector implements `ResourceReservations`. |
| `gcu` | `GCUState.cfg` | Every program of four instructions with two delay slots, exceptions anywhere, resumption: `GCUState` implements `DelayedTransfer`; what a failed cycle leaves is what its replay does (`LeftoversAreReplayed`); an idle control unit has no transfer (`IdleHasNoJump`). |
| `moves` | `MCTransports.cfg` | A swap, chained, guarded and complementary moves, immediates read in the instruction that updates them, in registers extended by the sign and by zeros; guards of latency 1, 2 and 3; failed cycles and kills: the loops implement `ParallelMoves`, the bus trace shows what was transported. |
| `memory` | `DataMemory.cfg` | Two load-store units of the same kind, failed and repeated cycles, kills: the memory implements `SynchronousMemory`, and no write leaves the address space or its pages. |
| `stop` | `MCSimulatorFrontend.cfg` | `run`, `runUntil`, `next` with two timeout threads and a user in a thread of its own: no cycle starts after a request was accepted (`NoCycleAfterStop`), commands asked to stop return (`CommandsEnd`), finished stays finished. |
| `stop_signals` | `MCSimulatorFrontendSignals.cfg` | All commands, requests from a signal handler: every stop has a reason, `step` and `next` return early only when somebody else asked, commands return. |
| `gui_kill` | `MCSimulatorFrontendKill.cfg` | violated: a kill from the graphical interface takes its own stop request back. |
| `stop_points` | `StopPoints.cfg` | Two stop points with every option, one after the other or together, over short executions with kills: the manager implements `DebuggerStops`, listens exactly while it has stop points, and reports what stopped the simulation. |
| `events` | `MCSimulationEvents.cfg` | Every order of settings, `mach`, `prog` (accepted, refused, failed, repeated), `kill`, stop points and cycles on a heap of four objects: a living tracker is told of each cycle once (`HeardOnce`); a dangling entry was left by one of two destructors, of the rf tracker or of a manager with stop points (`DanglingEntries`); trackers belong to the loaded simulation, except those a repeated `prog` left behind, of which only rf and procedure trackers are leaked (`FreshTrackers`). |
| `restart` | `MCSimulationEventsRestart.cfg` | violated: with register file tracing, the first cycle after a kill calls the destroyed tracker, although `KillCommand.cc:61` says the simulation can be restarted. |

The findings in `PROJECT.json` quote the line each violated property comes from.

**Bounds.**  `fu`: latencies 3, 1 and 2 are the smallest that use each executor,
let two operations be in flight in the ring, and let two operations finish on
one port in the same cycle.  `SizeT`, the modulus of the unsigned counter, is
larger than any count that is reached unless it wraps below zero.  `conflicts`:
tables four cycles wide with a stage kept for two cycles and a stage needed
late make two operations legal, illegal and legal again at different
distances.  `gcu`: with two delay slots a second transfer can be triggered in
either slot of a first; four instructions leave room for a target outside the
slots.  `moves`: rings of one, two and three entries and two buses; two
immediates, one of them negative; one register of each kind of immediate unit.  `memory`: three addresses, words of one and
two units of one bit, addresses below, at the start and at the end of the space,
values with more bits than a unit; `MaxQueue` bounds the requests left from a
failed cycle before it is repeated, each repetition adding at most the requests
of one instruction.  `stop`: two timeout threads let one outlive its command
while the next command has its own; the program has a loop, a call, a procedure
that need not return and a jump out of the program.  `stop_points`: two handles,
of which one may have options (`Tuned`), two addresses, two values and two
clock cycles let one stop point delete itself before another is visited and a
kill bring a cycle number back.  `events`: four addresses hold a manager, two
trackers (`MaxTraced`) and a place that was freed or a tracker that was leaked;
the constraint `FewStrays` does not go on from states with more than two
(`MaxStrays`) left entries and outlived trackers together, enough for one of
each, or for an entry of each destructor; addresses are symmetric.

**Fairness.**  Only the simulation thread is fair (`WF_vars(Simulate)`): the
operating system runs a thread that can run, and no step of it waits for
anybody.  Nothing is assumed of timeout threads, users or signals, and
`CommandsEnd` only speaks of commands that were asked to stop, and of `step`.
The safety-only models have no fairness.

**Deadlock** is checked in every run but `events` and `restart`, in which a
process with a fault has ended.  The units and the memory can always go
on with another cycle, and the front end with another command or request; a
process that was terminated stutters (`Terminated`).

## 4. Proofs

All theorems hold for every value of the constants that satisfies the ASSUMEs
of the module (at least one instruction, positive latencies, a start address not
above the end address, and so on).  The two assumptions named `PowersAssumption`
say that powers of two are positive and that 2^(m+n) = 2^m * 2^n, within the
widths of the constants: true of all numbers and evaluated by TLC on every run,
they are written down because the provers know nothing about `^`.

* `FUStateProofs`: `Invariance` (`IndInv`), and from it `TypeCorrect`,
  `NoOperationSkipped`, `NoOperationOverwritten`, `IdleIsEmpty`, `CountsAreExact`.
  The invariant is needed because neither shortcut is justified by the current
  cycle alone: it ties `activeExecutors_` and `nextExecutor_` to the set of
  executors that hold an operation, says that executors are ready between
  cycles, and gives each executor its consistency (`ExecutorInv`: the ring's
  count is its content; in a pool the stages of the operations in flight are
  distinct, so one of the `latency` cells is free).  `Refinement` shows that the
  unit implements `FUPipeline`: the lemmas about executors say that starting an
  operation adds one with its full latency to those in flight, and advancing
  takes one cycle from each and puts on its port exactly the one with none left;
  `NothingTicks` is the case of the units and executors that are skipped.
* `ConflictDetectorProofs`: `DetectorTypes`, `LazyAutomatonSound`,
  `DetectorMatrixExact`, `RepeatedIssueHarmless` and the refinement
  `DetectorImplementsReservations`, for every set of operations, resources and
  tables.  The four properties together are inductive (`IndInv`): a transition
  resolved now is right later because matrices never change and no two states
  share one; the matrix of a state is exact because the reservations shift with
  it, and an idle detector has nothing to shift.
* `GCUStateProofs`: `Invariance`, `TypeCorrect`, `NoJumpSleptOver`,
  `LeftoversReplayed` and `Refinement`, the simulation of `DelayedTransfer` for
  every program and number of delay slots.  The invariant relates the pending
  time to the abstract countdown and says what a failed cycle may leave behind.
* `TransportsProofs`: `TransportTypes`, `BusTraceFaithful` and the refinement
  `TransportsAreParallel`, for every machine, guard latency and instruction.
  The invariant says, for each loop and each index, what the loop has done so
  far and that the registers are still those of the start of the instruction
  until the writing loop (`RegistersKept`, `GuardsEvaluated`, `BusesRead`,
  `RegistersWritten`); lemmas on the modulus show that a ring of L entries
  returns the value of L cycles ago.  `ImmediatesKeepTheirSign` is about the
  extension of long immediates of every width.  It assumes `SignReachesTop`, that
  the registers are as wide as the word or as the immediates, because the code
  extends by zeros otherwise (see 5); `ExtendNumber` is the arithmetic of the two
  shifts, `ZeroExtendNumber` that of a unit that extends by zeros, and
  `ImmediatesWritten` says which registers the loop has written.
* `DataMemoryProofs`: `QueueChecked` (`InsideInv`) and `WritesAlwaysInside`,
  which assumes that no access is larger than the end address plus one (otherwise the
  unsigned bound of `checkRange` wraps) and that `end - start` is no multiple of the
  page size (otherwise the page table is one page short).  The lemmas
  `RangeCheckExact` and `PagesCover` say exactly what these two computations give.
  `MemoryTypes` (under the first assumption) and the refinement
  `MemoryIsSynchronous`, which also assumes units of one kind (`OneKind`; with
  both kinds a load misses or sees stores of its own cycle, see 5).  `ReadWord`
  shows by induction over the units of a word that `Memory::read` computes the
  word of the abstract memory, `CommittedAt` that the last request for a unit
  decides what committing the queue leaves there.  The invariant `CycleInv` says what the
  queue holds in each phase: with fast executors the stores of the units so far,
  after what a failed attempt at the same instruction left (`Queued`), which is
  harmless because those stores are made again; with detailed ones the stores of
  the cycle before, which are committed at the start of the next.
* `SimulatorFrontendProofs`: `TypeCorrect`; `StopPending` and `StopsAfterCycle`
  for any number of requesting threads, assuming that `step` is not among the
  commands (see 5); `FinishedStays`; `ReasonsKept`, `StopsHaveReasons`,
  `ShortStepsExplained`, assuming no timeouts and that the user's requests are
  signals (an asynchronous thread may set the flag before it inserts the
  reason).  `StopInv` adds that no request can be accepted before the prologue
  is over, `ReasonInv` explains every raised flag at every point of a command.
* `StopPointsProofs`: `StopPointTypes`, `ManagerListens`, `FiredReported` and
  the refinement `StopPointsImplement`, for any number of stop points.  The
  invariant `IInv` adds that after a stop the answers of the stop points that
  fired are still what they were in the event, which is what the report relies
  on when it evaluates them again.
* `SimulationEventsProofs`: `TypesKept`, `TrackersFresh`, `OnlyLeftEntriesDangle`
  and `ToldExactlyOnce`, for every heap and every sequence of commands, repeated
  and refused programs included.  The invariant is about the heap and not about
  the members, because a leaked tracker has no member: `Known` says of every
  living tracker that it is fresh or outlived, and where its member is; `ListInv`
  says that the list has no entry twice, names every living tracker, and names
  nothing else except the manager and what destructors left; `LoopInv` says
  that in the middle of an event those before the index, and only they, were
  told.  A step that makes or destroys trackers is split into the lemmas about
  `FinishedList`, about the additions of `InitializeTracing` and about the heap
  it leaves.

Only model-checked: liveness (`CommandsEnd`) and everything with fairness or
ENABLED, which the prover does not do.  Every invariant, action property and
refinement of the passing runs is stated by a theorem, with the hypotheses
given above.  No module uses RECURSIVE operators; what the recursive functions
compute (a word read from memory) is proved with the lemma `Induct`, which
states induction for sets of numbers and follows from the existence of minimal
elements (`WFMin` of the library), because the induction theorems with an
operator as parameter cannot be used.

The proofs found one mistake in the models: a CASE whose guards overlap is any
one of its alternatives, so nothing about what `SimulationEvents` left in the
list could be proved although TLC, which takes the first, saw no error.  It is
written with IF now.

## 5. Differences noticed while modelling, without a run

Where a property above is stated for part of the behaviours only, this is why:

* `step` announces `RUNNING` before it clears `stopRequested_`
  (SimulationController.cc:230), so a request that another thread makes between
  the two is accepted and erased, although TTASimulationController.cc:86 says
  that `prepareToStop` always stops the simulation.  `NoCycleAfterStop` is
  violated with `step` among the commands of run `stop`.
* A timeout thread is neither joined nor cancelled (SimulatorFrontend.cc:997);
  one that wakes late stops a later command, even a `step`, of which line 1048
  says that a timeout makes no sense.
* A killed simulation that had stopped on a runtime error keeps the trigger of
  the control unit (GCUState.cc:59), so its first cycle may start a jump of the
  old one.  `ImplementsArchitecture` is about restarts after an orderly stop.
* A trigger that throws leaves an operation in the result ring that the count
  of pending operations does not include (SimpleOperationExecutor.cc:125), and a
  repeated instruction starts it again.  `FUState` has no runtime errors.
* A unit with the multi-latency executor loads in `advanceClock`, after the
  commit of the stores that fast executors made in the same cycle
  (MultiLatencyOperationExecutor.cc:182 against base/memory/Memory.hh:61).  Run
  `memory` has units of one kind.
* The sign extension of a long immediate shifts within a 32-bit word
  (LongImmediateRegisterState.cc:80): in a unit with narrower registers a
  negative immediate is extended by zeros.  `ImmediatesExtended` is checked
  with registers as wide as the word.
* A watch that was looked at before a kill may give its old answer once, because
  the clock is set back and the tag of its cache is not (Watch.cc:111);
  `DebuggerStops` grants this doubt.  Disabled watches are not evaluated, so a
  change made in the meantime counts when the watch is enabled again.
* A manager of stop points at the address of a destroyed register file tracker
  is called for `SE_CYCLE_END`; `HeardOnce` leaves that case out.

Others:

* `SimulationController::reset` sets the program counter to the entry address,
  then `resetAllFUs` resets the control unit, which sets it to 0
  (SimulationController.cc:415; the comment at line 405 says the initial value).
* `runUntil` returns without `SE_SIMULATION_STOPPED` when the program finishes
  (SimulationController.cc:346).
* `SE_NEW_INSTRUCTION` is sent after a cycle, so a breakpoint at the first
  instruction does not stop a simulation that starts there.
* `SimulatorFrontend::stopReasonCount` returns a truth value instead of a count
  (SimulatorFrontend.cc:1373), so only the first reason is looked at.
* The report of a stop evaluates the disabled and ignored stop points too, and
  cannot name those that deleted themselves (StopPointManager.cc:396).
* `next` is terminated by an exception its specification does not allow when
  the program jumps outside its instructions (SimulationController.cc:284).
* Switching register file tracing on while the database is open for another
  kind of trace fails an assertion at the next kill (SimulatorFrontend.cc:1534);
  the model contains it as `FinishFault`.
* The comment above `execute` (ExecutableInstruction.icc:41) says that the long
  immediate updates come first, then the guards.  The code has them last, and its
  inline comment (line 60) says that they are not visible to the moves of the
  same instruction; `ParallelMoves` promises what the code does.
* A program loaded over another one replaces the controller and the manager
  without finishing the old simulation (SimulatorFrontend.cc:696; the comment
  at line 656 assumes that the old data is freed).  The execution tracker keeps
  its deleted controller and the trackers of registers and procedures are
  leaked, so the next cycle or `kill` ends in a fault.  A `prog` that is refused
  and then one that is accepted do the same, since the refusal deletes the
  controller only (lines 336 to 349).
* `prog`, a breakpoint, `mach`, `prog`: `mach` keeps the manager with its stop
  points, line 696 deletes it, and ~StopPointManager (StopPointManager.cc:67)
  does not unregister it; the first `SE_NEW_INSTRUCTION` of the new simulation
  calls a destroyed manager, or the new one if it was given the same address.
* When the initial data of a program have no place (`initializeDataMemories`
  throws) the simulation may stay loaded without any tracker.
* With memory access tracking the wrapped memory is deleted when the proxy is
  made (SimulatorFrontend.cc:1743), and word reads of the proxy are
  implemented with a write (MemoryProxy.hh:70).
* Registers and guard histories are not reset when a simulation is killed.
* Without assertions (`NDEBUG`) the index of a collision matrix has no width
  and height (FUCollisionMatrixIndex.cc:58); the models are of a build with them.

## 6. Not modelled

Values computed by operations; the detailed operation simulator plug-ins; runtime
errors inside a function unit; floating point memory accesses; several cores
and address spaces; the construction of the machine state from a machine
description; what trackers write; scripts of conditions that throw; the other conflict detectors of the benchmark tool;
and the components listed as not modelled in `PROJECT.json`.  Most of the
repository (newlib, the compiler, the hardware description tools) is vendored,
generated or a sequential translation without state over time, so the share of
all lines that the models stand for stays small.

## 7. Plan

1. Done: function units, control unit, controller and front end, data memory.
2. Done: stop points, events and trackers, moves and guards, conflict
   detectors, each with an abstract specification or an account of the objects'
   lives, and proofs.
3. The whole cycle composed: control unit, one function unit with loads and
   stores and the memory, under exceptions and resumption.
4. Exit points: the static analysis against executions of programs.
5. Done: a theorem for each safety property and refinement of the runs.
6. Proofs: the hypotheses that can be weakened (`step` among the commands with
   the exact window in which a request is lost; units of both kinds with the
   order of access that they really have).

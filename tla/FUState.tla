------------------------------ MODULE FUState -------------------------------
(***************************************************************************)
(* One function unit of the simulated machine (class FUState) through the  *)
(* phases of SimulationController::simulateCycle: moves write its input    *)
(* ports, endClock starts the triggered operation, advanceClock moves the  *)
(* operations in flight one cycle on and writes the results that are due.  *)
(*                                                                         *)
(* MachineState calls neither endClock nor advanceClock of a unit that     *)
(* says it is idle, and advanceClock itself visits only the executors it   *)
(* believes to be active.  What has to hold is that these shortcuts never  *)
(* cost an operation a cycle.                                              *)
(***************************************************************************)
EXTENDS OperationExecutors

CONSTANT HasContext   \* the operation context holds state: context().isEmpty() is false

ASSUME HasContextAssumption == HasContext \in BOOLEAN

VARIABLES phase,           \* of simulateCycle: "moves" or "advance"
          in,              \* the input ports
          out,             \* the output ports
          idle,            \* idle_
          trigger,         \* trigger_
          nextOperation,   \* nextOperation_, None when NULL
          nextExecutor,    \* nextExecutor_, None when NULL
          activeExecutors, \* activeExecutors_
          exec             \* execList_

vars == <<phase, in, out, idle, trigger, nextOperation, nextExecutor,
          activeExecutors, exec>>

Init ==
    /\ phase = "moves"
    /\ in \in Values
    /\ out = [p \in Ports |-> NoResult]
    /\ idle = FALSE
    /\ trigger = FALSE
    /\ nextOperation = None
    /\ nextExecutor = None
    /\ activeExecutors = 0
    /\ exec = [o \in Ops |-> NewExecutor(o)]

IsIdle == idle /\ ~ HasContext

-----------------------------------------------------------------------------
(* Moves                                                                   *)

(* A move to a port that neither triggers nor sets the opcode.             *)
WriteOperand(v) ==
    /\ phase = "moves"
    /\ in' = v
    /\ UNCHANGED <<phase, out, idle, trigger, nextOperation, nextExecutor,
                   activeExecutors, exec>>

SetTriggered_StaysIdle == trigger' = TRUE /\ idle' = idle

SetTriggered == trigger' = TRUE /\ idle' = FALSE

(* TriggeringInputPortState::setValue: the operation is the previous one.  *)
WriteTriggerPort(v) ==
    /\ phase = "moves"
    /\ SetTriggered
    /\ in' = v
    /\ UNCHANGED <<phase, out, nextOperation, nextExecutor, activeExecutors, exec>>

SetOperation(o, found) ==
    /\ nextOperation' = o
    /\ nextExecutor' = IF found THEN o ELSE None

(* OpcodeSettingVirtualInputPortState::setValue; `found' tells whether the *)
(* port was built with the executor.                                       *)
WriteOpcodePort(o, v, found) ==
    /\ phase = "moves"
    /\ SetOperation(o, found)
    /\ SetTriggered
    /\ in' = v
    /\ UNCHANGED <<phase, out, activeExecutors, exec>>

-----------------------------------------------------------------------------
(* FUState::endClock                                                       *)

(* writes[p] goes to port p for p in its domain.                           *)
WritePorts(writes) ==
    out' = [p \in Ports |-> IF p \in DOMAIN writes THEN writes[p] ELSE out[p]]

Triggered == ~ IsIdle /\ trigger

StartNext(ready) ==
    LET o == nextOperation
    IN  /\ nextExecutor' = o
        /\ trigger' = FALSE
        /\ exec' = [exec EXCEPT ![o] = StartOperation(exec[o], o, in, ready)]
        /\ WritePorts(StartWrites(o, in))
        /\ IF StartOperation(exec[o], o, in, ready).hasPending
           THEN activeExecutors' = activeExecutors + 1 /\ idle' = FALSE
           ELSE UNCHANGED <<activeExecutors, idle>>
        /\ UNCHANGED <<in, nextOperation>>

EndClock ==
    /\ phase = "moves"
    /\ phase' = "advance"
    /\ \/ /\ Triggered
          /\ nextOperation # None
          /\ \E ready \in BOOLEAN : StartNext(ready)
       \/ /\ ~ Triggered
          /\ UNCHANGED <<in, out, idle, trigger, nextOperation, nextExecutor,
                         activeExecutors, exec>>

(* Triggered without an opcode: endClock throws and changes nothing.       *)
EndClockWithoutOpcode ==
    /\ phase = "moves"
    /\ Triggered
    /\ nextOperation = None
    /\ UNCHANGED vars

-----------------------------------------------------------------------------
(* FUState::advanceClock                                                   *)

PendingOps(ex) == {o \in Ops : ex[o].hasPending}

OnlyNextActive_AnyCount ==
    /\ activeExecutors # 0
    /\ nextExecutor # None
    /\ exec[nextExecutor].hasPending

OnlyNextActive ==
    /\ activeExecutors = 1
    /\ nextExecutor # None
    /\ exec[nextExecutor].hasPending

(* The executors write in execList_ order: of two results for one port the *)
(* later executor's stays.                                                 *)
WriteInOrder(writes) ==
    LET writers(p) == {o \in DOMAIN writes : p \in DOMAIN writes[o]}
    IN  out' = [p \in Ports |-> IF writers(p) = {} THEN out[p]
                                ELSE writes[Max(writers(p))][p]]

WriteResults(advanced) ==
    WriteInOrder([o \in advanced |-> AdvanceWrites(exec[o], o)])

AdvanceExecutors(advanced) ==
    exec' = [o \in Ops |-> IF o \in advanced THEN AdvanceExecutor(exec[o], o)
                                             ELSE exec[o]]

NothingActive ==
    /\ activeExecutors = 0
    /\ ~ HasContext
    /\ idle' = TRUE
    /\ UNCHANGED <<out, activeExecutors, exec>>

AdvanceNextOnly ==
    /\ OnlyNextActive
    /\ AdvanceExecutors({nextExecutor})
    /\ WriteResults({nextExecutor})
    /\ IF exec'[nextExecutor].hasPending
       THEN activeExecutors' = 1 /\ idle' = FALSE
       ELSE activeExecutors' = 0 /\ idle' = TRUE

AdvanceAll ==
    /\ ~ (activeExecutors = 0 /\ ~ HasContext)
    /\ ~ OnlyNextActive
    /\ AdvanceExecutors(PendingOps(exec))
    /\ WriteResults(PendingOps(exec))
    /\ activeExecutors' = Cardinality(PendingOps(exec'))
    /\ idle' = (activeExecutors' = 0 /\ ~ HasContext)

AdvanceClock ==
    /\ phase = "advance"
    /\ phase' = "moves"
    /\ UNCHANGED <<in, trigger, nextOperation, nextExecutor>>
    /\ \/ ~ IsIdle /\ (NothingActive \/ AdvanceNextOnly \/ AdvanceAll)
       \/ IsIdle /\ UNCHANGED <<out, idle, activeExecutors, exec>>

-----------------------------------------------------------------------------
Next ==
    \/ \E v \in Values : WriteOperand(v) \/ WriteTriggerPort(v)
    \/ \E o \in Ops, v \in Values, found \in BOOLEAN : WriteOpcodePort(o, v, found)
    \/ EndClock
    \/ EndClockWithoutOpcode
    \/ AdvanceClock

Spec == Init /\ [][Next]_vars

-----------------------------------------------------------------------------
(* Properties                                                              *)

(* Types of the ports, flags and executors.                                *)
TypeOK ==
    /\ phase \in {"moves", "advance"}
    /\ in \in Values
    /\ DOMAIN out = Ports
    /\ idle \in BOOLEAN
    /\ trigger \in BOOLEAN
    /\ nextOperation \in Ops \cup {None}
    /\ nextExecutor \in Ops \cup {None}
    /\ activeExecutors \in Nat
    /\ DOMAIN exec = Ops
    /\ \A o \in Ops : exec[o] \in Executor(o)

BusyOps == {o \in Ops : BusyCells(exec[o]) # {}}

(* The executors the next advanceClock will visit.                         *)
Visited ==
    CASE IsIdle -> {}
      [] ~ IsIdle /\ activeExecutors = 0 /\ ~ HasContext -> {}
      [] ~ IsIdle /\ OnlyNextActive -> {nextExecutor}
      [] OTHER -> PendingOps(exec)

(* Idle skipping, the one-executor shortcut and hasPendingOperations_ never *)
(* leave out an executor that holds an operation.                           *)
InFlightServed == phase = "advance" => BusyOps \subseteq Visited

(* startOperation never takes the cell of an operation still in flight.    *)
StartTakesFreeCell ==
    phase = "moves" =>
        \A o \in Ops :
            CASE Kind(o) = "simple" -> ~ exec[o].cell[exec[o].nextSlot].busy
              [] Kind(o) = "multi"  ->
                    ~ exec[o].cell[FindFreeExecutingOperation(exec[o], o)].busy
              [] OTHER -> BusyCells(exec[o]) = {}

(* A unit that says it is idle holds no operation and no trigger: the      *)
(* comment of FUState::isIdle.                                             *)
IdleMeansEmpty == IsIdle => BusyOps = {} /\ ~ trigger

(* pendingOperations_ counts the operations in the ring, so the executor   *)
(* reports pending operations until the last of them has been delivered.   *)
PendingCountsRing ==
    \A o \in Ops : Kind(o) = "simple" =>
        exec[o].pendingOperations = Cardinality(BusyCells(exec[o]))

(* The operations in an executor, and in all of them; the operation that   *)
(* endClock will start.                                                    *)
InFlight(e, o) ==
    {[op |-> o, in |-> e.cell[i].val, left |-> CyclesLeft(e, o, i)] : i \in BusyCells(e)}
Flight == UNION {InFlight(exec[o], o) : o \in Ops}
Request == IF trigger THEN nextOperation ELSE None

Pipeline == INSTANCE FUPipeline WITH request <- Request, flight <- Flight

(* Every result is on its port exactly its latency after the trigger,      *)
(* through all the shortcuts of endClock and advanceClock.                 *)
ImplementsPipeline == Pipeline!Spec

-----------------------------------------------------------------------------
(* The inductive invariant behind the properties                           *)

ExecutorInv(e, o) ==
    /\ e \in Executor(o)
    /\ BusyCells(e) # {} => e.hasPending
    /\ Kind(o) = "simple" => e.pendingOperations = Cardinality(BusyCells(e))
    /\ Kind(o) = "one" => BusyCells(e) = {}
    /\ Kind(o) = "multi" =>
          /\ \A i \in BusyCells(e) : e.cell[i].stage < Latency[o]
          /\ \A i, j \in BusyCells(e) : e.cell[i].stage = e.cell[j].stage => i = j
          /\ e.freeExecOp # None => e.freeExecOp \notin BusyCells(e)

(* Every operation that was in its first cycle has been advanced.          *)
ReadyToStart(e, o) ==
    /\ Kind(o) = "simple" => e.nextSlot \notin BusyCells(e)
    /\ Kind(o) = "multi" => \A i \in BusyCells(e) : e.cell[i].stage > 0

(* The shortcuts: no active executor means nothing in flight; the single   *)
(* active executor is nextExecutor_ unless a new operation has been chosen *)
(* and not started yet, and choosing sets trigger_.                        *)
ShortcutsInv ==
    /\ idle => activeExecutors = 0 /\ ~ trigger
    /\ phase = "advance" => ~ trigger
    /\ activeExecutors = 0 => BusyOps = {}
    /\ ~ trigger /\ OnlyNextActive => BusyOps \subseteq {nextExecutor}

(* Type correctness, the consistency of every executor, readiness for the  *)
(* next trigger between cycles, and the meaning of the shortcut flags: the *)
(* invariant from which the properties above follow.                       *)
IndInv ==
    /\ TypeOK
    /\ \A o \in Ops : ExecutorInv(exec[o], o)
    /\ phase = "moves" => \A o \in Ops : ReadyToStart(exec[o], o)
    /\ ShortcutsInv
=============================================================================

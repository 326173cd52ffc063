------------------------- MODULE OperationExecutors -------------------------
(***************************************************************************)
(* The operation executors of the interpretive simulation engine: the      *)
(* objects that turn the trigger of an operation into a write of its       *)
(* result `latency' cycles later.  An executor is a record and each of its *)
(* methods an operator from records to records, so that FUState can keep   *)
(* one executor per operation and the lemmas about them can be stated once.*)
(*                                                                         *)
(*   simple   SimpleOperationExecutor: a ring of `latency' cells; the cell *)
(*            before nextSlot_ (cyclically) is the next one to be written. *)
(*   multi    MultiLatencyOperationExecutor: a pool of `latency'           *)
(*            ExecutingOperations, each counting its own stages.           *)
(*   one      OneCycleOperationExecutor: no storage, the result is written *)
(*            by startOperation itself.                                    *)
(*                                                                         *)
(* The value an operation computes is abstracted to the operation and the  *)
(* inputs it was computed from.                                            *)
(***************************************************************************)
EXTENDS Integers, FiniteSets, FiniteSetsExt

CONSTANTS NumOps,      \* operations of the unit, numbered in execList_ order
          Ports,       \* output ports of the unit
          Values,      \* values of the input ports, read as one
          Latency,     \* HWOperation::latency()
          OutLatency,  \* HWOperation::latency(output), a function on ports
          Detailed,    \* detailedSimulationModel_
          SizeT        \* number of values of std::size_t

Ops == 1 .. NumOps

ASSUME NumOpsAssumption == NumOps \in Nat
ASSUME ValuesAssumption == Values # {}
ASSUME LatencyAssumption == Latency \in [Ops -> Nat \ {0}]
ASSUME OutLatencyAssumption ==
    /\ DOMAIN OutLatency = Ops
    /\ \A o \in Ops : /\ DOMAIN OutLatency[o] \subseteq Ports
                      /\ \A p \in DOMAIN OutLatency[o] :
                            OutLatency[o][p] \in 1 .. Latency[o]
ASSUME SizeTAssumption ==
    SizeT \in Nat /\ \A o \in Ops : Latency[o] < SizeT

None == -1

NoResult == [op |-> 0]
Result(o, v) == [op |-> o, in |-> v]

(* The executor MachineStateBuilder gives an operation.                    *)
Kind(o) ==
    IF Detailed \/ \E p \in DOMAIN OutLatency[o] : OutLatency[o][p] < Latency[o]
    THEN "multi"
    ELSE IF Latency[o] = 1 THEN "one" ELSE "simple"

Slots(o) == 0 .. Latency[o] - 1
Cell == [busy : BOOLEAN, val : Values, stage : Nat]

Executor(o) == [cell : [Slots(o) -> Cell],
                nextSlot : Slots(o),
                pendingOperations : 0 .. SizeT - 1,
                hasPending : BOOLEAN,
                freeExecOp : Slots(o) \cup {None}]

NewExecutor_PastTheEnd(o) ==
    [cell |-> [i \in Slots(o) |-> [busy |-> FALSE, val |-> CHOOSE v \in Values : TRUE,
                                   stage |-> 0]],
     nextSlot |-> Latency[o],
     pendingOperations |-> 0,
     hasPending |-> Kind(o) # "one",
     freeExecOp |-> None]

(* Only the ring buffer and the pool start with hasPendingOperations_ set. *)
NewExecutor(o) ==
    [cell |-> [i \in Slots(o) |-> [busy |-> FALSE, val |-> CHOOSE v \in Values : TRUE,
                                   stage |-> 0]],
     nextSlot |-> 0,
     pendingOperations |-> 0,
     hasPending |-> Kind(o) # "one",
     freeExecOp |-> None]

BusyCells(e) == {i \in DOMAIN e.cell : e.cell[i].busy}

-----------------------------------------------------------------------------
(* SimpleOperationExecutor                                                 *)

SimpleStart_NotCounted(e, o, v) ==
    [e EXCEPT !.cell = [e.cell EXCEPT ![e.nextSlot] = [busy |-> TRUE, val |-> v, stage |-> 0]],
              !.hasPending = TRUE]

SimpleStart(e, o, v) ==
    [e EXCEPT !.cell = [e.cell EXCEPT ![e.nextSlot] = [busy |-> TRUE, val |-> v, stage |-> 0]],
              !.pendingOperations = (e.pendingOperations + 1) % SizeT,
              !.hasPending = TRUE]

Oldest_SameCell(e, o) == e.nextSlot

Oldest(e, o) == (e.nextSlot + 1) % Latency[o]

(* The count is unsigned.                                                  *)
OneFewer(e) == (e.pendingOperations - 1) % SizeT

SimpleDeliver(e, o) ==
    [e EXCEPT !.cell = [e.cell EXCEPT ![Oldest(e, o)].busy = FALSE],
              !.pendingOperations = OneFewer(e),
              !.hasPending = OneFewer(e) > 0,
              !.nextSlot = Oldest(e, o)]

SimpleAdvance(e, o) ==
    IF e.cell[Oldest(e, o)].busy THEN SimpleDeliver(e, o)
                                 ELSE [e EXCEPT !.nextSlot = Oldest(e, o)]

SimpleWrites(e, o) ==
    [p \in {q \in DOMAIN OutLatency[o] : e.cell[Oldest(e, o)].busy}
        |-> Result(o, e.cell[Oldest(e, o)].val)]

-----------------------------------------------------------------------------
(* MultiLatencyOperationExecutor and ExecutingOperation                    *)

FreeCells(e) == {i \in DOMAIN e.cell : ~ e.cell[i].busy}

(* The search stops at the last cell, taken or not, when none is free.     *)
FindFreeExecutingOperation(e, o) ==
    IF e.freeExecOp # None THEN e.freeExecOp
    ELSE IF FreeCells(e) # {} THEN Min(FreeCells(e)) ELSE Latency[o] - 1

MultiStart_KeepsFreeCell(e, o, v) ==
    [e EXCEPT !.cell = [e.cell EXCEPT ![FindFreeExecutingOperation(e, o)] =
                            [busy |-> TRUE, val |-> v, stage |-> 0]],
              !.hasPending = TRUE]

MultiStart(e, o, v) ==
    [e EXCEPT !.cell = [e.cell EXCEPT ![FindFreeExecutingOperation(e, o)] =
                            [busy |-> TRUE, val |-> v, stage |-> 0]],
              !.freeExecOp = None,
              !.hasPending = TRUE]

AdvanceCell(c, o) ==
    [c EXCEPT !.stage = c.stage + 1, !.busy = (c.stage + 1 # Latency[o])]

(* The last cell that is free before the loop is remembered for the next   *)
(* start.                                                                  *)
MultiAdvance(e, o) ==
    [e EXCEPT !.cell = [i \in DOMAIN e.cell |->
                            IF e.cell[i].busy THEN AdvanceCell(e.cell[i], o) ELSE e.cell[i]],
              !.freeExecOp = IF FreeCells(e) # {} THEN Max(FreeCells(e)) ELSE @,
              !.hasPending = BusyCells(e) # {}]

(* PendingResult::advanceCycle writes output p in its own cycle.           *)
Expiring(e, o, p) == {i \in BusyCells(e) : e.cell[i].stage + 1 = OutLatency[o][p]}

MultiWrites(e, o) ==
    [p \in {q \in DOMAIN OutLatency[o] : Expiring(e, o, q) # {}}
        |-> Result(o, e.cell[Max(Expiring(e, o, p))].val)]

-----------------------------------------------------------------------------
(* The virtual methods                                                     *)

(* What startOperation writes to the ports: only the one-cycle executor's  *)
(* operation works on the port registers themselves.                       *)
StartWrites(o, v) ==
    [p \in {q \in DOMAIN OutLatency[o] : Kind(o) = "one"} |-> Result(o, v)]

StartOperation(e, o, v, ready) ==
    CASE Kind(o) = "simple" -> SimpleStart(e, o, v)
      [] Kind(o) = "multi"  -> MultiStart(e, o, v)
      [] OTHER              -> [e EXCEPT !.hasPending = ~ ready]

AdvanceExecutor(e, o) ==
    CASE Kind(o) = "simple" -> SimpleAdvance(e, o)
      [] Kind(o) = "multi"  -> MultiAdvance(e, o)
      [] OTHER              -> [e EXCEPT !.hasPending = FALSE]

AdvanceWrites(e, o) ==
    CASE Kind(o) = "simple" -> SimpleWrites(e, o)
      [] Kind(o) = "multi"  -> MultiWrites(e, o)
      [] OTHER              -> [p \in {} |-> NoResult]

(* Cycles until the operation in cell i leaves the executor.               *)
CyclesLeft(e, o, i) ==
    IF Kind(o) = "simple" THEN ((i - e.nextSlot - 1) % Latency[o]) + 1
                          ELSE Latency[o] - e.cell[i].stage
=============================================================================

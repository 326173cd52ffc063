--------------------------- MODULE FUStateProofs ----------------------------
(***************************************************************************)
(* Proofs about FUState for every set of operations, every latency and     *)
(* every assignment of results to ports.  The executors are treated first, *)
(* as operators on records; the unit's own steps then use only the lemmas  *)
(* about them.  The last part shows that the unit implements FUPipeline.   *)
(***************************************************************************)
EXTENDS FUState, FiniteSetTheorems, WellFoundedInduction, TLAPS

USE DEF None

(* A non-empty set of naturals has a least element, and a greatest one     *)
(* when it is bounded.                                                     *)
LEMMA MinInSet ==
    ASSUME NEW S, S \subseteq Nat, S # {}
    PROVE  Min(S) \in S /\ \A y \in S : Min(S) <= y
<1> DEFINE R == OpToRel(<, Nat)
<1>1. \A x, y \in Nat : <<y, x>> \in R <=> y < x
  BY DEF OpToRel
<1>2. IsWellFoundedOn(R, Nat)
  BY NatLessThanWellFounded, Zenon
<1> HIDE DEF R
<1>3. PICK x \in S : \A y \in S : ~ (<<y, x>> \in R)
  BY <1>2, WFMin
<1>4. \A y \in S : ~ (y < x)
  BY <1>1, <1>3, Zenon
<1>5. \A y \in S : x <= y
  BY <1>4
<1> QED  BY <1>5 DEF Min

LEMMA MaxInSet ==
    ASSUME NEW S, NEW n \in Nat, S \subseteq 0 .. n, S # {}
    PROVE  Max(S) \in S /\ \A y \in S : Max(S) >= y
<1> DEFINE T == {n - x : x \in S}
<1>1. T \subseteq Nat /\ T # {}
  <2>1. PICK x \in S : TRUE
    OBVIOUS
  <2>2. \A y \in S : n - y \in Nat
    OBVIOUS
  <2> QED  BY <2>1, <2>2
<1>2. Min(T) \in T /\ \A y \in T : Min(T) <= y
  BY <1>1, MinInSet
<1>3. PICK x \in S : Min(T) = n - x
  BY <1>2
<1>4. \A y \in S : x >= y
  BY <1>2, <1>3
<1> QED  BY <1>4 DEF Max

(* A kind is one of three, and an operation has at least one cell.         *)
LEMMA KindCases ==
    ASSUME NEW o \in Ops
    PROVE  /\ Kind(o) \in {"simple", "multi", "one"}
           /\ Latency[o] \in Nat \ {0}
           /\ Latency[o] < SizeT
           /\ SizeT \in Nat
  BY LatencyAssumption, SizeTAssumption DEF Kind

(* An executor has as many cells as its latency.                           *)
LEMMA SlotsFinite ==
    ASSUME NEW o \in Ops
    PROVE  IsFiniteSet(Slots(o)) /\ Cardinality(Slots(o)) = Latency[o]
<1>1. 0 \in Int /\ Latency[o] - 1 \in Int /\ Latency[o] > 0
  BY KindCases
<1>2. /\ IsFiniteSet(0 .. (Latency[o] - 1))
      /\ Cardinality(0 .. (Latency[o] - 1)) =
            IF 0 > Latency[o] - 1 THEN 0 ELSE (Latency[o] - 1) - 0 + 1
  BY <1>1, FS_Interval, Zenon
<1> QED  BY <1>1, <1>2, KindCases DEF Slots

(* The cells in use are finitely many, no more than the latency.           *)
LEMMA BusyFinite ==
    ASSUME NEW o \in Ops, NEW e \in Executor(o)
    PROVE  /\ BusyCells(e) \subseteq Slots(o)
           /\ IsFiniteSet(BusyCells(e))
           /\ Cardinality(BusyCells(e)) \in Nat
           /\ Cardinality(BusyCells(e)) <= Latency[o]
<1>1. BusyCells(e) \subseteq Slots(o)
  BY DEF BusyCells, Executor
<1> QED  BY <1>1, SlotsFinite, FS_Subset, FS_CardinalityType

(* A new executor satisfies the invariant and is ready to start.           *)
LEMMA NewExecutorInv ==
    ASSUME NEW o \in Ops
    PROVE  /\ ExecutorInv(NewExecutor(o), o)
           /\ ReadyToStart(NewExecutor(o), o)
           /\ BusyCells(NewExecutor(o)) = {}
<1> DEFINE e == NewExecutor(o)
<1>1. e \in Executor(o)
  <2>1. (CHOOSE v \in Values : TRUE) \in Values
    BY ValuesAssumption
  <2> QED  BY <2>1, KindCases DEF NewExecutor, Executor, Cell, Slots
<1>2. BusyCells(e) = {}
  BY DEF NewExecutor, BusyCells
<1>3. e.pendingOperations = 0
  BY DEF NewExecutor
<1> QED  BY <1>1, <1>2, <1>3, FS_EmptySet DEF ExecutorInv, ReadyToStart, NewExecutor

-----------------------------------------------------------------------------
(* startOperation                                                          *)

(* The ring buffer counts the operation it takes into its free cell.       *)
LEMMA SimpleStartInv ==
    ASSUME NEW o \in Ops, NEW e, NEW v \in Values,
           Kind(o) = "simple", ExecutorInv(e, o), ReadyToStart(e, o)
    PROVE  ExecutorInv(SimpleStart(e, o, v), o)
<1> DEFINE f == SimpleStart(e, o, v)
           c == [e.cell EXCEPT ![e.nextSlot] = [busy |-> TRUE, val |-> v, stage |-> 0]]
<1>1. e \in Executor(o) /\ e.nextSlot \in Slots(o) /\ e.nextSlot \notin BusyCells(e)
  BY DEF ExecutorInv, ReadyToStart, Executor
<1>2. c \in [Slots(o) -> Cell]
  BY <1>1 DEF Executor, Cell
<1>3. /\ BusyCells(f) = BusyCells(e) \cup {e.nextSlot}
      /\ f.cell = c /\ f.nextSlot = e.nextSlot /\ f.freeExecOp = e.freeExecOp
      /\ f.hasPending = TRUE
      /\ f.pendingOperations = (e.pendingOperations + 1) % SizeT
  BY <1>1, <1>2 DEF SimpleStart, BusyCells, Executor
<1>4. (BusyCells(e) \cup {e.nextSlot}) \subseteq Slots(o)
  BY <1>1, BusyFinite
<1>5. /\ IsFiniteSet(BusyCells(e))
      /\ Cardinality(BusyCells(e)) = e.pendingOperations
      /\ e.pendingOperations \in Nat
  <2>1. IsFiniteSet(BusyCells(e)) /\ Cardinality(BusyCells(e)) \in Nat
    BY <1>1, BusyFinite
  <2>2. Cardinality(BusyCells(e)) = e.pendingOperations
    BY DEF ExecutorInv
  <2> QED  BY <2>1, <2>2
<1>6. Cardinality(BusyCells(f)) = e.pendingOperations + 1
  <2>1. Cardinality(BusyCells(e) \cup {e.nextSlot}) = Cardinality(BusyCells(e)) + 1
    BY <1>1, <1>5, FS_AddElement
  <2> QED  BY <2>1, <1>3, <1>5
<1>7. Cardinality(BusyCells(f)) <= Latency[o]
  BY <1>3, <1>4, SlotsFinite, FS_Subset
<1>8. f.pendingOperations = e.pendingOperations + 1
  BY <1>3, <1>5, <1>6, <1>7, KindCases
<1>9. f \in Executor(o)
  <2>1. f = [e EXCEPT !.cell = c, !.pendingOperations = e.pendingOperations + 1,
                      !.hasPending = TRUE]
    BY <1>3, <1>8 DEF SimpleStart
  <2>2. e.pendingOperations + 1 \in 0 .. SizeT - 1
    BY <1>5, <1>6, <1>7, KindCases
  <2> QED  BY <2>1, <2>2, <1>1, <1>2 DEF Executor
<1> QED  BY <1>3, <1>6, <1>8, <1>9 DEF ExecutorInv

(* The pool has a free cell: the stages of the operations in flight are    *)
(* distinct and between 1 and latency - 1, one fewer than the cells.       *)
LEMMA FreeCellExists ==
    ASSUME NEW o \in Ops, NEW e,
           Kind(o) = "multi", ExecutorInv(e, o), ReadyToStart(e, o)
    PROVE  FreeCells(e) # {}
<1> SUFFICES ASSUME FreeCells(e) = {} PROVE FALSE
  OBVIOUS
<1> DEFINE g == [i \in Slots(o) |-> e.cell[i].stage]
           T == 1 .. (Latency[o] - 1)
<1>1. e \in Executor(o)
  BY DEF ExecutorInv
<1>2. BusyCells(e) = Slots(o)
  BY <1>1 DEF BusyCells, FreeCells, Executor
<1>3. \A i \in Slots(o) : e.cell[i].stage \in T
  <2> TAKE i \in Slots(o)
  <2>1. e.cell[i].stage \in Nat
    BY <1>1 DEF Executor, Cell
  <2>2. e.cell[i].stage > 0 /\ e.cell[i].stage < Latency[o]
    BY <1>2 DEF ExecutorInv, ReadyToStart
  <2> QED  BY <2>1, <2>2, KindCases
<1>4. g \in [Slots(o) -> T]
  BY <1>3
<1>5. IsFiniteSet(T) /\ Cardinality(T) < Cardinality(Slots(o))
  <2>1. 1 \in Int /\ Latency[o] - 1 \in Int /\ Latency[o] > 0 /\ Latency[o] \in Nat
    BY KindCases
  <2>2. /\ IsFiniteSet(T)
        /\ Cardinality(T) = IF 1 > Latency[o] - 1 THEN 0 ELSE (Latency[o] - 1) - 1 + 1
    BY <2>1, FS_Interval, Zenon
  <2> QED  BY <2>1, <2>2, SlotsFinite
<1>6. \E i, j \in Slots(o) : i # j /\ g[i] = g[j]
  <2> HIDE DEF g, T
  <2> QED  BY <1>4, <1>5, SlotsFinite, FS_PigeonHole
<1> QED  BY <1>2, <1>6 DEF ExecutorInv

(* The cell a new operation gets is a free one.                            *)
LEMMA FindFreeIsFree ==
    ASSUME NEW o \in Ops, NEW e,
           Kind(o) = "multi", ExecutorInv(e, o), ReadyToStart(e, o)
    PROVE  /\ FindFreeExecutingOperation(e, o) \in Slots(o)
           /\ FindFreeExecutingOperation(e, o) \notin BusyCells(e)
<1>1. e \in Executor(o)
  BY DEF ExecutorInv
<1>2. CASE e.freeExecOp # None
  BY <1>1, <1>2 DEF FindFreeExecutingOperation, ExecutorInv, Executor
<1>3. CASE e.freeExecOp = None
  <2>1. FreeCells(e) \subseteq Slots(o) /\ FreeCells(e) # {}
    BY <1>1, FreeCellExists DEF FreeCells, Executor
  <2>2. FreeCells(e) \subseteq Nat
    BY <2>1 DEF Slots
  <2>3. Min(FreeCells(e)) \in FreeCells(e)
    BY <2>1, <2>2, MinInSet
  <2> QED  BY <1>3, <2>1, <2>3 DEF FindFreeExecutingOperation, FreeCells, BusyCells
<1> QED  BY <1>2, <1>3

(* The pool gives the operation the only cell in stage 0.                  *)
LEMMA MultiStartInv ==
    ASSUME NEW o \in Ops, NEW e, NEW v \in Values,
           Kind(o) = "multi", ExecutorInv(e, o), ReadyToStart(e, o)
    PROVE  ExecutorInv(MultiStart(e, o, v), o)
<1> DEFINE f == MultiStart(e, o, v)
           k == FindFreeExecutingOperation(e, o)
           c == [e.cell EXCEPT ![k] = [busy |-> TRUE, val |-> v, stage |-> 0]]
<1>1. e \in Executor(o) /\ k \in Slots(o) /\ k \notin BusyCells(e)
  BY FindFreeIsFree DEF ExecutorInv
<1> HIDE DEF k
<1>2. c \in [Slots(o) -> Cell]
  BY <1>1 DEF Executor, Cell
<1>3. f = [e EXCEPT !.cell = c, !.freeExecOp = None, !.hasPending = TRUE]
  BY DEF MultiStart, k
<1>4. f \in Executor(o)
  BY <1>1, <1>2, <1>3 DEF Executor
<1>5. f.cell = c /\ f.hasPending = TRUE /\ f.freeExecOp = None
  BY <1>1, <1>3 DEF Executor
<1>6. BusyCells(f) = BusyCells(e) \cup {k}
  BY <1>1, <1>2, <1>5 DEF BusyCells, Executor
<1>7. /\ c[k].stage = 0
      /\ \A i \in BusyCells(e) : c[i].stage = e.cell[i].stage
  BY <1>1 DEF Executor, BusyCells
<1>8. /\ \A i \in BusyCells(e) : e.cell[i].stage > 0 /\ e.cell[i].stage < Latency[o]
      /\ \A i, j \in BusyCells(e) : e.cell[i].stage = e.cell[j].stage => i = j
  BY DEF ExecutorInv, ReadyToStart
<1>9. \A i, j \in BusyCells(f) : f.cell[i].stage = f.cell[j].stage => i = j
  <2> HIDE DEF c, f
  <2> QED  BY <1>5, <1>6, <1>7, <1>8
<1>10. \A i \in BusyCells(f) : f.cell[i].stage < Latency[o]
  <2> HIDE DEF c, f
  <2> QED  BY <1>5, <1>6, <1>7, <1>8, KindCases
<1>11. ExecutorInv(f, o)
  <2> HIDE DEF c, f
  <2> QED  BY <1>4, <1>5, <1>9, <1>10 DEF ExecutorInv
<1> QED  BY <1>11

(* startOperation keeps the invariant; only the single-cycle executor may  *)
(* be left without pending operations, and it holds none.                  *)
LEMMA StartOperationInv ==
    ASSUME NEW o \in Ops, NEW e, NEW v \in Values, NEW ready \in BOOLEAN,
           ExecutorInv(e, o), ReadyToStart(e, o)
    PROVE  /\ ExecutorInv(StartOperation(e, o, v, ready), o)
           /\ ~ StartOperation(e, o, v, ready).hasPending =>
                 BusyCells(StartOperation(e, o, v, ready)) = {}
<1>1. CASE Kind(o) = "simple"
  BY <1>1, SimpleStartInv DEF StartOperation, ExecutorInv
<1>2. CASE Kind(o) = "multi"
  BY <1>2, MultiStartInv DEF StartOperation, ExecutorInv
<1>3. CASE Kind(o) = "one"
  <2> DEFINE f == [e EXCEPT !.hasPending = ~ ready]
  <2>1. StartOperation(e, o, v, ready) = f
    BY <1>3 DEF StartOperation
  <2>2. e \in Executor(o) /\ BusyCells(e) = {}
    BY <1>3 DEF ExecutorInv
  <2>3. f \in Executor(o) /\ f.cell = e.cell
    BY <2>2 DEF Executor
  <2>4. BusyCells(f) = {}
    BY <2>2, <2>3 DEF BusyCells
  <2> HIDE DEF f
  <2> QED  BY <1>3, <2>1, <2>3, <2>4 DEF ExecutorInv
<1> QED  BY <1>1, <1>2, <1>3, KindCases

-----------------------------------------------------------------------------
(* advanceClock of the executors                                           *)

(* The ring buffer delivers the operation in the oldest cell, which is the *)
(* cell the next operation gets.                                           *)
LEMMA SimpleAdvanceInv ==
    ASSUME NEW o \in Ops, NEW e, Kind(o) = "simple", ExecutorInv(e, o)
    PROVE  /\ ExecutorInv(SimpleAdvance(e, o), o)
           /\ ReadyToStart(SimpleAdvance(e, o), o)
<1> DEFINE f == SimpleAdvance(e, o)
           k == Oldest(e, o)
<1>1. e \in Executor(o) /\ k \in Slots(o)
  BY KindCases DEF ExecutorInv, Executor, Oldest, Slots
<1>2. /\ IsFiniteSet(BusyCells(e)) /\ Cardinality(BusyCells(e)) <= Latency[o]
      /\ Cardinality(BusyCells(e)) \in Nat
      /\ e.pendingOperations = Cardinality(BusyCells(e))
  <2>1. IsFiniteSet(BusyCells(e)) /\ Cardinality(BusyCells(e)) <= Latency[o]
        /\ Cardinality(BusyCells(e)) \in Nat
    BY <1>1, BusyFinite
  <2> QED  BY <2>1 DEF ExecutorInv
<1> HIDE DEF k
<1>3. CASE ~ e.cell[k].busy
  <2>1. f = [e EXCEPT !.nextSlot = k]
    BY <1>3 DEF SimpleAdvance, k
  <2>2. f \in Executor(o) /\ f.cell = e.cell /\ f.nextSlot = k
        /\ f.pendingOperations = e.pendingOperations /\ f.hasPending = e.hasPending
    BY <1>1, <2>1 DEF Executor
  <2>3. BusyCells(f) = BusyCells(e) /\ k \notin BusyCells(f)
    BY <1>3, <2>2 DEF BusyCells
  <2> HIDE DEF f
  <2>4. ExecutorInv(f, o) /\ ReadyToStart(f, o)
    BY <2>2, <2>3 DEF ExecutorInv, ReadyToStart
  <2> QED  BY <2>4 DEF f
<1>4. CASE e.cell[k].busy
  <2> DEFINE left == OneFewer(e)
             some == left > 0
             c == [e.cell EXCEPT ![k].busy = FALSE]
  <2>1. f = [e EXCEPT !.cell = c, !.pendingOperations = left,
                      !.hasPending = some, !.nextSlot = k]
    <3>1. f = SimpleDeliver(e, o)
      BY <1>4 DEF SimpleAdvance, k
    <3>2. SimpleDeliver(e, o) = [e EXCEPT !.cell = c, !.pendingOperations = left,
                                          !.hasPending = some, !.nextSlot = k]
      BY DEF SimpleDeliver, k
    <3> QED  BY <3>1, <3>2
  <2>2. k \in BusyCells(e)
    BY <1>1, <1>4 DEF BusyCells, Executor
  <2>3. Cardinality(BusyCells(e) \ {k}) = Cardinality(BusyCells(e)) - 1
    BY <1>2, <2>2, FS_RemoveElement
  <2>4. IsFiniteSet(BusyCells(e) \ {k}) /\ Cardinality(BusyCells(e) \ {k}) \in Nat
    BY <1>2, FS_RemoveElement, FS_CardinalityType
  <2>5. left = Cardinality(BusyCells(e) \ {k}) /\ left \in 0 .. SizeT - 1
    BY <1>2, <2>3, <2>4, KindCases DEF OneFewer
  <2>6. c \in [Slots(o) -> Cell]
    BY <1>1 DEF Executor, Cell
  <2>a. some \in BOOLEAN /\ (some <=> left > 0)
    OBVIOUS
  <2> HIDE DEF left, some
  <2>7. f \in Executor(o) /\ f.cell = c /\ f.nextSlot = k
        /\ f.pendingOperations = left /\ f.hasPending = some
    BY <1>1, <2>a, <2>1, <2>5, <2>6 DEF Executor
  <2>8. BusyCells(f) = BusyCells(e) \ {k}
    BY <1>1, <2>6, <2>7 DEF BusyCells, Executor
  <2> HIDE DEF f, c
  <2>9. BusyCells(f) # {} => f.hasPending
    BY <2>a, <2>4, <2>5, <2>7, <2>8, FS_EmptySet
  <2>10. ExecutorInv(f, o) /\ ReadyToStart(f, o)
    BY <2>5, <2>7, <2>8, <2>9 DEF ExecutorInv, ReadyToStart
  <2> QED  BY <2>10 DEF f
<1> QED  BY <1>3, <1>4

(* One stage of an ExecutingOperation.                                     *)
LEMMA AdvanceCellFields ==
    ASSUME NEW o \in Ops, NEW x \in Cell
    PROVE  /\ AdvanceCell(x, o) \in Cell
           /\ AdvanceCell(x, o).stage = x.stage + 1
           /\ AdvanceCell(x, o).busy <=> x.stage + 1 # Latency[o]
<1> DEFINE n == x.stage + 1
           b == (n # Latency[o])
<1>1. AdvanceCell(x, o) = [x EXCEPT !.stage = n, !.busy = b]
  BY DEF AdvanceCell
<1>2. n \in Nat
  BY DEF Cell
<1>3. b \in BOOLEAN
  OBVIOUS
<1> HIDE DEF n, b
<1>4. /\ AdvanceCell(x, o) \in Cell
      /\ AdvanceCell(x, o).stage = n
      /\ AdvanceCell(x, o).busy = b
  BY <1>1, <1>2, <1>3 DEF Cell
<1> QED  BY <1>4, Zenon DEF n, b

(* The pool advances every operation by one stage and forgets those that   *)
(* have reached the latency; the cell it remembers as free is free.        *)
LEMMA MultiAdvanceInv ==
    ASSUME NEW o \in Ops, NEW e, Kind(o) = "multi", ExecutorInv(e, o)
    PROVE  /\ ExecutorInv(MultiAdvance(e, o), o)
           /\ ReadyToStart(MultiAdvance(e, o), o)
<1> DEFINE f == MultiAdvance(e, o)
           free == FreeCells(e)
           keep == IF free # {} THEN Max(free) ELSE e.freeExecOp
           some == BusyCells(e) # {}
           c == [i \in DOMAIN e.cell |->
                    IF e.cell[i].busy THEN AdvanceCell(e.cell[i], o)
                                      ELSE e.cell[i]]
<1>1. e \in Executor(o) /\ DOMAIN e.cell = Slots(o)
      /\ BusyCells(e) \subseteq Slots(o)
      /\ \A i \in Slots(o) : i < Latency[o] /\ e.cell[i] \in Cell
  BY KindCases DEF ExecutorInv, Executor, BusyCells, Slots
<1>2. \A i \in BusyCells(e) :
         /\ c[i] \in Cell
         /\ c[i].stage = e.cell[i].stage + 1
         /\ c[i].busy <=> e.cell[i].stage + 1 # Latency[o]
  <2> TAKE i \in BusyCells(e)
  <2>1. e.cell[i] \in Cell /\ e.cell[i].busy /\ i < Latency[o] /\ i \in DOMAIN e.cell
    BY <1>1 DEF BusyCells
  <2>2. c[i] = AdvanceCell(e.cell[i], o)
    BY <2>1
  <2> QED  BY <2>1, <2>2, AdvanceCellFields
<1>3. \A i \in Slots(o) \ BusyCells(e) : c[i] = e.cell[i] /\ ~ e.cell[i].busy
  BY <1>1 DEF BusyCells
<1>4. c \in [Slots(o) -> Cell]
  <2>1. \A i \in Slots(o) : c[i] \in Cell
    BY <1>1, <1>2, <1>3
  <2> QED  BY <1>1, <2>1
<1>5. /\ keep \in Slots(o) \cup {None}
      /\ keep # None => keep \notin BusyCells(e)
  <2>1. CASE free # {}
    <3>1. free # {} /\ free \subseteq 0 .. (Latency[o] - 1) /\ Latency[o] - 1 \in Nat
      BY <1>1, <2>1, KindCases DEF FreeCells, Slots
    <3>2. Max(free) \in free
      <4> HIDE DEF free
      <4> QED  BY <3>1, MaxInSet
    <3> QED  BY <1>1, <2>1, <3>2 DEF FreeCells, BusyCells
  <2>2. CASE free = {}
    BY <2>2 DEF ExecutorInv, Executor
  <2> QED  BY <2>1, <2>2
<1>6. some \in BOOLEAN /\ (some <=> BusyCells(e) # {})
  OBVIOUS
<1>7. f = [e EXCEPT !.cell = c, !.freeExecOp = keep, !.hasPending = some]
  BY DEF MultiAdvance
<1> HIDE DEF keep, some, c
<1>8. f \in Executor(o) /\ f.cell = c /\ f.freeExecOp = keep /\ f.hasPending = some
  BY <1>1, <1>4, <1>5, <1>6, <1>7 DEF Executor
<1>9. BusyCells(f) \subseteq BusyCells(e)
  BY <1>3, <1>4, <1>8 DEF BusyCells
<1>10. \A i \in BusyCells(f) : f.cell[i].busy
  BY DEF BusyCells
<1> HIDE DEF f
<1>11. \A i \in BusyCells(e) : e.cell[i].stage \in Nat /\ e.cell[i].stage < Latency[o]
  BY <1>1 DEF ExecutorInv, Cell
<1>12. \A i \in BusyCells(f) : f.cell[i].stage > 0 /\ f.cell[i].stage < Latency[o]
  BY <1>2, <1>8, <1>9, <1>10, <1>11, KindCases
<1>13. \A i, j \in BusyCells(f) : f.cell[i].stage = f.cell[j].stage => i = j
  <2>1. \A i, j \in BusyCells(e) : e.cell[i].stage = e.cell[j].stage => i = j
    BY DEF ExecutorInv
  <2> QED  BY <2>1, <1>2, <1>8, <1>9, <1>11
<1>14. ExecutorInv(f, o) /\ ReadyToStart(f, o)
  BY <1>5, <1>6, <1>8, <1>9, <1>12, <1>13 DEF ExecutorInv, ReadyToStart
<1> QED  BY <1>14 DEF f

(* One cycle of any executor: it stays consistent and can take another     *)
(* operation, and an executor without pending operations holds none.       *)
LEMMA AdvanceExecutorInv ==
    ASSUME NEW o \in Ops, NEW e, ExecutorInv(e, o)
    PROVE  /\ ExecutorInv(AdvanceExecutor(e, o), o)
           /\ ReadyToStart(AdvanceExecutor(e, o), o)
<1>1. CASE Kind(o) = "simple"
  BY <1>1, SimpleAdvanceInv DEF AdvanceExecutor
<1>2. CASE Kind(o) = "multi"
  BY <1>2, MultiAdvanceInv DEF AdvanceExecutor
<1>3. CASE Kind(o) = "one"
  <2> DEFINE f == [e EXCEPT !.hasPending = FALSE]
  <2>1. AdvanceExecutor(e, o) = f
    BY <1>3 DEF AdvanceExecutor
  <2>2. e \in Executor(o) /\ BusyCells(e) = {}
    BY <1>3 DEF ExecutorInv
  <2>3. f \in Executor(o) /\ f.cell = e.cell
    BY <2>2 DEF Executor
  <2>4. BusyCells(f) = {}
    BY <2>2, <2>3 DEF BusyCells
  <2> HIDE DEF f
  <2> QED  BY <1>3, <2>1, <2>3, <2>4 DEF ExecutorInv, ReadyToStart
<1> QED  BY <1>1, <1>2, <1>3, KindCases

(* An executor that holds no operation is ready for one.                   *)
LEMMA EmptyIsReady ==
    ASSUME NEW o \in Ops, NEW e, BusyCells(e) = {}
    PROVE  ReadyToStart(e, o)
  BY DEF ReadyToStart

-----------------------------------------------------------------------------
(* The unit                                                                *)

(* A unit that has just been built satisfies the invariant.                *)
LEMMA InitInd == Init => IndInv
<1> SUFFICES ASSUME Init PROVE IndInv
  OBVIOUS
<1>1. \A o \in Ops : exec[o] = NewExecutor(o)
  BY DEF Init
<1>2. \A o \in Ops : /\ ExecutorInv(exec[o], o) /\ ReadyToStart(exec[o], o)
                      /\ BusyCells(exec[o]) = {}
  BY <1>1, NewExecutorInv
<1>3. TypeOK
  BY <1>2 DEF Init, TypeOK, ExecutorInv
<1>4. BusyOps = {}
  BY <1>2 DEF BusyOps
<1> QED  BY <1>2, <1>3, <1>4 DEF IndInv, ShortcutsInv, Init, OnlyNextActive

(* Moves touch no executor, and choosing an operation sets trigger_.       *)
LEMMA MovesInd ==
    ASSUME IndInv, NEW v \in Values,
           \/ WriteOperand(v)
           \/ WriteTriggerPort(v)
           \/ \E o \in Ops, found \in BOOLEAN : WriteOpcodePort(o, v, found)
    PROVE  IndInv'
<1>1. /\ exec' = exec /\ phase' = phase /\ phase = "moves"
      /\ activeExecutors' = activeExecutors /\ out' = out /\ in' = v
      /\ nextOperation' \in Ops \cup {nextOperation}
      /\ nextExecutor' \in Ops \cup {nextExecutor, None}
  BY DEF WriteOperand, WriteTriggerPort, WriteOpcodePort, SetOperation
<1>2. \/ trigger' = TRUE /\ idle' = FALSE
      \/ trigger' = trigger /\ idle' = idle /\ nextExecutor' = nextExecutor
  BY DEF WriteOperand, WriteTriggerPort, WriteOpcodePort, SetTriggered
<1>3. BusyOps' = BusyOps
  BY <1>1 DEF BusyOps
<1>4. TypeOK'
  BY <1>1, <1>2 DEF IndInv, TypeOK
<1>5. ShortcutsInv'
  BY <1>1, <1>2, <1>3 DEF IndInv, ShortcutsInv, OnlyNextActive
<1> QED  BY <1>1, <1>4, <1>5 DEF IndInv

(* endClock: starting an operation makes at least one executor active, and *)
(* two when another one already was.                                       *)
LEMMA EndClockInd ==
    ASSUME IndInv, EndClock
    PROVE  IndInv'
<1>0. phase = "moves" /\ phase' = "advance"
  BY DEF EndClock
<1>1. CASE /\ ~ Triggered
           /\ UNCHANGED <<in, out, idle, trigger, nextOperation, nextExecutor,
                          activeExecutors, exec>>
  <2>1. BusyOps' = BusyOps
    BY <1>1 DEF BusyOps
  <2>2. ~ trigger
    <3>1. IsIdle => ~ trigger
      BY DEF IndInv, ShortcutsInv, IsIdle
    <3> QED  BY <1>1, <3>1 DEF Triggered
  <2>3. TypeOK'
    BY <1>0, <1>1 DEF IndInv, TypeOK
  <2>4. ShortcutsInv'
    BY <1>0, <1>1, <2>1, <2>2 DEF IndInv, ShortcutsInv, OnlyNextActive
  <2> QED  BY <1>0, <1>1, <2>3, <2>4 DEF IndInv
<1>2. ASSUME Triggered, nextOperation # None, NEW ready \in BOOLEAN, StartNext(ready)
      PROVE  IndInv'
  <2> DEFINE o == nextOperation
             f == StartOperation(exec[o], o, in, ready)
  <2>1. o \in Ops /\ in \in Values /\ ExecutorInv(exec[o], o) /\ ReadyToStart(exec[o], o)
    BY <1>0, <1>2 DEF IndInv, TypeOK
  <2>2. ExecutorInv(f, o) /\ (~ f.hasPending => BusyCells(f) = {}) /\ f.hasPending \in BOOLEAN
    <3>1. ExecutorInv(f, o) /\ (~ f.hasPending => BusyCells(f) = {})
      BY <2>1, StartOperationInv
    <3> HIDE DEF f
    <3> QED  BY <3>1 DEF ExecutorInv, Executor
  <2>3. exec' = [exec EXCEPT ![o] = f] /\ nextExecutor' = o /\ trigger' = FALSE
        /\ nextOperation' = nextOperation /\ in' = in /\ DOMAIN out' = Ports
    BY <1>2 DEF StartNext, WritePorts
  <2>4. \/ f.hasPending /\ activeExecutors' = activeExecutors + 1 /\ idle' = FALSE
        \/ ~ f.hasPending /\ activeExecutors' = activeExecutors /\ idle' = idle
    BY <1>2 DEF StartNext
  <2> HIDE DEF f
  <2>5. \A q \in Ops : exec'[q] = IF q = o THEN f ELSE exec[q]
    BY <2>1, <2>3 DEF IndInv, TypeOK
  <2>6. \A q \in Ops : ExecutorInv(exec'[q], q)
    BY <2>2, <2>5 DEF IndInv
  <2>7. TypeOK'
    <3>a. activeExecutors \in Nat /\ idle \in BOOLEAN
      BY DEF IndInv, TypeOK
    <3>b. activeExecutors' \in Nat
      BY <2>4, <3>a
    <3>c. idle' \in BOOLEAN
      BY <2>4, <3>a, Zenon
    <3>1. activeExecutors' \in Nat /\ idle' \in BOOLEAN
      BY <3>b, <3>c
    <3>2. DOMAIN exec' = Ops /\ \A q \in Ops : exec'[q] \in Executor(q)
      BY <2>3, <2>6 DEF IndInv, TypeOK, ExecutorInv
    <3> QED  BY <1>0, <2>1, <2>3, <3>1, <3>2 DEF TypeOK
  <2>8. BusyOps' \subseteq BusyOps \cup {o} /\ (~ f.hasPending => BusyOps' \subseteq BusyOps)
    BY <2>1, <2>2, <2>5 DEF BusyOps
  <2>9. ShortcutsInv'
    <3>1. activeExecutors \in Nat /\ (activeExecutors = 0 => BusyOps = {})
      BY DEF IndInv, ShortcutsInv, TypeOK
    <3>2. CASE f.hasPending
      BY <2>3, <2>4, <2>8, <3>1, <3>2 DEF ShortcutsInv, OnlyNextActive
    <3>3. CASE ~ f.hasPending
      <4>1. exec'[nextExecutor'].hasPending = FALSE
        BY <2>1, <2>2, <2>3, <2>5, <3>3
      <4>2. idle' => activeExecutors' = 0
        BY <2>4, <3>3 DEF IndInv, ShortcutsInv
      <4>3. activeExecutors' = 0 => BusyOps' = {}
        BY <2>4, <2>8, <3>1, <3>3
      <4> QED  BY <2>3, <4>1, <4>2, <4>3 DEF ShortcutsInv, OnlyNextActive
    <3> QED  BY <2>2, <3>2, <3>3
  <2> QED  BY <1>0, <2>6, <2>7, <2>9 DEF IndInv
<1> QED  BY <1>1, <1>2 DEF EndClock

(* Advancing a set of executors that includes all those with operations    *)
(* in flight keeps every executor consistent and ready.                    *)
LEMMA AdvanceExecutorsInv ==
    ASSUME IndInv, NEW A \in SUBSET Ops, BusyOps \subseteq A, AdvanceExecutors(A)
    PROVE  /\ DOMAIN exec' = Ops
           /\ \A o \in Ops : ExecutorInv(exec'[o], o) /\ ReadyToStart(exec'[o], o)
           /\ BusyOps' \subseteq A
<1>1. exec' = [o \in Ops |-> IF o \in A THEN AdvanceExecutor(exec[o], o) ELSE exec[o]]
  BY DEF AdvanceExecutors
<1>2. \A o \in A : ExecutorInv(exec'[o], o) /\ ReadyToStart(exec'[o], o)
  BY <1>1, AdvanceExecutorInv DEF IndInv
<1>3. \A o \in Ops \ A : BusyCells(exec[o]) = {} /\ exec'[o] = exec[o]
  BY <1>1 DEF BusyOps
<1>4. \A o \in Ops \ A : ExecutorInv(exec'[o], o) /\ ReadyToStart(exec'[o], o)
  BY <1>3, EmptyIsReady DEF IndInv
<1>5. BusyOps' \subseteq A
  BY <1>3 DEF BusyOps
<1> QED  BY <1>1, <1>2, <1>4, <1>5

(* Executors with operations in flight report pending operations.          *)
LEMMA BusyArePending ==
    ASSUME \A o \in Ops : ExecutorInv(exec[o], o)
    PROVE  BusyOps \subseteq PendingOps(exec)
  BY DEF BusyOps, PendingOps, ExecutorInv

(* advanceClock: each of its shortcuts visits all executors that matter.   *)
LEMMA AdvanceClockInd ==
    ASSUME IndInv, AdvanceClock
    PROVE  IndInv'
<1>0. /\ phase = "advance" /\ phase' = "moves" /\ trigger = FALSE /\ trigger' = FALSE
      /\ in' = in /\ nextOperation' = nextOperation /\ nextExecutor' = nextExecutor
  BY DEF AdvanceClock, IndInv, ShortcutsInv, TypeOK
<1>a. /\ TypeOK /\ ShortcutsInv /\ \A o \in Ops : ExecutorInv(exec[o], o)
      /\ activeExecutors = 0 => BusyOps = {}
  BY DEF IndInv, ShortcutsInv
<1>1. CASE UNCHANGED <<out, activeExecutors, exec>> /\ activeExecutors = 0 /\ idle' \in BOOLEAN
  <2>1. BusyOps = {} /\ BusyOps' = {}
    BY <1>a, <1>1 DEF BusyOps
  <2>2. \A o \in Ops : ReadyToStart(exec'[o], o)
    BY <1>1, <2>1, EmptyIsReady DEF BusyOps
  <2>3. TypeOK'
    BY <1>0, <1>a, <1>1 DEF TypeOK
  <2>4. ShortcutsInv'
    BY <1>0, <1>1, <2>1 DEF ShortcutsInv
  <2> QED  BY <1>a, <1>1, <2>2, <2>3, <2>4 DEF IndInv
<1>2. CASE AdvanceNextOnly
  <2> DEFINE n == nextExecutor
  <2>1. n \in Ops /\ BusyOps \subseteq {n}
    BY <1>0, <1>a, <1>2 DEF AdvanceNextOnly, OnlyNextActive, ShortcutsInv, TypeOK
  <2>2. AdvanceExecutors({n}) /\ DOMAIN out' = Ports
    BY <1>2 DEF AdvanceNextOnly, WriteResults, WriteInOrder
  <2>3. /\ DOMAIN exec' = Ops
        /\ \A o \in Ops : ExecutorInv(exec'[o], o) /\ ReadyToStart(exec'[o], o)
        /\ BusyOps' \subseteq {n}
    <3> {n} \in SUBSET Ops
      BY <2>1
    <3> HIDE DEF n
    <3> QED  BY <2>1, <2>2, AdvanceExecutorsInv
  <2>4. exec'[n].hasPending \in BOOLEAN
    BY <2>1, <2>3 DEF ExecutorInv, Executor
  <2>5. \/ exec'[n].hasPending /\ activeExecutors' = 1 /\ idle' = FALSE
        \/ ~ exec'[n].hasPending /\ activeExecutors' = 0 /\ idle' = TRUE
    BY <1>2 DEF AdvanceNextOnly
  <2>6. ~ exec'[n].hasPending => BusyOps' = {}
    BY <2>1, <2>3 DEF BusyOps, ExecutorInv
  <2>7. TypeOK'
    <3>1. \A o \in Ops : exec'[o] \in Executor(o)
      BY <2>3 DEF ExecutorInv
    <3>2. activeExecutors' \in Nat /\ idle' \in BOOLEAN
      <4>1. activeExecutors' \in {0, 1}
        BY <2>5, Zenon
      <4>2. idle' \in BOOLEAN
        BY <2>5, Zenon
      <4> QED  BY <4>1, <4>2
    <3> QED  BY <1>0, <1>a, <2>2, <2>3, <3>1, <3>2 DEF TypeOK
  <2>8. ShortcutsInv'
    BY <1>0, <2>3, <2>5, <2>6 DEF ShortcutsInv
  <2> QED  BY <2>3, <2>7, <2>8 DEF IndInv
<1>3. CASE AdvanceAll
  <2> DEFINE P == PendingOps(exec)
             Q == PendingOps(exec')
  <2>1. BusyOps \subseteq P /\ P \in SUBSET Ops
    BY <1>a, BusyArePending DEF PendingOps
  <2>2. AdvanceExecutors(P) /\ DOMAIN out' = Ports
    BY <1>3 DEF AdvanceAll, WriteResults, WriteInOrder
  <2>3. /\ DOMAIN exec' = Ops
        /\ \A o \in Ops : ExecutorInv(exec'[o], o) /\ ReadyToStart(exec'[o], o)
    <3> HIDE DEF P
    <3> QED  BY <2>1, <2>2, AdvanceExecutorsInv
  <2>4. BusyOps' \subseteq Q
    BY <2>3 DEF BusyOps, PendingOps, ExecutorInv
  <2>5. IsFiniteSet(Q) /\ Cardinality(Q) \in Nat
    <3>1. IsFiniteSet(Ops)
      BY NumOpsAssumption, FS_Interval DEF Ops
    <3>2. Q \in SUBSET Ops
      BY DEF PendingOps
    <3> HIDE DEF Q
    <3> QED  BY <3>1, <3>2, FS_Subset, FS_CardinalityType
  <2>6. activeExecutors' = Cardinality(Q)
    BY <1>3 DEF AdvanceAll
  <2>7. idle' \in BOOLEAN /\ (idle' => activeExecutors' = 0)
    BY <1>3, Zenon DEF AdvanceAll
  <2>8. activeExecutors' = 0 => BusyOps' = {}
    <3> HIDE DEF Q
    <3> QED  BY <2>4, <2>5, <2>6, FS_EmptySet
  <2>9. (OnlyNextActive)' => BusyOps' \subseteq {nextExecutor'}
    <3> SUFFICES ASSUME (OnlyNextActive)' PROVE BusyOps' \subseteq {nextExecutor'}
      OBVIOUS
    <3>1. nextExecutor' \in Q
      BY <1>0, <1>a DEF OnlyNextActive, PendingOps, TypeOK
    <3>2. Cardinality(Q) = 1
      BY <2>6 DEF OnlyNextActive
    <3> HIDE DEF Q
    <3>3. PICK x : Q = {x}
      BY <2>5, <3>2, FS_Singleton
    <3> QED  BY <2>4, <3>1, <3>3
  <2>10. TypeOK'
    <3>1. \A o \in Ops : exec'[o] \in Executor(o)
      BY <2>3 DEF ExecutorInv
    <3> HIDE DEF Q
    <3> QED  BY <1>0, <1>a, <2>2, <2>3, <2>5, <2>6, <2>7, <3>1 DEF TypeOK
  <2>11. ShortcutsInv'
    BY <1>0, <2>7, <2>8, <2>9 DEF ShortcutsInv
  <2> QED  BY <2>3, <2>10, <2>11 DEF IndInv
<1>4. CASE NothingActive
  BY <1>1, <1>4 DEF NothingActive
<1>5. CASE IsIdle /\ UNCHANGED <<out, idle, activeExecutors, exec>>
  BY <1>a, <1>1, <1>5 DEF IsIdle, ShortcutsInv, TypeOK
<1> QED  BY <1>2, <1>3, <1>4, <1>5 DEF AdvanceClock

(* Every step of the unit keeps the invariant.                             *)
LEMMA NextInd == IndInv /\ [Next]_vars => IndInv'
<1> SUFFICES ASSUME IndInv, [Next]_vars PROVE IndInv'
  OBVIOUS
<1>1. ASSUME NEW v \in Values, WriteOperand(v) \/ WriteTriggerPort(v)
      PROVE  IndInv'
  BY <1>1, MovesInd
<1>2. ASSUME NEW o \in Ops, NEW v \in Values, NEW found \in BOOLEAN,
             WriteOpcodePort(o, v, found)
      PROVE  IndInv'
  BY <1>2, MovesInd
<1>3. CASE EndClock
  BY <1>3, EndClockInd
<1>4. CASE AdvanceClock
  BY <1>4, AdvanceClockInd
<1>5. CASE EndClockWithoutOpcode \/ UNCHANGED vars
  BY <1>5 DEF EndClockWithoutOpcode, vars, IndInv, TypeOK, ShortcutsInv, BusyOps,
              OnlyNextActive
<1> QED  BY <1>1, <1>2, <1>3, <1>4, <1>5 DEF Next

(* The inductive invariant holds of every behaviour of a unit without      *)
(* runtime errors.                                                         *)
THEOREM Invariance == Spec => []IndInv
  BY InitInd, NextInd, PTL DEF Spec

(* Type correctness of FUState and of its executors.                       *)
THEOREM TypeCorrect == Spec => []TypeOK
<1>1. IndInv => TypeOK
  BY DEF IndInv
<1> QED  BY Invariance, <1>1, PTL

(* advanceClock visits every executor with an operation in flight, however *)
(* idle_, activeExecutors_ and hasPendingOperations_ let it skip others.   *)
THEOREM NoOperationSkipped == Spec => []InFlightServed
<1>1. IndInv => InFlightServed
  <2> SUFFICES ASSUME IndInv, phase = "advance" PROVE BusyOps \subseteq Visited
    BY DEF InFlightServed
  <2>1. ~ trigger /\ ShortcutsInv /\ \A o \in Ops : ExecutorInv(exec[o], o)
    BY DEF IndInv, ShortcutsInv
  <2>2. CASE activeExecutors = 0 \/ IsIdle
    <3>1. BusyOps = {}
      BY <2>1, <2>2 DEF ShortcutsInv, IsIdle
    <3> QED  BY <3>1
  <2>3. CASE activeExecutors # 0 /\ ~ IsIdle /\ OnlyNextActive
    <3>1. BusyOps \subseteq {nextExecutor}
      BY <2>1, <2>3 DEF ShortcutsInv
    <3>2. Visited = {nextExecutor}
      BY <2>3 DEF Visited
    <3> QED  BY <3>1, <3>2
  <2>4. CASE activeExecutors # 0 /\ ~ IsIdle /\ ~ OnlyNextActive
    <3>1. Visited = PendingOps(exec)
      BY <2>4 DEF Visited
    <3> QED  BY <2>1, <3>1, BusyArePending
  <2> QED  BY <2>2, <2>3, <2>4
<1> QED  BY Invariance, <1>1, PTL

(* No operation is started in a cell that still holds another one.         *)
THEOREM NoOperationOverwritten == Spec => []StartTakesFreeCell
<1>1. IndInv => StartTakesFreeCell
  <2> SUFFICES ASSUME IndInv, phase = "moves", NEW o \in Ops
               PROVE  CASE Kind(o) = "simple" -> ~ exec[o].cell[exec[o].nextSlot].busy
                        [] Kind(o) = "multi"  ->
                              ~ exec[o].cell[FindFreeExecutingOperation(exec[o], o)].busy
                        [] OTHER -> BusyCells(exec[o]) = {}
    BY DEF StartTakesFreeCell
  <2>1. ExecutorInv(exec[o], o) /\ ReadyToStart(exec[o], o) /\ exec[o] \in Executor(o)
    BY DEF IndInv, ExecutorInv
  <2>2. DOMAIN exec[o].cell = Slots(o) /\ exec[o].nextSlot \in Slots(o)
    BY <2>1 DEF Executor
  <2>3. CASE Kind(o) = "simple"
    BY <2>1, <2>2, <2>3 DEF ReadyToStart, BusyCells
  <2>4. CASE Kind(o) = "multi"
    <3>1. /\ FindFreeExecutingOperation(exec[o], o) \in Slots(o)
          /\ FindFreeExecutingOperation(exec[o], o) \notin BusyCells(exec[o])
      BY <2>1, <2>4, FindFreeIsFree
    <3> QED  BY <2>2, <2>4, <3>1 DEF BusyCells
  <2>5. CASE Kind(o) = "one"
    BY <2>1, <2>5 DEF ExecutorInv
  <2> QED  BY <2>3, <2>4, <2>5, KindCases
<1> QED  BY Invariance, <1>1, PTL

(* A unit that says it is idle, and is not called, is empty.               *)
THEOREM IdleIsEmpty == Spec => []IdleMeansEmpty
<1>1. IndInv => IdleMeansEmpty
  BY DEF IndInv, ShortcutsInv, IdleMeansEmpty, IsIdle
<1> QED  BY Invariance, <1>1, PTL

(* The ring buffer's count, which says whether the executor has to be      *)
(* visited, is the number of operations in the ring.                       *)
THEOREM CountsAreExact == Spec => []PendingCountsRing
<1>1. IndInv => PendingCountsRing
  BY DEF IndInv, PendingCountsRing, ExecutorInv
<1> QED  BY Invariance, <1>1, PTL

-----------------------------------------------------------------------------
(* The operations in flight, executor by executor                          *)

(* Remainders of what is off by at most one turn of the ring.              *)
LEMMA OneTurn ==
    ASSUME NEW L \in Nat \ {0}, NEW a \in Int, -L <= a, a < L
    PROVE  a % L = IF a < 0 THEN a + L ELSE a
OBVIOUS

Started(o, v) == [op |-> o, in |-> v, left |-> Latency[o]]

(* An executor that stores the operation has it for the whole latency.     *)
LEMMA StartInFlight ==
    ASSUME NEW o \in Ops, NEW e, NEW v \in Values, NEW ready \in BOOLEAN,
           ExecutorInv(e, o), ReadyToStart(e, o), Kind(o) # "one"
    PROVE  InFlight(StartOperation(e, o, v, ready), o) = InFlight(e, o) \cup {Started(o, v)}
<1>1. PICK f, k, c : /\ f = StartOperation(e, o, v, ready)
                     /\ k = IF Kind(o) = "simple" THEN e.nextSlot
                            ELSE FindFreeExecutingOperation(e, o)
                     /\ c = [e.cell EXCEPT ![k] = [busy |-> TRUE, val |-> v, stage |-> 0]]
  OBVIOUS
<1>2. e \in Executor(o) /\ k \in Slots(o) /\ k \notin BusyCells(e)
  <2>1. e \in Executor(o)
    BY DEF ExecutorInv
  <2>2. CASE Kind(o) = "simple"
    BY <1>1, <2>1, <2>2 DEF Executor, ReadyToStart
  <2>3. CASE Kind(o) = "multi"
    BY <1>1, <2>1, <2>3, FindFreeIsFree
  <2> QED BY <2>1, <2>2, <2>3, KindCases
<1>3. f.cell = c /\ f.nextSlot = e.nextSlot
  <2>1. CASE Kind(o) = "simple"
    BY <1>1, <1>2, <2>1 DEF StartOperation, SimpleStart, Executor
  <2>2. CASE Kind(o) = "multi"
    BY <1>1, <1>2, <2>2 DEF StartOperation, MultiStart, Executor
  <2> QED BY <2>1, <2>2, KindCases
<1>4. /\ c[k].busy /\ c[k].val = v /\ c[k].stage = 0 /\ DOMAIN c = DOMAIN e.cell
      /\ \A i \in Slots(o) : i # k => c[i] = e.cell[i]
  BY <1>1, <1>2 DEF Executor
<1>5. BusyCells(f) = BusyCells(e) \cup {k}
  BY <1>2, <1>3, <1>4 DEF BusyCells, Executor
<1>6. /\ CyclesLeft(f, o, k) = Latency[o]
      /\ \A i \in BusyCells(e) : /\ CyclesLeft(f, o, i) = CyclesLeft(e, o, i)
                                 /\ f.cell[i].val = e.cell[i].val
  <2>1. \A i \in BusyCells(e) : i \in Slots(o) /\ i # k
    BY <1>2, BusyFinite
  <2>2. \A i \in BusyCells(e) : f.cell[i] = e.cell[i]
    BY <1>3, <1>4, <2>1
  <2>3. \A i \in BusyCells(e) : CyclesLeft(f, o, i) = CyclesLeft(e, o, i)
    BY <1>3, <2>2 DEF CyclesLeft
  <2>4. CASE Kind(o) = "simple"
    <3>1. e.nextSlot \in Int /\ k - e.nextSlot - 1 = -1
      BY <1>1, <1>2, <2>4 DEF Slots
    <3>2. (-1) % Latency[o] = Latency[o] - 1
      BY KindCases, OneTurn
    <3>3. CyclesLeft(f, o, k) = ((-1) % Latency[o]) + 1
      BY <1>3, <2>4, <3>1 DEF CyclesLeft
    <3> QED BY <2>2, <2>3, <3>2, <3>3, KindCases
  <2>5. CASE Kind(o) = "multi"
    BY <1>3, <1>4, <2>2, <2>3, <2>5, KindCases DEF CyclesLeft
  <2> QED BY <2>4, <2>5, KindCases
<1>7. f.cell[k].val = v
  BY <1>3, <1>4
<1>8. InFlight(f, o) = InFlight(e, o) \cup {Started(o, v)}
  BY <1>5, <1>6, <1>7 DEF InFlight, Started
<1> QED BY <1>1, <1>8

(* One that does not has nothing in flight.                                *)
LEMMA OneCycleInFlight ==
    ASSUME NEW o \in Ops, NEW e, NEW v \in Values, NEW ready \in BOOLEAN,
           ExecutorInv(e, o), ReadyToStart(e, o), Kind(o) = "one"
    PROVE  InFlight(StartOperation(e, o, v, ready), o) = {} /\ InFlight(e, o) = {}
<1>1. ExecutorInv(StartOperation(e, o, v, ready), o)
  BY StartOperationInv
<1> QED BY <1>1 DEF ExecutorInv, InFlight

(* The cell after n in a ring of L, and how far i is ahead of n            *)
After(n, L) == (n + 1) % L
Ahead(i, n, L) == ((i - n - 1) % L) + 1

(* The cells of a ring are visited in their order: the oldest has one      *)
(* cycle left, and every other comes one cycle nearer.                     *)
LEMMA RingTurns ==
    ASSUME NEW L \in Nat \ {0}, NEW n \in 0 .. L - 1
    PROVE  /\ After(n, L) \in 0 .. L - 1
           /\ \A i \in 0 .. L - 1 :
                  /\ Ahead(i, n, L) \in 1 .. L
                  /\ i = After(n, L) <=> Ahead(i, n, L) = 1
                  /\ i # After(n, L) => Ahead(i, After(n, L), L) = Ahead(i, n, L) - 1
<1>1. PICK k : k = After(n, L)
  OBVIOUS
<1>2. k = IF n + 1 = L THEN 0 ELSE n + 1
  <2>1. CASE n + 1 = L
    BY <1>1, <2>1 DEF After
  <2>2. CASE n + 1 # L
    <3>1. (n + 1) % L = n + 1
      BY <2>2, OneTurn
    <3> QED BY <1>1, <2>2, <3>1 DEF After
  <2> QED BY <2>1, <2>2
<1>3. ASSUME NEW i \in 0 .. L - 1
      PROVE  /\ Ahead(i, n, L) \in 1 .. L
             /\ i = k <=> Ahead(i, n, L) = 1
             /\ i # k => Ahead(i, k, L) = Ahead(i, n, L) - 1
  <2>1. ASSUME NEW m \in 0 .. L - 1
        PROVE  Ahead(i, m, L) = IF i < m + 1 THEN i - m + L ELSE i - m
    <3>1. i - m - 1 \in Int /\ -L <= i - m - 1 /\ i - m - 1 < L
      OBVIOUS
    <3>2. (i - m - 1) % L = IF i - m - 1 < 0 THEN i - m - 1 + L ELSE i - m - 1
      BY ONLY <3>1, L \in Nat \ {0}, OneTurn
    <3> QED BY <3>2 DEF Ahead
  <2>2. k \in 0 .. L - 1
    BY <1>2
  <2> QED BY <1>2, <2>1, <2>2
<1>4. k \in 0 .. L - 1
  BY <1>2
<1> QED BY <1>1, <1>3, <1>4

(* The operations of S that have cycles left, one cycle later.             *)
Later(S) == {[f EXCEPT !.left = f.left - 1] : f \in {g \in S : g.left > 1}}

(* The results of an operation of S that are due on port p                 *)
DueOf(S, p) == {f \in S : /\ p \in DOMAIN OutLatency[f.op]
                          /\ Latency[f.op] - f.left + 1 = OutLatency[f.op][p]}

LEMMA SimpleInFlight ==
    ASSUME NEW o \in Ops, NEW e, Kind(o) = "simple", ExecutorInv(e, o)
    PROVE  /\ InFlight(SimpleAdvance(e, o), o) = Later(InFlight(e, o))
           /\ \A p : p \in DOMAIN SimpleWrites(e, o) <=> DueOf(InFlight(e, o), p) # {}
           /\ \A p \in DOMAIN SimpleWrites(e, o) : \E f \in DueOf(InFlight(e, o), p) :
                  SimpleWrites(e, o)[p] = [op |-> f.op, in |-> f.in]
<1>1. PICK L, n, k, f : /\ L = Latency[o] /\ n = e.nextSlot /\ k = Oldest(e, o)
                        /\ f = SimpleAdvance(e, o)
  OBVIOUS
<1>2. L \in Nat \ {0} /\ Slots(o) = 0 .. L - 1 /\ e \in Executor(o) /\ n \in 0 .. L - 1
  BY <1>1, KindCases DEF Slots, ExecutorInv, Executor
<1>3. k = After(n, L)
  BY <1>1 DEF Oldest, After
<1>4. BusyCells(e) \subseteq 0 .. L - 1
  BY <1>2, BusyFinite
<1>5. \A i \in BusyCells(e) :
         /\ CyclesLeft(e, o, i) \in 1 .. L
         /\ i = k <=> CyclesLeft(e, o, i) = 1
         /\ i # k => Ahead(i, k, L) = CyclesLeft(e, o, i) - 1
  <2>1. \A i \in 0 .. L - 1 : /\ Ahead(i, n, L) \in 1 .. L
                              /\ i = k <=> Ahead(i, n, L) = 1
                              /\ i # k => Ahead(i, k, L) = Ahead(i, n, L) - 1
    BY <1>2, <1>3, RingTurns
  <2>2. \A i \in BusyCells(e) : CyclesLeft(e, o, i) = Ahead(i, n, L)
    BY <1>1 DEF CyclesLeft, Ahead
  <2> QED BY <1>4, <2>1, <2>2
<1>6. k \in 0 .. L - 1
  BY <1>2, <1>3, RingTurns
<1>7. /\ f.nextSlot = k /\ BusyCells(f) = BusyCells(e) \ {k}
      /\ \A i \in BusyCells(f) : f.cell[i].val = e.cell[i].val
  <2>1. CASE e.cell[k].busy
    <3>1. f = SimpleDeliver(e, o)
      BY <1>1, <2>1 DEF SimpleAdvance
    <3>2. f.nextSlot = k /\ f.cell = [e.cell EXCEPT ![k].busy = FALSE]
      BY <1>1, <1>2, <3>1 DEF SimpleDeliver, Executor
    <3>3. \A i \in 0 .. L - 1 : i # k => f.cell[i] = e.cell[i]
      BY <1>2, <1>6, <3>2 DEF Executor
    <3>4. DOMAIN f.cell = DOMAIN e.cell /\ ~ f.cell[k].busy
      BY <1>2, <1>6, <3>2 DEF Executor, Cell
    <3>5. DOMAIN e.cell = 0 .. L - 1
      BY <1>2 DEF Executor
    <3> QED BY <1>6, <3>2, <3>3, <3>4, <3>5 DEF BusyCells
  <2>2. CASE ~ e.cell[k].busy
    <3>1. f = [e EXCEPT !.nextSlot = k]
      BY <1>1, <2>2 DEF SimpleAdvance
    <3>2. f.cell = e.cell /\ f.nextSlot = k
      BY <1>2, <3>1 DEF Executor
    <3> QED BY <2>2, <3>2 DEF BusyCells
  <2> QED BY <2>1, <2>2
<1>8. \A i \in BusyCells(f) : CyclesLeft(f, o, i) = CyclesLeft(e, o, i) - 1
  <2>1. \A i : CyclesLeft(f, o, i) = Ahead(i, k, L)
    BY <1>1, <1>7 DEF CyclesLeft, Ahead
  <2> QED BY <1>5, <1>7, <2>1
<1>9. InFlight(f, o) = Later(InFlight(e, o))
  <2>1. ASSUME NEW x \in InFlight(f, o) PROVE x \in Later(InFlight(e, o))
    <3>1. PICK i \in BusyCells(f) :
            x = [op |-> o, in |-> f.cell[i].val, left |-> CyclesLeft(f, o, i)]
      BY <2>1 DEF InFlight
    <3>2. PICK g : g = [op |-> o, in |-> e.cell[i].val, left |-> CyclesLeft(e, o, i)]
      OBVIOUS
    <3>3. g \in InFlight(e, o) /\ g.left > 1
      BY <1>2, <1>5, <1>7, <3>2 DEF InFlight
    <3>4. x = [g EXCEPT !.left = g.left - 1]
      BY <1>7, <1>8, <3>1, <3>2
    <3> QED BY <3>3, <3>4 DEF Later
  <2>2. ASSUME NEW x \in Later(InFlight(e, o)) PROVE x \in InFlight(f, o)
    <3>1. PICK g \in InFlight(e, o) : g.left > 1 /\ x = [g EXCEPT !.left = g.left - 1]
      BY <2>2 DEF Later
    <3>2. PICK i \in BusyCells(e) :
            g = [op |-> o, in |-> e.cell[i].val, left |-> CyclesLeft(e, o, i)]
      BY <3>1 DEF InFlight
    <3>3. i \in BusyCells(f)
      BY <1>5, <1>7, <3>1, <3>2
    <3>4. x = [op |-> o, in |-> f.cell[i].val, left |-> CyclesLeft(f, o, i)]
      BY <1>7, <1>8, <3>1, <3>2, <3>3
    <3> QED BY <3>3, <3>4 DEF InFlight
  <2> QED BY <2>1, <2>2
<1>10. \A p \in DOMAIN OutLatency[o] : OutLatency[o][p] = L
  BY <1>1, <1>2, OutLatencyAssumption DEF Kind
<1>11. \A p : DueOf(InFlight(e, o), p) =
          {g \in InFlight(e, o) : p \in DOMAIN OutLatency[o] /\ g.left = 1}
  <2>1. \A g \in InFlight(e, o) : g.op = o /\ g.left \in 1 .. L
    BY <1>5 DEF InFlight
  <2> QED BY <1>1, <1>2, <1>10, <2>1 DEF DueOf
<1>12. PICK y : y = [op |-> o, in |-> e.cell[k].val, left |-> 1]
  OBVIOUS
<1>13. {g \in InFlight(e, o) : g.left = 1} = IF e.cell[k].busy THEN {y} ELSE {}
  <2>1. e.cell[k].busy <=> k \in BusyCells(e)
    BY <1>2, <1>6 DEF BusyCells, Executor
  <2>2. \A g \in InFlight(e, o) : g.left = 1 => g = y /\ k \in BusyCells(e)
    BY <1>5, <1>12 DEF InFlight
  <2>3. k \in BusyCells(e) => y \in InFlight(e, o) /\ y.left = 1
    BY <1>5, <1>12 DEF InFlight
  <2> QED BY <2>1, <2>2, <2>3
<1>14. /\ \A p : p \in DOMAIN SimpleWrites(e, o) <=> p \in DOMAIN OutLatency[o] /\ e.cell[k].busy
       /\ \A p \in DOMAIN SimpleWrites(e, o) : SimpleWrites(e, o)[p] = Result(o, e.cell[k].val)
  BY <1>1 DEF SimpleWrites
<1>15. \A p : p \in DOMAIN SimpleWrites(e, o) <=> DueOf(InFlight(e, o), p) # {}
  BY <1>11, <1>13, <1>14
<1>16. \A p \in DOMAIN SimpleWrites(e, o) : \E g \in DueOf(InFlight(e, o), p) :
           SimpleWrites(e, o)[p] = [op |-> g.op, in |-> g.in]
  BY <1>11, <1>12, <1>13, <1>14 DEF Result
<1> QED BY <1>1, <1>9, <1>15, <1>16

LEMMA MultiInFlight ==
    ASSUME NEW o \in Ops, NEW e, Kind(o) = "multi", ExecutorInv(e, o)
    PROVE  /\ InFlight(MultiAdvance(e, o), o) = Later(InFlight(e, o))
           /\ \A p : p \in DOMAIN MultiWrites(e, o) <=> DueOf(InFlight(e, o), p) # {}
           /\ \A p \in DOMAIN MultiWrites(e, o) : \E f \in DueOf(InFlight(e, o), p) :
                  MultiWrites(e, o)[p] = [op |-> f.op, in |-> f.in]
<1>1. PICK L, f : L = Latency[o] /\ f = MultiAdvance(e, o)
  OBVIOUS
<1>2. /\ L \in Nat \ {0} /\ e \in Executor(o) /\ DOMAIN e.cell = Slots(o)
      /\ \A i \in Slots(o) : e.cell[i] \in Cell /\ e.cell[i].stage \in Nat
  BY <1>1, KindCases DEF ExecutorInv, Executor, Cell
<1>3. \A i \in BusyCells(e) : i \in Slots(o) /\ e.cell[i].stage < L
  BY <1>1, <1>2, BusyFinite DEF ExecutorInv
<1>4. f.cell = [i \in Slots(o) |->
                   IF e.cell[i].busy THEN AdvanceCell(e.cell[i], o) ELSE e.cell[i]]
  BY <1>1, <1>2 DEF MultiAdvance, Executor
<1>5. \A x \in Cell : AdvanceCell(x, o).val = x.val
  BY DEF AdvanceCell, Cell
<1>6. /\ \A i \in BusyCells(e) : /\ f.cell[i].stage = e.cell[i].stage + 1
                                 /\ f.cell[i].val = e.cell[i].val
                                 /\ f.cell[i].busy <=> e.cell[i].stage + 1 # L
      /\ \A i \in Slots(o) : i \notin BusyCells(e) => ~ f.cell[i].busy
  <2>1. \A i \in BusyCells(e) : f.cell[i] = AdvanceCell(e.cell[i], o)
    BY <1>2, <1>4 DEF BusyCells
  <2>2. \A i \in Slots(o) : i \notin BusyCells(e) => f.cell[i] = e.cell[i] /\ ~ e.cell[i].busy
    BY <1>2, <1>4 DEF BusyCells
  <2> QED BY <1>1, <1>2, <1>3, <1>5, <2>1, <2>2, AdvanceCellFields
<1>7. BusyCells(f) = {i \in BusyCells(e) : e.cell[i].stage + 1 # L}
  <2>1. DOMAIN f.cell = Slots(o)
    BY <1>4
  <2> QED BY <1>3, <1>6, <2>1 DEF BusyCells
<1>8. /\ \A i \in BusyCells(e) : CyclesLeft(e, o, i) = L - e.cell[i].stage
      /\ \A i \in BusyCells(f) : CyclesLeft(f, o, i) = L - (e.cell[i].stage + 1)
  BY <1>1, <1>6, <1>7 DEF CyclesLeft
<1>9. InFlight(f, o) = Later(InFlight(e, o))
  <2>1. ASSUME NEW x \in InFlight(f, o) PROVE x \in Later(InFlight(e, o))
    <3>1. PICK i \in BusyCells(f) :
            x = [op |-> o, in |-> f.cell[i].val, left |-> CyclesLeft(f, o, i)]
      BY <2>1 DEF InFlight
    <3>2. PICK g : g = [op |-> o, in |-> e.cell[i].val, left |-> CyclesLeft(e, o, i)]
      OBVIOUS
    <3>3. g \in InFlight(e, o) /\ g.left > 1
      BY <1>2, <1>3, <1>7, <1>8, <3>2 DEF InFlight
    <3>4. CyclesLeft(f, o, i) = CyclesLeft(e, o, i) - 1
      BY <1>2, <1>3, <1>7, <1>8
    <3>5. x = [g EXCEPT !.left = g.left - 1]
      BY <1>6, <1>7, <3>1, <3>2, <3>4
    <3> QED BY <3>3, <3>5 DEF Later
  <2>2. ASSUME NEW x \in Later(InFlight(e, o)) PROVE x \in InFlight(f, o)
    <3>1. PICK g \in InFlight(e, o) : g.left > 1 /\ x = [g EXCEPT !.left = g.left - 1]
      BY <2>2 DEF Later
    <3>2. PICK i \in BusyCells(e) :
            g = [op |-> o, in |-> e.cell[i].val, left |-> CyclesLeft(e, o, i)]
      BY <3>1 DEF InFlight
    <3>3. L - e.cell[i].stage > 1
      BY <1>8, <3>1, <3>2
    <3>4. i \in BusyCells(f) /\ CyclesLeft(f, o, i) = CyclesLeft(e, o, i) - 1
      BY <1>2, <1>3, <1>7, <1>8, <3>3
    <3>5. x = [op |-> o, in |-> f.cell[i].val, left |-> CyclesLeft(f, o, i)]
      BY <1>6, <3>1, <3>2, <3>4
    <3> QED BY <3>4, <3>5 DEF InFlight
  <2> QED BY <2>1, <2>2
<1>10. ASSUME NEW p
       PROVE  /\ p \in DOMAIN MultiWrites(e, o) <=> DueOf(InFlight(e, o), p) # {}
              /\ p \in DOMAIN MultiWrites(e, o) =>
                    \E g \in DueOf(InFlight(e, o), p) :
                        MultiWrites(e, o)[p] = [op |-> g.op, in |-> g.in]
  <2>1. ASSUME NEW i \in BusyCells(e), p \in DOMAIN OutLatency[o]
        PROVE  i \in Expiring(e, o, p) <=>
                 [op |-> o, in |-> e.cell[i].val, left |-> CyclesLeft(e, o, i)]
                    \in DueOf(InFlight(e, o), p)
    <3>1. PICK g : g = [op |-> o, in |-> e.cell[i].val, left |-> CyclesLeft(e, o, i)]
      OBVIOUS
    <3>2. g \in InFlight(e, o) /\ g.op = o /\ g.left = L - e.cell[i].stage
      BY <1>8, <3>1 DEF InFlight
    <3>3. Latency[g.op] - g.left + 1 = e.cell[i].stage + 1
      BY <1>1, <1>2, <1>3, <3>2
    <3> QED BY <2>1, <3>1, <3>2, <3>3 DEF Expiring, DueOf
  <2>2. p \in DOMAIN MultiWrites(e, o) <=> p \in DOMAIN OutLatency[o] /\ Expiring(e, o, p) # {}
    BY DEF MultiWrites
  <2>3. ASSUME p \in DOMAIN MultiWrites(e, o)
        PROVE  \E g \in DueOf(InFlight(e, o), p) :
                  MultiWrites(e, o)[p] = [op |-> g.op, in |-> g.in]
    <3>1. PICK m : m = Max(Expiring(e, o, p))
      OBVIOUS
    <3>2. Expiring(e, o, p) \subseteq 0 .. L - 1 /\ L - 1 \in Nat
      BY <1>1, <1>2, <1>3 DEF Expiring, Slots
    <3>3. m \in Expiring(e, o, p)
      BY <2>2, <2>3, <3>1, <3>2, MaxInSet
    <3>4. m \in BusyCells(e)
      BY <3>3 DEF Expiring
    <3>5. MultiWrites(e, o)[p] = [op |-> o, in |-> e.cell[m].val]
      BY <2>2, <2>3, <3>1 DEF MultiWrites, Result
    <3>6. PICK g : g = [op |-> o, in |-> e.cell[m].val, left |-> CyclesLeft(e, o, m)]
      OBVIOUS
    <3>7. g \in DueOf(InFlight(e, o), p)
      BY <2>1, <2>2, <2>3, <3>3, <3>4, <3>6
    <3> QED BY <3>5, <3>6, <3>7
  <2>4. ASSUME DueOf(InFlight(e, o), p) # {}
        PROVE  p \in DOMAIN OutLatency[o] /\ Expiring(e, o, p) # {}
    <3>1. PICK g \in InFlight(e, o) : g \in DueOf(InFlight(e, o), p)
      BY <2>4 DEF DueOf
    <3>2. PICK i \in BusyCells(e) :
            g = [op |-> o, in |-> e.cell[i].val, left |-> CyclesLeft(e, o, i)]
      BY DEF InFlight
    <3>3. p \in DOMAIN OutLatency[o]
      BY <3>1, <3>2 DEF DueOf
    <3> QED BY <2>1, <3>1, <3>2, <3>3
  <2> QED BY <2>2, <2>3, <2>4
<1> QED BY <1>1, <1>9, <1>10

(* advanceClock of an executor: what is in flight comes one cycle nearer,  *)
(* and the ports are written that have a result due.                       *)
LEMMA AdvanceInFlight ==
    ASSUME NEW o \in Ops, NEW e, ExecutorInv(e, o)
    PROVE  /\ InFlight(AdvanceExecutor(e, o), o) = Later(InFlight(e, o))
           /\ \A p : p \in DOMAIN AdvanceWrites(e, o) <=> DueOf(InFlight(e, o), p) # {}
           /\ \A p \in DOMAIN AdvanceWrites(e, o) : \E f \in DueOf(InFlight(e, o), p) :
                  AdvanceWrites(e, o)[p] = [op |-> f.op, in |-> f.in]
<1>1. CASE Kind(o) = "simple"
  <2>1. AdvanceExecutor(e, o) = SimpleAdvance(e, o) /\ AdvanceWrites(e, o) = SimpleWrites(e, o)
    BY <1>1 DEF AdvanceExecutor, AdvanceWrites
  <2> QED BY <1>1, <2>1, SimpleInFlight
<1>2. CASE Kind(o) = "multi"
  <2>1. AdvanceExecutor(e, o) = MultiAdvance(e, o) /\ AdvanceWrites(e, o) = MultiWrites(e, o)
    BY <1>2 DEF AdvanceExecutor, AdvanceWrites
  <2> QED BY <1>2, <2>1, MultiInFlight
<1>3. CASE Kind(o) = "one"
  <2>1. BusyCells(e) = {} /\ BusyCells(AdvanceExecutor(e, o)) = {}
    BY <1>3, AdvanceExecutorInv DEF ExecutorInv
  <2>2. InFlight(e, o) = {} /\ InFlight(AdvanceExecutor(e, o), o) = {}
    BY <2>1 DEF InFlight
  <2>3. DOMAIN AdvanceWrites(e, o) = {}
    BY <1>3 DEF AdvanceWrites
  <2> QED BY <2>2, <2>3 DEF Later, DueOf
<1> QED BY <1>1, <1>2, <1>3, KindCases

-----------------------------------------------------------------------------
(* The unit implements the fully pipelined unit of FUPipeline              *)

(* out has a value for every port and nothing else.                        *)
PortsWhole == out = [p \in Ports |-> out[p]]

LEMMA PortsInit == Init => PortsWhole
  BY DEF Init, PortsWhole

LEMMA PortsNext == PortsWhole /\ [Next]_vars => PortsWhole'
<1> SUFFICES ASSUME PortsWhole, [Next]_vars PROVE PortsWhole'
  OBVIOUS
<1>1. ASSUME out' = out PROVE PortsWhole'
  BY <1>1 DEF PortsWhole
<1>2. ASSUME NEW writes, WritePorts(writes) PROVE PortsWhole'
  BY <1>2 DEF WritePorts, PortsWhole
<1>3. ASSUME NEW writes, WriteInOrder(writes) PROVE PortsWhole'
  <2>1. PICK h : out' = [p \in Ports |-> h[p]]
    <3> DEFINE writers(p) == {o \in DOMAIN writes : p \in DOMAIN writes[o]}
               g == [p \in Ports |-> IF writers(p) = {} THEN out[p]
                                     ELSE writes[Max(writers(p))][p]]
    <3>1. out' = g
      BY <1>3, Zenon DEF WriteInOrder
    <3>2. g = [p \in Ports |-> g[p]]
      <4> HIDE DEF writers
      <4> QED OBVIOUS
    <3> HIDE DEF g
    <3> QED BY <3>1, <3>2
  <2> QED BY <2>1 DEF PortsWhole
<1>4. CASE EndClock
  BY <1>1, <1>2, <1>4 DEF EndClock, StartNext
<1>5. CASE AdvanceClock
  BY <1>1, <1>3, <1>5 DEF AdvanceClock, NothingActive, AdvanceNextOnly, AdvanceAll, WriteResults
<1>6. CASE ~ EndClock /\ ~ AdvanceClock
  BY <1>1, <1>6 DEF Next, WriteOperand, WriteTriggerPort, WriteOpcodePort,
                    EndClockWithoutOpcode, vars
<1> QED BY <1>4, <1>5, <1>6

(* A new unit has nothing in flight and no request.                        *)
LEMMA PipelineInit == Init => Pipeline!Init
<1> SUFFICES ASSUME Init PROVE Pipeline!Init
  OBVIOUS
<1>1. \A o \in Ops : InFlight(exec[o], o) = {}
  BY NewExecutorInv DEF Init, InFlight
<1>2. Flight = {}
  BY <1>1 DEF Flight
<1>3. Request = None
  BY DEF Init, Request
<1> QED BY <1>2, <1>3 DEF Init, Pipeline!Init, Pipeline!NoOp, NoResult

(* A move changes the inputs and possibly the request.                     *)
LEMMA PipelineMove ==
    ASSUME IndInv, NEW v \in Values,
           \/ WriteOperand(v)
           \/ WriteTriggerPort(v)
           \/ \E o \in Ops, found \in BOOLEAN : WriteOpcodePort(o, v, found)
    PROVE  Pipeline!Move
<1>1. /\ phase = "moves" /\ phase' = phase /\ in' = v /\ out' = out /\ exec' = exec
      /\ nextOperation \in Ops \cup {None}
  BY DEF WriteOperand, WriteTriggerPort, WriteOpcodePort, IndInv, TypeOK
<1>2. Flight' = Flight
  BY <1>1 DEF Flight
<1>3. Request' \in Ops \cup {Request}
  <2>1. CASE WriteOperand(v)
    BY <2>1 DEF WriteOperand, Request
  <2>2. CASE WriteTriggerPort(v)
    BY <1>1, <2>2 DEF WriteTriggerPort, SetTriggered, Request
  <2>3. CASE \E o \in Ops, found \in BOOLEAN : WriteOpcodePort(o, v, found)
    BY <2>3 DEF WriteOpcodePort, SetTriggered, SetOperation, Request
  <2> QED BY <2>1, <2>2, <2>3
<1> QED BY <1>1, <1>2, <1>3 DEF Pipeline!Move, Pipeline!Ops, Ops

(* endClock issues the requested operation.                                *)
LEMMA PipelineIssue ==
    ASSUME IndInv, PortsWhole, EndClock
    PROVE  Pipeline!Issue
<1>0. phase = "moves" /\ phase' = "advance"
  BY DEF EndClock
<1>1. CASE /\ ~ Triggered
           /\ UNCHANGED <<in, out, idle, trigger, nextOperation, nextExecutor,
                          activeExecutors, exec>>
  <2>1. ~ trigger
    BY <1>1 DEF Triggered, IsIdle, IndInv, ShortcutsInv
  <2>2. Request = None /\ Request' = None /\ Flight' = Flight
    BY <1>1, <2>1 DEF Request, Flight
  <2> QED BY <1>0, <1>1, <2>2 DEF Pipeline!Issue, Pipeline!NoOp
<1>2. ASSUME Triggered, nextOperation # None, NEW ready \in BOOLEAN, StartNext(ready)
      PROVE  Pipeline!Issue
  <2>1. PICK o, e, f : /\ o = nextOperation /\ e = exec[o]
                       /\ f = StartOperation(e, o, in, ready)
    OBVIOUS
  <2>2. /\ o \in Ops /\ in \in Values /\ ExecutorInv(e, o) /\ ReadyToStart(e, o)
        /\ DOMAIN exec = Ops
    BY <1>0, <1>2, <2>1 DEF IndInv, TypeOK
  <2>3. /\ exec' = [exec EXCEPT ![o] = f] /\ trigger' = FALSE /\ in' = in
        /\ WritePorts(StartWrites(o, in))
    BY <1>2, <2>1 DEF StartNext
  <2>4. Request = o /\ Request' = None /\ o # None
    BY <1>2, <2>1, <2>3 DEF Request, Triggered
  <2>5. \A q \in Ops : exec'[q] = IF q = o THEN f ELSE exec[q]
    BY <2>2, <2>3
  <2>6. CASE Kind(o) # "one"
    <3>1. InFlight(f, o) = InFlight(e, o) \cup {Started(o, in)}
      BY <2>1, <2>2, <2>6, StartInFlight
    <3>2. Flight' = Flight \cup {Started(o, in)}
      BY <2>1, <2>2, <2>5, <3>1 DEF Flight
    <3>3. out' = out
      <4>1. DOMAIN StartWrites(o, in) = {}
        BY <2>6 DEF StartWrites
      <4>2. out' = [p \in Ports |-> out[p]]
        BY <2>3, <4>1 DEF WritePorts
      <4> QED BY <4>2 DEF PortsWhole
    <3> QED BY <1>0, <2>3, <2>4, <3>2, <3>3
            DEF Pipeline!Issue, Pipeline!NoOp, Pipeline!Started, Started
  <2>7. CASE Kind(o) = "one"
    <3>1. InFlight(f, o) = {} /\ InFlight(e, o) = {}
      BY <2>1, <2>2, <2>7, OneCycleInFlight
    <3>2. Flight' = Flight
      BY <2>1, <2>2, <2>5, <3>1 DEF Flight
    <3>3. Latency[o] = 1
      BY <2>7 DEF Kind
    <3>4. out' = [p \in Ports |-> IF p \in DOMAIN OutLatency[o]
                                  THEN [op |-> o, in |-> in] ELSE out[p]]
      <4>1. /\ DOMAIN StartWrites(o, in) = DOMAIN OutLatency[o]
            /\ \A p \in DOMAIN OutLatency[o] : StartWrites(o, in)[p] = [op |-> o, in |-> in]
        BY <2>7 DEF StartWrites, Result
      <4> QED BY <2>3, <4>1 DEF WritePorts
    <3> QED BY <1>0, <2>3, <2>4, <3>2, <3>3, <3>4
            DEF Pipeline!Issue, Pipeline!NoOp, Pipeline!Started, Pipeline!Finished
  <2> QED BY <2>6, <2>7
<1> QED BY <1>1, <1>2 DEF EndClock

(* Nothing but the operations with results due may write a port.           *)
TickOf(S, T) ==
    /\ T = Later(S)
    /\ DOMAIN out' = Ports
    /\ \A p \in Ports :
          out'[p] \in IF DueOf(S, p) = {} THEN {out[p]}
                      ELSE {[op |-> f.op, in |-> f.in] : f \in DueOf(S, p)}

(* Advancing a set of executors that includes all those with operations    *)
(* in flight brings everything in flight one cycle on.                     *)
LEMMA AdvanceTicks ==
    ASSUME IndInv, NEW A \in SUBSET Ops, BusyOps \subseteq A,
           AdvanceExecutors(A), WriteResults(A)
    PROVE  TickOf(Flight, Flight')
<1>1. \A o \in Ops : exec'[o] = IF o \in A THEN AdvanceExecutor(exec[o], o) ELSE exec[o]
  BY DEF AdvanceExecutors
<1>2. \A o \in Ops : ExecutorInv(exec[o], o)
  BY DEF IndInv
<1>3. \A o \in Ops \ A : InFlight(exec[o], o) = {} /\ InFlight(exec'[o], o) = {}
  BY <1>1 DEF BusyOps, InFlight
<1>4. \A o \in Ops : InFlight(exec'[o], o) = Later(InFlight(exec[o], o))
  <2>1. Later({}) = {}
    BY DEF Later
  <2>2. \A o \in A : InFlight(exec'[o], o) = Later(InFlight(exec[o], o))
    BY <1>1, <1>2, AdvanceInFlight
  <2> QED BY <1>3, <2>1, <2>2
<1>5. Flight' = Later(Flight)
  <2>1. PICK F : F = [o \in Ops |-> InFlight(exec[o], o)]
    OBVIOUS
  <2>2. Flight = UNION {F[o] : o \in Ops}
    BY <2>1 DEF Flight
  <2>3. Flight' = UNION {Later(F[o]) : o \in Ops}
    BY <1>4, <2>1 DEF Flight
  <2> QED BY <2>2, <2>3 DEF Later
<1>6. ASSUME NEW p \in Ports
      PROVE  out'[p] \in IF DueOf(Flight, p) = {} THEN {out[p]}
                         ELSE {[op |-> f.op, in |-> f.in] : f \in DueOf(Flight, p)}
  <2>1. PICK W : W = {o \in A : p \in DOMAIN AdvanceWrites(exec[o], o)}
    OBVIOUS
  <2>a. W # {} => Max(W) \in W
    <3>1. W \subseteq Ops
      BY <2>1
    <3>2. \A x \in Ops : x \in 0 .. NumOps
      BY NumOpsAssumption DEF Ops
    <3>3. W \subseteq 0 .. NumOps
      BY <3>1, <3>2
    <3> QED BY <3>3, MaxInSet, NumOpsAssumption
  <2>2. \A f : f \in DueOf(Flight, p) <=> \E o \in Ops : f \in DueOf(InFlight(exec[o], o), p)
    BY DEF Flight, DueOf
  <2>3. \A o \in A : o \in W <=> DueOf(InFlight(exec[o], o), p) # {}
    BY <1>2, <2>1, AdvanceInFlight
  <2>4. W = {} <=> DueOf(Flight, p) = {}
    <3>1. \A o \in Ops \ A : DueOf(InFlight(exec[o], o), p) = {}
      BY <1>3 DEF DueOf
    <3> QED BY <2>1, <2>2, <2>3, <3>1
  <2>5. out'[p] = IF W = {} THEN out[p] ELSE AdvanceWrites(exec[Max(W)], Max(W))[p]
    <3>1. PICK w : w = [o \in A |-> AdvanceWrites(exec[o], o)]
      OBVIOUS
    <3>2. WriteInOrder(w)
      BY <3>1 DEF WriteResults
    <3>3. {o \in DOMAIN w : p \in DOMAIN w[o]} = W
      BY <2>1, <3>1
    <3>4. out'[p] = IF W = {} THEN out[p] ELSE w[Max(W)][p]
      BY <3>2, <3>3 DEF WriteInOrder
    <3>5. W # {} => Max(W) \in A
      BY <2>1, <2>a
    <3> QED BY <3>1, <3>4, <3>5
  <2>6. CASE W = {}
    BY <2>4, <2>5, <2>6
  <2>7. CASE W # {}
    <3>1. PICK m : m = Max(W)
      OBVIOUS
    <3>2. m \in W
      BY <2>7, <2>a, <3>1
    <3>3. m \in Ops /\ p \in DOMAIN AdvanceWrites(exec[m], m)
      BY <2>1, <3>2
    <3>4. PICK f \in DueOf(InFlight(exec[m], m), p) :
             AdvanceWrites(exec[m], m)[p] = [op |-> f.op, in |-> f.in]
      BY <1>2, <3>3, AdvanceInFlight
    <3>5. f \in DueOf(Flight, p)
      BY <2>2, <3>3, <3>4
    <3> QED BY <2>4, <2>5, <2>7, <3>1, <3>4, <3>5
  <2> QED BY <2>6, <2>7
<1>7. DOMAIN out' = Ports
  BY DEF WriteResults, WriteInOrder
<1> QED BY <1>5, <1>6, <1>7 DEF TickOf

(* With nothing in flight no time need be spent.                           *)
LEMMA NothingTicks ==
    ASSUME IndInv, BusyOps = {}, UNCHANGED <<out, exec>>
    PROVE  TickOf(Flight, Flight')
<1>1. Flight = {} /\ Flight' = {}
  BY DEF BusyOps, Flight, InFlight
<1> QED BY <1>1 DEF TickOf, Later, DueOf, IndInv, TypeOK

(* advanceClock is the passing of one cycle, along each of its shortcuts.  *)
LEMMA PipelineTick ==
    ASSUME IndInv, AdvanceClock
    PROVE  Pipeline!Tick
<1>1. /\ phase = "advance" /\ phase' = "moves" /\ in' = in /\ ~ trigger
      /\ trigger' = trigger /\ nextOperation' = nextOperation
  BY DEF AdvanceClock, IndInv, ShortcutsInv
<1>2. Request' = Request
  BY <1>1 DEF Request
<1>3. TickOf(Flight, Flight')
  <2>1. CASE NothingActive
    BY <2>1, NothingTicks DEF NothingActive, IndInv, ShortcutsInv
  <2>2. CASE AdvanceNextOnly
    <3>1. PICK n : n = nextExecutor
      OBVIOUS
    <3>2. n \in Ops /\ BusyOps \subseteq {n}
      BY <1>1, <2>2, <3>1 DEF AdvanceNextOnly, OnlyNextActive, IndInv, ShortcutsInv, TypeOK
    <3>3. {n} \in SUBSET Ops /\ AdvanceExecutors({n}) /\ WriteResults({n})
      BY <2>2, <3>1, <3>2 DEF AdvanceNextOnly
    <3> QED BY <3>2, <3>3, AdvanceTicks
  <2>3. CASE AdvanceAll
    <3>1. PICK A : A = PendingOps(exec)
      OBVIOUS
    <3>2. A \in SUBSET Ops /\ BusyOps \subseteq A
      BY <3>1, BusyArePending DEF PendingOps, IndInv
    <3>3. AdvanceExecutors(A) /\ WriteResults(A)
      BY <2>3, <3>1 DEF AdvanceAll
    <3> QED BY <3>2, <3>3, AdvanceTicks
  <2>4. CASE IsIdle /\ UNCHANGED <<out, idle, activeExecutors, exec>>
    BY <2>4, NothingTicks DEF IsIdle, IndInv, ShortcutsInv
  <2> QED BY <2>1, <2>2, <2>3, <2>4 DEF AdvanceClock
<1> QED BY <1>1, <1>2, <1>3
        DEF Pipeline!Tick, Pipeline!Due, Pipeline!Finished, TickOf, Later, DueOf

(* Every step of the unit is a step of the pipelined unit or a stutter.    *)
LEMMA PipelineNext ==
    IndInv /\ PortsWhole /\ [Next]_vars => [Pipeline!Next]_(Pipeline!vars)
<1> SUFFICES ASSUME IndInv, PortsWhole, [Next]_vars
             PROVE  [Pipeline!Next]_(Pipeline!vars)
  OBVIOUS
<1>1. ASSUME NEW v \in Values, WriteOperand(v) \/ WriteTriggerPort(v)
      PROVE  Pipeline!Next
  BY <1>1, PipelineMove DEF Pipeline!Next
<1>2. ASSUME NEW o \in Ops, NEW v \in Values, NEW found \in BOOLEAN,
             WriteOpcodePort(o, v, found)
      PROVE  Pipeline!Next
  BY <1>2, PipelineMove DEF Pipeline!Next
<1>3. CASE EndClock
  BY <1>3, PipelineIssue DEF Pipeline!Next
<1>4. CASE AdvanceClock
  BY <1>4, PipelineTick DEF Pipeline!Next
<1>5. CASE EndClockWithoutOpcode \/ UNCHANGED vars
  BY <1>5 DEF EndClockWithoutOpcode, vars, Pipeline!vars, Request, Flight
<1> QED BY <1>1, <1>2, <1>3, <1>4, <1>5 DEF Next

(* The function unit of the simulator is a fully pipelined unit: every     *)
(* result is on its port exactly its latency after the trigger, whatever   *)
(* advanceClock and endClock skip and whichever executors store the        *)
(* operations.                                                             *)
THEOREM Refinement == Spec => ImplementsPipeline
<1>1. Spec => [](IndInv /\ PortsWhole)
  BY Invariance, PortsInit, PortsNext, PTL DEF Spec
<1> QED BY <1>1, PipelineInit, PipelineNext, PTL DEF Spec, ImplementsPipeline, Pipeline!Spec
=============================================================================

-------------------------- MODULE ConflictDetector --------------------------
(***************************************************************************)
(* The resource conflict detector of a function unit: an automaton that    *)
(* FUFiniteStateAutomaton builds while the simulation runs, one transition *)
(* at a time.  A state of the automaton stands for a collision matrix,     *)
(* which says for every operation and every number of cycles whether the   *)
(* operation could be started then.                                        *)
(*                                                                         *)
(* FSAFUResourceConflictDetector keeps the state of the cycle and the      *)
(* state that the operation issued in the cycle leads to; without an       *)
(* operation that is the transition [NOP].  A conflict is an exception of  *)
(* ConflictDetectingOperationExecutor::startOperation, which gives the     *)
(* cycle up; so does an error in another unit.  When the simulation is     *)
(* resumed the same instruction is executed again.                         *)
(***************************************************************************)
EXTENDS Integers, FiniteSets

CONSTANTS Ops,        \* the operations of the unit
          NOP,        \* the transition [NOP]
          Resources,  \* operation ports and pipeline elements of the unit
          Width,      \* maxLatency() of the unit
          Table       \* Table[o]: <<r, c>> if o uses r in its cycle c

ASSUME OpsAssumption == NOP \notin Ops
ASSUME WidthAssumption == Width \in Nat \ {0}
ASSUME TableAssumption == Table \in [Ops -> SUBSET (Resources \X (0 .. Width - 1))]

Transitions == Ops \cup {NOP}
Cells == Resources \X (0 .. Width - 1)
Matrices == SUBSET (Ops \X (0 .. Width - 1))

UNKNOWN_STATE == -2
ILLEGAL_STATE == -1

VARIABLES stateCount,     \* stateCount_
          matrix,         \* stateCollisionMatrices_, by state
          transitions,    \* transitions_, by state and transition
          currentState,   \* currentState_
          nextState,      \* nextState_
          op,             \* the operation the current instruction triggers
          stage,          \* how far the cycle is: execute, issued or stopped
          reserved        \* history: what the operations in flight still use

fsa == <<stateCount, matrix, transitions>>
vars == <<stateCount, matrix, transitions, currentState, nextState, op, stage,
          reserved>>

States == 0 .. stateCount - 1

-----------------------------------------------------------------------------
(* Collision matrices                                                      *)

TableOf(t) == IF t = NOP THEN {} ELSE Table[t]

(* ReservationTable::conflictsWith: u, started c cycles after t.           *)
Overlap(t, u, c) == \E x \in u : <<x[1], x[2] + c>> \in t

CollisionMatrix_Swapped(t) ==
    {x \in Ops \X (0 .. Width - 1) : Overlap(Table[x[1]], TableOf(t), x[2])}

(* M[o, c] holds when o cannot be started c cycles after t.                *)
CollisionMatrix(t) ==
    {x \in Ops \X (0 .. Width - 1) : Overlap(TableOf(t), Table[x[1]], x[2])}

ShiftLeft(m) == {x \in Ops \X (0 .. Width - 1) : <<x[1], x[2] + 1>> \in m}

-----------------------------------------------------------------------------
(* The automaton                                                           *)

IsLegal_SameCycle(s, t) == t = NOP \/ <<t, 0>> \notin matrix[s]

(* Column 0 would be a second operation in the same cycle.                 *)
IsLegal(s, t) == t = NOP \/ <<t, 1>> \notin matrix[s]

Successor(s, t) == ShiftLeft(matrix[s]) \cup CollisionMatrix(t)

SetTransition(s, t, q) ==
    transitions' = [transitions EXCEPT ![s] = [@ EXCEPT ![t] = q]]

(* addState, addCollisionMatrixForState, and the transition to it          *)
AddState(s, t, m) ==
    /\ stateCount' = stateCount + 1
    /\ matrix' = [r \in 0 .. stateCount |-> IF r = stateCount THEN m ELSE matrix[r]]
    /\ transitions' = [r \in 0 .. stateCount |->
                          [u \in Transitions |->
                              IF r = s /\ u = t THEN stateCount
                              ELSE IF r = stateCount THEN UNKNOWN_STATE
                                                     ELSE transitions[r][u]]]

ResolveIllegal(s, t) ==
    /\ ~ IsLegal(s, t)
    /\ SetTransition(s, t, ILLEGAL_STATE)
    /\ UNCHANGED <<stateCount, matrix>>

ResolveKnown(s, t, q) ==
    /\ IsLegal(s, t)
    /\ q \in States
    /\ matrix[q] = Successor(s, t)
    /\ SetTransition(s, t, q)
    /\ UNCHANGED <<stateCount, matrix>>

ResolveNew_NoLookup(s, t) == IsLegal(s, t) /\ AddState(s, t, Successor(s, t))

ResolveNew(s, t) ==
    /\ IsLegal(s, t)
    /\ \A r \in States : matrix[r] # Successor(s, t)
    /\ AddState(s, t, Successor(s, t))

Take_NotLazy(s, t, q) == q = transitions[s][t] /\ UNCHANGED fsa

(* The transition t of state s leads to q, ILLEGAL_STATE for a conflict.   *)
(* It is resolved when it is taken for the first time.                     *)
Take(s, t, q) ==
    \/ /\ transitions[s][t] # UNKNOWN_STATE
       /\ q = transitions[s][t]
       /\ UNCHANGED fsa
    \/ /\ transitions[s][t] = UNKNOWN_STATE
       /\ \/ q = ILLEGAL_STATE /\ ResolveIllegal(s, t)
          \/ ResolveKnown(s, t, q)
          \/ q = stateCount /\ ResolveNew(s, t)

Targets == 0 .. stateCount \cup {UNKNOWN_STATE, ILLEGAL_STATE}

-----------------------------------------------------------------------------
(* The detector in the simulation of a cycle                               *)

(* The constructors make the start state and issue [NOP].                  *)
Init ==
    /\ stateCount = 1
    /\ matrix = [s \in {0} |-> {}]
    /\ transitions = [s \in {0} |-> [t \in Transitions |->
                                        IF t = NOP THEN 0 ELSE UNKNOWN_STATE]]
    /\ currentState = 0
    /\ nextState = 0
    /\ op = NOP
    /\ stage = "execute"
    /\ reserved = {}

(* issueOperation: an illegal transition leaves the start state behind.    *)
Issue(t) ==
    \E q \in Targets :
        /\ Take(currentState, t, q)
        /\ nextState' = IF q = ILLEGAL_STATE THEN 0 ELSE q
        /\ stage' = IF q = ILLEGAL_STATE THEN "stopped" ELSE "issued"

(* endClock of the unit starts the operation, if one was triggered.        *)
Execute(t) ==
    /\ \/ stage = "execute"
       \/ stage = "stopped" /\ t = op
    /\ op' = t
    /\ IF t = NOP
       THEN stage' = "issued" /\ UNCHANGED <<fsa, nextState>>
       ELSE Issue(t)
    /\ UNCHANGED <<currentState, reserved>>

(* Another unit throws after this one has started its operation.           *)
GiveUp ==
    /\ stage = "issued"
    /\ stage' = "stopped"
    /\ UNCHANGED <<fsa, currentState, nextState, op, reserved>>

IsIdle_NothingIssued == currentState = 0

IsIdle == currentState = 0 /\ currentState = nextState

AdvanceDetector_NoNop == currentState' = nextState /\ UNCHANGED <<fsa, nextState>>

AdvanceDetector ==
    /\ currentState' = nextState
    /\ \E q \in Targets : Take(nextState, NOP, q) /\ nextState' = q

(* simulateCycle calls advanceClock of the detectors that are not idle.    *)
Advance ==
    /\ stage = "issued"
    /\ IF IsIdle THEN UNCHANGED <<fsa, currentState, nextState>>
                 ELSE AdvanceDetector
    /\ op' = NOP
    /\ stage' = "execute"
    /\ reserved' = {x \in Cells : <<x[1], x[2] + 1>> \in reserved \cup TableOf(op)}

(* reset(): the start state, and issueOperation([NOP])                     *)
ResetDetector ==
    /\ currentState' = 0
    /\ \E q \in Targets : Take(0, NOP, q) /\ nextState' = q

Reset ==
    /\ stage # "issued"
    /\ ResetDetector
    /\ op' = NOP
    /\ stage' = "execute"
    /\ reserved' = {}

Next ==
    \/ \E t \in Transitions : Execute(t)
    \/ GiveUp
    \/ Advance
    \/ Reset

Spec == Init /\ [][Next]_vars

-----------------------------------------------------------------------------
(* Properties                                                              *)

(* State indices and matrices stay in their ranges; nextState is never     *)
(* left illegal or unknown by a lazy transition.                           *)
TypeOK ==
    /\ stateCount \in Nat \ {0}
    /\ matrix \in [States -> Matrices]
    /\ transitions \in [States -> [Transitions -> States \cup {UNKNOWN_STATE, ILLEGAL_STATE}]]
    /\ currentState \in States
    /\ nextState \in States
    /\ op \in Transitions
    /\ stage \in {"execute", "issued", "stopped"}
    /\ reserved \in SUBSET Cells

(* Every transition built so far is the one the matrices give, and no      *)
(* matrix has two states: the lazily built table agrees with               *)
(* buildStateMachine, which resolves everything at once.                   *)
AutomatonSound ==
    /\ matrix[0] = {}
    /\ \A s, r \in States : matrix[s] = matrix[r] => s = r
    /\ \A s \in States, t \in Transitions :
           /\ transitions[s][t] = ILLEGAL_STATE => ~ IsLegal(s, t)
           /\ transitions[s][t] \in States =>
                  IsLegal(s, t) /\ matrix[transitions[s][t]] = Successor(s, t)

(* The matrix of the current state answers for every operation and every   *)
(* delay what the reservations of the operations in flight answer, also    *)
(* after cycles in which an idle detector was skipped.                     *)
MatrixIsExact ==
    \A o \in Ops, c \in 1 .. Width :
        <<o, c>> \in matrix[currentState] <=> Overlap(reserved, Table[o], c - 1)

(* What advanceClock will move to is the successor for the operation of    *)
(* this instruction, whatever was issued before an error in the same       *)
(* cycle; only a refused operation leaves another state behind, and it     *)
(* does not reach advanceClock.                                            *)
NextIsSuccessor ==
    /\ stage = "execute" => op = NOP
    /\ stage # "stopped" => IsLegal(currentState, op)
    /\ IsLegal(currentState, op) => matrix[nextState] = Successor(currentState, op)

IndInv == TypeOK /\ AutomatonSound /\ MatrixIsExact /\ NextIsSuccessor

R == INSTANCE ResourceReservations

(* The detector refuses exactly the operations that would use a resource   *)
(* twice in a cycle, through errors, repeated cycles and kills.            *)
ImplementsReservations == R!Spec
=============================================================================

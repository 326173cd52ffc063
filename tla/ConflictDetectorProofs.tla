----------------------- MODULE ConflictDetectorProofs -----------------------
(***************************************************************************)
(* Proofs about ConflictDetector, for every unit: any operations, any      *)
(* reservation tables, any latency.                                        *)
(***************************************************************************)
EXTENDS ConflictDetector, TLAPS

(* The automaton, apart from the detector that walks on it                 *)
Automaton ==
    /\ stateCount \in Nat \ {0}
    /\ matrix \in [States -> Matrices]
    /\ transitions \in [States -> [Transitions -> States \cup {UNKNOWN_STATE, ILLEGAL_STATE}]]
    /\ AutomatonSound

Exact(m, res) ==
    \A o \in Ops, c \in 1 .. Width :
        <<o, c>> \in m <=> Overlap(res, Table[o], c - 1)

Shifted(res) == {x \in Cells : <<x[1], x[2] + 1>> \in res}

-----------------------------------------------------------------------------
(* Collision matrices and reservations                                     *)

(* A tuple of a reservation table is a pair.                               *)
LEMMA TableCells ==
    ASSUME NEW o \in Ops, NEW x \in Table[o]
    PROVE  /\ x[1] \in Resources
           /\ x[2] \in Int
           /\ 0 <= x[2]
           /\ x[2] < Width
           /\ x = <<x[1], x[2]>>
BY TableAssumption, WidthAssumption

LEMMA CellPairs ==
    ASSUME NEW res \in SUBSET Cells, NEW r, NEW c \in Int, <<r, c>> \in res
    PROVE  r \in Resources /\ 0 <= c /\ c < Width
BY WidthAssumption DEF Cells

LEMMA TablesAreCells ==
    ASSUME NEW t \in Transitions
    PROVE  TableOf(t) \in SUBSET Cells
BY TableAssumption DEF TableOf, Transitions, Cells

(* In an exact matrix column 1 says whether the operation can start now.   *)
LEMMA ExactVerdict ==
    ASSUME NEW m, NEW res, Exact(m, res), NEW t \in Transitions
    PROVE  (t = NOP \/ <<t, 1>> \notin m) <=> TableOf(t) \cap res = {}
<1>1. CASE t = NOP
  BY <1>1 DEF TableOf
<1>2. CASE t # NOP
  <2>1. t \in Ops /\ TableOf(t) = Table[t]
    BY <1>2 DEF Transitions, TableOf
  <2>2. <<t, 1>> \in m <=> Overlap(res, Table[t], 0)
    <3>1. 1 \in 1 .. Width /\ 1 - 1 = 0
      BY WidthAssumption
    <3>2. QED
      BY <2>1, <3>1 DEF Exact
  <2>3. Overlap(res, Table[t], 0) <=> Table[t] \cap res # {}
    <3>1. \A x \in Table[t] : <<x[1], x[2] + 0>> = x
      BY <2>1, TableCells
    <3>2. QED
      BY <3>1 DEF Overlap
  <2>4. QED
    BY <1>2, <2>1, <2>2, <2>3
<1>3. QED
  BY <1>1, <1>2

(* Shifting an exact matrix and adding the matrix of the operation that    *)
(* starts is exact for the reservations of the next cycle.                 *)
LEMMA ExactStep ==
    ASSUME NEW m \in Matrices, NEW res \in SUBSET Cells, Exact(m, res),
           NEW t \in Transitions
    PROVE  Exact(ShiftLeft(m) \cup CollisionMatrix(t), Shifted(res \cup TableOf(t)))
<1> DEFINE m2 == ShiftLeft(m) \cup CollisionMatrix(t)
           res2 == Shifted(res \cup TableOf(t))
<1> SUFFICES ASSUME NEW o \in Ops, NEW c \in 1 .. Width
             PROVE  <<o, c>> \in m2 <=> Overlap(res2, Table[o], c - 1)
  BY DEF Exact
<1>0. c \in Int /\ 1 <= c /\ c <= Width /\ Width \in Int
  BY WidthAssumption
<1>1. <<o, c>> \in m2 <=>
          c < Width /\ (Overlap(res, Table[o], c) \/ Overlap(TableOf(t), Table[o], c))
  <2>1. <<o, c>> \in ShiftLeft(m) <=> c < Width /\ <<o, c + 1>> \in m
    BY <1>0 DEF ShiftLeft
  <2>2. <<o, c>> \in CollisionMatrix(t) <=>
            c < Width /\ Overlap(TableOf(t), Table[o], c)
    BY <1>0 DEF CollisionMatrix
  <2>3. c < Width => (<<o, c + 1>> \in m <=> Overlap(res, Table[o], c))
    <3>1. SUFFICES ASSUME c < Width PROVE <<o, c + 1>> \in m <=> Overlap(res, Table[o], c)
      OBVIOUS
    <3>2. c + 1 \in 1 .. Width /\ (c + 1) - 1 = c
      BY <1>0, <3>1
    <3>3. QED
      BY <3>2 DEF Exact
  <2>4. QED
    BY <2>1, <2>2, <2>3
<1>2. ASSUME NEW x \in Table[o]
      PROVE  <<x[1], x[2] + (c - 1)>> \in res2 <=>
                 <<x[1], x[2] + c>> \in res \cup TableOf(t)
  <2>1. x[1] \in Resources /\ x[2] \in Int /\ 0 <= x[2] /\ x[2] < Width
    BY TableCells
  <2>2. (x[2] + (c - 1)) + 1 = x[2] + c /\ x[2] + c \in Int
    BY <2>1, <1>0
  <2>3. <<x[1], x[2] + c>> \in res \cup TableOf(t) => x[2] + c < Width
    <3>1. res \cup TableOf(t) \in SUBSET Cells
      BY TablesAreCells
    <3>2. QED
      BY <2>2, <3>1, CellPairs
  <2>4. <<x[1], x[2] + c>> \in res \cup TableOf(t) =>
            <<x[1], x[2] + (c - 1)>> \in Cells
    BY <1>0, <2>1, <2>2, <2>3 DEF Cells
  <2>5. QED
    BY <2>2, <2>4 DEF Shifted
<1>3. Overlap(res2, Table[o], c - 1) <=>
          Overlap(res, Table[o], c) \/ Overlap(TableOf(t), Table[o], c)
  BY <1>2 DEF Overlap
<1>4. Overlap(res, Table[o], c) \/ Overlap(TableOf(t), Table[o], c) => c < Width
  <2>1. SUFFICES ASSUME NEW x \in Table[o], <<x[1], x[2] + c>> \in res \cup TableOf(t)
                 PROVE  c < Width
    BY DEF Overlap
  <2>2. x[1] \in Resources /\ x[2] \in Int /\ 0 <= x[2]
    BY TableCells
  <2>3. x[2] + c \in Int /\ res \cup TableOf(t) \in SUBSET Cells
    BY <1>0, <2>2, TablesAreCells
  <2>4. x[2] + c < Width
    BY <2>1, <2>3, CellPairs
  <2>5. QED
    BY <1>0, <2>2, <2>4
<1>5. QED
  BY <1>1, <1>3, <1>4

-----------------------------------------------------------------------------
(* The lazily built automaton                                              *)

LEMMA SuccessorType ==
    ASSUME NEW s, NEW t
    PROVE  Successor(s, t) \in Matrices
BY DEF Successor, ShiftLeft, CollisionMatrix, Matrices

(* A transition entered for a state that exists                            *)
LEMMA SetKnown ==
    ASSUME Automaton, NEW s \in States, NEW t \in Transitions,
           NEW q \in States \cup {ILLEGAL_STATE},
           SetTransition(s, t, q), UNCHANGED <<stateCount, matrix>>,
           q = ILLEGAL_STATE => ~ IsLegal(s, t),
           q \in States => IsLegal(s, t) /\ matrix[q] = Successor(s, t)
    PROVE  Automaton'
<1>1. /\ States' = States
      /\ \A r : matrix'[r] = matrix[r]
      /\ \A r, u : IsLegal(r, u)' <=> IsLegal(r, u)
      /\ \A r, u : Successor(r, u)' = Successor(r, u)
  BY DEF States, IsLegal, Successor
<1>2. /\ transitions' \in [States -> [Transitions -> States \cup {UNKNOWN_STATE, ILLEGAL_STATE}]]
      /\ \A r \in States, u \in Transitions :
             transitions'[r][u] = IF r = s /\ u = t THEN q ELSE transitions[r][u]
  BY DEF Automaton, SetTransition
<1>3. AutomatonSound'
  <2>1. matrix'[0] = {} /\ \A a, b \in States' : matrix'[a] = matrix'[b] => a = b
    BY <1>1 DEF Automaton, AutomatonSound
  <2>2. ASSUME NEW r \in States, NEW u \in Transitions
        PROVE  /\ transitions'[r][u] = ILLEGAL_STATE => ~ IsLegal(r, u)
               /\ transitions'[r][u] \in States =>
                      IsLegal(r, u) /\ matrix[transitions'[r][u]] = Successor(r, u)
    <3>1. CASE r = s /\ u = t
      <4>1. transitions'[r][u] = q
        BY <1>2, <3>1
      <4>2. q = ILLEGAL_STATE => q \notin States
        BY DEF States, ILLEGAL_STATE, Automaton
      <4>3. QED
        BY <3>1, <4>1, <4>2
    <3>2. CASE ~ (r = s /\ u = t)
      BY <1>2, <3>2 DEF Automaton, AutomatonSound
    <3>3. QED
      BY <3>1, <3>2
  <2>3. QED
    BY <1>1, <2>1, <2>2 DEF AutomatonSound
<1>4. QED
  BY <1>1, <1>2, <1>3 DEF Automaton

(* A new state                                                             *)
LEMMA AddNew ==
    ASSUME Automaton, NEW s \in States, NEW t \in Transitions, ResolveNew(s, t)
    PROVE  /\ Automaton'
           /\ States' = States \cup {stateCount}
           /\ \A r \in States : matrix'[r] = matrix[r]
           /\ matrix'[stateCount] = Successor(s, t)
           /\ IsLegal(s, t)
<1>1. /\ IsLegal(s, t)
      /\ \A r \in States : matrix[r] # Successor(s, t)
      /\ stateCount' = stateCount + 1
      /\ matrix' = [r \in 0 .. stateCount |->
                       IF r = stateCount THEN Successor(s, t) ELSE matrix[r]]
      /\ transitions' = [r \in 0 .. stateCount |->
                            [u \in Transitions |->
                                IF r = s /\ u = t THEN stateCount
                                ELSE IF r = stateCount THEN UNKNOWN_STATE
                                                       ELSE transitions[r][u]]]
  BY DEF ResolveNew, AddState
<1>2. /\ stateCount \in Nat \ {0}
      /\ States' = 0 .. stateCount
      /\ States' = States \cup {stateCount}
      /\ stateCount \notin States
      /\ stateCount' \in Nat \ {0}
      /\ 0 \in States
  BY <1>1 DEF Automaton, States
<1>3. /\ \A r \in States : matrix'[r] = matrix[r]
      /\ matrix'[stateCount] = Successor(s, t)
  BY <1>1, <1>2
<1>4. matrix' \in [States' -> Matrices]
  BY <1>1, <1>2, SuccessorType DEF Automaton
<1>5. transitions' \in [States' -> [Transitions -> States' \cup {UNKNOWN_STATE, ILLEGAL_STATE}]]
  <2> DEFINE T2 == States' \cup {UNKNOWN_STATE, ILLEGAL_STATE}
  <2>1. ASSUME NEW r \in States', NEW u \in Transitions
        PROVE  (IF r = s /\ u = t THEN stateCount
                ELSE IF r = stateCount THEN UNKNOWN_STATE
                                       ELSE transitions[r][u]) \in T2
    <3>1. r # stateCount => r \in States
      BY <1>2
    <3>2. r \in States => transitions[r][u] \in States \cup {UNKNOWN_STATE, ILLEGAL_STATE}
      BY DEF Automaton
    <3>3. QED
      BY <1>2, <3>1, <3>2
  <2> HIDE DEF T2
  <2>2. QED
    BY <1>1, <1>2, <2>1 DEF T2
<1>6. /\ \A r \in States : \A u : IsLegal(r, u)' <=> IsLegal(r, u)
      /\ \A r \in States : \A u : Successor(r, u)' = Successor(r, u)
  BY <1>3 DEF IsLegal, Successor
<1>7. matrix'[0] = {} /\ \A a, b \in States' : matrix'[a] = matrix'[b] => a = b
  BY <1>1, <1>2, <1>3 DEF Automaton, AutomatonSound
<1>8. ASSUME NEW r \in States', NEW u \in Transitions
      PROVE  /\ transitions'[r][u] = ILLEGAL_STATE => ~ IsLegal(r, u)'
             /\ transitions'[r][u] \in States' =>
                    IsLegal(r, u)' /\ matrix'[transitions'[r][u]] = Successor(r, u)'
  <2>0. transitions'[r][u] = IF r = s /\ u = t THEN stateCount
                             ELSE IF r = stateCount THEN UNKNOWN_STATE
                                                    ELSE transitions[r][u]
    BY <1>1, <1>2
  <2>1. CASE r = s /\ u = t
    <3>1. transitions'[r][u] = stateCount /\ stateCount # ILLEGAL_STATE
      BY <1>2, <2>0, <2>1 DEF ILLEGAL_STATE
    <3>2. QED
      BY <1>1, <1>3, <1>6, <2>1, <3>1
  <2>2. CASE r = stateCount
    <3>1. transitions'[r][u] = UNKNOWN_STATE
      BY <1>2, <2>0, <2>2
    <3>2. UNKNOWN_STATE \notin States' /\ UNKNOWN_STATE # ILLEGAL_STATE
      BY <1>2 DEF UNKNOWN_STATE, ILLEGAL_STATE
    <3>3. QED
      BY <3>1, <3>2
  <2>3. CASE r \in States /\ ~ (r = s /\ u = t)
    <3>1. transitions'[r][u] = transitions[r][u]
      BY <1>2, <2>0, <2>3
    <3>2. transitions[r][u] \in States \cup {UNKNOWN_STATE, ILLEGAL_STATE}
      BY <2>3 DEF Automaton
    <3>3. transitions[r][u] \in States' => transitions[r][u] \in States
      BY <1>2, <3>2 DEF UNKNOWN_STATE, ILLEGAL_STATE
    <3>4. QED
      BY <1>3, <1>6, <2>3, <3>1, <3>3 DEF Automaton, AutomatonSound
  <2>4. QED
    BY <1>2, <2>1, <2>2, <2>3
<1>9. AutomatonSound'
  BY <1>7, <1>8 DEF AutomatonSound
<1>10. QED
  BY <1>1, <1>2, <1>3, <1>4, <1>5, <1>9 DEF Automaton

(* Taking a transition keeps the automaton sound, changes no state that    *)
(* was there and leads where the matrices say.                             *)
LEMMA TakeStep ==
    ASSUME Automaton, NEW s \in States, NEW t \in Transitions, NEW q,
           Take(s, t, q)
    PROVE  /\ Automaton'
           /\ States \subseteq States'
           /\ \A r \in States : matrix'[r] = matrix[r]
           /\ \/ q = ILLEGAL_STATE /\ ~ IsLegal(s, t)
              \/ q \in States' /\ IsLegal(s, t) /\ matrix'[q] = Successor(s, t)
<1>1. CASE /\ transitions[s][t] # UNKNOWN_STATE
           /\ q = transitions[s][t]
           /\ UNCHANGED fsa
  <2>1. q \in States \cup {ILLEGAL_STATE}
    BY <1>1 DEF Automaton
  <2>2. Automaton' /\ States' = States /\ matrix' = matrix
    BY <1>1 DEF Automaton, AutomatonSound, fsa, States, IsLegal, Successor
  <2>3. QED
    BY <1>1, <2>1, <2>2 DEF Automaton, AutomatonSound
<1>2. CASE q = ILLEGAL_STATE /\ ResolveIllegal(s, t)
  <2>1. /\ ~ IsLegal(s, t)
        /\ SetTransition(s, t, q)
        /\ UNCHANGED <<stateCount, matrix>>
    BY <1>2 DEF ResolveIllegal
  <2>2. q \notin States
    BY <1>2 DEF States, ILLEGAL_STATE
  <2>3. Automaton'
    BY <1>2, <2>1, <2>2, SetKnown
  <2>4. QED
    BY <1>2, <2>1, <2>3 DEF States
<1>3. CASE ResolveKnown(s, t, q)
  <2>1. /\ IsLegal(s, t)
        /\ q \in States
        /\ matrix[q] = Successor(s, t)
        /\ SetTransition(s, t, q)
        /\ UNCHANGED <<stateCount, matrix>>
    BY <1>3 DEF ResolveKnown
  <2>2. q # ILLEGAL_STATE
    BY <2>1 DEF States, ILLEGAL_STATE
  <2>3. Automaton'
    BY <2>1, <2>2, SetKnown
  <2>4. QED
    BY <2>1, <2>3 DEF States
<1>4. CASE q = stateCount /\ ResolveNew(s, t)
  BY <1>4, AddNew
<1>5. QED
  BY <1>1, <1>2, <1>3, <1>4 DEF Take

-----------------------------------------------------------------------------
(* The detector                                                            *)

LEMMA StartIsState ==
    ASSUME NEW n \in Nat \ {0}
    PROVE  0 \in 0 .. n - 1 /\ ILLEGAL_STATE \notin 0 .. n - 1
BY DEF ILLEGAL_STATE

LEMMA IndInvFacts ==
    IndInv <=> /\ Automaton
               /\ currentState \in States /\ nextState \in States
               /\ op \in Transitions
               /\ stage \in {"execute", "issued", "stopped"}
               /\ reserved \in SUBSET Cells
               /\ Exact(matrix[currentState], reserved)
               /\ NextIsSuccessor
BY DEF IndInv, TypeOK, Automaton, MatrixIsExact, Exact

LEMMA IndInvFactsPrimed ==
    IndInv' <=> /\ Automaton'
                /\ currentState' \in States' /\ nextState' \in States'
                /\ op' \in Transitions
                /\ stage' \in {"execute", "issued", "stopped"}
                /\ reserved' \in SUBSET Cells
                /\ Exact(matrix'[currentState'], reserved')
                /\ NextIsSuccessor'
BY DEF IndInv, TypeOK, Automaton, MatrixIsExact, Exact, Cells, Transitions

LEMMA InitInv == Init => IndInv
<1> SUFFICES ASSUME Init PROVE IndInv
  OBVIOUS
<1> USE DEF Init
<1>1. States = {0} /\ NOP \in Transitions
  BY DEF States, Transitions
<1>2. \A t : CollisionMatrix(t) \in Matrices
  BY DEF CollisionMatrix, Matrices
<1>3. Successor(0, NOP) = {}
  BY DEF Successor, ShiftLeft, CollisionMatrix, TableOf, Overlap
<1>4. AutomatonSound
  BY <1>1, <1>3 DEF AutomatonSound, UNKNOWN_STATE, ILLEGAL_STATE, IsLegal
<1>5. Automaton
  <2>1. matrix \in [States -> Matrices]
    BY <1>1 DEF Matrices
  <2>2. transitions \in [States -> [Transitions -> States \cup {UNKNOWN_STATE, ILLEGAL_STATE}]]
    BY <1>1
  <2>3. QED
    BY <1>4, <2>1, <2>2 DEF Automaton
<1>6. Exact(matrix[currentState], reserved)
  BY DEF Exact, Overlap
<1>7. NextIsSuccessor
  BY <1>3 DEF NextIsSuccessor, IsLegal
<1>8. QED
  BY <1>1, <1>5, <1>6, <1>7, IndInvFacts

LEMMA ExecuteInv ==
    ASSUME IndInv, NEW t \in Transitions, Execute(t)
    PROVE  IndInv' /\ R!Execute(t)
<1>0. /\ Automaton
      /\ currentState \in States /\ nextState \in States
      /\ reserved \in SUBSET Cells
      /\ Exact(matrix[currentState], reserved)
      /\ NextIsSuccessor
  BY IndInvFacts
<1>1. /\ \/ stage = "execute"
         \/ stage = "stopped" /\ t = op
      /\ op' = t
      /\ currentState' = currentState
      /\ reserved' = reserved
  BY DEF Execute
<1>2. IsLegal(currentState, t) <=> TableOf(t) \cap reserved = {}
  BY <1>0, ExactVerdict DEF IsLegal
<1>3. R!Verdict(t) = IF IsLegal(currentState, t) THEN "issued" ELSE "stopped"
  BY <1>2 DEF R!Verdict, R!TableOf, TableOf
<1>4. CASE t = NOP
  <2>1. stage' = "issued" /\ UNCHANGED <<stateCount, matrix, transitions, nextState>>
    BY <1>4 DEF Execute, fsa
  <2>2. IsLegal(currentState, NOP) /\ matrix[nextState] = Successor(currentState, NOP)
    BY <1>0, <1>1, <1>4 DEF NextIsSuccessor, IsLegal
  <2>3. Automaton' /\ States' = States
    BY <1>0, <2>1 DEF Automaton, AutomatonSound, States, IsLegal, Successor
  <2>4. NextIsSuccessor'
    BY <1>1, <1>4, <2>1, <2>2 DEF NextIsSuccessor, IsLegal, Successor
  <2>5. IndInv'
    BY <1>0, <1>1, <2>1, <2>3, <2>4, IndInvFactsPrimed
  <2>6. stage' = R!Verdict(t)
    BY <1>3, <1>4, <2>1, <2>2
  <2>7. QED
    BY <1>1, <2>5, <2>6 DEF R!Execute
<1>5. CASE t # NOP
  <2>1. PICK q \in Targets :
            /\ Take(currentState, t, q)
            /\ nextState' = IF q = ILLEGAL_STATE THEN 0 ELSE q
            /\ stage' = IF q = ILLEGAL_STATE THEN "stopped" ELSE "issued"
    BY <1>5 DEF Execute, Issue
  <2>2. /\ Automaton'
        /\ States \subseteq States'
        /\ \A r \in States : matrix'[r] = matrix[r]
        /\ \/ q = ILLEGAL_STATE /\ ~ IsLegal(currentState, t)
           \/ q \in States' /\ IsLegal(currentState, t)
              /\ matrix'[q] = Successor(currentState, t)
    BY <1>0, <2>1, TakeStep
  <2>3. matrix'[currentState] = matrix[currentState] /\ currentState \in States'
    BY <1>0, <2>2
  <2>4. /\ IsLegal(currentState, t)' <=> IsLegal(currentState, t)
        /\ Successor(currentState, t)' = Successor(currentState, t)
    BY <1>1, <2>3 DEF IsLegal, Successor
  <2>5. 0 \in States' /\ ILLEGAL_STATE \notin States'
    <3>1. stateCount' \in Nat \ {0}
      BY <2>2 DEF Automaton
    <3>2. QED
      BY <3>1, StartIsState DEF States
  <2>6. CASE q = ILLEGAL_STATE
    <3>1. stage' = "stopped" /\ nextState' = 0 /\ ~ IsLegal(currentState, t)
      BY <2>1, <2>2, <2>5, <2>6
    <3>2. NextIsSuccessor'
      BY <1>1, <2>4, <3>1 DEF NextIsSuccessor
    <3>3. IndInv'
      BY <1>0, <1>1, <2>2, <2>3, <2>5, <3>1, <3>2, IndInvFactsPrimed
    <3>4. QED
      BY <1>1, <1>3, <3>1, <3>3 DEF R!Execute
  <2>7. CASE q # ILLEGAL_STATE
    <3>1. /\ stage' = "issued" /\ nextState' = q /\ q \in States'
          /\ IsLegal(currentState, t)
          /\ matrix'[q] = Successor(currentState, t)
      BY <2>1, <2>2, <2>7
    <3>2. NextIsSuccessor'
      BY <1>1, <2>4, <3>1 DEF NextIsSuccessor
    <3>3. IndInv'
      BY <1>0, <1>1, <2>2, <2>3, <3>1, <3>2, IndInvFactsPrimed
    <3>4. QED
      BY <1>1, <1>3, <3>1, <3>3 DEF R!Execute
  <2>8. QED
    BY <2>6, <2>7
<1>6. QED
  BY <1>4, <1>5

(* [NOP] is always legal and its target is a state.                        *)
LEMMA TakeNop ==
    ASSUME Automaton, NEW s \in States, NEW q, Take(s, NOP, q)
    PROVE  /\ Automaton'
           /\ States \subseteq States'
           /\ \A r \in States : matrix'[r] = matrix[r]
           /\ q \in States'
           /\ matrix'[q] = Successor(s, NOP)
           /\ IsLegal(s, NOP)
BY TakeStep DEF IsLegal, Transitions

LEMMA AdvanceInv ==
    ASSUME IndInv, Advance
    PROVE  IndInv' /\ R!Advance
<1>0. /\ Automaton
      /\ currentState \in States /\ nextState \in States
      /\ op \in Transitions
      /\ reserved \in SUBSET Cells
      /\ Exact(matrix[currentState], reserved)
      /\ NextIsSuccessor
  BY IndInvFacts
<1>1. /\ stage = "issued" /\ op' = NOP /\ stage' = "execute"
      /\ reserved' = Shifted(reserved \cup TableOf(op))
  BY DEF Advance, Shifted
<1>2. R!Advance
  BY DEF Advance, R!Advance, R!Cells, Cells, R!TableOf, TableOf
<1>3. NOP \in Transitions /\ reserved' \in SUBSET Cells
  BY <1>1 DEF Transitions, Shifted
<1>4. matrix[nextState] = Successor(currentState, op)
  BY <1>0, <1>1 DEF NextIsSuccessor
<1>5. Exact(matrix[nextState], reserved')
  <2>1. matrix[currentState] \in Matrices
    BY <1>0 DEF Automaton
  <2>2. QED
    BY <1>0, <1>1, <1>4, <2>1, ExactStep DEF Successor
<1>6. CASE IsIdle
  <2>1. UNCHANGED <<stateCount, matrix, transitions, currentState, nextState>>
    BY <1>6 DEF Advance, fsa
  <2>2. currentState = 0 /\ nextState = 0 /\ matrix[0] = {}
    BY <1>0, <1>6 DEF IsIdle, Automaton, AutomatonSound
  <2>3. Successor(0, NOP) = {}
    BY <2>2 DEF Successor, ShiftLeft, CollisionMatrix, TableOf, Overlap
  <2>4. NextIsSuccessor'
    BY <1>1, <2>1, <2>2, <2>3 DEF NextIsSuccessor, IsLegal, Successor
  <2>5. Automaton' /\ States' = States
    BY <1>0, <2>1 DEF Automaton, AutomatonSound, States, IsLegal, Successor
  <2>6. Exact(matrix'[currentState'], reserved')
    BY <1>5, <2>1, <2>2
  <2>7. QED
    BY <1>0, <1>1, <1>2, <1>3, <2>1, <2>4, <2>5, <2>6, IndInvFactsPrimed
<1>7. CASE ~ IsIdle
  <2>1. PICK q \in Targets : Take(nextState, NOP, q) /\ nextState' = q
    BY <1>7 DEF Advance, AdvanceDetector
  <2>2. currentState' = nextState
    BY <1>7 DEF Advance, AdvanceDetector
  <2>3. /\ Automaton'
        /\ States \subseteq States'
        /\ matrix'[nextState] = matrix[nextState]
        /\ q \in States'
        /\ matrix'[q] = Successor(nextState, NOP)
    BY <1>0, <2>1, TakeNop
  <2>4. NextIsSuccessor'
    BY <1>1, <2>1, <2>2, <2>3 DEF NextIsSuccessor, IsLegal, Successor
  <2>5. Exact(matrix'[currentState'], reserved')
    BY <1>5, <2>2, <2>3
  <2>6. currentState' \in States' /\ nextState' \in States'
    BY <1>0, <2>1, <2>2, <2>3
  <2>7. QED
    BY <1>1, <1>2, <1>3, <2>3, <2>4, <2>5, <2>6, IndInvFactsPrimed
<1>8. QED
  BY <1>6, <1>7

LEMMA ResetInv ==
    ASSUME IndInv, Reset
    PROVE  IndInv' /\ R!Reset
<1>0. Automaton /\ 0 \in States /\ matrix[0] = {}
  BY IndInvFacts DEF Automaton, AutomatonSound, States
<1>1. stage # "issued" /\ op' = NOP /\ stage' = "execute" /\ reserved' = {} /\ currentState' = 0
  BY DEF Reset, ResetDetector
<1>2. PICK q \in Targets : Take(0, NOP, q) /\ nextState' = q
  BY DEF Reset, ResetDetector
<1>3. /\ Automaton'
      /\ States \subseteq States'
      /\ matrix'[0] = matrix[0]
      /\ q \in States'
      /\ matrix'[q] = Successor(0, NOP)
  BY <1>0, <1>2, TakeNop
<1>4. NextIsSuccessor'
  BY <1>1, <1>2, <1>3 DEF NextIsSuccessor, IsLegal, Successor
<1>5. Exact(matrix'[currentState'], reserved')
  BY <1>0, <1>1, <1>3 DEF Exact, Overlap
<1>6. NOP \in Transitions /\ {} \in SUBSET Cells
  BY DEF Transitions
<1>7. IndInv'
  BY <1>0, <1>1, <1>2, <1>3, <1>4, <1>5, <1>6, IndInvFactsPrimed
<1>8. QED
  BY <1>1, <1>7 DEF R!Reset

LEMMA GiveUpInv ==
    ASSUME IndInv, GiveUp
    PROVE  IndInv' /\ R!GiveUp
<1>1. /\ stage = "issued" /\ stage' = "stopped"
      /\ UNCHANGED <<stateCount, matrix, transitions, currentState, nextState, op, reserved>>
  BY DEF GiveUp, fsa
<1>2. NextIsSuccessor'
  BY <1>1 DEF IndInv, NextIsSuccessor, IsLegal, Successor
<1>3. IndInv'
  BY <1>1, <1>2 DEF IndInv, TypeOK, AutomatonSound, MatrixIsExact, States, IsLegal, Successor
<1>4. QED
  BY <1>1, <1>3 DEF R!GiveUp

LEMMA StepInv ==
    ASSUME IndInv, [Next]_vars
    PROVE  IndInv' /\ [R!Next]_(R!vars)
<1>1. CASE \E t \in Transitions : Execute(t)
  BY <1>1, ExecuteInv DEF R!Next, Transitions
<1>2. CASE GiveUp
  BY <1>2, GiveUpInv DEF R!Next
<1>3. CASE Advance
  BY <1>3, AdvanceInv DEF R!Next
<1>4. CASE Reset
  BY <1>4, ResetInv DEF R!Next
<1>5. CASE UNCHANGED vars
  BY <1>5 DEF vars, R!vars, IndInv, TypeOK, AutomatonSound, MatrixIsExact,
              NextIsSuccessor, States, IsLegal, Successor
<1>6. QED
  BY <1>1, <1>2, <1>3, <1>4, <1>5 DEF Next

-----------------------------------------------------------------------------

LEMMA DetectorInvariant == Spec => []IndInv
<1>1. IndInv /\ [Next]_vars => IndInv'
  BY StepInv
<1>2. QED
  BY InitInv, <1>1, PTL DEF Spec

(* State indices stay in range: no lazy transition leaves nextState_ of    *)
(* FSAFUResourceConflictDetector unknown or illegal.                       *)
THEOREM DetectorTypes == Spec => []TypeOK
<1>1. IndInv => TypeOK
  BY DEF IndInv
<1>2. QED
  BY <1>1, DetectorInvariant, PTL

(* The automaton that FUFiniteStateAutomaton::resolveState builds piece by *)
(* piece has one state per matrix and only the transitions the matrices    *)
(* justify, for every unit.                                                *)
THEOREM LazyAutomatonSound == Spec => []AutomatonSound
<1>1. IndInv => AutomatonSound
  BY DEF IndInv
<1>2. QED
  BY <1>1, DetectorInvariant, PTL

(* The matrix of currentState_ is exact for the operations in flight, also *)
(* when simulateCycle skipped the detector because it was idle.            *)
THEOREM DetectorMatrixExact == Spec => []MatrixIsExact
<1>1. IndInv => MatrixIsExact
  BY DEF IndInv
<1>2. QED
  BY <1>1, DetectorInvariant, PTL

(* What is left in nextState_ by an instruction given up and executed      *)
(* again is the successor for that instruction.                            *)
THEOREM RepeatedIssueHarmless == Spec => []NextIsSuccessor
<1>1. IndInv => NextIsSuccessor
  BY DEF IndInv
<1>2. QED
  BY <1>1, DetectorInvariant, PTL

(* FSAFUResourceConflictDetector refuses exactly the operations that use a *)
(* resource another operation has reserved for the same cycle.             *)
THEOREM DetectorImplementsReservations == Spec => ImplementsReservations
<1>1. Init => R!Init
  BY DEF Init, R!Init
<1>2. IndInv /\ [Next]_vars => [R!Next]_(R!vars)
  BY StepInv
<1>3. QED
  BY <1>1, <1>2, DetectorInvariant, PTL DEF Spec, ImplementsReservations, R!Spec
=============================================================================

--------------------------- MODULE GCUStateProofs ---------------------------
(***************************************************************************)
(* For every program, every number of delay slots and every pattern of     *)
(* runtime errors, the control unit implements the architectural delayed   *)
(* transfer of control.                                                    *)
(***************************************************************************)
EXTENDS GCUState, TLAPS

USE NumInstrAssumption, DelaySlotsAssumption

(* The values a control move can take, as facts the provers use.           *)
LEMMA MoveFacts ==
    ASSUME code \in [Instr -> Move], pc \in Instr
    PROVE  /\ code[pc].op \in {"nop", "ret", "jump", "call"}
           /\ code[pc].op = "nop" => code[pc] = [op |-> "nop", to |-> 0]
           /\ code[pc].op \in {"jump", "call"} =>
                 code[pc] \in [op : {"nop", "jump", "call"}, to : Nat]
BY DEF Move, Instr

(* The flags of the unit, and the rest of its state.                       *)
Flags == /\ failed \in BOOLEAN /\ pending \in BOOLEAN
         /\ idle \in BOOLEAN /\ trigger \in BOOLEAN
Rest == /\ code \in [Instr -> Move]
        /\ phase \in {"fetch", "executed", "ended"}
        /\ pc \in Nat /\ ra \in Nat /\ newPC \in Nat
        /\ pendingTime \in 0 .. Latency
        /\ request \in [op : {"nop", "jump", "call"}, to : Nat]

LEMMA TypeParts == TypeOK <=> Flags /\ Rest
BY DEF TypeOK, Flags, Rest

LEMMA InitInv == Init => IndInv
<1> SUFFICES ASSUME Init PROVE IndInv
  OBVIOUS
<1>1. Flags
  BY Zenon DEF Init, Flags
<1>2. Rest
  BY DEF Init, Rest, Latency
<1> QED
  BY <1>1, <1>2, TypeParts DEF Init, IndInv, IdleHasNoJump, LeftoversAreReplayed

(* Each action preserves the inductive invariant.                          *)
LEMMA ExecuteInv == IndInv /\ Execute => IndInv'
<1> SUFFICES ASSUME IndInv, Execute PROVE IndInv'
  OBVIOUS
<1>0. Flags'
  BY Zenon DEF IndInv, TypeOK, Flags, Execute
<1>r. Rest'
  BY MoveFacts DEF IndInv, TypeOK, Rest, Execute
<1>1. TypeOK'
  BY <1>0, <1>r DEF TypeOK, Flags, Rest
<1>2. IdleHasNoJump'
  BY <1>1 DEF IndInv, TypeOK, IdleHasNoJump, Execute
<1>3. LeftoversAreReplayed'
  BY DEF IndInv, LeftoversAreReplayed, Execute
<1>4. trigger' <=> code[pc].op # "nop"
  <2>1. CASE code[pc].op = "nop"
    BY <2>1 DEF IndInv, TypeOK, LeftoversAreReplayed, Execute
  <2>2. CASE code[pc].op # "nop"
    BY <2>2 DEF Execute
  <2> QED BY <2>1, <2>2
<1> QED
  BY <1>1, <1>2, <1>3, <1>4 DEF IndInv, Execute

LEMMA EndClockInv == IndInv /\ EndClock => IndInv'
<1> SUFFICES ASSUME IndInv, EndClock PROVE IndInv'
  OBVIOUS
<1> USE DEF Latency
<1>0. Flags'
  BY Zenon DEF IndInv, TypeOK, Flags, EndClock, SetProgramCounter
<1>r. Rest'
  BY DEF IndInv, TypeOK, Rest, EndClock, SetProgramCounter, SetReturnAddress
<1>1. TypeOK'
  BY <1>0, <1>r DEF TypeOK, Flags, Rest
<1>2. IdleHasNoJump' /\ LeftoversAreReplayed'
  BY DEF IndInv, TypeOK, IdleHasNoJump, LeftoversAreReplayed, EndClock, Triggered,
         SetProgramCounter
<1>3. pc' \in Instr /\ ~ trigger' /\ (pending' => pendingTime' > 0)
  BY DEF IndInv, TypeOK, IdleHasNoJump, EndClock, Triggered, SetProgramCounter
<1>4. code[pc].op # "nop" <=> pending' /\ pendingTime' = Latency
  BY DEF IndInv, TypeOK, IdleHasNoJump, LeftoversAreReplayed, EndClock, Triggered,
         SetProgramCounter
<1> QED
  BY <1>1, <1>2, <1>3, <1>4 DEF IndInv, EndClock

LEMMA CycleEndInv == IndInv /\ CycleEnd => IndInv'
<1> SUFFICES ASSUME IndInv, CycleEnd PROVE IndInv'
  OBVIOUS
<1> USE DEF Latency
<1>0. Flags'
  BY Zenon DEF IndInv, TypeOK, Flags, CycleEnd, AdvanceClock
<1>r. Rest'
  BY DEF IndInv, TypeOK, Rest, IdleHasNoJump, CycleEnd, AdvanceClock
<1>1. TypeOK'
  BY <1>0, <1>r DEF TypeOK, Flags, Rest
<1>2. IdleHasNoJump' /\ LeftoversAreReplayed'
  BY DEF IndInv, TypeOK, IdleHasNoJump, LeftoversAreReplayed, CycleEnd, AdvanceClock
<1>3. pending' => pendingTime' > 0
  <2>1. CASE idle
    BY <2>1, <1>2 DEF IndInv, IdleHasNoJump, CycleEnd, AdvanceClock
  <2>2. CASE ~ idle /\ pending /\ pendingTime' <= 0
    BY <2>2, Zenon DEF CycleEnd, AdvanceClock
  <2>3. CASE ~ idle /\ ~ pending
    BY <2>3, Zenon DEF CycleEnd, AdvanceClock
  <2>4. CASE ~ (pendingTime' <= 0)
    BY <2>4, <1>1 DEF TypeOK
  <2> QED
    BY <2>1, <2>2, <2>3, <2>4
<1> QED
  BY <1>1, <1>2, <1>3 DEF IndInv, CycleEnd

LEMMA ThrowsInv ==
    IndInv /\ (FetchThrows \/ EndClockThrows \/ OtherUnitThrows) => IndInv'
<1> SUFFICES ASSUME IndInv, FetchThrows \/ EndClockThrows \/ OtherUnitThrows
             PROVE  IndInv'
  OBVIOUS
<1>0. Flags' /\ IdleHasNoJump'
  <2>1. CASE FetchThrows
    BY <2>1, Zenon DEF IndInv, TypeOK, Flags, IdleHasNoJump, FetchThrows
  <2>2. CASE EndClockThrows
    BY <2>2, Zenon DEF IndInv, TypeOK, Flags, IdleHasNoJump, EndClockThrows
  <2>3. CASE OtherUnitThrows
    BY <2>3, Zenon DEF IndInv, TypeOK, Flags, IdleHasNoJump, OtherUnitThrows
  <2> QED
    BY <2>1, <2>2, <2>3
<1>r. Rest'
  BY DEF IndInv, TypeOK, Rest, FetchThrows, EndClockThrows, OtherUnitThrows
<1>1. TypeOK' /\ IdleHasNoJump'
  BY <1>0, <1>r DEF TypeOK, Flags, Rest
<1>2. LeftoversAreReplayed'
  BY DEF IndInv, TypeOK, LeftoversAreReplayed, FetchThrows, EndClockThrows,
         OtherUnitThrows, InDelaySlot
<1> QED
  BY <1>1, <1>2 DEF IndInv, FetchThrows, EndClockThrows, OtherUnitThrows

LEMMA ResetInv == IndInv /\ ~ failed /\ Reset => IndInv'
<1> SUFFICES ASSUME IndInv, ~ failed, Reset PROVE IndInv'
  OBVIOUS
<1>0. Flags' /\ IdleHasNoJump' /\ LeftoversAreReplayed'
  BY Zenon DEF IndInv, TypeOK, Flags, IdleHasNoJump, LeftoversAreReplayed, Reset
<1>r. Rest'
  BY DEF IndInv, TypeOK, Rest, Reset, Latency
<1>1. TypeOK'
  BY <1>0, <1>r DEF TypeOK, Flags, Rest
<1> QED
  BY <1>0, <1>1 DEF IndInv, Reset

LEMMA NextInv == IndInv /\ [Next]_vars => IndInv'
<1> SUFFICES ASSUME IndInv, [Next]_vars PROVE IndInv'
  OBVIOUS
<1>1. CASE UNCHANGED vars
  BY <1>1 DEF IndInv, TypeOK, IdleHasNoJump, LeftoversAreReplayed, vars
<1> QED
  BY <1>1, ExecuteInv, EndClockInv, CycleEndInv, ThrowsInv, ResetInv DEF Next, Cycle

(* The inductive invariant holds for every program and every DelaySlots.   *)
THEOREM Invariance == Spec => []IndInv
BY InitInv, NextInv, PTL DEF Spec

(* An idle control unit has neither a jump to perform nor one to start, so *)
(* skipping its advanceClock loses nothing.                                *)
THEOREM NoJumpSleptOver == Spec => []IdleHasNoJump
<1>1. IndInv => IdleHasNoJump
  BY DEF IndInv
<1> QED
  BY Invariance, <1>1, PTL

-----------------------------------------------------------------------------
(* The refinement: each action of the control unit is an action, or a      *)
(* stuttering step, of DelayedTransfer.                                    *)

absRequest == IF phase = "executed" /\ trigger THEN request ELSE [op |-> "nop", to |-> 0]
absIssued == IF phase = "ended" /\ pending /\ pendingTime = Latency THEN newPC ELSE -1
absSlots == [i \in 1 .. DelaySlots |-> IF pending /\ pendingTime = i THEN newPC ELSE -1]

LEMMA AbsInit == Init => Architecture!Init
BY DEF Init, Architecture!Init, Architecture!Slots, Architecture!NoTransfer,
       Architecture!Nothing

LEMMA AbsExecute == IndInv /\ Execute => Architecture!Execute
<1> SUFFICES ASSUME IndInv, Execute PROVE Architecture!Execute
  OBVIOUS
<1> USE DEF Latency
<1>1. absRequest' = IF code[pc].op = "ret" THEN [op |-> "jump", to |-> ra] ELSE code[pc]
  <2>1. CASE code[pc].op = "nop"
    BY <2>1, MoveFacts DEF IndInv, TypeOK, LeftoversAreReplayed, Execute, absRequest
  <2>2. CASE code[pc].op # "nop"
    BY <2>2 DEF Execute, absRequest
  <2> QED BY <2>1, <2>2
<1>2. absIssued' = absIssued /\ absSlots' = absSlots
  BY DEF Execute, absIssued, absSlots
<1> QED
  BY <1>1, <1>2 DEF Architecture!Execute, Architecture!Asked, Architecture!Instr,
     Instr, Execute, absRequest, absIssued, absSlots

LEMMA AbsEndClock == IndInv /\ EndClock => Architecture!Issue
<1> SUFFICES ASSUME IndInv, EndClock PROVE Architecture!Issue
  OBVIOUS
<1> USE DEF Latency
<1>1. absRequest' = [op |-> "nop", to |-> 0]
  BY DEF EndClock, absRequest
<1>2. CASE Triggered
  <2>1. absRequest = request /\ request.op # "nop"
    BY <1>2, MoveFacts DEF IndInv, TypeOK, EndClock, Triggered, absRequest
  <2>2. \A i \in 1 .. DelaySlots : ~ (pending /\ pendingTime = i)
    BY <1>2 DEF EndClock, InDelaySlot
  <2>3. absSlots = [i \in 1 .. DelaySlots |-> -1]
    BY <2>2 DEF absSlots
  <2>4. absIssued' = request.to
    BY <1>2 DEF EndClock, SetProgramCounter, absIssued
  <2>5. \A i \in 1 .. DelaySlots : pendingTime' # i
    BY <1>2 DEF EndClock, SetProgramCounter
  <2>6. absSlots' = absSlots
    BY <2>3, <2>5 DEF absSlots
  <2>7. ra' = IF request.op = "call" THEN pc + DelaySlots + 1 ELSE ra
    BY <1>2 DEF IndInv, TypeOK, EndClock, SetReturnAddress
  <2> QED
    BY <1>1, <2>1, <2>3, <2>4, <2>6, <2>7
       DEF Architecture!Issue, Architecture!Slots, Architecture!Nothing,
           Architecture!NoTransfer, EndClock, absRequest, absIssued, absSlots
<1>3. CASE ~ Triggered
  <2>1. ~ trigger
    BY <1>3 DEF IndInv, IdleHasNoJump, Triggered
  <2>2. absRequest.op = "nop"
    BY <2>1 DEF absRequest
  <2>3. ~ (pending /\ pendingTime = Latency)
    BY <2>1 DEF IndInv, TypeOK, LeftoversAreReplayed, EndClock
  <2>4. absIssued' = absIssued /\ absSlots' = absSlots
    BY <1>3, <2>3 DEF EndClock, absIssued, absSlots
  <2> QED
    BY <1>1, <1>3, <2>2, <2>4
       DEF Architecture!Issue, Architecture!NoTransfer, EndClock, absRequest,
           absIssued, absSlots
<1> QED
  BY <1>2, <1>3

LEMMA AbsCycleEnd == IndInv /\ CycleEnd => Architecture!Commit
<1> SUFFICES ASSUME IndInv, CycleEnd PROVE Architecture!Commit
  OBVIOUS
<1> USE DEF Latency
<1> DEFINE queue == [i \in 1 .. DelaySlots + 1 |->
                        IF i \in 1 .. DelaySlots THEN absSlots[i] ELSE absIssued]
<1>1. \A i \in 1 .. DelaySlots + 1 :
         queue[i] = IF pending /\ pendingTime = i THEN newPC ELSE -1
  BY DEF CycleEnd, absSlots, absIssued
<1>2. pc' = IF queue[1] = -1 THEN pc + 1 ELSE queue[1]
  BY <1>1 DEF IndInv, TypeOK, IdleHasNoJump, CycleEnd, AdvanceClock
<1>3. \A i \in 1 .. DelaySlots :
         (IF pending' /\ pendingTime' = i THEN newPC' ELSE -1) = queue[i + 1]
  BY <1>1 DEF IndInv, TypeOK, IdleHasNoJump, CycleEnd, AdvanceClock
<1>4. absSlots' = [i \in 1 .. DelaySlots |-> queue[i + 1]]
  BY <1>3 DEF absSlots
<1>5. absIssued' = -1 /\ absRequest' = absRequest
  BY DEF CycleEnd, absIssued, absRequest
<1> QED
  BY <1>2, <1>4, <1>5
     DEF Architecture!Commit, Architecture!Queue, Architecture!Slots,
         Architecture!Nothing, CycleEnd, absRequest, absIssued, absSlots

LEMMA AbsThrows ==
    IndInv /\ (EndClockThrows \/ OtherUnitThrows) => Architecture!Abandon
BY DEF EndClockThrows, OtherUnitThrows, Architecture!Abandon,
       Architecture!NoTransfer, Architecture!Nothing

LEMMA AbsReset == IndInv /\ Reset => Architecture!Restart
BY DEF Reset, Architecture!Restart, Architecture!Slots, Architecture!Nothing

LEMMA AbsStutter ==
    IndInv /\ (FetchThrows \/ UNCHANGED vars) => UNCHANGED Architecture!vars
BY DEF FetchThrows, vars, Architecture!vars

(* The pending time stays within the latency, for any number of delay      *)
(* slots, and the other variables in their types.                          *)
THEOREM TypeCorrect == Spec => []TypeOK
<1>1. IndInv => TypeOK
  BY DEF IndInv
<1> QED  BY Invariance, <1>1, PTL

(* A trigger, or a transfer with all its slots ahead, that an interrupted  *)
(* cycle leaves behind belongs to the instruction that is executed again.  *)
THEOREM LeftoversReplayed == Spec => []LeftoversAreReplayed
<1>1. IndInv => LeftoversAreReplayed
  BY DEF IndInv
<1> QED  BY Invariance, <1>1, PTL

(* The control unit implements the architecture: every jump takes effect   *)
(* after exactly the delay slots, for every program, whatever cycles are   *)
(* interrupted by runtime errors and executed again.                       *)
THEOREM Refinement == Spec => ImplementsArchitecture
<1>1. IndInv /\ [Next]_vars => [Architecture!Next]_(Architecture!vars)
  BY AbsExecute, AbsEndClock, AbsCycleEnd, AbsThrows, AbsReset, AbsStutter
     DEF Next, Cycle, Architecture!Next
<1> QED
  BY <1>1, AbsInit, Invariance, PTL
     DEF Spec, ImplementsArchitecture, Architecture!Spec
=============================================================================

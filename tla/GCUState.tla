------------------------------ MODULE GCUState ------------------------------
(***************************************************************************)
(* The global control unit (class GCUState) and its executor               *)
(* (TransportPipeline) in the cycle of SimulationController::simulateCycle:*)
(* the moves of the instruction at the program counter may trigger a jump, *)
(* endClock hands its target to setProgramCounter, the end of the cycle    *)
(* increments the program counter and then lets advanceClock replace it    *)
(* once the delay slots are over.                                          *)
(*                                                                         *)
(* Any unit may throw in any cycle.  simulateCycle catches the exception,  *)
(* the simulation stops, and resuming it executes the instruction at the   *)
(* program counter again over whatever the interrupted cycle left behind.  *)
(***************************************************************************)
EXTENDS Integers

CONSTANTS NumInstr,     \* instructions of the program, at addresses 0, 1, ...
          DelaySlots    \* ControlUnit::delaySlots()

ASSUME NumInstrAssumption == NumInstr \in Nat \ {0}
ASSUME DelaySlotsAssumption == DelaySlots \in Nat

Instr == 0 .. NumInstr - 1

(* The control move of an instruction: none, a jump or a call to an        *)
(* address, or a return, which is a jump to the value of ra.               *)
Move == {[op |-> o, to |-> 0] : o \in {"nop", "ret"}}
        \cup [op : {"jump", "call"}, to : Instr]

(* The latency MachineStateBuilder gives the control unit.                 *)
Latency == DelaySlots + 1

VARIABLES code,        \* the control moves of the program
          phase,       \* of simulateCycle: "fetch", "executed" or "ended"
          failed,      \* the last cycle was given up with an exception
          pc,          \* programCounter_
          ra,          \* returnAddressRegister_
          newPC,       \* newProgramCounter_
          pending,     \* operationPending_
          pendingTime, \* operationPendingTime_
          idle,        \* idle_
          trigger,     \* trigger_
          request      \* nextOperation_ and the value of its port

vars == <<code, phase, failed, pc, ra, newPC, pending, pendingTime, idle,
          trigger, request>>

Init ==
    /\ code \in [Instr -> Move]
    /\ phase = "fetch"
    /\ failed = FALSE
    /\ pc = 0
    /\ ra = 0
    /\ newPC = 0
    /\ pending = FALSE
    /\ pendingTime = 0
    /\ idle = FALSE
    /\ trigger = FALSE
    /\ request = [op |-> "nop", to |-> 0]

-----------------------------------------------------------------------------
(* The cycle                                                               *)

(* The moves of the instruction; a control move writes an opcode-setting   *)
(* port of the unit.                                                       *)
Execute ==
    /\ phase = "fetch"
    /\ pc \in Instr
    /\ phase' = "executed"
    /\ IF code[pc].op = "nop"
       THEN UNCHANGED <<trigger, idle, request>>
       ELSE /\ trigger' = TRUE
            /\ idle' = FALSE
            /\ request' = IF code[pc].op = "ret" THEN [op |-> "jump", to |-> ra]
                                                 ELSE code[pc]
    /\ UNCHANGED <<code, failed, pc, ra, newPC, pending, pendingTime>>

(* InstructionMemory::instructionAt throws.                                *)
FetchThrows ==
    /\ phase = "fetch"
    /\ pc \notin Instr
    /\ failed' = TRUE
    /\ UNCHANGED <<code, phase, pc, ra, newPC, pending, pendingTime, idle,
                   trigger, request>>

Triggered == ~ idle /\ trigger

InDelaySlot_Never == FALSE

InDelaySlot == pending /\ pendingTime # Latency

SetProgramCounter(value) ==
    /\ newPC' = value
    /\ pending' = TRUE
    /\ pendingTime' = Latency

SetReturnAddress == ra' = pc + Latency

EndClock_KeepsTrigger ==
    /\ phase = "executed"
    /\ phase' = "ended"
    /\ \/ /\ Triggered
          /\ ~ InDelaySlot
          /\ SetProgramCounter(request.to)
          /\ IF request.op = "call" THEN SetReturnAddress ELSE ra' = ra
       \/ /\ ~ Triggered
          /\ UNCHANGED <<newPC, pending, pendingTime, ra>>
    /\ UNCHANGED <<code, failed, pc, idle, trigger, request>>

(* FUState::endClock with TransportPipeline::startOperation.               *)
EndClock ==
    /\ phase = "executed"
    /\ phase' = "ended"
    /\ \/ /\ Triggered
          /\ ~ InDelaySlot
          /\ trigger' = FALSE
          /\ SetProgramCounter(request.to)
          /\ IF request.op = "call" THEN SetReturnAddress ELSE ra' = ra
       \/ /\ ~ Triggered
          /\ UNCHANGED <<trigger, newPC, pending, pendingTime, ra>>
    /\ UNCHANGED <<code, failed, pc, idle, request>>

(* "Cannot have jumps in delay slots."                                     *)
EndClockThrows ==
    /\ phase = "executed"
    /\ Triggered
    /\ InDelaySlot
    /\ phase' = "fetch"
    /\ failed' = TRUE
    /\ trigger' = FALSE
    /\ UNCHANGED <<code, pc, ra, newPC, pending, pendingTime, idle, request>>

(* Another unit or the memory system throws, before or after the control   *)
(* unit's endClock.                                                        *)
OtherUnitThrows ==
    /\ phase \in {"executed", "ended"}
    /\ phase' = "fetch"
    /\ failed' = TRUE
    /\ UNCHANGED <<code, pc, ra, newPC, pending, pendingTime, idle, trigger,
                   request>>

AdvanceClock_LateByOne ==
    /\ pendingTime' = IF pending THEN pendingTime - 1 ELSE pendingTime
    /\ IF pending /\ pendingTime' < 0
       THEN pc' = newPC /\ pending' = FALSE
       ELSE pc' = pc + 1 /\ pending' = pending
    /\ idle' = ~ pending'

AdvanceClock_IdleAnyway ==
    /\ pendingTime' = IF pending THEN pendingTime - 1 ELSE pendingTime
    /\ IF pending /\ pendingTime' <= 0
       THEN pc' = newPC /\ pending' = FALSE
       ELSE pc' = pc + 1 /\ pending' = pending
    /\ idle' = TRUE

(* The program counter has been incremented already.                       *)
AdvanceClock ==
    /\ pendingTime' = IF pending THEN pendingTime - 1 ELSE pendingTime
    /\ IF pending /\ pendingTime' <= 0
       THEN pc' = newPC /\ pending' = FALSE
       ELSE pc' = pc + 1 /\ pending' = pending
    /\ idle' = ~ pending'

CycleEnd ==
    /\ phase = "ended"
    /\ phase' = "fetch"
    /\ failed' = FALSE
    /\ \/ ~ idle /\ AdvanceClock
       \/ idle /\ pc' = pc + 1 /\ UNCHANGED <<pending, pendingTime, idle>>
    /\ UNCHANGED <<code, ra, newPC, trigger, request>>

(* SimulationController::reset: the entry address of the program is stored *)
(* in the program counter and then cleared by GCUState::reset.             *)
Reset ==
    /\ phase = "fetch"
    /\ pc' = 0
    /\ ra' = 0
    /\ newPC' = 0
    /\ pending' = FALSE
    /\ pendingTime' = 0
    /\ failed' = FALSE
    /\ UNCHANGED <<code, phase, idle, trigger, request>>

-----------------------------------------------------------------------------
Cycle == Execute \/ FetchThrows \/ EndClock \/ EndClockThrows \/ OtherUnitThrows
         \/ CycleEnd

(* Simulations that are restarted only after an orderly stop: reset leaves *)
(* the trigger of an interrupted cycle in place (GCUState.cc:59).          *)
Next == Cycle \/ (~ failed /\ Reset)

Spec == Init /\ [][Next]_vars

-----------------------------------------------------------------------------
(* Properties                                                              *)

(* Types; the pending time stays between zero and the latency.             *)
TypeOK ==
    /\ code \in [Instr -> Move]
    /\ phase \in {"fetch", "executed", "ended"}
    /\ failed \in BOOLEAN
    /\ pc \in Nat
    /\ ra \in Nat
    /\ newPC \in Nat
    /\ pending \in BOOLEAN
    /\ pendingTime \in 0 .. Latency
    /\ idle \in BOOLEAN
    /\ trigger \in BOOLEAN
    /\ request \in [op : {"nop", "jump", "call"}, to : Nat]

(* A unit that skips advanceClock because it is idle has neither a jump to *)
(* perform nor one to start.                                               *)
IdleHasNoJump == idle => ~ pending /\ ~ trigger

(* What an interrupted cycle leaves behind, a trigger or a jump with all   *)
(* its delay slots ahead, belongs to the instruction that is about to be   *)
(* executed again.                                                         *)
LeftoversAreReplayed ==
    /\ phase = "fetch" /\ trigger => failed /\ pc \in Instr /\ code[pc].op # "nop"
    /\ phase # "ended" /\ pending /\ pendingTime = Latency =>
          pc \in Instr /\ code[pc].op # "nop" /\ failed

Architecture == INSTANCE DelayedTransfer WITH
    request <- IF phase = "executed" /\ trigger THEN request
               ELSE [op |-> "nop", to |-> 0],
    issued  <- IF phase = "ended" /\ pending /\ pendingTime = Latency THEN newPC ELSE -1,
    slots   <- [i \in 1 .. DelaySlots |->
                   IF pending /\ pendingTime = i THEN newPC ELSE -1]

(* Every jump takes effect after exactly the delay slots, calls return     *)
(* behind them, and executing an instruction again after a runtime error   *)
(* neither repeats, loses nor shifts a transfer of control.                *)
ImplementsArchitecture == Architecture!Spec

(* Type correctness, idleness, what interrupted cycles leave behind, and   *)
(* the stages at which a transfer can be.                                  *)
IndInv ==
    /\ TypeOK
    /\ IdleHasNoJump
    /\ LeftoversAreReplayed
    /\ phase = "executed" =>
          /\ pc \in Instr
          /\ trigger <=> code[pc].op # "nop"
          /\ trigger => request = IF code[pc].op = "ret" THEN [op |-> "jump", to |-> ra]
                                                         ELSE code[pc]
    /\ phase = "ended" => pc \in Instr /\ ~ trigger
    /\ pending => pendingTime > 0
    /\ phase = "ended" => (code[pc].op # "nop" <=> pending /\ pendingTime = Latency)
=============================================================================

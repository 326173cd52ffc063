------------------------ MODULE SimulationController ------------------------
(***************************************************************************)
(* The simulation thread inside SimulationController: the commands run,    *)
(* runUntil, step and next, each a prologue of assignments, a loop around  *)
(* simulateCycle and an epilogue.  Signal handlers, timeout threads and    *)
(* the graphical interface read and write state_, stopRequested_ and       *)
(* stopReasons_ with no lock, so every assignment of the prologue, every   *)
(* test of the loop and every cycle is a step of its own.                  *)
(*                                                                         *)
(* The machine is abstracted to its program counter.  An instruction may   *)
(* continue at any successor Flow gives it, may throw, and may hit a stop  *)
(* point; GCUState and FUState model what happens inside the cycle.        *)
(***************************************************************************)
EXTENDS Integers

CONSTANTS NumInstr,    \* the program is at addresses 0 .. NumInstr - 1
          Flow,        \* Flow[a] = addresses the control may reach from a
          Procedure,   \* Procedure[a] = the procedure that holds a
          ExitPoints,  \* findProgramExitPoints()
          Kinds,       \* the commands in use
          Counts       \* arguments of step and next

Instr == 0 .. NumInstr - 1
FirstIllegal == NumInstr      \* firstIllegalInstructionIndex_

ASSUME NumInstrAssumption == NumInstr \in Nat \ {0}
ASSUME FlowAssumption == Flow \in [Instr -> SUBSET Nat]
ASSUME ProcedureAssumption == DOMAIN Procedure = Instr
ASSUME ExitPointsAssumption == ExitPoints \subseteq Instr
ASSUME KindsAssumption == Kinds \subseteq {"run", "until", "step", "next"}
ASSUME CountsAssumption == Counts \subseteq Nat

(* enum StopReason, in its order                                           *)
AFTER_STEPPING == 0
AFTER_UNTIL == 1
AFTER_TIMEOUT == 2
BREAKPOINT == 3
USER_REQUESTED == 4
RUNTIME_ERROR == 5
StopReasons == 0 .. 5

Status == {"INITIALIZING", "INITIALIZED", "RUNNING", "STOPPED", "FINISHED"}
Command == [kind : Kinds \cap {"run"}, count : {0}, address : {0}]
           \cup [kind : Kinds \cap {"until"}, count : {0}, address : Instr]
           \cup [kind : Kinds \cap {"step", "next"}, count : Counts, address : {0}]
NoCommand == [kind |-> "none", count |-> 0, address |-> 0]

VARIABLES state,          \* state_
          stopRequested,  \* stopRequested_
          stopReasons,    \* stopReasons_
          pc,             \* the program counter of the GCU
          (* local to the simulation thread *)
          loc,            \* where the thread is
          done,           \* assignments of the prologue that are made
          cmd,            \* the command, kept when it has returned
          startPC,        \* where next() started stepping
          counter,        \* counter
          ended,          \* simulateCycle() returned false
          inCalled        \* inCalledProcedure

local == <<done, cmd, startPC, counter, ended, inCalled>>
shared == <<state, stopRequested, stopReasons, pc>>
controllerVars == <<shared, loc, local>>

ControllerInit ==
    /\ state = "INITIALIZED"
    /\ stopRequested = FALSE
    /\ stopReasons = {}
    /\ pc = 0
    /\ loc = "idle"
    /\ done = 0
    /\ cmd = NoCommand
    /\ startPC = 0
    /\ counter = 0
    /\ ended = FALSE
    /\ inCalled = FALSE

(* prepareToStop, called by the simulation thread itself.                  *)
PrepareToStop(reasons) ==
    /\ stopRequested' = TRUE
    /\ stopReasons' = stopReasons \cup reasons

-----------------------------------------------------------------------------
(* The beginning of a command                                              *)

(* The commands of the command line check that the simulation is           *)
(* initialized or stopped.                                                 *)
Call(c) ==
    /\ loc = "idle"
    /\ state \in {"INITIALIZED", "STOPPED"}
    /\ loc' = "prologue"
    /\ done' = 0
    /\ cmd' = c
    /\ counter' = 0
    /\ ended' = FALSE
    /\ inCalled' = FALSE
    /\ UNCHANGED <<shared, startPC>>

Prologue_StateFirst(kind) == <<"state", "flag", "reasons">>

(* step() clears the flag last, the other commands clear it first.         *)
Prologue(kind) ==
    IF kind = "step" THEN <<"reasons", "state", "flag">>
                     ELSE <<"flag", "reasons", "state">>

PrologueStep ==
    /\ loc = "prologue"
    /\ done < 3
    /\ LET assigned == Prologue(cmd.kind)[done + 1]
       IN  /\ stopRequested' = IF assigned = "flag" THEN FALSE ELSE stopRequested
           /\ stopReasons' = IF assigned = "reasons" THEN {} ELSE stopReasons
           /\ state' = IF assigned = "state" THEN "RUNNING" ELSE state
    /\ done' = done + 1
    /\ UNCHANGED <<pc, loc, cmd, startPC, counter, ended, inCalled>>

(* next() looks up the procedure it starts in.  Program::instructionAt     *)
(* throws KeyNotFound outside the program, which the exception             *)
(* specification of next() does not allow: the process is terminated.      *)
EnterLoop ==
    /\ loc = "prologue"
    /\ done = 3
    /\ loc' = IF cmd.kind = "next" /\ pc \notin Instr THEN "terminated" ELSE "loop"
    /\ startPC' = pc
    /\ UNCHANGED <<shared, done, cmd, counter, ended, inCalled>>

-----------------------------------------------------------------------------
(* The loop                                                                *)

Continue_OneMore ==
    /\ ~ stopRequested
    /\ cmd.kind \in {"step", "next"} => counter <= cmd.count

Continue_OneFewer ==
    /\ ~ stopRequested
    /\ cmd.kind \in {"step", "next"} => counter < cmd.count - 1

Continue ==
    /\ ~ stopRequested
    /\ cmd.kind \in {"step", "next"} => counter < cmd.count

LoopTest ==
    /\ loc = "loop"
    /\ loc' = IF Continue THEN "cycle" ELSE "epilogue"
    /\ UNCHANGED <<shared, local>>

(* simulateCycle() up to the end: the exit points and the end of the       *)
(* program finish the simulation, a stop point may ask for a stop.         *)
CycleCompletes(successor, stopPointHit) ==
    /\ loc = "cycle"
    /\ pc \in Instr
    /\ pc' = successor
    /\ LET finished == pc \in ExitPoints \/ successor = FirstIllegal
           reasons == IF stopPointHit THEN {BREAKPOINT} ELSE {}
       IN  /\ ended' = finished
           /\ state' = IF finished THEN "FINISHED" ELSE state
           /\ stopRequested' = (finished \/ stopPointHit \/ stopRequested)
           /\ stopReasons' = stopReasons \cup reasons
    /\ loc' = "cycled"
    /\ UNCHANGED <<done, cmd, startPC, counter, inCalled>>

(* A unit, the memory or the instruction memory throws.                    *)
CycleThrows ==
    /\ loc = "cycle"
    /\ ended' = TRUE
    /\ PrepareToStop({RUNTIME_ERROR})
    /\ loc' = "cycled"
    /\ UNCHANGED <<state, pc, done, cmd, startPC, counter, inCalled>>

AfterRunCycle ==
    /\ loc = "cycled"
    /\ cmd.kind = "run"
    /\ loc' = "loop"
    /\ UNCHANGED <<shared, local>>

AfterStepCycle ==
    /\ loc = "cycled"
    /\ cmd.kind = "step"
    /\ counter' = counter + 1
    /\ loc' = "loop"
    /\ UNCHANGED <<shared, done, cmd, startPC, ended, inCalled>>

(* runUntil() returns from inside its loop when the program is finished    *)
(* and when the address is reached.                                        *)
AfterUntilCycle ==
    /\ loc = "cycled"
    /\ cmd.kind = "until"
    /\ \/ /\ state = "FINISHED"
          /\ loc' = "idle"
          /\ UNCHANGED <<state, stopRequested, stopReasons>>
       \/ /\ state # "FINISHED"
          /\ pc = cmd.address
          /\ PrepareToStop({AFTER_UNTIL})
          /\ state' = "STOPPED"
          /\ loc' = "idle"
       \/ /\ state # "FINISHED"
          /\ pc # cmd.address
          /\ loc' = "loop"
          /\ UNCHANGED <<state, stopRequested, stopReasons>>
    /\ UNCHANGED <<pc, done, cmd, startPC, counter, ended, inCalled>>

InnerLoop_UntilReturn(called, stop) == called

(* while (inCalledProcedure && !stopRequested_)                            *)
InnerLoop(called, stop) == called /\ ~ stop

(* next() counts a called procedure as one step; a cycle that failed or    *)
(* finished the program counts as the end of the program.                  *)
AfterNextCycle ==
    /\ loc = "cycled"
    /\ cmd.kind = "next"
    /\ \/ /\ ended
          /\ PrepareToStop({AFTER_UNTIL})
          /\ inCalled' = inCalled
          /\ counter' = counter + 1
          /\ loc' = "loop"
       \/ /\ ~ ended
          /\ pc \in Instr
          /\ inCalled' = (Procedure[pc] # Procedure[startPC])
          /\ IF InnerLoop(inCalled', stopRequested)
             THEN loc' = "cycle" /\ counter' = counter
             ELSE loc' = "loop" /\ counter' = counter + 1
          /\ UNCHANGED <<stopRequested, stopReasons>>
       \/ /\ ~ ended
          /\ pc \notin Instr
          /\ loc' = "terminated"
          /\ UNCHANGED <<counter, inCalled, stopRequested, stopReasons>>
    /\ UNCHANGED <<state, pc, done, cmd, startPC, ended>>

-----------------------------------------------------------------------------
(* The end of a command                                                    *)

AllStepsTaken_Never == FALSE

AllStepsTaken ==
    /\ cmd.kind \in {"step", "next"}
    /\ counter = cmd.count
    /\ cmd.kind = "next" => ~ inCalled

StatusAtEnd_Stopped == "STOPPED"

StatusAtEnd == IF state = "FINISHED" THEN "FINISHED" ELSE "STOPPED"

Epilogue ==
    /\ loc = "epilogue"
    /\ IF AllStepsTaken THEN PrepareToStop({AFTER_STEPPING})
                        ELSE UNCHANGED <<stopRequested, stopReasons>>
    /\ state' = StatusAtEnd
    /\ loc' = "idle"
    /\ UNCHANGED <<pc, done, cmd, startPC, counter, ended, inCalled>>

-----------------------------------------------------------------------------
ThreadStep ==
    \/ PrologueStep
    \/ EnterLoop
    \/ LoopTest
    \/ \E a \in Instr : /\ pc = a
                        /\ \E s \in Flow[a], hit \in BOOLEAN : CycleCompletes(s, hit)
    \/ CycleThrows
    \/ AfterRunCycle \/ AfterStepCycle \/ AfterUntilCycle \/ AfterNextCycle
    \/ Epilogue

ControllerTypeOK ==
    /\ state \in Status
    /\ stopRequested \in BOOLEAN
    /\ stopReasons \subseteq StopReasons
    /\ pc \in Nat
    /\ loc \in {"idle", "prologue", "loop", "cycle", "cycled", "epilogue", "terminated"}
    /\ done \in 0 .. 3
    /\ cmd \in Command \cup {NoCommand}
    /\ loc # "idle" => cmd \in Command
    /\ startPC \in Nat
    /\ counter \in 0 .. cmd.count
    /\ ended \in BOOLEAN
    /\ inCalled \in BOOLEAN
=============================================================================

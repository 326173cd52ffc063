----------------------- MODULE SimulatorFrontendProofs -----------------------
(***************************************************************************)
(* Proofs about the simulation thread and the threads that stop it, for    *)
(* every program, every number of timeout threads and every set of         *)
(* commands.                                                               *)
(***************************************************************************)
EXTENDS SimulatorFrontend, TLAPS

(* What a step of the simulation thread leaves to the other threads.       *)
Sim ==
    /\ asked' = (asked /\ loc' # "idle")
    /\ UNCHANGED <<req, kill>>

Cycle == \E s \in Nat, hit \in BOOLEAN : CycleCompletes(s, hit)

(* Where a requester is before it calls prepareToStop.                     *)
From(r) == IF r = User THEN "free" ELSE "waiting"

Interrupted(r) == Interrupt(r, From(r))

Tested(r) == TestRunning(r, From(r))

(* The steps of the system, one by one.                                    *)
LEMMA NextCases ==
    ASSUME Next
    PROVE  \/ \E c \in Command : Start(c)
           \/ PrologueStep /\ Sim
           \/ EnterLoop /\ Sim
           \/ LoopTest /\ Sim
           \/ Cycle /\ Sim
           \/ CycleThrows /\ Sim
           \/ AfterRunCycle /\ Sim
           \/ AfterStepCycle /\ Sim
           \/ AfterUntilCycle /\ Sim
           \/ AfterNextCycle /\ Sim
           \/ Epilogue /\ Sim
           \/ \E r \in Requesters : Interrupted(r)
           \/ \E r \in Requesters : Tested(r)
           \/ \E r \in Requesters : SetFlag(r)
           \/ \E r \in Requesters : InsertReason(r)
           \/ KillSimulation
           \/ Terminated
<1>1. ASSUME NEW a \in Instr, NEW s \in Flow[a], NEW hit \in BOOLEAN,
             CycleCompletes(s, hit)
      PROVE  Cycle
  <2>1. s \in Nat
    BY FlowAssumption, <1>1
  <2>2. QED
    BY <1>1, <2>1 DEF Cycle
<1>2. CASE Simulate
  <2>1. CASE \E a \in Instr : /\ pc = a
                              /\ \E s \in Flow[a], hit \in BOOLEAN : CycleCompletes(s, hit)
    BY <1>1, <1>2, <2>1 DEF Simulate, Sim
  <2>2. QED
    BY <1>2, <2>1 DEF Simulate, ThreadStep, Sim
<1>3. CASE RequestStop
  BY <1>3 DEF RequestStop, Interrupted, Tested, From, Requesters
<1>4. CASE \E t \in Timers : TimeoutExpires(t)
  BY <1>4, UserAssumption DEF TimeoutExpires, Interrupted, Tested, From, Requesters
<1>5. QED
  BY <1>2, <1>3, <1>4 DEF Next

-----------------------------------------------------------------------------
(* Type correctness, in two parts: the Boolean variables and the others.   *)

Flags ==
    /\ stopRequested \in BOOLEAN
    /\ ended \in BOOLEAN
    /\ inCalled \in BOOLEAN
    /\ asked \in BOOLEAN

Data ==
    /\ state \in Status
    /\ stopReasons \subseteq StopReasons
    /\ pc \in Nat
    /\ loc \in {"idle", "prologue", "loop", "cycle", "cycled", "epilogue", "terminated"}
    /\ done \in 0 .. 3
    /\ cmd \in Command \cup {NoCommand}
    /\ loc # "idle" => cmd \in Command
    /\ startPC \in Nat
    /\ counter \in 0 .. cmd.count
    /\ req \in [Requesters -> {"free", "waiting", "tested", "flagged"}]
    /\ kill \in {"none", "reset"}
    /\ StepsLeft

LEMMA TypeParts == (TypeOK /\ StepsLeft) <=> (Flags /\ Data)
  BY DEF TypeOK, ControllerTypeOK, Flags, Data

(* Every command has a natural number of steps and a kind.                 *)
LEMMA CommandType ==
    /\ NoCommand.count = 0
    /\ NoCommand.kind = "none"
    /\ \A c \in Command : c.count \in Nat /\ c.kind \in Kinds
                          /\ c.kind \in {"run", "until", "step", "next"}
<1>1. NoCommand.count = 0 /\ NoCommand.kind = "none"
  BY DEF NoCommand
<1>2. ASSUME NEW c \in Command
      PROVE  c.count \in Nat /\ c.kind \in Kinds /\ c.kind \in {"run", "until", "step", "next"}
  <2>1. CASE c \in [kind : Kinds \cap {"run"}, count : {0}, address : {0}]
    BY <2>1
  <2>2. CASE c \in [kind : Kinds \cap {"until"}, count : {0}, address : Instr]
    BY <2>2
  <2>3. CASE c \in [kind : Kinds \cap {"step", "next"}, count : Counts, address : {0}]
    BY <2>3, CountsAssumption
  <2>4. QED
    BY <1>2, <2>1, <2>2, <2>3 DEF Command
<1>3. QED
  BY <1>1, <1>2

LEMMA InitType == Init => Flags /\ Data
<1>1. Init => Flags
  BY Zenon DEF Init, ControllerInit, Flags
<1>2. Init => Data
  BY CommandType DEF Init, ControllerInit, Data, StepsLeft, Status, StopReasons
<1>3. QED
  BY <1>1, <1>2

LEMMA FlagsStep == Flags /\ [Next]_vars => Flags'
<1> SUFFICES ASSUME Flags, [Next]_vars PROVE Flags'
  OBVIOUS
<1> USE DEF Flags, shared, local, controllerVars, frontendVars, PrepareToStop
<1>1. CASE UNCHANGED vars
  BY <1>1, Zenon DEF vars
<1>2. CASE \E c \in Command : Start(c)
  BY <1>2, Zenon DEF Start, Call
<1>3. CASE PrologueStep /\ Sim
  BY <1>3, Zenon DEF PrologueStep, Sim
<1>4. CASE EnterLoop /\ Sim
  BY <1>4, Zenon DEF EnterLoop, Sim
<1>5. CASE LoopTest /\ Sim
  BY <1>5, Zenon DEF LoopTest, Sim
<1>6. CASE Cycle /\ Sim
  BY <1>6, Zenon DEF Cycle, CycleCompletes, Sim
<1>7. CASE CycleThrows /\ Sim
  BY <1>7, Zenon DEF CycleThrows, Sim
<1>8. CASE AfterRunCycle /\ Sim
  BY <1>8, Zenon DEF AfterRunCycle, Sim
<1>9. CASE AfterStepCycle /\ Sim
  BY <1>9, Zenon DEF AfterStepCycle, Sim
<1>10. CASE AfterUntilCycle /\ Sim
  BY <1>10, Zenon DEF AfterUntilCycle, Sim
<1>11. CASE AfterNextCycle /\ Sim
  BY <1>11, Zenon DEF AfterNextCycle, Sim
<1>12. CASE Epilogue /\ Sim
  BY <1>12, Zenon DEF Epilogue, Sim
<1>13. CASE \E r \in Requesters : Interrupted(r)
  BY <1>13, Zenon DEF Interrupted, Interrupt
<1>14. CASE \E r \in Requesters : Tested(r)
  BY <1>14, Zenon DEF Tested, TestRunning
<1>15. CASE \E r \in Requesters : SetFlag(r)
  BY <1>15, Zenon DEF SetFlag
<1>16. CASE \E r \in Requesters : InsertReason(r)
  BY <1>16, Zenon DEF InsertReason
<1>17. CASE KillSimulation
  BY <1>17, Zenon DEF KillSimulation, Reset
<1>18. CASE Terminated
  BY <1>18, Zenon DEF Terminated, vars
<1>19. QED
  BY NextCases, <1>1, <1>2, <1>3, <1>4, <1>5, <1>6, <1>7, <1>8, <1>9, <1>10, <1>11,
     <1>12, <1>13, <1>14, <1>15, <1>16, <1>17, <1>18

LEMMA DataStep == Data /\ [Next]_vars => Data'
<1> SUFFICES ASSUME Data, [Next]_vars PROVE Data'
  OBVIOUS
<1> USE CommandType
    DEF Data, StepsLeft, Status, StopReasons, shared, local, controllerVars, frontendVars
<1>1. CASE UNCHANGED vars
  BY <1>1 DEF vars
<1>2. CASE \E c \in Command : Start(c)
  BY <1>2 DEF Start, Call
<1>3. CASE PrologueStep /\ Sim
  <2>1. /\ state' \in {state, "RUNNING"}
        /\ stopReasons' \in {stopReasons, {}}
        /\ done < 3 /\ done' = done + 1
        /\ UNCHANGED <<pc, loc, cmd, startPC, counter, req, kill>>
    BY <1>3, Zenon DEF PrologueStep, Sim
  <2>2. QED
    BY <2>1
<1>4. CASE EnterLoop /\ Sim
  BY <1>4 DEF EnterLoop, Sim
<1>5. CASE LoopTest /\ Sim
  BY <1>5 DEF LoopTest, Continue, Sim
<1>6. CASE Cycle /\ Sim
  BY <1>6 DEF Cycle, CycleCompletes, BREAKPOINT, Sim
<1>7. CASE CycleThrows /\ Sim
  BY <1>7 DEF CycleThrows, PrepareToStop, RUNTIME_ERROR, Sim
<1>8. CASE AfterRunCycle /\ Sim
  BY <1>8 DEF AfterRunCycle, Sim
<1>9. CASE AfterStepCycle /\ Sim
  BY <1>9 DEF AfterStepCycle, Sim
<1>10. CASE AfterUntilCycle /\ Sim
  <2>1. /\ state' \in {state, "STOPPED"}
        /\ stopReasons' \in {stopReasons, stopReasons \cup {AFTER_UNTIL}}
        /\ loc # "idle" /\ loc' \in {"idle", "loop"}
        /\ UNCHANGED <<pc, done, cmd, startPC, counter, req, kill>>
    BY <1>10, Zenon DEF AfterUntilCycle, PrepareToStop, Sim
  <2>2. QED
    BY <2>1 DEF AFTER_UNTIL
<1>11. CASE AfterNextCycle /\ Sim
  <2>1. /\ loc = "cycled" /\ cmd.kind = "next"
        /\ stopReasons' \in {stopReasons, stopReasons \cup {AFTER_UNTIL}}
        /\ \/ loc' = "cycle" /\ counter' = counter
           \/ loc' = "loop" /\ counter' = counter + 1
           \/ loc' = "terminated" /\ counter' = counter
        /\ UNCHANGED <<state, pc, done, cmd, startPC, req, kill>>
    BY <1>11, Zenon DEF AfterNextCycle, PrepareToStop, Sim
  <2>2. QED
    BY <2>1 DEF AFTER_UNTIL
<1>12. CASE Epilogue /\ Sim
  <2>1. /\ state' \in {"FINISHED", "STOPPED"}
        /\ stopReasons' \in {stopReasons, stopReasons \cup {AFTER_STEPPING}}
        /\ loc' = "idle"
        /\ UNCHANGED <<pc, done, cmd, startPC, counter, req, kill>>
    BY <1>12, Zenon DEF Epilogue, StatusAtEnd, PrepareToStop, Sim
  <2>2. QED
    BY <2>1 DEF AFTER_STEPPING
<1>13. CASE \E r \in Requesters : Interrupted(r)
  <2>1. PICK r \in Requesters :
          /\ req' = [req EXCEPT ![r] = "free"]
          /\ stopReasons' \in {stopReasons, stopReasons \cup {Reason(r)}}
          /\ UNCHANGED <<state, pc, loc, local, kill>>
    BY <1>13, Zenon DEF Interrupted, Interrupt, PrepareToStop
  <2>2. QED
    BY <2>1 DEF Reason, USER_REQUESTED, AFTER_TIMEOUT
<1>14. CASE \E r \in Requesters : Tested(r)
  BY <1>14 DEF Tested, TestRunning
<1>15. CASE \E r \in Requesters : SetFlag(r)
  BY <1>15 DEF SetFlag
<1>16. CASE \E r \in Requesters : InsertReason(r)
  BY <1>16 DEF InsertReason, Reason, USER_REQUESTED, AFTER_TIMEOUT
<1>17. CASE KillSimulation
  BY <1>17 DEF KillSimulation, Reset
<1>18. CASE Terminated
  BY <1>18 DEF Terminated, vars
<1>19. QED
  BY NextCases, <1>1, <1>2, <1>3, <1>4, <1>5, <1>6, <1>7, <1>8, <1>9, <1>10, <1>11,
     <1>12, <1>13, <1>14, <1>15, <1>16, <1>17, <1>18

(* The variables keep their types; in particular step and next never count *)
(* past the number of steps they were asked for.                           *)
THEOREM TypeCorrect == Spec => [](TypeOK /\ StepsLeft)
<1>1. Spec => [](Flags /\ Data)
  BY InitType, FlagsStep, DataStep, PTL DEF Spec
<1>2. QED
  BY <1>1, TypeParts, PTL
-----------------------------------------------------------------------------
(* No stop request is lost.                                                *)

StopCore ==
    /\ loc = "idle" => state # "RUNNING" /\ ~ asked
    /\ loc = "prologue" /\ done < 3 => state # "RUNNING" /\ ~ asked
    /\ asked => stopRequested

LEMMA StopParts == StopInv <=> (TypeOK /\ StepsLeft /\ StopCore)
  BY DEF StopInv, StopCore

(* A command other than step() sets the status with the last assignment of *)
(* its prologue.                                                           *)
LEMMA StatusLast ==
    ASSUME "step" \notin Kinds, Data, PrologueStep
    PROVE  /\ loc = "prologue" /\ loc' = "prologue" /\ done < 3
           /\ done' < 3 => state' = state
<1>1. /\ loc = "prologue" /\ loc' = "prologue" /\ done < 3 /\ done' = done + 1
      /\ state' = IF Prologue(cmd.kind)[done + 1] = "state" THEN "RUNNING" ELSE state
  BY Zenon DEF PrologueStep
<1>2. done \in 0 .. 3 /\ cmd \in Command
  BY <1>1 DEF Data
<1>3. Prologue(cmd.kind) = <<"flag", "reasons", "state">>
  BY <1>2, CommandType DEF Prologue
<1>4. done' < 3 => done + 1 \in {1, 2}
  BY <1>1, <1>2
<1>5. QED
  BY <1>1, <1>3, <1>4

LEMMA StopStep ==
    ASSUME "step" \notin Kinds, Flags, Data, StopCore, [Next]_vars
    PROVE  StopCore'
<1> USE DEF Flags, StopCore, shared, local, controllerVars, frontendVars, PrepareToStop
<1>1. CASE UNCHANGED vars
  BY <1>1, Zenon DEF vars
<1>2. CASE \E c \in Command : Start(c)
  <2>1. loc = "idle" /\ loc' = "prologue" /\ UNCHANGED <<state, stopRequested, asked>>
    BY <1>2, Zenon DEF Start, Call
  <2>2. QED
    BY <2>1, Zenon
<1>3. CASE PrologueStep /\ Sim
  <2>1. ~ asked /\ ~ asked' /\ state # "RUNNING"
    BY <1>3, StatusLast, Zenon DEF Sim
  <2>2. QED
    BY <1>3, <2>1, StatusLast, Zenon
<1>4. CASE EnterLoop /\ Sim
  BY <1>4, Zenon DEF EnterLoop, Sim
<1>5. CASE LoopTest /\ Sim
  BY <1>5, Zenon DEF LoopTest, Sim
<1>6. CASE Cycle /\ Sim
  BY <1>6, Zenon DEF Cycle, CycleCompletes, Sim
<1>7. CASE CycleThrows /\ Sim
  BY <1>7, Zenon DEF CycleThrows, Sim
<1>8. CASE AfterRunCycle /\ Sim
  BY <1>8, Zenon DEF AfterRunCycle, Sim
<1>9. CASE AfterStepCycle /\ Sim
  BY <1>9, Zenon DEF AfterStepCycle, Sim
<1>10. CASE AfterUntilCycle /\ Sim
  BY <1>10, Zenon DEF AfterUntilCycle, Sim
<1>11. CASE AfterNextCycle /\ Sim
  BY <1>11, Zenon DEF AfterNextCycle, Sim
<1>12. CASE Epilogue /\ Sim
  BY <1>12, Zenon DEF Epilogue, StatusAtEnd, Sim
<1>13. CASE \E r \in Requesters : Interrupted(r)
  BY <1>13, Zenon DEF Interrupted, Interrupt
<1>14. CASE \E r \in Requesters : Tested(r)
  <2>1. UNCHANGED <<state, stopRequested, loc, done, asked>>
    BY <1>14, Zenon DEF Tested, TestRunning
  <2>2. QED
    BY <2>1, Zenon
<1>15. CASE \E r \in Requesters : SetFlag(r)
  BY <1>15, Zenon DEF SetFlag
<1>16. CASE \E r \in Requesters : InsertReason(r)
  <2>1. UNCHANGED <<state, stopRequested, loc, done, asked>>
    BY <1>16, Zenon DEF InsertReason
  <2>2. QED
    BY <2>1, Zenon
<1>17. CASE KillSimulation
  BY <1>17, Zenon DEF KillSimulation, Reset
<1>18. CASE Terminated
  BY <1>18, Zenon DEF Terminated, vars
<1>19. QED
  BY NextCases, <1>1, <1>2, <1>3, <1>4, <1>5, <1>6, <1>7, <1>8, <1>9, <1>10, <1>11,
     <1>12, <1>13, <1>14, <1>15, <1>16, <1>17, <1>18

(* With run, runUntil and next, a stop request that reached a running      *)
(* simulation stays pending until the command returns, whatever the number *)
(* of threads that ask: the prologue of these commands clears the flag     *)
(* before it sets the status that lets requests through.                   *)
THEOREM StopPending ==
    ASSUME "step" \notin Kinds
    PROVE  Spec => []StopInv
<1>1. Init => StopCore
  BY Zenon DEF Init, ControllerInit, StopCore
<1>2. Spec => [](Flags /\ Data /\ StopCore)
  BY <1>1, InitType, FlagsStep, DataStep, StopStep, PTL DEF Spec
<1>3. Flags /\ Data /\ StopCore => StopInv
  BY TypeParts, StopParts
<1>4. QED
  BY <1>2, <1>3, PTL

LEMMA NoCycleStep ==
    ASSUME StopInv, [Next]_vars, asked, loc # "cycle"
    PROVE  loc' # "cycle"
<1>1. stopRequested /\ loc \in {"idle", "prologue", "loop", "cycle", "cycled", "epilogue",
                               "terminated"}
  BY DEF StopInv, TypeOK, ControllerTypeOK
<1> USE DEF shared, local, controllerVars, frontendVars
<1>2. CASE LoopTest
  BY <1>1, <1>2, Zenon DEF LoopTest, Continue
<1>3. CASE AfterNextCycle
  BY <1>1, <1>3, Zenon DEF AfterNextCycle, InnerLoop
<1>4. CASE UNCHANGED vars
  BY <1>1, <1>4, Zenon DEF vars
<1>5. CASE \E c \in Command : Start(c)
  BY <1>5, Zenon DEF Start, Call
<1>6. CASE PrologueStep \/ EnterLoop \/ Cycle \/ CycleThrows
  BY <1>6, Zenon DEF PrologueStep, EnterLoop, Cycle, CycleCompletes, CycleThrows
<1>7. CASE AfterRunCycle \/ AfterStepCycle \/ AfterUntilCycle \/ Epilogue
  BY <1>7, Zenon DEF AfterRunCycle, AfterStepCycle, AfterUntilCycle, Epilogue
<1>8. CASE \E r \in Requesters : Interrupted(r) \/ Tested(r) \/ SetFlag(r) \/ InsertReason(r)
  BY <1>8, Zenon DEF Interrupted, Interrupt, Tested, TestRunning, SetFlag, InsertReason
<1>9. CASE KillSimulation \/ Terminated
  BY <1>9, Zenon DEF KillSimulation, Terminated, vars
<1>10. QED
  BY NextCases, <1>2, <1>3, <1>4, <1>5, <1>6, <1>7, <1>8, <1>9

(* With run, runUntil and next, prepareToStop stops the simulation after   *)
(* the cycle in progress: no later cycle is started.                       *)
THEOREM StopsAfterCycle ==
    ASSUME "step" \notin Kinds
    PROVE  Spec => NoCycleAfterStop
<1>1. StopInv /\ [Next]_vars => [asked /\ loc # "cycle" => loc' # "cycle"]_vars
  BY NoCycleStep
<1>2. QED
  BY <1>1, StopPending, PTL DEF Spec, NoCycleAfterStop

-----------------------------------------------------------------------------
(* A finished simulation stays finished.                                   *)

NotRestarted == loc = "prologue" => state # "FINISHED"

LEMMA FinishedStep ==
    ASSUME NotRestarted, [Next]_vars
    PROVE  /\ NotRestarted'
           /\ state = "FINISHED" => state' \in {"FINISHED", "INITIALIZED"}
<1> USE DEF NotRestarted, shared, local, controllerVars, frontendVars
<1>1. CASE UNCHANGED vars
  BY <1>1, Zenon DEF vars
<1>2. CASE \E c \in Command : Start(c)
  BY <1>2, Zenon DEF Start, Call
<1>3. CASE PrologueStep
  BY <1>3, Zenon DEF PrologueStep
<1>4. CASE EnterLoop \/ LoopTest \/ CycleThrows \/ AfterRunCycle \/ AfterStepCycle
  BY <1>4, Zenon DEF EnterLoop, LoopTest, CycleThrows, AfterRunCycle, AfterStepCycle
<1>5. CASE Cycle
  BY <1>5, Zenon DEF Cycle, CycleCompletes
<1>6. CASE AfterUntilCycle \/ AfterNextCycle
  BY <1>6, Zenon DEF AfterUntilCycle, AfterNextCycle
<1>7. CASE Epilogue
  BY <1>7, Zenon DEF Epilogue, StatusAtEnd
<1>8. CASE \E r \in Requesters : Interrupted(r) \/ Tested(r) \/ SetFlag(r) \/ InsertReason(r)
  BY <1>8, Zenon DEF Interrupted, Interrupt, Tested, TestRunning, SetFlag, InsertReason
<1>9. CASE KillSimulation \/ Terminated
  BY <1>9, Zenon DEF KillSimulation, Reset, Terminated, vars
<1>10. QED
  BY NextCases, <1>1, <1>2, <1>3, <1>4, <1>5, <1>6, <1>7, <1>8, <1>9

(* A program that has run to its end is not run further by any command:    *)
(* only killing the simulation leaves the status FINISHED.                 *)
THEOREM FinishedStays == Spec => FinishedUntilKilled
<1>1. Init => NotRestarted
  BY DEF Init, ControllerInit, NotRestarted
<1>2. NotRestarted /\ [Next]_vars =>
        NotRestarted' /\ [state = "FINISHED" => state' \in {"FINISHED", "INITIALIZED"}]_vars
  BY FinishedStep
<1>3. QED
  BY <1>1, <1>2, PTL DEF Spec, FinishedUntilKilled
-----------------------------------------------------------------------------
(* Every stop has a reason.                                                *)

(* The part of ReasonInv that the prologue is responsible for.             *)
Beginning ==
    /\ loc = "idle" => state # "RUNNING"
    /\ loc = "prologue" /\ cmd.kind # "step" =>
          /\ done < 3 => state # "RUNNING"
          /\ done \in {1, 2} => ~ stopRequested
    /\ loc = "prologue" /\ done = 3 /\ stopRequested => Explained
    /\ loc = "prologue" => ~ inCalled
    /\ inCalled => cmd.kind = "next"

(* The part of ReasonInv that the loop and the end of a command are        *)
(* responsible for.                                                        *)
Ending ==
    /\ loc \in {"loop", "cycle", "cycled", "epilogue"} /\ stopRequested =>
          Explained \/ state = "FINISHED"
    /\ loc = "cycled" /\ ended => stopRequested
    /\ loc \in {"loop", "epilogue"} /\ inCalled => stopRequested
    /\ loc = "epilogue" =>
          stopRequested \/ (cmd.kind \in {"step", "next"} /\ counter = cmd.count)
    /\ StopsForAReason
    /\ ShortStepExplained

AllFree == \A r \in Requesters : req[r] = "free"

LEMMA ReasonParts ==
    ReasonInv <=> (TypeOK /\ StepsLeft /\ AllFree /\ Beginning /\ Ending)
  BY DEF ReasonInv, AllFree, Beginning, Ending

(* The reasons of a stop only grow while a command runs.                   *)
LEMMA ExplainedGrows ==
    ASSUME stopReasons \subseteq stopReasons'
    PROVE  /\ Explained => Explained'
           /\ stopReasons # {} => stopReasons' # {}
  BY DEF Explained

LEMMA ExplainedBy ==
    /\ \A r \in Requesters : Reason(r) \in stopReasons' => Explained'
    /\ BREAKPOINT \in stopReasons' => Explained'
    /\ RUNTIME_ERROR \in stopReasons' => Explained'
    /\ Explained => stopReasons # {}
  BY DEF Explained, Reason

(* With no timeout and stop requests only from signal handlers, nobody is  *)
(* ever halfway through prepareToStop.                                     *)
LEMMA AllFreeStep ==
    ASSUME HasTimeout = FALSE, User \in Handlers, AllFree, Data, [Next]_vars
    PROVE  /\ AllFree'
           /\ ~ \E r \in Requesters : Tested(r) \/ SetFlag(r) \/ InsertReason(r)
           /\ \A r \in Requesters : Interrupted(r) => r = User
<1>1. ~ \E r \in Requesters : Tested(r) \/ SetFlag(r) \/ InsertReason(r)
  BY DEF AllFree, Tested, TestRunning, From, SetFlag, InsertReason
<1>2. \A r \in Requesters : Interrupted(r) => r = User
  BY DEF AllFree, Interrupted, Interrupt, From
<1>3. ASSUME UNCHANGED req PROVE AllFree'
  BY <1>3 DEF AllFree
<1>4. ASSUME NEW r \in Requesters, Interrupted(r) PROVE AllFree'
  BY <1>4 DEF Data, AllFree, Interrupted, Interrupt
<1>5. ASSUME NEW c \in Command, Start(c) PROVE UNCHANGED req
  BY <1>5, Zenon DEF Start
<1>6. Sim \/ KillSimulation \/ Terminated \/ UNCHANGED vars => UNCHANGED req
  BY Zenon DEF Sim, KillSimulation, Terminated, vars, frontendVars
<1>7. AllFree'
  BY NextCases, <1>1, <1>3, <1>4, <1>5, <1>6
<1>8. QED
  BY <1>1, <1>2, <1>7

LEMMA BeginningStep ==
    ASSUME Flags, Data, Beginning, [Next]_vars,
           ~ \E r \in Requesters : Tested(r) \/ SetFlag(r) \/ InsertReason(r)
    PROVE  Beginning'
<1> USE DEF Flags, Beginning, shared, local, controllerVars, frontendVars
<1>1. CASE UNCHANGED vars
  <2>1. UNCHANGED <<loc, state, cmd, done, stopRequested, stopReasons, inCalled>>
    BY <1>1, Zenon DEF vars
  <2>2. QED
    BY <2>1, ExplainedGrows, Zenon
<1>2. CASE \E c \in Command : Start(c)
  <2>1. /\ state \in {"INITIALIZED", "STOPPED"} /\ UNCHANGED state
        /\ loc' = "prologue" /\ done' = 0 /\ inCalled' = FALSE
    BY <1>2, Zenon DEF Start, Call
  <2>2. QED
    BY <2>1
<1>3. CASE PrologueStep /\ Sim
  <2>1. /\ loc = "prologue" /\ loc' = "prologue" /\ done < 3 /\ done' = done + 1
        /\ UNCHANGED <<cmd, inCalled>>
        /\ state' = IF Prologue(cmd.kind)[done + 1] = "state" THEN "RUNNING" ELSE state
        /\ stopRequested' =
             IF Prologue(cmd.kind)[done + 1] = "flag" THEN FALSE ELSE stopRequested
    BY <1>3, Zenon DEF PrologueStep, Sim
  <2>2. done \in {0, 1, 2}
    BY <2>1 DEF Data
  <2>3. CASE cmd.kind = "step"
    <3>1. Prologue(cmd.kind) = <<"reasons", "state", "flag">>
      BY <2>3 DEF Prologue
    <3>2. done' = 3 => Prologue(cmd.kind)[done + 1] = "flag"
      BY <3>1, <2>1, <2>2
    <3>3. done' = 3 => ~ stopRequested'
      BY <2>1, <3>2, Zenon
    <3>4. QED
      BY <2>1, <2>3, <3>3, Zenon
  <2>4. CASE cmd.kind # "step"
    <3>1. Prologue(cmd.kind) = <<"flag", "reasons", "state">>
      BY <2>4 DEF Prologue
    <3>2. /\ done = 0 => Prologue(cmd.kind)[done + 1] = "flag"
          /\ done < 2 => Prologue(cmd.kind)[done + 1] # "state"
          /\ done' < 3 => done < 2
          /\ done' \in {1, 2} \/ done' = 3
          /\ done = 0 \/ done \in {1, 2}
      BY <3>1, <2>1, <2>2
    <3>3. ~ stopRequested' /\ (done' < 3 => state' # "RUNNING")
      BY <2>1, <2>4, <3>2, Zenon
    <3>4. QED
      BY <2>1, <3>3, Zenon
  <2>5. QED
    BY <2>3, <2>4
<1>4. CASE EnterLoop /\ Sim
  BY <1>4, Zenon DEF EnterLoop, Sim
<1>5. CASE LoopTest /\ Sim
  BY <1>5, Zenon DEF LoopTest, Sim
<1>6. CASE Cycle /\ Sim
  <2>1. loc' = "cycled" /\ UNCHANGED <<cmd, inCalled>>
    BY <1>6, Zenon DEF Cycle, CycleCompletes, Sim
  <2>2. QED
    BY <2>1, Zenon
<1>7. CASE CycleThrows /\ Sim
  BY <1>7, Zenon DEF CycleThrows, Sim
<1>8. CASE AfterRunCycle /\ Sim
  BY <1>8, Zenon DEF AfterRunCycle, Sim
<1>9. CASE AfterStepCycle /\ Sim
  BY <1>9, Zenon DEF AfterStepCycle, Sim
<1>10. CASE AfterUntilCycle /\ Sim
  BY <1>10, Zenon DEF AfterUntilCycle, Sim
<1>11. CASE AfterNextCycle /\ Sim
  BY <1>11, Zenon DEF AfterNextCycle, Sim
<1>12. CASE Epilogue /\ Sim
  BY <1>12, Zenon DEF Epilogue, StatusAtEnd, Sim
<1>13. CASE \E r \in Requesters : Interrupted(r)
  <2>1. PICK r \in Requesters : Interrupted(r)
    BY <1>13
  <2>2. UNCHANGED <<loc, state, cmd, done, inCalled>>
    BY <2>1, Zenon DEF Interrupted, Interrupt
  <2>3. CASE state = "RUNNING"
    <3>1. Explained'
      BY <2>1, <2>3, ExplainedBy DEF Interrupted, Interrupt, PrepareToStop
    <3>2. done \in {1, 2} => done < 3
      OBVIOUS
    <3>3. QED
      BY <2>2, <2>3, <3>1, <3>2, Zenon
  <2>4. CASE state # "RUNNING"
    <3>1. UNCHANGED <<stopRequested, stopReasons>>
      BY <2>1, <2>4, Zenon DEF Interrupted, Interrupt
    <3>2. QED
      BY <2>2, <3>1, ExplainedGrows, Zenon
  <2>5. QED
    BY <2>3, <2>4
<1>14. CASE KillSimulation
  BY <1>14, Zenon DEF KillSimulation, Reset
<1>15. Terminated => UNCHANGED vars
  BY Zenon DEF Terminated
<1>16. QED
  BY NextCases, <1>1, <1>2, <1>3, <1>4, <1>5, <1>6, <1>7, <1>8, <1>9, <1>10, <1>11,
     <1>12, <1>13, <1>14, <1>15
LEMMA EndingStep ==
    ASSUME Flags, Data, Beginning, Ending, [Next]_vars,
           ~ \E r \in Requesters : Tested(r) \/ SetFlag(r) \/ InsertReason(r)
    PROVE  Ending'
<1> USE DEF Flags, Ending, StopsForAReason, ShortStepExplained, shared, local,
        controllerVars, frontendVars
<1>1. CASE UNCHANGED vars
  <2>1. UNCHANGED <<loc, state, cmd, counter, stopRequested, stopReasons, ended, inCalled>>
    BY <1>1, Zenon DEF vars
  <2>2. Explained' <=> Explained
    BY <2>1 DEF Explained
  <2>3. QED
    BY <2>1, <2>2, Zenon
<1>2. CASE \E c \in Command : Start(c)
  <2>1. loc' = "prologue"
    BY <1>2, Zenon DEF Start, Call
  <2>2. QED
    BY <2>1, Zenon
<1>3. CASE PrologueStep /\ Sim
  <2>1. loc' = "prologue"
    BY <1>3, Zenon DEF PrologueStep
  <2>2. QED
    BY <2>1, Zenon
<1>4. CASE EnterLoop /\ Sim
  <2>1. /\ loc = "prologue" /\ done = 3 /\ loc' \in {"loop", "terminated"}
        /\ UNCHANGED <<state, stopRequested, stopReasons, inCalled>>
    BY <1>4, Zenon DEF EnterLoop
  <2>2. Explained => Explained'
    BY <2>1 DEF Explained
  <2>3. QED
    BY <2>1, <2>2, Zenon DEF Beginning
<1>5. CASE LoopTest /\ Sim
  <2>1. /\ loc = "loop" /\ loc' \in {"cycle", "epilogue"}
        /\ loc' = "epilogue" => ~ Continue
        /\ UNCHANGED <<state, stopRequested, stopReasons, inCalled, cmd, counter>>
    BY <1>5, Zenon DEF LoopTest
  <2>2. Explained => Explained'
    BY <2>1 DEF Explained
  <2>3. CASE Continue
    <3>1. loc' = "cycle"
      BY <2>1, <2>3, Zenon
    <3>2. QED
      BY <3>1, <2>1, <2>2, Zenon
  <2>4. CASE ~ Continue
    <3>1. stopRequested \/ (cmd.kind \in {"step", "next"} /\ ~ (counter < cmd.count))
      BY <2>4, Zenon DEF Continue
    <3>2. ~ (counter < cmd.count) => counter = cmd.count
      BY CommandType DEF Data
    <3>3. QED
      BY <3>1, <3>2, <2>1, <2>2, Zenon
  <2>5. QED
    BY <2>3, <2>4
<1>6. CASE Cycle /\ Sim
  <2>1. PICK s \in Nat, hit \in BOOLEAN : CycleCompletes(s, hit)
    BY <1>6 DEF Cycle
  <2> DEFINE finished == pc \in ExitPoints \/ s = FirstIllegal
  <2>2. /\ loc = "cycle" /\ loc' = "cycled"
        /\ ended' = finished
        /\ state' = IF finished THEN "FINISHED" ELSE state
        /\ stopRequested' = (finished \/ hit \/ stopRequested)
        /\ stopReasons' = stopReasons \cup (IF hit THEN {BREAKPOINT} ELSE {})
    BY <2>1, Zenon DEF CycleCompletes
  <2>3. /\ Explained => Explained'
        /\ hit => Explained'
    BY <2>2, ExplainedGrows, ExplainedBy
  <2>4. QED
    BY <2>2, <2>3, Zenon
<1>7. CASE CycleThrows /\ Sim
  <2>1. loc' = "cycled" /\ stopRequested' = TRUE /\ RUNTIME_ERROR \in stopReasons'
    BY <1>7 DEF CycleThrows, PrepareToStop
  <2>2. QED
    BY <2>1, ExplainedBy, Zenon
<1>8. CASE AfterRunCycle /\ Sim
  <2>1. /\ loc = "cycled" /\ loc' = "loop" /\ cmd.kind = "run"
        /\ UNCHANGED <<state, stopRequested, stopReasons, inCalled>>
    BY <1>8, Zenon DEF AfterRunCycle
  <2>2. Explained => Explained'
    BY <2>1 DEF Explained
  <2>3. QED
    BY <2>1, <2>2, Zenon DEF Beginning
<1>9. CASE AfterStepCycle /\ Sim
  <2>1. /\ loc = "cycled" /\ loc' = "loop" /\ cmd.kind = "step"
        /\ UNCHANGED <<state, stopRequested, stopReasons, inCalled>>
    BY <1>9, Zenon DEF AfterStepCycle
  <2>2. Explained => Explained'
    BY <2>1 DEF Explained
  <2>3. QED
    BY <2>1, <2>2, Zenon DEF Beginning
<1>10. CASE AfterUntilCycle /\ Sim
  <2>1. /\ loc = "cycled" /\ cmd.kind = "until" /\ UNCHANGED <<inCalled, cmd>>
        /\ \/ state' = "FINISHED" /\ loc' = "idle"
           \/ stopReasons' = stopReasons \cup {AFTER_UNTIL} /\ loc' = "idle"
           \/ loc' = "loop" /\ UNCHANGED <<state, stopRequested, stopReasons>>
    BY <1>10, Zenon DEF AfterUntilCycle, PrepareToStop
  <2>2. UNCHANGED stopReasons => (Explained => Explained')
    BY DEF Explained
  <2>3. stopReasons' = stopReasons \cup {AFTER_UNTIL} => stopReasons' # {}
    OBVIOUS
  <2>4. CASE loc' = "loop" /\ UNCHANGED <<state, stopRequested, stopReasons>>
    <3>1. ~ inCalled'
      BY <2>1, Zenon DEF Beginning
    <3>2. stopRequested' => Explained' \/ state' = "FINISHED"
      BY <2>1, <2>2, <2>4, Zenon
    <3>3. QED
      BY <2>4, <3>1, <3>2, Zenon
  <2>5. CASE loc' = "idle"
    <3>1. cmd'.kind \notin {"step", "next"}
      BY <2>1
    <3>2. state' = "FINISHED" \/ stopReasons' # {}
      BY <2>1, <2>3, <2>5, Zenon
    <3>3. QED
      BY <2>5, <3>1, <3>2, Zenon
  <2>6. QED
    BY <2>1, <2>4, <2>5, Zenon
<1>11. CASE AfterNextCycle /\ Sim
  <2>1. /\ loc = "cycled" /\ loc' \in {"loop", "cycle", "terminated"} /\ UNCHANGED state
        /\ \/ ended /\ stopRequested' = TRUE
              /\ stopReasons' = stopReasons \cup {AFTER_UNTIL}
           \/ loc' = "loop" /\ ~ (inCalled' /\ ~ stopRequested)
              /\ UNCHANGED <<stopRequested, stopReasons>>
           \/ loc' \in {"cycle", "terminated"} /\ UNCHANGED <<stopRequested, stopReasons>>
    BY <1>11, Zenon DEF AfterNextCycle, InnerLoop, PrepareToStop
  <2>2. \/ stopReasons' = stopReasons \cup {AFTER_UNTIL}
        \/ stopReasons' = stopReasons
    BY <2>1, Zenon
  <2>3. Explained => Explained'
    BY <2>2, ExplainedGrows
  <2>4. stopRequested' => Explained' \/ state' = "FINISHED"
    BY <2>1, <2>3, Zenon
  <2>5. loc' = "loop" /\ inCalled' => stopRequested'
    <3>1. CASE stopRequested' = TRUE
      BY <3>1, Zenon
    <3>2. CASE ~ (inCalled' /\ ~ stopRequested) /\ UNCHANGED stopRequested
      BY <3>2
    <3>3. CASE loc' \in {"cycle", "terminated"}
      BY <3>3
    <3>4. QED
      BY <2>1, <3>1, <3>2, <3>3, Zenon
  <2>6. loc' \in {"loop", "cycle", "terminated"}
    BY <2>1, Zenon
  <2>7. QED
    BY <2>4, <2>5, <2>6, Zenon
<1>12. CASE Epilogue /\ Sim
  <2>1. /\ loc = "epilogue" /\ loc' = "idle" /\ UNCHANGED <<cmd, counter>>
        /\ state' = StatusAtEnd
        /\ IF AllStepsTaken THEN stopReasons' = stopReasons \cup {AFTER_STEPPING}
                            ELSE UNCHANGED stopReasons
    BY <1>12, Zenon DEF Epilogue, PrepareToStop
  <2>2. stopReasons \subseteq stopReasons' /\ (AllStepsTaken => stopReasons' # {})
    BY <2>1
  <2>3. (Explained => Explained') /\ (Explained => stopReasons' # {})
    BY <2>2, ExplainedGrows, ExplainedBy
  <2>4. stopRequested \/ AllStepsTaken
    BY <2>1, Zenon DEF AllStepsTaken
  <2>5. state' = "STOPPED" => state # "FINISHED"
    BY <2>1 DEF StatusAtEnd
  <2>6. counter < cmd.count => stopRequested
    BY <2>1, CommandType DEF Data
  <2>7. QED
    BY <2>1, <2>2, <2>3, <2>4, <2>5, <2>6, Zenon
<1>13. CASE \E r \in Requesters : Interrupted(r)
  <2>1. PICK r \in Requesters : Interrupted(r)
    BY <1>13
  <2>2. UNCHANGED <<loc, state, cmd, counter, ended, inCalled>>
    BY <2>1, Zenon DEF Interrupted, Interrupt
  <2>3. CASE state = "RUNNING"
    <3>1. Explained' /\ stopRequested' = TRUE
      BY <2>1, <2>3, ExplainedBy DEF Interrupted, Interrupt, PrepareToStop
    <3>2. QED
      BY <2>2, <2>3, <3>1, Zenon DEF Beginning
  <2>4. CASE state # "RUNNING"
    <3>1. UNCHANGED <<stopRequested, stopReasons>>
      BY <2>1, <2>4, Zenon DEF Interrupted, Interrupt
    <3>2. Explained' <=> Explained
      BY <3>1 DEF Explained
    <3>3. QED
      BY <2>2, <3>1, <3>2, Zenon
  <2>5. QED
    BY <2>3, <2>4
<1>14. CASE KillSimulation
  <2>1. loc' = "idle" /\ state' = "INITIALIZED"
    BY <1>14, Zenon DEF KillSimulation, Reset
  <2>2. QED
    BY <2>1, Zenon
<1>15. Terminated => UNCHANGED vars
  BY Zenon DEF Terminated
<1>16. QED
  BY NextCases, <1>1, <1>2, <1>3, <1>4, <1>5, <1>6, <1>7, <1>8, <1>9, <1>10, <1>11,
     <1>12, <1>13, <1>14, <1>15

(* When stops are requested by signal handlers only, the inductive         *)
(* invariant about the reasons of a stop holds: in particular every        *)
(* simulation that stopped before its end has a reason to report.          *)
THEOREM ReasonsKept ==
    ASSUME HasTimeout = FALSE, User \in Handlers
    PROVE  Spec => []ReasonInv
<1> DEFINE I == Flags /\ Data /\ AllFree /\ Beginning /\ Ending
<1>1. Init => I
  <2>1. Init => AllFree
    BY DEF Init, AllFree
  <2>2. Init => Beginning /\ Ending
    BY Zenon DEF Init, ControllerInit, Beginning, Ending, StopsForAReason,
       ShortStepExplained
  <2>3. QED
    BY InitType, <2>1, <2>2
<1>2. I /\ [Next]_vars => I'
  <2> SUFFICES ASSUME I, [Next]_vars PROVE I'
    OBVIOUS
  <2>1. /\ AllFree'
        /\ ~ \E r \in Requesters : Tested(r) \/ SetFlag(r) \/ InsertReason(r)
    BY AllFreeStep
  <2>2. Beginning' /\ Ending'
    BY <2>1, BeginningStep, EndingStep
  <2>3. QED
    BY <2>1, <2>2, FlagsStep, DataStep
<1>3. I => ReasonInv
  BY TypeParts, ReasonParts
<1>4. QED
  BY <1>1, <1>2, <1>3, PTL DEF Spec

(* A simulation that has stopped before its end stopped for a reason.      *)
THEOREM StopsHaveReasons ==
    ASSUME HasTimeout = FALSE, User \in Handlers
    PROVE  Spec => []StopsForAReason
<1>1. ReasonInv => StopsForAReason
  BY DEF ReasonInv
<1>2. QED
  BY <1>1, ReasonsKept, PTL

(* step and next take all their steps unless somebody else asked for the   *)
(* stop or the program ended.                                              *)
THEOREM ShortStepsExplained ==
    ASSUME HasTimeout = FALSE, User \in Handlers
    PROVE  Spec => []ShortStepExplained
<1>1. ReasonInv => ShortStepExplained
  BY DEF ReasonInv
<1>2. QED
  BY <1>1, ReasonsKept, PTL
=============================================================================

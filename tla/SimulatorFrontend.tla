------------------------- MODULE SimulatorFrontend --------------------------
(***************************************************************************)
(* SimulatorFrontend around the controller: the commands, the timeout      *)
(* threads that run(), runUntil() and next() start and nobody ever joins   *)
(* or cancels, stop requests of the user (a signal handler, or the         *)
(* graphical interface in a thread of its own), and killing a simulation,  *)
(* from the command line between commands and from the graphical interface *)
(* at any time.                                                            *)
(***************************************************************************)
EXTENDS SimulationController

CONSTANTS Timers,      \* bound on the timeout threads alive at a time
          User,        \* the user, as a requester of stops
          Handlers,    \* requesters that run prepareToStop to its end before
                       \* the simulation goes on, as a signal handler does
          HasTimeout   \* simulationTimeout_ is not zero

Requesters == Timers \cup {User}

ASSUME UserAssumption == User \notin Timers
ASSUME HandlersAssumption == Handlers \subseteq Requesters
ASSUME HasTimeoutAssumption == HasTimeout \in BOOLEAN

VARIABLES req,    \* how far each requester is in prepareToStop
          kill,   \* ProximSimulationThread::killSimulation in progress
          asked   \* prepareToStop has reached a running simulation

frontendVars == <<req, kill, asked>>
vars == <<controllerVars, frontendVars>>

Init ==
    /\ ControllerInit
    /\ req = [r \in Requesters |-> "free"]
    /\ kill = "none"
    /\ asked = FALSE

-----------------------------------------------------------------------------
(* run, runUntil, next and step; step starts no timeout thread.            *)
Start(c) ==
    /\ Call(c)
    /\ \/ /\ HasTimeout /\ c.kind # "step"
          /\ \E t \in Timers : /\ req[t] = "free"
                               /\ req' = [req EXCEPT ![t] = "waiting"]
       \/ /\ ~ (HasTimeout /\ c.kind # "step")
          /\ UNCHANGED req
    /\ UNCHANGED <<kill, asked>>

Simulate ==
    /\ ThreadStep
    /\ asked' = (asked /\ loc' # "idle")
    /\ UNCHANGED <<req, kill>>

-----------------------------------------------------------------------------
Reason(r) == IF r = User THEN USER_REQUESTED ELSE AFTER_TIMEOUT

(* SimulatorFrontend::prepareToStop in a signal handler.                   *)
Interrupt(r, from) ==
    /\ loc # "terminated"
    /\ r \in Handlers
    /\ req[r] = from
    /\ req' = [req EXCEPT ![r] = "free"]
    /\ IF state = "RUNNING"
       THEN PrepareToStop({Reason(r)}) /\ asked' = TRUE
       ELSE UNCHANGED <<stopRequested, stopReasons, asked>>
    /\ UNCHANGED <<state, pc, loc, local, kill>>

(* SimulatorFrontend::prepareToStop in another thread: the status is       *)
(* tested, then the flag set, then the reason inserted.                    *)
TestRunning(r, from) ==
    /\ loc # "terminated"
    /\ r \notin Handlers
    /\ req[r] = from
    /\ req' = [req EXCEPT ![r] = IF state = "RUNNING" THEN "tested" ELSE "free"]
    /\ UNCHANGED <<controllerVars, kill, asked>>

(* Control-C, or the stop button.                                          *)
RequestStop == Interrupt(User, "free") \/ TestRunning(User, "free")

(* timeoutThread wakes up.                                                 *)
TimeoutExpires(t) == Interrupt(t, "waiting") \/ TestRunning(t, "waiting")

SetFlag(r) ==
    /\ loc # "terminated"
    /\ req[r] = "tested"
    /\ req' = [req EXCEPT ![r] = "flagged"]
    /\ stopRequested' = TRUE
    /\ asked' = (asked \/ state = "RUNNING")
    /\ UNCHANGED <<state, stopReasons, pc, loc, local, kill>>

InsertReason(r) ==
    /\ loc # "terminated"
    /\ req[r] = "flagged"
    /\ req' = [req EXCEPT ![r] = "free"]
    /\ stopReasons' = stopReasons \cup {Reason(r)}
    /\ UNCHANGED <<state, stopRequested, pc, loc, local, kill, asked>>

-----------------------------------------------------------------------------
(* SimulationController::reset, called by killSimulation.                  *)
Reset ==
    /\ state' = "INITIALIZED"
    /\ stopRequested' = FALSE
    /\ pc' = 0
    /\ stopReasons' = stopReasons

(* KillCommand.                                                            *)
KillSimulation ==
    /\ loc = "idle"
    /\ state \in {"FINISHED", "STOPPED"}
    /\ Reset
    /\ UNCHANGED <<loc, local, frontendVars>>

(* ProximKillCmd: a running simulation is asked to stop, and then reset    *)
(* without waiting for it.                                                 *)
GuiKill ==
    /\ kill = "none"
    /\ state \in {"RUNNING", "STOPPED", "FINISHED"}
    /\ kill' = "reset"
    /\ IF state = "RUNNING" THEN PrepareToStop({USER_REQUESTED})
                            ELSE UNCHANGED <<stopRequested, stopReasons>>
    /\ UNCHANGED <<state, pc, loc, local, req, asked>>

GuiReset ==
    /\ kill = "reset"
    /\ kill' = "none"
    /\ Reset
    /\ UNCHANGED <<loc, local, req, asked>>

Terminated == loc = "terminated" /\ UNCHANGED vars

-----------------------------------------------------------------------------
Next ==
    \/ \E c \in Command : Start(c)
    \/ Simulate
    \/ RequestStop
    \/ \E t \in Timers : TimeoutExpires(t)
    \/ \E r \in Requesters : SetFlag(r) \/ InsertReason(r)
    \/ KillSimulation
    \/ Terminated

(* The simulation thread is scheduled again and again.                     *)
Spec == Init /\ [][Next]_vars /\ WF_vars(Simulate)

(* The graphical interface can also kill a simulation that is running.     *)
GuiSpec == Init /\ [][Next \/ GuiKill \/ GuiReset]_vars /\ WF_vars(Simulate)

-----------------------------------------------------------------------------
(* Properties                                                              *)

(* Types; step and next never count past the steps they were asked for.    *)
TypeOK ==
    /\ ControllerTypeOK
    /\ req \in [Requesters -> {"free", "waiting", "tested", "flagged"}]
    /\ kill \in {"none", "reset"}
    /\ asked \in BOOLEAN

(* A simulation that has stopped before its end stopped for a reason.      *)
StopsForAReason == loc = "idle" /\ state = "STOPPED" => stopReasons # {}

(* Somebody other than the command itself asked for the stop.              *)
Explained ==
    \E r \in {BREAKPOINT, USER_REQUESTED, AFTER_TIMEOUT, RUNTIME_ERROR} : r \in stopReasons

(* When step or next return early, the program has finished or somebody    *)
(* other than the stepping itself asked for the stop.                      *)
ShortStepExplained ==
    loc = "idle" /\ state = "STOPPED"
    /\ cmd.kind \in {"step", "next"} /\ counter < cmd.count => Explained

(* A finished simulation is only left by killing it.                       *)
FinishedUntilKilled == [][state = "FINISHED" => state' \in {"FINISHED", "INITIALIZED"}]_vars

(* prepareToStop stops the simulation after the cycle in progress: once it *)
(* has reached a running simulation no further cycle is started.           *)
NoCycleAfterStop == [][asked /\ loc # "cycle" => loc' # "cycle"]_vars

(* A running command that was asked to stop returns, and step() always     *)
(* does.                                                                   *)
CommandsEnd ==
    (loc # "idle" /\ (asked \/ cmd.kind = "step")) ~> loc \in {"idle", "terminated"}

(* Killing a simulation ends it.                                           *)
KillEndsSimulation == kill = "reset" ~> loc = "idle"

-----------------------------------------------------------------------------
(* The invariants behind the properties                                    *)

(* A cycle is only simulated while steps are left to take.                 *)
StepsLeft == loc \in {"cycle", "cycled"} /\ cmd.kind \in {"step", "next"} => counter < cmd.count

(* A stop request that has reached the simulation is still pending, and    *)
(* none reaches it before the prologue has set the status: all commands    *)
(* except step() clear the flag before they set the status.                *)
StopInv ==
    /\ TypeOK
    /\ StepsLeft
    /\ loc = "idle" => state # "RUNNING" /\ ~ asked
    /\ loc = "prologue" /\ done < 3 => state # "RUNNING" /\ ~ asked
    /\ asked => stopRequested

(* In the loop a raised flag is explained or the program is finished; the  *)
(* loop is left for a raised flag or a full count, and with next() still   *)
(* inside a called procedure only for a raised flag.                       *)
ReasonInv ==
    /\ TypeOK
    /\ StepsLeft
    /\ \A r \in Requesters : req[r] = "free"
    /\ loc = "idle" => state # "RUNNING"
    /\ loc = "prologue" /\ cmd.kind # "step" =>
          /\ done < 3 => state # "RUNNING"
          /\ done \in {1, 2} => ~ stopRequested
    /\ loc = "prologue" /\ done = 3 /\ stopRequested => Explained
    /\ loc \in {"loop", "cycle", "cycled", "epilogue"} /\ stopRequested =>
          Explained \/ state = "FINISHED"
    /\ loc = "cycled" /\ ended => stopRequested
    /\ inCalled => cmd.kind = "next"
    /\ loc = "prologue" => ~ inCalled
    /\ loc \in {"loop", "epilogue"} /\ inCalled => stopRequested
    /\ loc = "epilogue" =>
          stopRequested \/ (cmd.kind \in {"step", "next"} /\ counter = cmd.count)
    /\ StopsForAReason
    /\ ShortStepExplained
=============================================================================

----------------------------- MODULE StopPoints -----------------------------
(***************************************************************************)
(* The stop point manager of the simulator with its breakpoints and        *)
(* watches.  The manager keeps the stop points in a map and their handles  *)
(* in a list, and listens to the event SE_NEW_INSTRUCTION only while it    *)
(* has any; stop points may delete themselves in the event.  A watch       *)
(* caches its answer with the clock cycle it was given in.                 *)
(*                                                                         *)
(* All this happens in the thread that runs the commands, so commands come *)
(* between cycles.  Which instruction comes next and what it does to the   *)
(* watched expression is left open; a condition is "the expression is not  *)
(* 0".  Scripts do not throw.                                              *)
(***************************************************************************)
EXTENDS Naturals, Sequences

CONSTANTS Addresses,  \* instruction addresses; 0 is the first
          Values,     \* values of the watched expression
          Tuned,      \* bound: handles of stop points with options
          MaxHandle, MaxPoints, MaxClock, MaxIgnore  \* bounds

ASSUME BoundsAssumption ==
    /\ MaxHandle \in Nat /\ MaxPoints \in Nat /\ MaxClock \in Nat /\ MaxIgnore \in Nat
ASSUME AddressesAssumption == 0 \in Addresses
ASSUME ValuesAssumption == 0 \in Values

Handles == 1 .. MaxHandle

StopPoint == [watch : BOOLEAN, addr : Addresses, enabled : BOOLEAN,
              disableAfter : BOOLEAN, deleteAfter : BOOLEAN, ignore : Nat,
              conditional : BOOLEAN, result : Values]

VARIABLES stopPoints,    \* stopPoints_: handle -> stop point
          handles,       \* handles_
          handleCount,   \* handleCount_
          lastStopCycle, \* lastStopCycle_
          toBeDeleted,   \* toBeDeletedStopPoints of handleEvent
          listening,     \* the manager is a listener of SE_NEW_INSTRUCTION
          checked,       \* lastCheckedCycle_ of watches, by handle
          cached,        \* isTriggered_ of watches
          pc, clock,     \* programCounter and clockCount_ of the controller
          value,         \* the value of the watched expression
          state,         \* state of the controller
          fired          \* history: the stop points that caused the stop

managerVars == <<stopPoints, handles, handleCount, toBeDeleted, listening>>
watchVars == <<checked, cached>>
simVars == <<pc, clock, value, lastStopCycle, fired>>
vars == <<stopPoints, handles, handleCount, lastStopCycle, toBeDeleted, listening,
          checked, cached, pc, clock, value, state, fired>>

Init ==
    /\ stopPoints = [h \in {} |-> 0]
    /\ handles = << >>
    /\ handleCount = 0
    /\ lastStopCycle = 0
    /\ toBeDeleted = {}
    /\ listening = FALSE
    /\ checked = [h \in Handles |-> 0]
    /\ cached = [h \in Handles |-> FALSE]
    /\ pc = 0
    /\ clock = 0
    /\ value \in Values
    /\ state = "initialized"
    /\ fired = {}

-----------------------------------------------------------------------------
(* The manager                                                             *)

(* Commands on stop points are refused while the simulation runs or once   *)
(* it has ended.                                                           *)
Idle == state \in {"initialized", "stopped"}

Add_SameHandle(p) ==
    /\ handleCount < MaxHandle
    /\ Len(handles) < MaxPoints
    /\ stopPoints' = [h \in DOMAIN stopPoints \cup {handleCount + 1} |->
                         IF h = handleCount + 1 THEN p ELSE stopPoints[h]]
    /\ handles' = Append(handles, handleCount + 1)
    /\ listening' = (listening \/ DOMAIN stopPoints = {})
    /\ UNCHANGED <<handleCount, toBeDeleted, watchVars, simVars, state>>

Add(p) ==
    /\ handleCount < MaxHandle
    /\ Len(handles) < MaxPoints
    /\ handleCount' = handleCount + 1
    /\ stopPoints' = [h \in DOMAIN stopPoints \cup {handleCount + 1} |->
                         IF h = handleCount + 1 THEN p ELSE stopPoints[h]]
    /\ handles' = Append(handles, handleCount + 1)
    /\ listening' = (listening \/ DOMAIN stopPoints = {})
    /\ checked' = [checked EXCEPT ![handleCount + 1] = 0]
    /\ cached' = [cached EXCEPT ![handleCount + 1] = FALSE]
    /\ UNCHANGED <<toBeDeleted, simVars, state>>

(* bp and, with temporary, tbp; a condition given with it is SetCondition. *)
AddBreakpoint(a, temporary) ==
    /\ Idle
    /\ Add([watch |-> FALSE, addr |-> a, enabled |-> TRUE, disableAfter |-> FALSE,
            deleteAfter |-> temporary, ignore |-> 0, conditional |-> FALSE,
            result |-> value])

(* watch evaluates the expression first.                                   *)
AddWatch ==
    /\ state \in {"initialized", "stopped", "finished"}
    /\ Add([watch |-> TRUE, addr |-> 0, enabled |-> TRUE, disableAfter |-> FALSE,
            deleteAfter |-> FALSE, ignore |-> 0, conditional |-> FALSE,
            result |-> value])

(* handles_.erase of the first entry h                                     *)
Erased(h) ==
    LET i == CHOOSE i \in DOMAIN handles :
                 handles[i] = h /\ \A j \in DOMAIN handles : handles[j] = h => i <= j
    IN  [j \in 1 .. Len(handles) - 1 |-> IF j < i THEN handles[j] ELSE handles[j + 1]]

Delete_KeepsListening(h) ==
    /\ stopPoints' = [g \in DOMAIN stopPoints \ {h} |-> stopPoints[g]]
    /\ handles' = Erased(h)
    /\ UNCHANGED <<handleCount, listening, watchVars, simVars>>

(* deleteStopPoint                                                         *)
Delete(h) ==
    /\ stopPoints' = [g \in DOMAIN stopPoints \ {h} |-> stopPoints[g]]
    /\ handles' = Erased(h)
    /\ listening' = (listening /\ DOMAIN stopPoints # {h})
    /\ UNCHANGED <<handleCount, watchVars, simVars>>

DeleteStopPoint(h) ==
    /\ Idle
    /\ Delete(h)
    /\ UNCHANGED <<toBeDeleted, state>>

(* deleteAll deletes the first of the list until it is empty.              *)
DeleteAll ==
    /\ Idle
    /\ stopPoints' = [h \in DOMAIN stopPoints \ {handles[i] : i \in DOMAIN handles} |->
                         stopPoints[h]]
    /\ handles' = << >>
    /\ listening' = (listening /\ handles = << >>)
    /\ UNCHANGED <<handleCount, toBeDeleted, watchVars, simVars, state>>

Set(h, p) ==
    /\ Idle
    /\ stopPoints' = [stopPoints EXCEPT ![h] = p]
    /\ UNCHANGED <<handles, handleCount, toBeDeleted, listening, watchVars, simVars, state>>

Enable(h) == Set(h, [stopPoints[h] EXCEPT !.enabled = TRUE])

EnableOnceAndDelete(h) ==
    Set(h, [stopPoints[h] EXCEPT !.enabled = TRUE, !.deleteAfter = TRUE])

EnableOnceAndDisable(h) ==
    Set(h, [stopPoints[h] EXCEPT !.enabled = TRUE, !.disableAfter = TRUE])

Disable(h) == Set(h, [stopPoints[h] EXCEPT !.enabled = FALSE])

SetIgnore(h, n) == Set(h, [stopPoints[h] EXCEPT !.ignore = n])

SetCondition(h, c) == Set(h, [stopPoints[h] EXCEPT !.conditional = c])

-----------------------------------------------------------------------------
(* Stop points in a clock cycle c that leads to address a and value v      *)

(* Watch::isTriggered evaluates the expression unless it has an answer for *)
(* this cycle.                                                             *)
Looks(h, c) == stopPoints[h].watch /\ checked[h] # c

IsTriggered(h, a, v, c) ==
    IF stopPoints[h].watch
    THEN IF checked[h] # c THEN v # stopPoints[h].result ELSE cached[h]
    ELSE a = stopPoints[h].addr

IsConditionOK(h, v) == stopPoints[h].conditional => v # 0

CheckAll_NoCycle(H, v, c) ==
    /\ checked' = checked
    /\ cached' = [h \in Handles |-> IF h \in H /\ Looks(h, c)
                                    THEN v # stopPoints[h].result ELSE cached[h]]

CheckAll(H, v, c) ==
    /\ checked' = [h \in Handles |-> IF h \in H /\ Looks(h, c) THEN c ELSE checked[h]]
    /\ cached' = [h \in Handles |-> IF h \in H /\ Looks(h, c)
                                    THEN v # stopPoints[h].result ELSE cached[h]]

Visited_AlwaysDecreases(h, a, v, c) ==
    LET p    == stopPoints[h]
        acts == p.enabled /\ IsTriggered(h, a, v, c)
    IN  [p EXCEPT !.enabled = @ /\ ~ (acts /\ IsConditionOK(h, v) /\ p.ignore = 0
                                           /\ p.disableAfter),
                  !.ignore = IF acts /\ @ > 0 THEN @ - 1 ELSE @,
                  !.result = IF p.enabled /\ Looks(h, c) THEN v ELSE @]

(* A stop point after the event                                            *)
Visited(h, a, v, c) ==
    LET p    == stopPoints[h]
        acts == p.enabled /\ IsTriggered(h, a, v, c) /\ IsConditionOK(h, v)
    IN  [p EXCEPT !.enabled = @ /\ ~ (acts /\ p.ignore = 0 /\ p.disableAfter),
                  !.ignore = IF acts /\ @ > 0 THEN @ - 1 ELSE @,
                  !.result = IF p.enabled /\ Looks(h, c) THEN v ELSE @]

(* StopPointManager::handleEvent                                           *)
HandleEvent(a, v, c) ==
    LET enabled == {h \in DOMAIN stopPoints : stopPoints[h].enabled}
        fires == {h \in enabled : /\ IsTriggered(h, a, v, c)
                                  /\ stopPoints[h].ignore = 0
                                  /\ IsConditionOK(h, v)}
    IN  /\ fired' = fires
        /\ lastStopCycle' = IF fires = {} THEN lastStopCycle ELSE c
        /\ stopPoints' = [h \in DOMAIN stopPoints |-> Visited(h, a, v, c)]
        /\ toBeDeleted' = {h \in fires : stopPoints[h].deleteAfter}
        /\ CheckAll(enabled, v, c)
        /\ UNCHANGED <<handles, handleCount, listening>>

(* its loop over the stop points to be deleted                             *)
DeleteTriggered(h) ==
    /\ h \in toBeDeleted /\ \A g \in toBeDeleted : h <= g
    /\ Delete(h)
    /\ toBeDeleted' = toBeDeleted \ {h}
    /\ UNCHANGED state

-----------------------------------------------------------------------------
(* The controller                                                          *)

(* run, resume, stepi, nexti and until                                     *)
Start ==
    /\ Idle
    /\ state' = "running"
    /\ fired' = {}
    /\ UNCHANGED <<managerVars, watchVars, pc, clock, value, lastStopCycle>>

(* The cycle ends and SE_NEW_INSTRUCTION is announced; the command also    *)
(* ends for reasons of its own.                                            *)
SimulateCycle(a, v) ==
    /\ state = "running"
    /\ clock < MaxClock
    /\ pc' = a
    /\ clock' = clock + 1
    /\ value' = v
    /\ IF listening
       THEN HandleEvent(a, v, clock + 1)
       ELSE UNCHANGED <<managerVars, watchVars, lastStopCycle, fired>>
    /\ \/ state' = "stopping"
       \/ fired' = {} /\ state' = "running"

(* The program ends: no event                                              *)
SimulateLastCycle(v) ==
    /\ state = "running"
    /\ clock < MaxClock
    /\ clock' = clock + 1
    /\ value' = v
    /\ state' = "finished"
    /\ UNCHANGED <<managerVars, watchVars, pc, lastStopCycle, fired>>

(* The instruction fails, after some of its effects: no event              *)
SimulateFailingCycle(v) ==
    /\ state = "running"
    /\ value' = v
    /\ state' = "stopped"
    /\ UNCHANGED <<managerVars, watchVars, pc, clock, lastStopCycle, fired>>

(* stopCausingStopPoint, stopCausingStopPointCount                         *)
StopCausing ==
    {h \in DOMAIN stopPoints : lastStopCycle = clock /\ IsTriggered(h, pc, value, clock)}

(* run and resume ask all stop points if SRE_BREAKPOINT is the first reason*)
PrintStopReasons ==
    /\ state = "stopping" /\ toBeDeleted = {}
    /\ state' = "stopped"
    /\ fired # {} /\ lastStopCycle = clock
    /\ stopPoints' = [h \in DOMAIN stopPoints |->
           [stopPoints[h] EXCEPT !.result = IF Looks(h, clock) THEN value ELSE @]]
    /\ CheckAll(DOMAIN stopPoints, value, clock)
    /\ UNCHANGED <<handles, handleCount, toBeDeleted, listening, simVars>>

EndCommand ==
    /\ state = "stopping" /\ toBeDeleted = {}
    /\ state' = "stopped"
    /\ UNCHANGED <<managerVars, watchVars, simVars>>

(* killSimulation: reset() of the controller, new contents of the memories *)
Kill(v) ==
    /\ state \in {"stopped", "finished"}
    /\ state' = "initialized"
    /\ clock' = 0
    /\ pc' = 0
    /\ value' = v
    /\ fired' = {}
    /\ UNCHANGED <<managerVars, watchVars, lastStopCycle>>

Next ==
    \/ \E a \in Addresses, t \in BOOLEAN : AddBreakpoint(a, t)
    \/ AddWatch
    \/ \E h \in DOMAIN stopPoints : DeleteStopPoint(h)
    \/ DeleteAll
    \/ \E h \in DOMAIN stopPoints : DeleteTriggered(h)
    \/ \E h \in DOMAIN stopPoints \cap Tuned : Enable(h)
    \/ \E h \in DOMAIN stopPoints \cap Tuned : EnableOnceAndDelete(h)
    \/ \E h \in DOMAIN stopPoints \cap Tuned : EnableOnceAndDisable(h)
    \/ \E h \in DOMAIN stopPoints \cap Tuned : Disable(h)
    \/ \E h \in DOMAIN stopPoints \cap Tuned, n \in 0 .. MaxIgnore : SetIgnore(h, n)
    \/ \E h \in DOMAIN stopPoints \cap Tuned, c \in BOOLEAN : SetCondition(h, c)
    \/ Start
    \/ \E a \in Addresses, v \in Values : SimulateCycle(a, v)
    \/ \E v \in Values : SimulateLastCycle(v)
    \/ \E v \in Values : SimulateFailingCycle(v)
    \/ PrintStopReasons
    \/ EndCommand
    \/ \E v \in Values : Kill(v)

Spec == Init /\ [][Next]_vars

-----------------------------------------------------------------------------
(* Properties                                                              *)

(* Types; every stop point has a handle that was given out.                *)
TypeOK ==
    /\ DOMAIN stopPoints \subseteq 1 .. handleCount
    /\ stopPoints \in [DOMAIN stopPoints -> StopPoint]
    /\ handles \in Seq(Handles)
    /\ handleCount \in 0 .. MaxHandle
    /\ lastStopCycle \in Nat
    /\ listening \in BOOLEAN
    /\ checked \in [Handles -> Nat]
    /\ cached \in [Handles -> BOOLEAN]
    /\ pc \in Addresses
    /\ clock \in Nat
    /\ value \in Values
    /\ state \in {"initialized", "running", "stopping", "stopped", "finished"}
    /\ fired \subseteq Handles
    /\ toBeDeleted \subseteq DOMAIN stopPoints
    /\ toBeDeleted # {} => state = "stopping"

(* The manager hears of instructions exactly while it has stop points, and *)
(* its list of handles names each of them once, although stop points also  *)
(* delete themselves from inside the event.                                *)
ManagerInv ==
    /\ listening <=> DOMAIN stopPoints # {}
    /\ {handles[i] : i \in DOMAIN handles} = DOMAIN stopPoints
    /\ \A i, j \in DOMAIN handles : handles[i] = handles[j] => i = j

(* Until the simulation goes on, a stop point that caused the stop and     *)
(* still exists is among the ones stopCausingStopPoint names.              *)
FiredAreReported ==
    state \in {"stopping", "stopped"} => fired \cap DOMAIN stopPoints \subseteq StopCausing

Kept == DOMAIN stopPoints \ toBeDeleted

DS == INSTANCE DebuggerStops WITH
        points <- [h \in Kept |-> stopPoints[h]],
        used <- handleCount,
        stopped <- state # "running",
        doubtful <- {h \in Kept : stopPoints[h].watch /\ checked[h] > clock}

(* The map of stop points, the event and the cached watches implement what *)
(* breakpoints and watches promise: no stop point is missed, none fires    *)
(* twice or too early, whatever was added, deleted or disabled before.     *)
ImplementsDebuggerStops == DS!Spec
=============================================================================

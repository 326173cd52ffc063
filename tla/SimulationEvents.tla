-------------------------- MODULE SimulationEvents --------------------------
(***************************************************************************)
(* The observers of a simulation: the trackers that trace it and the stop  *)
(* point manager, the list of the event handler (an Informer) in which     *)
(* they register, and the commands of the front end that make and destroy  *)
(* them.  The list holds plain pointers, and a destroyed object leaves an  *)
(* address that the next one may be given; the model therefore has a heap. *)
(*                                                                         *)
(* Everything runs in the thread of the commands.  What an observer writes *)
(* is left out; which controller and which trace database it uses is not.  *)
(***************************************************************************)
EXTENDS Naturals, FiniteSets, SequencesExt

CONSTANTS Addresses,  \* bound: the heap
          NULL,
          MaxTraced   \* bound: kinds of tracing that are on together

ASSUME MaxTracedAssumption == MaxTraced \in Nat

Trackers == {"execution", "rf", "procedure", "bus"}
Events == {"SE_CYCLE_END", "SE_NEW_INSTRUCTION", "SE_SIMULATION_STOPPED"}

ASSUME NULLAssumption == NULL \notin Addresses \cup Events

(* controller and database: what a tracker refers to is the controller (in *)
(* the case of rf its instruction memory) and traceDB_ of the front end.   *)
Object == [kind : Trackers \cup {"manager", "none"}, alive : BOOLEAN,
           controller : BOOLEAN, database : BOOLEAN]

Free == [kind |-> "none", alive |-> FALSE, controller |-> FALSE, database |-> FALSE]
New(k) == [kind |-> k, alive |-> TRUE, controller |-> TRUE, database |-> TRUE]

VARIABLES heap,        \* what is at each address
          slot,        \* executionTracker_, ..., stopPointManager_
          listeners,   \* eventListeners_ of the event handler
          tracing,     \* the settings executionTracing_, ...
          simCon,      \* simCon_ # NULL
          traceDB,     \* traceDB_ # NULL
          points,      \* the manager has stop points
          event,       \* the event in the loop of handleEvent, or NULL
          index,       \* i of that loop, from 1
          heard,       \* history: how often an object was called for event
          left,        \* history: the entries that destructors left in the list
          outlived,    \* history: the living trackers whose controller prog deleted
          fault        \* history: how the process went wrong

commandVars == <<heap, slot, listeners, tracing, simCon, traceDB, points, left, outlived>>
loopVars == <<event, index, heard>>
vars == <<heap, slot, listeners, tracing, simCon, traceDB, points, event, index,
          heard, left, outlived, fault>>

Init ==
    /\ heap = [a \in Addresses |-> Free]
    /\ slot = [k \in Trackers \cup {"manager"} |-> NULL]
    /\ listeners = << >>
    /\ tracing = {}
    /\ simCon = FALSE
    /\ traceDB = FALSE
    /\ points = FALSE
    /\ event = NULL
    /\ index = 0
    /\ heard = [a \in Addresses |-> 0]
    /\ left = {}
    /\ outlived = {}
    /\ fault = "none"

Living == {a \in Addresses : heap[a].alive /\ heap[a].kind \in Trackers}

(* The front end waits for a command.                                      *)
Ready == event = NULL /\ fault = "none"

-----------------------------------------------------------------------------
(* Informer                                                                *)

Registered_NoLookup(list, e, a) == Append(list, <<e, a>>)

(* registerListener: findListenerSlot adds what it does not find.          *)
Registered(list, e, a) ==
    IF \E i \in DOMAIN list : list[i] = <<e, a>> THEN list ELSE Append(list, <<e, a>>)

Unregistered(list, e, a) == RemoveFirst(list, <<e, a>>)

(* The constructors and destructors of the trackers                        *)
Constructed(list, k, a) ==
    IF k = "rf"
    THEN Registered(Registered(list, "SE_CYCLE_END", a), "SE_SIMULATION_STOPPED", a)
    ELSE Registered(list, "SE_CYCLE_END", a)

Destroyed_BusKept(list, k, a) ==
    IF a = NULL \/ k = "bus" THEN list
    ELSE IF k = "rf"
    THEN Unregistered(Registered(list, "SE_CYCLE_END", a), "SE_SIMULATION_STOPPED", a)
    ELSE Unregistered(list, "SE_CYCLE_END", a)

Destroyed_Null(list, k, a) ==
    IF k = "rf"
    THEN Unregistered(Registered(list, "SE_CYCLE_END", a), "SE_SIMULATION_STOPPED", a)
    ELSE Unregistered(list, "SE_CYCLE_END", a)

(* ~RFAccessTracker registers where it should unregister.                  *)
Destroyed(list, k, a) ==
    IF a = NULL THEN list
    ELSE IF k = "rf"
    THEN Unregistered(Registered(list, "SE_CYCLE_END", a), "SE_SIMULATION_STOPPED", a)
    ELSE Unregistered(list, "SE_CYCLE_END", a)

-----------------------------------------------------------------------------
(* finishSimulation and initializeTracing                                  *)

(* The trackers are deleted, and an open database is put aside.            *)
FinishedHeap ==
    [a \in Addresses |->
        IF \E k \in Trackers : slot[k] = a THEN Free
        ELSE [heap[a] EXCEPT !.database = @ /\ ~traceDB]]

FinishedSlots == [slot EXCEPT !["execution"] = NULL, !["rf"] = NULL,
                              !["procedure"] = NULL, !["bus"] = NULL]

FinishedList ==
    LET execution == Destroyed(listeners, "execution", slot["execution"])
        bus       == Destroyed(execution, "bus", slot["bus"])
        rf        == Destroyed(bus, "rf", slot["rf"])
    IN  Destroyed(rf, "procedure", slot["procedure"])

(* What finishSimulation does not reach: trackers without a member.        *)
StillOutlived == {a \in outlived : FinishedHeap[a].alive}

LeftByRF == IF slot["rf"] = NULL THEN {} ELSE {<<"SE_CYCLE_END", slot["rf"]>>}

(* ~ExecutionTracker reaches the event handler through its controller; the *)
(* flush of register file accesses asserts that there is a tracker.        *)
FinishFault ==
    IF slot["execution"] # NULL /\ ~heap[slot["execution"]].controller THEN "subject"
    ELSE IF traceDB /\ "rf" \in tracing /\ slot["rf"] = NULL THEN "assertion"
    ELSE "none"

(* The trackers that initializeTracing makes when the members are s: those *)
(* of rf and procedure without a look at the member.                       *)
Made(s) == {k \in tracing : k \in {"execution", "bus"} => s[k] = NULL}

(* initializeTracing after heap, members and list became h, s and l.       *)
InitializeTracing(h, s, l, open) ==
    \E place \in [Made(s) -> {a \in Addresses : ~h[a].alive}] :
        /\ IsInjective(place)
        /\ heap' = [a \in Addresses |->
                       IF \E k \in Made(s) : place[k] = a
                       THEN New(CHOOSE k \in Made(s) : place[k] = a)
                       ELSE h[a]]
        /\ slot' = [k \in DOMAIN s |-> IF k \in Made(s) THEN place[k] ELSE s[k]]
        /\ LET Add(list, k) == IF k \in Made(s) THEN Constructed(list, k, place[k]) ELSE list
           IN  listeners' = Add(Add(Add(Add(l, "execution"), "rf"), "procedure"), "bus")
        /\ traceDB' = (open \/ tracing \cap {"execution", "rf", "procedure"} # {})

-----------------------------------------------------------------------------
(* Commands                                                                *)

SetTracing(k) ==
    /\ Ready
    /\ Cardinality(tracing \ {k}) < MaxTraced
    /\ tracing' = IF k \in tracing THEN tracing \ {k} ELSE tracing \cup {k}
    /\ UNCHANGED <<heap, slot, listeners, simCon, traceDB, points, left, outlived, fault,
                   loopVars>>

(* The process is gone, or anything may happen to it.                      *)
Fail(f) ==
    /\ fault' = f
    /\ UNCHANGED <<commandVars, loopVars>>

(* delete simCon_                                                          *)
WithoutController(h) == [a \in Addresses |-> [h[a] EXCEPT !.controller = FALSE]]

(* mach: finishSimulation does nothing without a controller.               *)
LoadMachine ==
    /\ Ready
    /\ IF ~simCon THEN UNCHANGED <<commandVars, loopVars, fault>>
       ELSE IF FinishFault # "none" THEN Fail(FinishFault)
       ELSE /\ heap' = WithoutController(FinishedHeap)
            /\ slot' = FinishedSlots
            /\ listeners' = FinishedList
            /\ traceDB' = FALSE
            /\ simCon' = FALSE
            /\ left' = (left \cup LeftByRF) \cap ToSet(listeners')
            /\ outlived' = StillOutlived
            /\ UNCHANGED <<tracing, points, fault, loopVars>>

(* initializeSimulation: the controller and the manager are deleted and    *)
(* made again, the manager at m.  ~StopPointManager does not unregister,   *)
(* and no tracker is deleted, whether a simulation was loaded or not.      *)
WithManager(m) ==
    [a \in Addresses |->
        IF a = m THEN New("manager")
        ELSE IF a = slot["manager"] THEN Free ELSE WithoutController(heap)[a]]

LeftByManager == IF points THEN {<<"SE_NEW_INSTRUCTION", slot["manager"]>>} ELSE {}

InitializeSimulation ==
    /\ points' = FALSE
    /\ left' = left \cup LeftByManager
    /\ outlived' = Living
    /\ UNCHANGED <<tracing, fault, loopVars>>

Vacant(m) == heap[m].alive => m = slot["manager"]

(* prog with a program that is accepted                                    *)
LoadProgram ==
    /\ Ready
    /\ \E m \in Addresses :
        /\ Vacant(m)
        /\ InitializeTracing(WithManager(m), [slot EXCEPT !["manager"] = m], listeners, traceDB)
    /\ simCon' = TRUE
    /\ InitializeSimulation

(* prog with a program whose initial data have no place in the machine:    *)
(* initializeDataMemories throws before the tracing is initialized, and    *)
(* deletes the controller if it is the address space that is missing.      *)
LoadProgramWithoutData ==
    /\ Ready
    /\ simCon' \in BOOLEAN
    /\ \E m \in Addresses :
        /\ Vacant(m)
        /\ heap' = IF simCon' THEN WithManager(m) ELSE WithoutController(WithManager(m))
        /\ slot' = [slot EXCEPT !["manager"] = m]
    /\ UNCHANGED <<listeners, traceDB>>
    /\ InitializeSimulation

(* prog with a program that is refused deletes the controller.             *)
LoadProgramFails ==
    /\ Ready
    /\ heap' = WithoutController(heap)
    /\ simCon' = FALSE
    /\ outlived' = Living
    /\ UNCHANGED <<slot, listeners, tracing, traceDB, points, left, fault, loopVars>>

KillSimulation_NoFinish ==
    /\ Ready
    /\ simCon
    /\ InitializeTracing(heap, slot, listeners, traceDB)
    /\ UNCHANGED <<tracing, simCon, points, left, outlived, fault, loopVars>>

(* kill: the manager and its stop points stay.                             *)
KillSimulation ==
    /\ Ready
    /\ simCon
    /\ IF FinishFault # "none" THEN Fail(FinishFault)
       ELSE /\ InitializeTracing(FinishedHeap, FinishedSlots, FinishedList, FALSE)
            /\ left' = (left \cup LeftByRF) \cap ToSet(listeners')
            /\ outlived' = StillOutlived
            /\ UNCHANGED <<tracing, simCon, points, fault, loopVars>>

(* The first stop point is added, the last one is deleted.  watch does not *)
(* ask whether there is a simulation, only for a manager.                  *)
AddFirstStopPoint ==
    /\ Ready
    /\ slot["manager"] # NULL /\ ~points
    /\ points' = TRUE
    /\ listeners' = Registered(listeners, "SE_NEW_INSTRUCTION", slot["manager"])
    /\ UNCHANGED <<heap, slot, tracing, simCon, traceDB, left, outlived, fault, loopVars>>

DeleteLastStopPoint ==
    /\ Ready
    /\ simCon /\ points
    /\ points' = FALSE
    /\ listeners' = Unregistered(listeners, "SE_NEW_INSTRUCTION", slot["manager"])
    /\ UNCHANGED <<heap, slot, tracing, simCon, traceDB, left, outlived, fault, loopVars>>

-----------------------------------------------------------------------------
(* Events                                                                  *)

(* handleEvent(e) of the Informer begins.                                  *)
Post(e) ==
    /\ event' = e
    /\ index' = 1
    /\ heard' = [a \in Addresses |-> 0]
    /\ UNCHANGED <<commandVars, fault>>

(* A cycle ends, or a command does.                                        *)
SimulateCycle == Ready /\ simCon /\ Post("SE_CYCLE_END")

EndCommand == Ready /\ simCon /\ Post("SE_SIMULATION_STOPPED")

(* What the handler of the object o meets.                                 *)
HandlerFault(o) ==
    IF ~o.alive THEN "listener"
    ELSE IF o.kind \in {"execution", "rf"} /\ ~o.controller THEN "subject"
    ELSE IF o.kind \in {"execution", "procedure"} /\ ~o.database THEN "database"
    ELSE "none"

Looping == fault = "none" /\ event # NULL /\ index <= Len(listeners)

(* An entry for another event is passed over.                              *)
PassOver ==
    /\ Looping
    /\ listeners[index][1] # event
    /\ index' = index + 1
    /\ UNCHANGED <<commandVars, event, heard, fault>>

(* An observer is called.                                                  *)
Notify ==
    /\ Looping
    /\ listeners[index][1] = event
    /\ LET a == listeners[index][2]
       IN  IF HandlerFault(heap[a]) # "none" THEN Fail(HandlerFault(heap[a]))
           ELSE /\ heard' = [heard EXCEPT ![a] = @ + 1]
                /\ index' = index + 1
                /\ UNCHANGED <<commandVars, event, fault>>

(* The manager is called and its last stop point deletes itself; the loop  *)
(* goes on with the next index of a list that became shorter.              *)
NotifyLastStopPoint ==
    /\ Looping
    /\ listeners[index] = <<event, slot["manager"]>>
    /\ points
    /\ points' = FALSE
    /\ listeners' = Unregistered(listeners, "SE_NEW_INSTRUCTION", slot["manager"])
    /\ heard' = [heard EXCEPT ![slot["manager"]] = @ + 1]
    /\ index' = index + 1
    /\ UNCHANGED <<heap, slot, tracing, simCon, traceDB, left, outlived, event, fault>>

Handled == fault = "none" /\ event # NULL /\ index > Len(listeners)

(* After the cycle that leaves the program no SE_NEW_INSTRUCTION is sent.  *)
NewInstruction == Handled /\ event = "SE_CYCLE_END" /\ Post("SE_NEW_INSTRUCTION")

EndEvent ==
    /\ Handled
    /\ event' = NULL
    /\ index' = 0
    /\ heard' = [a \in Addresses |-> 0]
    /\ UNCHANGED <<commandVars, fault>>

-----------------------------------------------------------------------------

Next ==
    \/ \E k \in Trackers : SetTracing(k)
    \/ LoadMachine
    \/ LoadProgram
    \/ LoadProgramWithoutData
    \/ LoadProgramFails
    \/ KillSimulation
    \/ AddFirstStopPoint
    \/ DeleteLastStopPoint
    \/ SimulateCycle
    \/ EndCommand
    \/ PassOver
    \/ Notify
    \/ NotifyLastStopPoint
    \/ NewInstruction
    \/ EndEvent

Spec == Init /\ [][Next]_vars

-----------------------------------------------------------------------------
(* Properties                                                              *)

(* Types; the index of the loop over the listeners ends at most one past   *)
(* the place behind a list that was shortened in the loop.                 *)
TypeOK ==
    /\ heap \in [Addresses -> Object]
    /\ slot \in [Trackers \cup {"manager"} -> Addresses \cup {NULL}]
    /\ \A i \in DOMAIN listeners : listeners[i] \in Events \X Addresses
    /\ tracing \subseteq Trackers
    /\ simCon \in BOOLEAN /\ traceDB \in BOOLEAN /\ points \in BOOLEAN
    /\ event \in Events \cup {NULL}
    /\ index \in 0 .. Len(listeners) + 2
    /\ heard \in [Addresses -> Nat]
    /\ left \subseteq Events \X Addresses
    /\ outlived \subseteq Addresses
    /\ fault \in {"none", "listener", "subject", "database", "assertion"}

(* A tracker that lives is told of the end of every cycle exactly once,    *)
(* whatever was destroyed, made at the address of another, or unregistered *)
(* before: no entry is lost and none is there twice.  The exception is a   *)
(* manager at the address of a destroyed rf tracker, which is called for   *)
(* SE_CYCLE_END as well and may shorten the list in that loop.             *)
HeardOnce ==
    (event = "SE_CYCLE_END" /\ Handled) =>
        \A a \in Living : heard[a] = 1 \/ <<"SE_CYCLE_END", slot["manager"]>> \in left

(* What an object at a living address has registered for                   *)
Asked(e, a) ==
    /\ heap[a].alive
    /\ CASE e = "SE_CYCLE_END"          -> heap[a].kind \in Trackers
         [] e = "SE_SIMULATION_STOPPED" -> heap[a].kind = "rf"
         [] e = "SE_NEW_INSTRUCTION"    -> slot["manager"] = a /\ points

(* An entry of the list is of a living object that registered for this     *)
(* event and did not unregister, or it was left by a destructor: by that   *)
(* of a register file tracker for SE_CYCLE_END, or by that of a manager    *)
(* with stop points, which prog deletes, for SE_NEW_INSTRUCTION.           *)
DanglingEntries ==
    \A i \in DOMAIN listeners :
        Asked(listeners[i][1], listeners[i][2]) \/ listeners[i] \in left

(* The living trackers are those the members point to, and they use the    *)
(* controller and the open database of the loaded simulation.  The only    *)
(* others are those whose simulation prog took away without finishing it:  *)
(* they stay as they are, and an execution or a bus tracker among them     *)
(* keeps its member, so that the next mach or kill still finds it.         *)
FreshTrackers ==
    \A a \in Living :
        IF a \in outlived
        THEN slot[heap[a].kind] = a \/ heap[a].kind \in {"rf", "procedure"}
        ELSE /\ simCon
             /\ slot[heap[a].kind] = a
             /\ heap[a].controller
             /\ heap[a].kind # "bus" => traceDB /\ heap[a].database

(* A killed simulation can be restarted: no end of a cycle is reported to  *)
(* an observer that was destroyed.                                         *)
RestartsAfterKill == event = "SE_CYCLE_END" => fault # "listener"
=============================================================================

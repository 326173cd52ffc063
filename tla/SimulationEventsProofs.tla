----------------------- MODULE SimulationEventsProofs -----------------------
(***************************************************************************)
(* Proofs about SimulationEvents: for every heap and every sequence of     *)
(* commands, also of programs that are refused, fail or are loaded over    *)
(* others, a tracker that lives is one of the loaded simulation or one     *)
(* that prog outlived, the list of listeners names nothing else but what   *)
(* asked for it or what a destructor left there, and the loop over it      *)
(* tells each tracker of a cycle once.                                     *)
(***************************************************************************)
EXTENDS SimulationEvents, SequenceTheorems, TLAPS

Members == Trackers \cup {"manager"}
Kinds == Trackers \cup {"manager", "none"}

Tracks(h, a) == h[a].alive /\ h[a].kind \in Trackers

Shape ==
    /\ heap \in [Addresses -> Object]
    /\ slot \in [Members -> Addresses \cup {NULL}]
    /\ tracing \subseteq Trackers
    /\ simCon \in BOOLEAN
    /\ traceDB \in BOOLEAN
    /\ outlived \subseteq Addresses

(* A tracker whose member may be lost                                      *)
Kept(h, s, a) == s[h[a].kind] = a \/ h[a].kind \in {"rf", "procedure"}

Known(h, s, O, loaded, open) ==
    \A a \in Addresses :
        Tracks(h, a) =>
            IF a \in O THEN Kept(h, s, a)
            ELSE /\ loaded
                 /\ s[h[a].kind] = a
                 /\ h[a].controller
                 /\ h[a].kind # "bus" => open /\ h[a].database

(* No tracker belongs to a loaded simulation.                              *)
Stray(h, s, O) == \A a \in Addresses : Tracks(h, a) => a \in O /\ Kept(h, s, a)

Inv == Shape /\ Known(heap, slot, outlived, simCon, traceDB)

-----------------------------------------------------------------------------

LEMMA FreeObjects ==
    /\ Free \in Object
    /\ ~Free.alive
    /\ \A k \in Kinds : /\ New(k) \in Object
                        /\ New(k).alive /\ New(k).kind = k
                        /\ New(k).controller /\ New(k).database
BY DEF Free, New, Object, Kinds

LEMMA StrayKnown ==
    ASSUME NEW h, NEW s, NEW O, NEW loaded, NEW open, Stray(h, s, O)
    PROVE  Known(h, s, O, loaded, open)
BY DEF Stray, Known

(* What initializeTracing does to the heap and to the members              *)
PlacedHeap(h, K, place) ==
    [a \in Addresses |->
        IF \E k \in K : place[k] = a THEN New(CHOOSE k \in K : place[k] = a) ELSE h[a]]
PlacedSlots(s, K, place) == [k \in DOMAIN s |-> IF k \in K THEN place[k] ELSE s[k]]

(* What is where after that                                                *)
Placing(h, s, K, place, h2, s2) ==
    /\ h2 \in [Addresses -> Object]
    /\ s2 \in [Members -> Addresses \cup {NULL}]
    /\ \A k \in Members \ K : s2[k] = s[k]
    /\ \A k \in K : s2[k] = place[k]
    /\ \A a \in Addresses : h[a].alive => h2[a] = h[a]
    /\ \A a \in Addresses : h2[a] = h[a] \/ \E k \in K : place[k] = a /\ h2[a] = New(k)
    /\ \A a \in Addresses :
           Tracks(h2, a) => \/ Tracks(h, a) /\ h2[a] = h[a]
                            \/ /\ h2[a].kind \in K
                               /\ s2[h2[a].kind] = a
                               /\ h2[a].controller /\ h2[a].database

(* A tracker on the heap was there before, or is new and where the member  *)
(* says.                                                                   *)
LEMMA Placed ==
    ASSUME NEW h \in [Addresses -> Object],
           NEW s \in [Members -> Addresses \cup {NULL}],
           NEW K \in SUBSET Trackers,
           NEW place \in [K -> {a \in Addresses : ~h[a].alive}],
           NEW h2, NEW s2,
           h2 = PlacedHeap(h, K, place), s2 = PlacedSlots(s, K, place)
    PROVE  Placing(h, s, K, place, h2, s2)
<1>1. \A a \in Addresses :
         \/ h2[a] = h[a]
         \/ \E k \in K : place[k] = a /\ h2[a] = New(k)
  <2> SUFFICES ASSUME NEW a \in Addresses, \E k \in K : place[k] = a
               PROVE  \E k \in K : place[k] = a /\ h2[a] = New(k)
    BY DEF PlacedHeap
  <2>1. h2[a] = New(CHOOSE k \in K : place[k] = a)
    BY DEF PlacedHeap
  <2>2. (CHOOSE k \in K : place[k] = a) \in K /\ place[CHOOSE k \in K : place[k] = a] = a
    OBVIOUS
  <2> QED BY <2>1, <2>2
<1>2. \A k \in K : k \in Kinds /\ k \in Members /\ k \in Trackers
  BY DEF Kinds, Members
<1>3. \A a \in Addresses : h2[a] \in Object
  BY <1>1, <1>2, FreeObjects
<1>4. h2 \in [Addresses -> Object]
  BY <1>3 DEF PlacedHeap
<1>5. /\ s2 \in [Members -> Addresses \cup {NULL}]
      /\ \A k \in Members \ K : s2[k] = s[k]
      /\ \A k \in K : s2[k] = place[k]
  BY <1>2 DEF PlacedSlots
<1>6. ASSUME NEW a \in Addresses, Tracks(h2, a), h2[a] # h[a]
      PROVE  h2[a].kind \in K /\ s2[h2[a].kind] = a /\ h2[a].controller /\ h2[a].database
  <2>1. PICK k \in K : place[k] = a /\ h2[a] = New(k)
    BY <1>1, <1>6
  <2>2. h2[a].kind = k /\ h2[a].controller /\ h2[a].database
    BY <1>2, <2>1, FreeObjects
  <2>3. s2[k] = a
    BY <1>5, <2>1
  <2> QED BY <2>2, <2>3
<1>7. \A a \in Addresses : h[a].alive => h2[a] = h[a]
  BY <1>1
<1>8. \A a \in Addresses : Tracks(h2, a) /\ h2[a] = h[a] => Tracks(h, a)
  BY DEF Tracks
<1> QED BY <1>1, <1>4, <1>5, <1>6, <1>7, <1>8 DEF Placing

(* initializeTracing on a heap of stray trackers: the members of rf and    *)
(* procedure are overwritten, the others only if they are NULL.            *)
LEMMA TracingInitialized ==
    ASSUME Shape, tracing' = tracing,
           NEW h \in [Addresses -> Object],
           NEW s \in [Members -> Addresses \cup {NULL}], NEW K \in SUBSET Trackers,
           K \subseteq tracing, \A k \in K : k \in {"execution", "bus"} => s[k] = NULL,
           NEW place \in [K -> {a \in Addresses : ~h[a].alive}],
           NEW O \in SUBSET Addresses, Stray(h, s, O),
           heap' = PlacedHeap(h, K, place), slot' = PlacedSlots(s, K, place), outlived' = O,
           tracing \cap {"execution", "rf", "procedure"} # {} => traceDB',
           traceDB' \in BOOLEAN, simCon' = TRUE
    PROVE  Inv'
<1>1. PICK h2, s2, d : h2 = heap' /\ s2 = slot' /\ d = traceDB'
  OBVIOUS
<1>2. /\ h2 \in [Addresses -> Object]
      /\ s2 \in [Members -> Addresses \cup {NULL}]
      /\ \A k \in Members \ K : s2[k] = s[k]
      /\ \A a \in Addresses :
            Tracks(h2, a) => \/ Tracks(h, a) /\ h2[a] = h[a]
                             \/ /\ h2[a].kind \in K
                                /\ s2[h2[a].kind] = a
                                /\ h2[a].controller /\ h2[a].database
  <2>1. Placing(h, s, K, place, h2, s2)
    BY <1>1, Placed
  <2> QED BY ONLY <2>1 DEF Placing
<1>3. \A k \in K : k # "bus" => d
  BY <1>1 DEF Shape, Trackers
<1>4. Shape'
  BY <1>1, <1>2 DEF Shape
<1>5. ASSUME NEW a \in Addresses, Tracks(h, a), h2[a] = h[a]
      PROVE  a \in O /\ Kept(h2, s2, a)
  <2>1. PICK k : k = h[a].kind
    OBVIOUS
  <2>2. a \in O /\ k \in Trackers /\ (s[k] = a \/ k \in {"rf", "procedure"})
    BY <1>5, <2>1 DEF Stray, Kept, Tracks
  <2>3. k \in {"execution", "bus"} => s2[k] = a
    <3>1. SUFFICES ASSUME k \in {"execution", "bus"} PROVE s2[k] = a
      OBVIOUS
    <3>2. s[k] = a /\ a # NULL /\ k \in Members
      BY <2>2, <3>1, NULLAssumption DEF Members
    <3> QED BY <1>2, <3>1, <3>2
  <2>4. k \in {"execution", "bus", "rf", "procedure"}
    BY <2>2 DEF Trackers
  <2> QED BY <1>5, <2>1, <2>2, <2>3, <2>4 DEF Kept
<1>6. Known(h2, s2, O, TRUE, d)
  <2>1. SUFFICES ASSUME NEW a \in Addresses, Tracks(h2, a), ~(a \in O /\ Kept(h2, s2, a))
                 PROVE  IF a \in O THEN Kept(h2, s2, a)
                        ELSE /\ s2[h2[a].kind] = a
                             /\ h2[a].controller
                             /\ h2[a].kind # "bus" => d /\ h2[a].database
    BY DEF Known
  <2>2. h2[a].kind \in K /\ s2[h2[a].kind] = a /\ h2[a].controller /\ h2[a].database
    BY <1>2, <1>5, <2>1
  <2> QED BY <1>3, <2>2 DEF Kept
<1>7. Known(heap, slot, outlived, simCon, traceDB)'
  BY <1>1, <1>6 DEF Known, Tracks, Kept
<1> QED BY <1>4, <1>7 DEF Inv

(* finishSimulation destroys the trackers that have a member.              *)
LEMMA TrackersDestroyed ==
    ASSUME Inv
    PROVE  /\ FinishedHeap \in [Addresses -> Object]
           /\ FinishedSlots \in [Members -> Addresses \cup {NULL}]
           /\ \A k \in Trackers : FinishedSlots[k] = NULL
           /\ FinishedSlots["manager"] = slot["manager"]
           /\ \A a \in Addresses :
                 IF \E k \in Trackers : slot[k] = a THEN ~FinishedHeap[a].alive
                 ELSE /\ FinishedHeap[a].alive = heap[a].alive
                      /\ FinishedHeap[a].kind = heap[a].kind
           /\ Stray(FinishedHeap, FinishedSlots, StillOutlived)
<1>1. PICK h, s, d : h = heap /\ s = slot /\ d = ~traceDB
  OBVIOUS
<1>2. h \in [Addresses -> Object] /\ s \in [Members -> Addresses \cup {NULL}] /\ d \in BOOLEAN
  BY <1>1 DEF Inv, Shape
<1>3. \A a \in Addresses :
         FinishedHeap[a] = IF \E k \in Trackers : s[k] = a THEN Free
                           ELSE [h[a] EXCEPT !.database = h[a].database /\ d]
  BY <1>1 DEF FinishedHeap
<1>4. ASSUME NEW o \in Object, NEW b \in BOOLEAN
      PROVE  /\ [o EXCEPT !.database = b] \in Object
             /\ [o EXCEPT !.database = b].alive = o.alive
             /\ [o EXCEPT !.database = b].kind = o.kind
  BY DEF Object
<1>5. \A a \in Addresses : (h[a].database /\ d) \in BOOLEAN
  OBVIOUS
<1>6. ASSUME NEW a \in Addresses
      PROVE  /\ FinishedHeap[a] \in Object
             /\ IF \E k \in Trackers : s[k] = a THEN ~FinishedHeap[a].alive
                ELSE /\ FinishedHeap[a].alive = h[a].alive
                     /\ FinishedHeap[a].kind = h[a].kind
  <2>1. CASE \E k \in Trackers : s[k] = a
    BY <1>3, <2>1, FreeObjects
  <2>2. CASE ~ \E k \in Trackers : s[k] = a
    <3>1. PICK b \in BOOLEAN : b = (h[a].database /\ d)
      BY <1>5
    <3>2. FinishedHeap[a] = [h[a] EXCEPT !.database = b]
      BY <1>3, <2>2, <3>1
    <3>3. h[a] \in Object
      BY <1>2
    <3> QED BY <2>2, <3>2, <3>3, <1>4
  <2> QED BY <2>1, <2>2
<1>7. FinishedHeap = [a \in Addresses |-> FinishedHeap[a]]
  BY DEF FinishedHeap
<1>8. FinishedHeap \in [Addresses -> Object]
  BY <1>6, <1>7
<1>9. /\ FinishedSlots \in [Members -> Addresses \cup {NULL}]
      /\ \A k \in Trackers : FinishedSlots[k] = NULL
      /\ FinishedSlots["manager"] = s["manager"]
  BY <1>1, <1>2 DEF FinishedSlots, Members, Trackers
<1>10. ASSUME NEW a \in Addresses, Tracks(FinishedHeap, a)
       PROVE  a \in StillOutlived /\ Kept(FinishedHeap, FinishedSlots, a)
  <2>1. /\ ~ \E k \in Trackers : s[k] = a
        /\ h[a].alive /\ FinishedHeap[a].kind = h[a].kind /\ h[a].kind \in Trackers
    BY <1>6, <1>10 DEF Tracks
  <2>2. a \in outlived /\ h[a].kind \in {"rf", "procedure"}
    BY <1>1, <2>1 DEF Inv, Known, Kept, Tracks
  <2> QED BY <1>10, <2>1, <2>2 DEF StillOutlived, Kept, Tracks
<1> QED BY <1>1, <1>6, <1>8, <1>9, <1>10 DEF Stray

(* The deletion of the controller                                          *)
LEMMA ControllerDeleted ==
    ASSUME NEW h \in [Addresses -> Object]
    PROVE  /\ WithoutController(h) \in [Addresses -> Object]
           /\ \A a \in Addresses :
                 /\ WithoutController(h)[a].alive = h[a].alive
                 /\ WithoutController(h)[a].kind = h[a].kind
                 /\ WithoutController(h)[a].database = h[a].database
BY DEF WithoutController, Object

LEMMA StrayWithout ==
    ASSUME NEW h \in [Addresses -> Object], NEW s, NEW O, Stray(h, s, O)
    PROVE  Stray(WithoutController(h), s, O)
BY ControllerDeleted DEF Stray, Tracks, Kept

(* What is where when the manager was made at m                            *)
Managed(h, r, w, s, m) ==
    /\ w \in [Addresses -> Object]
    /\ s \in [Members -> Addresses \cup {NULL}]
    /\ s["manager"] = m
    /\ \A k \in Trackers : s[k] = r[k]
    /\ w[m].alive /\ w[m].kind = "manager"
    /\ \A a \in Addresses \ {m} :
           IF a = r["manager"] THEN ~w[a].alive
           ELSE w[a].alive = h[a].alive /\ w[a].kind = h[a].kind

(* initializeSimulation deletes no tracker: all of them are stray.         *)
LEMMA ManagerMade ==
    ASSUME Inv, NEW m \in Addresses, NEW w, NEW s, NEW h, NEW r, NEW O,
           h = heap, r = slot, O = Living,
           w = WithManager(m), s = [slot EXCEPT !["manager"] = m]
    PROVE  Managed(h, r, w, s, m) /\ Stray(w, s, O)
<1>1. PICK g : g = WithoutController(h)
  OBVIOUS
<1>2. h \in [Addresses -> Object] /\ r \in [Members -> Addresses \cup {NULL}]
  BY DEF Inv, Shape
<1>3. /\ g \in [Addresses -> Object]
      /\ \A a \in Addresses : g[a].alive = h[a].alive /\ g[a].kind = h[a].kind
  BY <1>1, <1>2, ControllerDeleted
<1>4. w = [a \in Addresses |-> IF a = m THEN New("manager")
                               ELSE IF a = r["manager"] THEN Free ELSE g[a]]
  BY <1>1 DEF WithManager, WithoutController
<1>5. "manager" \in Kinds /\ "manager" \in Members /\ "manager" \notin Trackers
  BY DEF Kinds, Members, Trackers
<1>6. /\ s \in [Members -> Addresses \cup {NULL}] /\ s["manager"] = m
      /\ \A k \in Trackers : s[k] = r[k]
  BY <1>2, <1>5 DEF Members
<1>7. w[m].alive /\ w[m].kind = "manager" /\ w \in [Addresses -> Object]
  BY <1>3, <1>4, <1>5, FreeObjects
<1>8. \A a \in Addresses \ {m} :
         IF a = r["manager"] THEN ~w[a].alive
         ELSE w[a].alive = h[a].alive /\ w[a].kind = h[a].kind
  BY <1>3, <1>4, FreeObjects
<1>9. ASSUME NEW a \in Addresses, Tracks(w, a)
      PROVE  a \in O /\ Kept(w, s, a)
  <2>1. Tracks(h, a) /\ w[a].kind = h[a].kind
    BY <1>5, <1>7, <1>8, <1>9 DEF Tracks
  <2>2. Kept(h, r, a)
    BY <2>1 DEF Inv, Known, Kept
  <2>3. a \in O
    BY <2>1 DEF Living, Tracks
  <2> QED BY <1>6, <2>1, <2>2, <2>3 DEF Kept, Tracks
<1>10. Stray(w, s, O)
  BY <1>9 DEF Stray
<1>11. Managed(h, r, w, s, m)
  BY <1>6, <1>7, <1>8 DEF Managed
<1> QED BY <1>10, <1>11

-----------------------------------------------------------------------------

LEMMA InvInit == ASSUME Init PROVE Inv
<1>1. Shape
  BY FreeObjects DEF Init, Shape, Members
<1>2. \A a \in Addresses : ~Tracks(heap, a)
  BY FreeObjects DEF Init, Tracks
<1> QED BY <1>1, <1>2 DEF Inv, Known

LEMMA InvKept ==
    ASSUME Inv, UNCHANGED <<heap, slot, simCon, traceDB, outlived>>, tracing' \subseteq Trackers
    PROVE  Inv'
BY DEF Inv, Shape, Known, Kept, Tracks

(* A command that leaves stray trackers                                    *)
LEMMA InvStray ==
    ASSUME Inv, NEW h \in [Addresses -> Object], NEW s \in [Members -> Addresses \cup {NULL}],
           NEW O \in SUBSET Addresses, Stray(h, s, O),
           heap' = h, slot' = s, outlived' = O,
           simCon' \in BOOLEAN, traceDB' \in BOOLEAN, tracing' = tracing
    PROVE  Inv'
<1>1. PICK c, d : c = simCon' /\ d = traceDB'
  OBVIOUS
<1>2. Known(h, s, O, c, d)
  BY StrayKnown
<1>3. Known(heap, slot, outlived, simCon, traceDB)'
  BY <1>1, <1>2 DEF Known, Tracks, Kept
<1> QED BY <1>3 DEF Inv, Shape

LEMMA InvLoadMachine == ASSUME Inv, LoadMachine PROVE Inv'
<1>1. CASE ~simCon \/ FinishFault # "none"
  <2>1. UNCHANGED <<heap, slot, simCon, traceDB, tracing, outlived>>
    BY <1>1 DEF LoadMachine, Fail, commandVars
  <2> QED BY <2>1, InvKept DEF Inv, Shape
<1>2. CASE simCon /\ FinishFault = "none"
  <2>1. /\ heap' = WithoutController(FinishedHeap) /\ slot' = FinishedSlots
        /\ traceDB' = FALSE /\ simCon' = FALSE /\ tracing' = tracing
        /\ outlived' = StillOutlived
    BY <1>2 DEF LoadMachine
  <2>2. PICK h, s, O, w : /\ h = FinishedHeap /\ s = FinishedSlots /\ O = StillOutlived
                          /\ w = WithoutController(h)
    OBVIOUS
  <2>3. /\ h \in [Addresses -> Object] /\ s \in [Members -> Addresses \cup {NULL}]
        /\ Stray(h, s, O)
    BY <2>2, TrackersDestroyed DEF Stray, Tracks, Kept
  <2>4. w \in [Addresses -> Object] /\ Stray(w, s, O)
    BY <2>2, <2>3, ControllerDeleted, StrayWithout
  <2>5. heap' = w
    BY <2>1, <2>2 DEF WithoutController
  <2>6. O \in SUBSET Addresses
    BY <2>2 DEF StillOutlived, Inv, Shape
  <2>7. slot' = s /\ outlived' = O /\ simCon' \in BOOLEAN /\ traceDB' \in BOOLEAN
    BY <2>1, <2>2
  <2> QED BY <2>1, <2>3, <2>4, <2>5, <2>6, <2>7, InvStray
<1> QED BY <1>1, <1>2

LEMMA InvLoadProgramFails == ASSUME Inv, LoadProgramFails PROVE Inv'
<1>1. PICK h, s, O, w : /\ h = heap /\ s = slot /\ O = Living
                        /\ w = WithoutController(h)
  OBVIOUS
<1>2. /\ heap' = w /\ slot' = s /\ outlived' = O /\ simCon' = FALSE
      /\ UNCHANGED <<tracing, traceDB>>
  BY <1>1 DEF LoadProgramFails, WithoutController
<1>3. /\ h \in [Addresses -> Object] /\ s \in [Members -> Addresses \cup {NULL}]
      /\ O \in SUBSET Addresses
  BY <1>1 DEF Inv, Shape, Living
<1>4. Stray(h, s, O)
  BY <1>1 DEF Inv, Known, Stray, Tracks, Kept, Living
<1>5. w \in [Addresses -> Object] /\ Stray(w, s, O)
  BY <1>1, <1>3, <1>4, ControllerDeleted, StrayWithout
<1>6. simCon' \in BOOLEAN /\ traceDB' \in BOOLEAN /\ tracing' = tracing
  BY <1>2 DEF Inv, Shape
<1> QED BY <1>2, <1>3, <1>5, <1>6, InvStray

LEMMA InvLoadProgramWithoutData == ASSUME Inv, LoadProgramWithoutData PROVE Inv'
<1>1. PICK m \in Addresses :
        /\ heap' = IF simCon' THEN WithManager(m) ELSE WithoutController(WithManager(m))
        /\ slot' = [slot EXCEPT !["manager"] = m]
  BY DEF LoadProgramWithoutData
<1>2. /\ outlived' = Living /\ simCon' \in BOOLEAN /\ UNCHANGED <<tracing, traceDB>>
  BY DEF LoadProgramWithoutData, InitializeSimulation
<1>3. PICK h, s, O, w, h0, r0 :
        /\ h0 = heap /\ r0 = slot /\ O = Living
        /\ h = WithManager(m) /\ s = [slot EXCEPT !["manager"] = m]
        /\ w = WithoutController(h)
  OBVIOUS
<1>4. /\ h \in [Addresses -> Object] /\ s \in [Members -> Addresses \cup {NULL}]
      /\ Stray(h, s, O)
  <2>1. Managed(h0, r0, h, s, m) /\ Stray(h, s, O)
    BY <1>3, ManagerMade
  <2> QED BY <2>1 DEF Managed
<1>5. w \in [Addresses -> Object] /\ Stray(w, s, O)
  BY <1>3, <1>4, ControllerDeleted, StrayWithout
<1>6. heap' = h \/ heap' = w
  BY <1>1, <1>3 DEF WithoutController
<1>7. O \in SUBSET Addresses /\ slot' = s /\ outlived' = O
  BY <1>1, <1>2, <1>3 DEF Living
<1>8. traceDB' \in BOOLEAN /\ tracing' = tracing
  BY <1>2 DEF Inv, Shape
<1> QED BY <1>2, <1>4, <1>5, <1>6, <1>7, <1>8, InvStray

(* What initializeTracing makes                                            *)
LEMMA MadeTrackers ==
    ASSUME Shape, NEW s
    PROVE  /\ Made(s) \in SUBSET Trackers
           /\ Made(s) \subseteq tracing
           /\ \A k \in Made(s) : k \in {"execution", "bus"} => s[k] = NULL
BY DEF Made, Shape

LEMMA InvKill == ASSUME Inv, KillSimulation PROVE Inv'
<1>1. CASE FinishFault # "none"
  <2>1. UNCHANGED <<heap, slot, simCon, traceDB, tracing, outlived>>
    BY <1>1 DEF KillSimulation, Fail, commandVars
  <2> QED BY <2>1, InvKept DEF Inv, Shape
<1>2. CASE FinishFault = "none"
  <2>1. PICK h, s, O : h = FinishedHeap /\ s = FinishedSlots /\ O = StillOutlived
    OBVIOUS
  <2>2. PICK place \in [Made(s) -> {a \in Addresses : ~h[a].alive}] :
          /\ heap' = PlacedHeap(h, Made(s), place)
          /\ slot' = PlacedSlots(s, Made(s), place)
          /\ traceDB' = (FALSE \/ tracing \cap {"execution", "rf", "procedure"} # {})
    <3>1. InitializeTracing(FinishedHeap, FinishedSlots, FinishedList, FALSE)
      BY <1>2 DEF KillSimulation
    <3>2. PICK place \in [Made(FinishedSlots) -> {a \in Addresses : ~FinishedHeap[a].alive}] :
            /\ heap' = [a \in Addresses |->
                           IF \E k \in Made(FinishedSlots) : place[k] = a
                           THEN New(CHOOSE k \in Made(FinishedSlots) : place[k] = a)
                           ELSE FinishedHeap[a]]
            /\ slot' = [k \in DOMAIN FinishedSlots |->
                           IF k \in Made(FinishedSlots) THEN place[k] ELSE FinishedSlots[k]]
            /\ traceDB' = (FALSE \/ tracing \cap {"execution", "rf", "procedure"} # {})
      BY <3>1, Zenon DEF InitializeTracing
    <3>3. Made(FinishedSlots) = Made(s)
      BY <2>1 DEF Made
    <3> QED BY <2>1, <3>2, <3>3, Zenon DEF PlacedHeap, PlacedSlots
  <2>3. /\ h \in [Addresses -> Object] /\ s \in [Members -> Addresses \cup {NULL}]
        /\ Stray(h, s, O)
    BY <2>1, TrackersDestroyed DEF Stray, Tracks, Kept
  <2>4. simCon' = TRUE /\ tracing' = tracing /\ outlived' = O
    BY <1>2, <2>1 DEF KillSimulation, Inv, Shape
  <2>5. PICK K : K = Made(s)
    OBVIOUS
  <2>6. /\ K \in SUBSET Trackers /\ K \subseteq tracing
        /\ \A k \in K : k \in {"execution", "bus"} => s[k] = NULL
    BY <2>5, MadeTrackers DEF Inv
  <2>7. traceDB' \in BOOLEAN /\ (tracing \cap {"execution", "rf", "procedure"} # {} => traceDB')
    BY <2>2
  <2>8. Shape /\ O \in SUBSET Addresses
    BY <2>1 DEF Inv, Shape, StillOutlived
  <2> QED BY <2>2, <2>3, <2>4, <2>5, <2>6, <2>7, <2>8, TracingInitialized
<1> QED BY <1>1, <1>2

LEMMA InvLoadProgram == ASSUME Inv, LoadProgram PROVE Inv'
<1>1. PICK m \in Addresses :
        InitializeTracing(WithManager(m), [slot EXCEPT !["manager"] = m], listeners, traceDB)
  BY DEF LoadProgram
<1>2. PICK h, s, O, h0, r0 :
        /\ h0 = heap /\ r0 = slot /\ O = Living
        /\ h = WithManager(m) /\ s = [slot EXCEPT !["manager"] = m]
  OBVIOUS
<1>3. PICK place \in [Made(s) -> {a \in Addresses : ~h[a].alive}] :
        /\ heap' = PlacedHeap(h, Made(s), place)
        /\ slot' = PlacedSlots(s, Made(s), place)
        /\ traceDB' = (traceDB \/ tracing \cap {"execution", "rf", "procedure"} # {})
  <2> DEFINE S == [slot EXCEPT !["manager"] = m]
  <2>1. PICK place \in [Made(S) -> {a \in Addresses : ~WithManager(m)[a].alive}] :
          /\ heap' = [a \in Addresses |->
                         IF \E k \in Made(S) : place[k] = a
                         THEN New(CHOOSE k \in Made(S) : place[k] = a)
                         ELSE WithManager(m)[a]]
          /\ slot' = [k \in DOMAIN S |-> IF k \in Made(S) THEN place[k] ELSE S[k]]
          /\ traceDB' = (traceDB \/ tracing \cap {"execution", "rf", "procedure"} # {})
    BY <1>1, Zenon DEF InitializeTracing
  <2>2. Made(S) = Made(s) /\ WithManager(m) = h /\ S = s
    BY <1>2 DEF Made
  <2> HIDE DEF S
  <2> QED BY <2>1, <2>2, Zenon DEF PlacedHeap, PlacedSlots
<1>4. /\ h \in [Addresses -> Object] /\ s \in [Members -> Addresses \cup {NULL}]
      /\ Stray(h, s, O)
  <2>1. Managed(h0, r0, h, s, m) /\ Stray(h, s, O)
    BY <1>2, ManagerMade
  <2> QED BY <2>1 DEF Managed
<1>5. simCon' = TRUE /\ tracing' = tracing /\ outlived' = O
  BY <1>2 DEF LoadProgram, InitializeSimulation
<1>6. PICK K : K = Made(s)
  OBVIOUS
<1>7. /\ K \in SUBSET Trackers /\ K \subseteq tracing
      /\ \A k \in K : k \in {"execution", "bus"} => s[k] = NULL
  BY <1>6, MadeTrackers DEF Inv
<1>8. traceDB' \in BOOLEAN /\ (tracing \cap {"execution", "rf", "procedure"} # {} => traceDB')
  BY <1>3 DEF Inv, Shape
<1>9. Shape /\ O \in SUBSET Addresses
  BY <1>2 DEF Inv, Living
<1> QED BY <1>3, <1>4, <1>5, <1>6, <1>7, <1>8, <1>9, TracingInitialized

(* The steps that leave the heap, the members and the database alone       *)
LEMMA InvOthers ==
    ASSUME Inv,
           \/ \E k \in Trackers : SetTracing(k)
           \/ AddFirstStopPoint \/ DeleteLastStopPoint \/ SimulateCycle \/ EndCommand
           \/ PassOver \/ Notify \/ NotifyLastStopPoint \/ NewInstruction \/ EndEvent
           \/ UNCHANGED vars
    PROVE  Inv'
<1>1. CASE \E k \in Trackers : SetTracing(k)
  <2>1. PICK k \in Trackers : SetTracing(k)
    BY <1>1
  <2>2. UNCHANGED <<heap, slot, simCon, traceDB, outlived>>
    BY <2>1 DEF SetTracing
  <2>3. tracing' \subseteq Trackers
    BY <2>1 DEF SetTracing, Inv, Shape
  <2> QED BY <2>2, <2>3, InvKept
<1>2. CASE \/ AddFirstStopPoint \/ DeleteLastStopPoint \/ SimulateCycle \/ EndCommand
           \/ PassOver \/ Notify \/ NotifyLastStopPoint \/ NewInstruction \/ EndEvent
           \/ UNCHANGED vars
  <2>1. UNCHANGED <<heap, slot, simCon, traceDB, tracing, outlived>>
    BY <1>2 DEF AddFirstStopPoint, DeleteLastStopPoint, SimulateCycle, EndCommand, PassOver,
                Notify, Fail, NotifyLastStopPoint, NewInstruction, EndEvent, Post, commandVars, vars
  <2> QED BY <2>1, InvKept DEF Inv, Shape
<1> QED BY <1>1, <1>2

(* After any sequence of settings, stop points, kills, machines and        *)
(* programs (accepted, refused, without room for their data, loaded over   *)
(* others), a living tracker is that of a member, with the controller and  *)
(* the open database of the loaded simulation, or prog outlived it.        *)
THEOREM TrackersFresh == Spec => []FreshTrackers
<1>1. Init => Inv
  BY InvInit
<1>2. Inv /\ [Next]_vars => Inv'
  BY InvLoadMachine, InvLoadProgram, InvLoadProgramWithoutData, InvLoadProgramFails, InvKill,
     InvOthers DEF Next
<1>3. Inv => FreshTrackers
  BY DEF Inv, Known, Kept, Tracks, Living, FreshTrackers
<1> QED BY <1>1, <1>2, <1>3, PTL DEF Spec
-----------------------------------------------------------------------------
(* The list of the event handler                                           *)

Entry == Events \X Addresses

(* Lists without a repeated entry                                          *)
Lists == {l \in Seq(Entry) : IsInjective(l)}

(* registerListener adds an entry or finds it.                             *)
LEMMA RegisteredList ==
    ASSUME NEW l \in Lists, NEW e \in Events, NEW a \in Addresses
    PROVE  /\ Registered(l, e, a) \in Lists
           /\ Range(Registered(l, e, a)) = Range(l) \cup {<<e, a>>}
<1>1. l \in Seq(Entry) /\ <<e, a>> \in Entry /\ IsInjective(l)
  BY DEF Lists, Entry
<1>2. CASE \E i \in DOMAIN l : l[i] = <<e, a>>
  BY <1>1, <1>2 DEF Registered, Range, Lists
<1>3. CASE ~ \E i \in DOMAIN l : l[i] = <<e, a>>
  <2>1. PICK x, r : x = <<e, a>> /\ r = Append(l, x)
    OBVIOUS
  <2>2. /\ r \in Seq(Entry) /\ Len(r) = Len(l) + 1 /\ r[Len(l) + 1] = x
        /\ \A i \in 1 .. Len(l) : r[i] = l[i]
    BY <1>1, <2>1, AppendProperties
  <2>3. DOMAIN r = 1 .. Len(l) + 1 /\ DOMAIN l = 1 .. Len(l) /\ Len(l) \in Nat
    BY <1>1, <2>2
  <2>4. IsInjective(r)
    BY <1>1, <1>3, <2>1, <2>2, <2>3 DEF IsInjective
  <2>5. Range(r) = Range(l) \cup {x}
    BY <2>2, <2>3 DEF Range
  <2>6. Registered(l, e, a) = r
    BY <1>3, <2>1 DEF Registered
  <2> QED BY <2>1, <2>2, <2>4, <2>5, <2>6 DEF Lists
<1> QED BY <1>2, <1>3

(* What is left of a list after the removal of one index                   *)
LEMMA RemovedAt ==
    ASSUME NEW S, NEW l \in Seq(S), NEW p \in 1 .. Len(l)
    PROVE  /\ RemoveAt(l, p) \in Seq(S)
           /\ Len(RemoveAt(l, p)) = Len(l) - 1
           /\ \A i \in 1 .. Len(l) - 1 : RemoveAt(l, p)[i] = IF i < p THEN l[i] ELSE l[i + 1]
<1>1. PICK N, s, t : /\ N = Len(l) /\ N \in Nat /\ p \in 1 .. N
                     /\ s = SubSeq(l, 1, p - 1) /\ t = SubSeq(l, p + 1, N)
  BY LenProperties
<1>2. \A i \in 1 .. N : l[i] \in S
  BY <1>1, ElementOfSeq
<1>3. /\ s \in Seq(S) /\ Len(s) = p - 1
      /\ \A i \in 1 .. p - 1 : s[i] = l[i]
  <2>1. 1 \in Int /\ p - 1 \in Int /\ \A i \in 1 .. p - 1 : l[i] \in S
    BY <1>1, <1>2
  <2>2. /\ SubSeq(l, 1, p - 1) \in Seq(S)
        /\ Len(SubSeq(l, 1, p - 1)) = IF 1 <= p - 1 THEN p - 1 - 1 + 1 ELSE 0
        /\ \A i \in 1 .. p - 1 - 1 + 1 : SubSeq(l, 1, p - 1)[i] = l[1 + i - 1]
    BY ONLY <2>1, SubSeqProperties
  <2>3. \A i \in 1 .. p - 1 : 1 + i - 1 = i
    BY <1>1
  <2>4. p - 1 - 1 + 1 = p - 1 /\ (IF 1 <= p - 1 THEN p - 1 - 1 + 1 ELSE 0) = p - 1
    BY <1>1
  <2> QED BY ONLY <1>1, <2>2, <2>3, <2>4, Zenon
<1>4. /\ t \in Seq(S) /\ Len(t) = N - p
      /\ \A i \in 1 .. N - p : t[i] = l[p + i]
  <2>1. p + 1 \in Int /\ N \in Int /\ \A i \in p + 1 .. N : l[i] \in S
    BY <1>1, <1>2
  <2>2. /\ SubSeq(l, p + 1, N) \in Seq(S)
        /\ Len(SubSeq(l, p + 1, N)) = IF p + 1 <= N THEN N - (p + 1) + 1 ELSE 0
        /\ \A i \in 1 .. N - (p + 1) + 1 : SubSeq(l, p + 1, N)[i] = l[p + 1 + i - 1]
    BY ONLY <2>1, SubSeqProperties
  <2>3. \A i \in 1 .. N - p : p + 1 + i - 1 = p + i
    BY <1>1
  <2>4. N - (p + 1) + 1 = N - p /\ (IF p + 1 <= N THEN N - (p + 1) + 1 ELSE 0) = N - p
    BY <1>1
  <2> QED BY ONLY <1>1, <2>2, <2>3, <2>4, Zenon
<1>5. PICK r : r = s \o t
  OBVIOUS
<1>6. /\ r \in Seq(S) /\ Len(r) = (p - 1) + (N - p)
      /\ \A i \in 1 .. (p - 1) + (N - p) :
             r[i] = IF i <= p - 1 THEN s[i] ELSE t[i - (p - 1)]
  <2>1. s \in Seq(S) /\ t \in Seq(S)
    BY <1>3, <1>4
  <2>2. /\ s \o t \in Seq(S) /\ Len(s \o t) = Len(s) + Len(t)
        /\ \A i \in 1 .. Len(s) + Len(t) : (s \o t)[i] =
               IF i <= Len(s) THEN s[i] ELSE t[i - Len(s)]
    BY ONLY <2>1, ConcatProperties, Zenon
  <2>3. Len(s) = p - 1 /\ Len(t) = N - p
    BY <1>3, <1>4
  <2> QED BY ONLY <1>5, <2>2, <2>3, Zenon
<1>7. (p - 1) + (N - p) = N - 1
  BY <1>1
<1>8. ASSUME NEW i \in 1 .. N - 1
      PROVE  r[i] = IF i < p THEN l[i] ELSE l[i + 1]
  <2>1. r[i] = IF i <= p - 1 THEN s[i] ELSE t[i - (p - 1)]
    BY <1>6, <1>7, Zenon
  <2>2. CASE i < p
    <3>1. i <= p - 1 /\ i \in 1 .. p - 1
      BY <1>1, <2>2
    <3> QED BY ONLY <1>3, <2>1, <2>2, <3>1
  <2>3. CASE ~(i < p)
    <3>1. ~(i <= p - 1) /\ i - (p - 1) \in 1 .. N - p /\ p + (i - (p - 1)) = i + 1
      BY <1>1, <2>3
    <3> QED BY <1>4, <2>1, <2>3, <3>1, Zenon
  <2> QED BY <2>2, <2>3
<1>9. RemoveAt(l, p) = r
  BY <1>1, <1>5 DEF RemoveAt
<1> QED BY <1>1, <1>6, <1>7, <1>8, <1>9, Zenon

(* unregisterListener takes the entry out, all others stay.                *)
LEMMA UnregisteredList ==
    ASSUME NEW l \in Lists, NEW e \in Events, NEW a \in Addresses
    PROVE  /\ Unregistered(l, e, a) \in Lists
           /\ Range(Unregistered(l, e, a)) = Range(l) \ {<<e, a>>}
           /\ Len(Unregistered(l, e, a)) \in {Len(l), Len(l) - 1}
<1>1. PICK x : x = <<e, a>>
  OBVIOUS
<1>2. l \in Seq(Entry) /\ DOMAIN l = 1 .. Len(l) /\ Len(l) \in Nat /\ IsInjective(l)
  BY DEF Lists
<1>3. CASE ~ \E i \in 1 .. Len(l) : l[i] = x
  <2>1. Unregistered(l, e, a) = l
    BY <1>1, <1>3 DEF Unregistered, RemoveFirst
  <2> QED BY <1>1, <1>2, <1>3, <2>1 DEF Range
<1>4. CASE \E i \in 1 .. Len(l) : l[i] = x
  <2>1. PICK p \in 1 .. Len(l) : l[p] = x
    BY <1>4
  <2>2. {i \in 1 .. Len(l) : l[i] = x} = {p}
    BY <1>2, <2>1 DEF IsInjective
  <2>3. Min({p}) = p
    BY DEF Min
  <2>4. RemoveFirst(l, x) = RemoveAt(l, p)
    BY <1>4, <2>2, <2>3 DEF RemoveFirst, SelectInSeq
  <2>5. PICK r : r = RemoveAt(l, p)
    OBVIOUS
  <2>6. Unregistered(l, e, a) = r
    BY <1>1, <2>4, <2>5 DEF Unregistered
  <2>7. /\ r \in Seq(Entry) /\ Len(r) = Len(l) - 1
        /\ \A i \in 1 .. Len(l) - 1 : r[i] = IF i < p THEN l[i] ELSE l[i + 1]
    <3>1. l \in Seq(Entry)
      BY <1>2
    <3> QED BY ONLY <2>5, <3>1, p \in 1 .. Len(l), RemovedAt, Zenon
  <2>8. DOMAIN r = 1 .. Len(l) - 1
    BY <1>2, <2>7
  <2>9. IsInjective(r)
    <3>1. SUFFICES ASSUME NEW i \in 1 .. Len(l) - 1, NEW j \in 1 .. Len(l) - 1, r[i] = r[j]
                   PROVE  i = j
      BY <2>8 DEF IsInjective
    <3>2. \A m, n \in 1 .. Len(l) : l[m] = l[n] => m = n
      BY <1>2 DEF IsInjective
    <3>3. PICK m \in 1 .. Len(l), n \in 1 .. Len(l) :
            /\ m = IF i < p THEN i ELSE i + 1
            /\ n = IF j < p THEN j ELSE j + 1
      BY <1>2
    <3>4. r[i] = l[m] /\ r[j] = l[n]
      BY <2>7, <3>3
    <3>5. m = n
      BY <3>1, <3>2, <3>4
    <3>6. i \in Int /\ j \in Int /\ p \in Int
      OBVIOUS
    <3> QED BY ONLY <3>3, <3>5, <3>6
  <2>10. Range(r) = Range(l) \ {x}
    <3>1. ASSUME NEW i \in 1 .. Len(l), i # p
          PROVE  \E j \in 1 .. Len(l) - 1 : r[j] = l[i]
      <4>1. CASE i < p
        BY <1>2, <2>1, <2>7, <4>1
      <4>2. CASE i > p
        <5>1. r[i - 1] = l[i] /\ i - 1 \in 1 .. Len(l) - 1
          BY <1>2, <2>1, <2>7, <4>2
        <5> QED BY <5>1
      <4> QED BY <1>2, <3>1, <4>1, <4>2
    <3>2. ASSUME NEW j \in 1 .. Len(l) - 1
          PROVE  \E i \in 1 .. Len(l) : i # p /\ r[j] = l[i]
      <4>1. r[j] = IF j < p THEN l[j] ELSE l[j + 1]
        BY <2>7
      <4> QED BY <1>2, <4>1
    <3>3. \A i \in 1 .. Len(l) : l[i] = x <=> i = p
      BY <1>2, <2>1 DEF IsInjective
    <3>4. Range(r) = {r[j] : j \in 1 .. Len(l) - 1} /\ Range(l) = {l[i] : i \in 1 .. Len(l)}
      BY <1>2, <2>8 DEF Range
    <3>5. ASSUME NEW y \in Range(r) PROVE y \in Range(l) \ {x}
      <4>1. PICK j \in 1 .. Len(l) - 1 : y = r[j]
        BY <3>4
      <4> QED BY <3>2, <3>3, <3>4, <4>1
    <3>6. ASSUME NEW y \in Range(l) \ {x} PROVE y \in Range(r)
      <4>1. PICK i \in 1 .. Len(l) : y = l[i]
        BY <3>4
      <4> QED BY <3>1, <3>3, <3>4, <3>6, <4>1
    <3> QED BY <3>5, <3>6
  <2> QED BY <1>1, <2>6, <2>7, <2>9, <2>10 DEF Lists
<1> QED BY <1>3, <1>4

(* The entries of a tracker of kind k at a                                 *)
EntriesOf(k, a) ==
    {<<"SE_CYCLE_END", a>>} \cup (IF k = "rf" THEN {<<"SE_SIMULATION_STOPPED", a>>} ELSE {})

LEMMA ConstructedList ==
    ASSUME NEW l \in Lists, NEW k \in Trackers, NEW a \in Addresses
    PROVE  /\ Constructed(l, k, a) \in Lists
           /\ Range(Constructed(l, k, a)) = Range(l) \cup EntriesOf(k, a)
<1>1. {"SE_CYCLE_END", "SE_SIMULATION_STOPPED"} \subseteq Events
  BY DEF Events
<1>2. PICK m : m = Registered(l, "SE_CYCLE_END", a)
  OBVIOUS
<1>3. m \in Lists /\ Range(m) = Range(l) \cup {<<"SE_CYCLE_END", a>>}
  BY <1>1, <1>2, RegisteredList
<1>4. CASE k = "rf"
  <2>1. Constructed(l, k, a) = Registered(m, "SE_SIMULATION_STOPPED", a)
    BY <1>2, <1>4 DEF Constructed
  <2>2. /\ Constructed(l, k, a) \in Lists
        /\ Range(Constructed(l, k, a)) = Range(m) \cup {<<"SE_SIMULATION_STOPPED", a>>}
    BY <1>1, <1>3, <2>1, RegisteredList
  <2> QED BY <1>3, <1>4, <2>2 DEF EntriesOf
<1>5. CASE k # "rf"
  <2>1. Constructed(l, k, a) = m
    BY <1>2, <1>5 DEF Constructed
  <2> QED BY <1>3, <1>5, <2>1 DEF EntriesOf
<1> QED BY <1>4, <1>5

LEMMA DestroyedList ==
    ASSUME NEW l \in Lists, NEW k \in Trackers, NEW a \in Addresses \cup {NULL}
    PROVE  /\ Destroyed(l, k, a) \in Lists
           /\ a = NULL => Destroyed(l, k, a) = l
           /\ a # NULL /\ k # "rf" =>
                  Range(Destroyed(l, k, a)) = Range(l) \ {<<"SE_CYCLE_END", a>>}
           /\ a # NULL /\ k = "rf" =>
                  Range(Destroyed(l, k, a)) =
                      (Range(l) \cup {<<"SE_CYCLE_END", a>>}) \ {<<"SE_SIMULATION_STOPPED", a>>}
<1>1. "SE_CYCLE_END" \in Events /\ "SE_SIMULATION_STOPPED" \in Events
  BY DEF Events
<1>2. CASE a = NULL
  BY <1>2 DEF Destroyed
<1>3. CASE a # NULL /\ k = "rf"
  <2>1. PICK m : m = Registered(l, "SE_CYCLE_END", a)
    OBVIOUS
  <2>2. m \in Lists /\ Range(m) = Range(l) \cup {<<"SE_CYCLE_END", a>>}
    BY <1>1, <1>3, <2>1, RegisteredList
  <2>3. Destroyed(l, k, a) = Unregistered(m, "SE_SIMULATION_STOPPED", a)
    BY <1>3, <2>1 DEF Destroyed
  <2>4. /\ Destroyed(l, k, a) \in Lists
        /\ Range(Destroyed(l, k, a)) = Range(m) \ {<<"SE_SIMULATION_STOPPED", a>>}
    BY <1>1, <1>3, <2>2, <2>3, UnregisteredList
  <2> QED BY <1>3, <2>2, <2>4
<1>4. CASE a # NULL /\ k # "rf"
  <2>1. Destroyed(l, k, a) = Unregistered(l, "SE_CYCLE_END", a)
    BY <1>4 DEF Destroyed
  <2> QED BY <1>1, <1>4, <2>1, UnregisteredList
<1> QED BY <1>2, <1>3, <1>4

-----------------------------------------------------------------------------
(* The list and the objects in it                                          *)

(* A member that is not NULL points to a living object of its kind.        *)
MembersLive(h, s) == \A k \in Members : s[k] # NULL => h[s[k]].alive /\ h[s[k]].kind = k

(* Every tracker that lives is registered for the end of a cycle.          *)
Told(h, E) == \A a \in Addresses : Tracks(h, a) => <<"SE_CYCLE_END", a>> \in E

(* An entry belongs to a living object, or a destructor left it.           *)
Owned(h, s, E, p, L) ==
    \A a \in Addresses :
        /\ <<"SE_NEW_INSTRUCTION", a>> \in E =>
               (s["manager"] = a /\ p) \/ <<"SE_NEW_INSTRUCTION", a>> \in L
        /\ <<"SE_SIMULATION_STOPPED", a>> \in E => h[a].alive /\ h[a].kind = "rf"
        /\ <<"SE_CYCLE_END", a>> \in E => Tracks(h, a) \/ <<"SE_CYCLE_END", a>> \in L

ListInv ==
    /\ listeners \in Lists
    /\ left \subseteq Entry
    /\ points \in BOOLEAN
    /\ MembersLive(heap, slot)
    /\ Told(heap, Range(listeners))
    /\ Owned(heap, slot, Range(listeners), points, left)
    /\ points => slot["manager"] # NULL

(* A list with its heap and its members                                    *)
Consistent(h, s, l, p, L) ==
    /\ l \in Lists /\ L \subseteq Entry
    /\ MembersLive(h, s) /\ Told(h, Range(l)) /\ Owned(h, s, Range(l), p, L)

LEMMA ListConsistent ==
    ASSUME NEW h, NEW s, NEW l, NEW p \in BOOLEAN, NEW L, NEW L2,
           Consistent(h, s, l, p, L), p => s["manager"] # NULL, L \cap Range(l) \subseteq L2,
           L2 \subseteq Entry,
           heap' = h, slot' = s, listeners' = l, points' = p, left' = L2
    PROVE  ListInv'
<1>1. /\ l \in Lists /\ L2 \subseteq Entry /\ MembersLive(h, s) /\ Told(h, Range(l))
  BY DEF Consistent
<1>2. Owned(h, s, Range(l), p, L2)
  BY DEF Consistent, Owned
<1> QED BY <1>1, <1>2 DEF ListInv, MembersLive, Told, Owned, Tracks, Range

(* What ControllerDeleted keeps is enough.                                 *)
LEMMA ConsistentWithout ==
    ASSUME NEW h \in [Addresses -> Object], NEW s \in [Members -> Addresses \cup {NULL}],
           NEW l, NEW p, NEW L, Consistent(h, s, l, p, L)
    PROVE  Consistent(WithoutController(h), s, l, p, L)
<1>1. PICK w : w = WithoutController(h)
  OBVIOUS
<1>2. \A a \in Addresses : w[a].alive = h[a].alive /\ w[a].kind = h[a].kind
  BY <1>1, ControllerDeleted
<1>3. MembersLive(w, s)
  BY <1>2 DEF Consistent, MembersLive
<1>4. Told(w, Range(l)) /\ Owned(w, s, Range(l), p, L)
  BY <1>2 DEF Consistent, Told, Owned, Tracks
<1> QED BY <1>1, <1>3, <1>4 DEF Consistent

(* finishSimulation: the entries of the trackers with a member go, but for *)
(* that of the register file tracker.                                      *)
LEMMA ListFinished ==
    ASSUME Inv, ListInv
    PROVE  /\ Consistent(FinishedHeap, FinishedSlots, FinishedList, points, left \cup LeftByRF)
           /\ points => FinishedSlots["manager"] # NULL
<1>1. PICK s, l0, ex, bus, rf, pr :
        /\ s = slot /\ l0 = listeners
        /\ ex = s["execution"] /\ bus = s["bus"] /\ rf = s["rf"] /\ pr = s["procedure"]
  OBVIOUS
<1>2. /\ s \in [Members -> Addresses \cup {NULL}] /\ l0 \in Lists
      /\ {ex, bus, rf, pr} \subseteq Addresses \cup {NULL}
  BY <1>1 DEF Inv, Shape, ListInv, Members, Trackers
<1>3. PICK l1, l2, l3, l4 :
        /\ l1 = Destroyed(l0, "execution", ex) /\ l2 = Destroyed(l1, "bus", bus)
        /\ l3 = Destroyed(l2, "rf", rf) /\ l4 = Destroyed(l3, "procedure", pr)
  OBVIOUS
<1>4. l4 = FinishedList
  BY <1>1, <1>3 DEF FinishedList
<1>5. {"execution", "bus", "rf", "procedure"} \subseteq Trackers
  BY DEF Trackers
<1>6. /\ l1 \in Lists
      /\ \A x : x \in Range(l1) <=> x \in Range(l0) /\ (ex # NULL => x # <<"SE_CYCLE_END", ex>>)
  <2>1. /\ l1 \in Lists
        /\ ex = NULL => l1 = l0
        /\ ex # NULL => Range(l1) = Range(l0) \ {<<"SE_CYCLE_END", ex>>}
    <3>1. l0 \in Lists /\ "execution" \in Trackers /\ ex \in Addresses \cup {NULL} /\ "execution" # "rf"
      BY <1>2, <1>5
    <3> QED BY ONLY <1>3, <3>1, DestroyedList
  <2> QED BY ONLY <2>1
<1>7. /\ l2 \in Lists
      /\ \A x : x \in Range(l2) <=> x \in Range(l1) /\ (bus # NULL => x # <<"SE_CYCLE_END", bus>>)
  <2>1. /\ l2 \in Lists
        /\ bus = NULL => l2 = l1
        /\ bus # NULL => Range(l2) = Range(l1) \ {<<"SE_CYCLE_END", bus>>}
    <3>1. l1 \in Lists /\ "bus" \in Trackers /\ bus \in Addresses \cup {NULL} /\ "bus" # "rf"
      BY <1>2, <1>5, <1>6
    <3> QED BY ONLY <1>3, <3>1, DestroyedList
  <2> QED BY ONLY <2>1
<1>8. /\ l3 \in Lists
      /\ \A x : x \in Range(l3) =>
             \/ x \in Range(l2) /\ (rf # NULL => x # <<"SE_SIMULATION_STOPPED", rf>>)
             \/ rf # NULL /\ x = <<"SE_CYCLE_END", rf>>
      /\ \A a \in Addresses : <<"SE_CYCLE_END", a>> \in Range(l2) => <<"SE_CYCLE_END", a>> \in Range(l3)
  <2>1. l2 \in Lists /\ "rf" \in Trackers /\ rf \in Addresses \cup {NULL}
    BY <1>2, <1>5, <1>7
  <2>2. /\ l3 \in Lists
        /\ rf = NULL => l3 = l2
        /\ rf # NULL => Range(l3) = (Range(l2) \cup {<<"SE_CYCLE_END", rf>>})
                                        \ {<<"SE_SIMULATION_STOPPED", rf>>}
    BY ONLY <1>3, <2>1, DestroyedList
  <2> QED BY ONLY <2>2
<1>9. /\ l4 \in Lists
      /\ \A x : x \in Range(l4) <=> x \in Range(l3) /\ (pr # NULL => x # <<"SE_CYCLE_END", pr>>)
  <2>1. /\ l4 \in Lists
        /\ pr = NULL => l4 = l3
        /\ pr # NULL => Range(l4) = Range(l3) \ {<<"SE_CYCLE_END", pr>>}
    <3>1. l3 \in Lists /\ "procedure" \in Trackers /\ pr \in Addresses \cup {NULL} /\ "procedure" # "rf"
      BY <1>2, <1>5, <1>8
    <3> QED BY ONLY <1>3, <3>1, DestroyedList
  <2> QED BY ONLY <2>1
<1>10. PICK L, p, h, f, t :
         /\ L = left \cup LeftByRF /\ p = points
         /\ h = heap /\ f = FinishedHeap /\ t = FinishedSlots
  OBVIOUS
<1>11. /\ \A k \in Trackers : t[k] = NULL
       /\ t["manager"] = s["manager"]
       /\ \A a \in Addresses : IF \E k \in Trackers : s[k] = a THEN ~f[a].alive
                               ELSE f[a].alive = h[a].alive /\ f[a].kind = h[a].kind
  BY <1>1, <1>10, TrackersDestroyed
<1>12. /\ MembersLive(h, s) /\ Told(h, Range(l0)) /\ Owned(h, s, Range(l0), p, left)
       /\ left \subseteq Entry /\ (p => s["manager"] # NULL)
  BY <1>1, <1>10 DEF ListInv
<1>13. \A a \in Addresses :
         (\E k \in Trackers : s[k] = a) <=> a = ex \/ a = bus \/ a = rf \/ a = pr
  BY <1>1, <1>5 DEF Trackers
<1>14. \A a \in Addresses : \A k \in Members :
         s[k] = a => h[a].alive /\ h[a].kind = k
  BY <1>12, NULLAssumption DEF MembersLive
<1>15. MembersLive(f, t)
  <2>1. SUFFICES ASSUME NEW k \in Members, t[k] # NULL
                 PROVE  f[t[k]].alive /\ f[t[k]].kind = k
    BY DEF MembersLive
  <2>2. k = "manager"
    BY <1>11, <2>1 DEF Members
  <2>3. PICK a \in Addresses : a = s["manager"] /\ a = t[k]
    BY <1>2, <1>11, <2>1, <2>2
  <2>4. h[a].alive /\ h[a].kind = "manager" /\ "manager" \notin Trackers
    BY <1>14, <2>2, <2>3 DEF Trackers
  <2>5. ~ \E j \in Trackers : s[j] = a
    BY <1>14, <2>4 DEF Members
  <2> QED BY <1>11, <2>2, <2>3, <2>4, <2>5
<1>16. Told(f, Range(l4))
  <2>1. SUFFICES ASSUME NEW a \in Addresses, Tracks(f, a)
                 PROVE  <<"SE_CYCLE_END", a>> \in Range(l4)
    BY DEF Told
  <2>2. Tracks(h, a) /\ a # ex /\ a # bus /\ a # pr
    BY <1>11, <1>13, <2>1 DEF Tracks
  <2>3. <<"SE_CYCLE_END", a>> \in Range(l0)
    BY <1>12, <2>2 DEF Told
  <2> QED BY <1>6, <1>7, <1>8, <1>9, <2>2, <2>3
<1>17. ASSUME NEW a \in Addresses
       PROVE  /\ <<"SE_NEW_INSTRUCTION", a>> \in Range(l4) =>
                     (t["manager"] = a /\ p) \/ <<"SE_NEW_INSTRUCTION", a>> \in L
              /\ <<"SE_SIMULATION_STOPPED", a>> \in Range(l4) => f[a].alive /\ f[a].kind = "rf"
              /\ <<"SE_CYCLE_END", a>> \in Range(l4) => Tracks(f, a) \/ <<"SE_CYCLE_END", a>> \in L
  <2>1. a # NULL
    BY NULLAssumption
  <2>2. ASSUME <<"SE_NEW_INSTRUCTION", a>> \in Range(l4)
        PROVE  (t["manager"] = a /\ p) \/ <<"SE_NEW_INSTRUCTION", a>> \in L
    <3>1. <<"SE_NEW_INSTRUCTION", a>> \in Range(l0)
      BY <1>6, <1>7, <1>8, <1>9, <2>2
    <3> QED BY <1>10, <1>11, <1>12, <3>1 DEF Owned
  <2>3. ASSUME <<"SE_SIMULATION_STOPPED", a>> \in Range(l4)
        PROVE  f[a].alive /\ f[a].kind = "rf"
    <3>1. <<"SE_SIMULATION_STOPPED", a>> \in Range(l0) /\ a # rf
      BY <1>6, <1>7, <1>8, <1>9, <2>1, <2>3
    <3>2. h[a].alive /\ h[a].kind = "rf"
      BY <1>12, <3>1 DEF Owned
    <3>3. a # ex /\ a # bus /\ a # pr
      BY <1>1, <1>14, <3>2 DEF Members, Trackers
    <3> QED BY <1>11, <1>13, <3>1, <3>2, <3>3
  <2>4. ASSUME <<"SE_CYCLE_END", a>> \in Range(l4), a # rf
        PROVE  Tracks(f, a) \/ <<"SE_CYCLE_END", a>> \in L
    <3>1. <<"SE_CYCLE_END", a>> \in Range(l0) /\ a # ex /\ a # bus /\ a # pr
      BY <1>6, <1>7, <1>8, <1>9, <2>1, <2>4
    <3>2. CASE Tracks(h, a)
      BY <1>11, <1>13, <2>4, <3>1, <3>2 DEF Tracks
    <3>3. CASE ~Tracks(h, a)
      BY <1>10, <1>12, <3>1, <3>3 DEF Owned
    <3> QED BY <3>2, <3>3
  <2>5. a = rf => <<"SE_CYCLE_END", a>> \in L
    BY <1>1, <1>10, <2>1 DEF LeftByRF
  <2> QED BY <2>2, <2>3, <2>4, <2>5
<1>18. Owned(f, t, Range(l4), p, L)
  BY <1>17 DEF Owned
<1>19. L \subseteq Entry
  BY <1>1, <1>2, <1>10, <1>12 DEF LeftByRF, Entry, Events
<1>20. Consistent(f, t, l4, p, L)
  BY <1>9, <1>15, <1>16, <1>18, <1>19 DEF Consistent
<1> QED BY <1>4, <1>10, <1>11, <1>12, <1>20

(* initializeSimulation: the entry of the old manager is left.             *)
LEMMA ListManagerMade ==
    ASSUME Inv, ListInv, NEW m \in Addresses, Vacant(m), NEW w, NEW s,
           w = WithManager(m), s = [slot EXCEPT !["manager"] = m]
    PROVE  Consistent(w, s, listeners, FALSE, left \cup LeftByManager)
<1>1. PICK h, r, O, l, p, L : /\ h = heap /\ r = slot /\ O = Living
                              /\ l = listeners /\ p = points /\ L = left \cup LeftByManager
  OBVIOUS
<1>2. /\ s["manager"] = m
      /\ \A k \in Trackers : s[k] = r[k]
      /\ w[m].alive /\ w[m].kind = "manager"
      /\ \A a \in Addresses \ {m} :
            IF a = r["manager"] THEN ~w[a].alive
            ELSE w[a].alive = h[a].alive /\ w[a].kind = h[a].kind
  <2>1. Managed(h, r, w, s, m)
    BY <1>1, ManagerMade
  <2> QED BY ONLY <2>1 DEF Managed
<1>3. /\ l \in Lists /\ MembersLive(h, r) /\ Told(h, Range(l))
      /\ Owned(h, r, Range(l), p, left) /\ left \subseteq Entry
      /\ p => r["manager"] # NULL
  BY <1>1 DEF ListInv
<1>4. r \in [Members -> Addresses \cup {NULL}] /\ (h[m].alive => m = r["manager"])
  BY <1>1 DEF Inv, Shape, Vacant
<1>5. "manager" \in Members /\ "manager" \notin Trackers /\ "rf" \in Trackers
  BY DEF Members, Trackers
<1>6. \A a \in Addresses : \A k \in Members : r[k] = a => h[a].alive /\ h[a].kind = k
  BY <1>3, NULLAssumption DEF MembersLive
<1>7. \A a \in Addresses : h[a].alive /\ h[a].kind \in Trackers => a # m /\ a # r["manager"]
  BY <1>4, <1>5, <1>6
<1>8. \A a \in Addresses :
         h[a].alive /\ h[a].kind \in Trackers => w[a].alive /\ w[a].kind = h[a].kind
  BY <1>2, <1>7
<1>9. \A a \in Addresses : Tracks(w, a) => Tracks(h, a)
  BY <1>2, <1>5 DEF Tracks
<1>10. MembersLive(w, s)
  <2>1. SUFFICES ASSUME NEW k \in Members, s[k] # NULL
                 PROVE  w[s[k]].alive /\ w[s[k]].kind = k
    BY DEF MembersLive
  <2>2. CASE k = "manager"
    BY <1>2, <2>2
  <2>3. CASE k \in Trackers
    <3>1. PICK a \in Addresses : a = r[k] /\ a = s[k]
      BY <1>2, <1>4, <2>1, <2>3
    <3> QED BY <1>6, <1>8, <2>3, <3>1
  <2> QED BY <2>2, <2>3 DEF Members
<1>11. Told(w, Range(l))
  BY <1>3, <1>9 DEF Told
<1>12. L \subseteq Entry
  <2>1. p => r["manager"] \in Addresses
    BY <1>3, <1>4, <1>5
  <2> QED BY <1>1, <1>3, <2>1 DEF LeftByManager, Entry, Events
<1>13. ASSUME NEW a \in Addresses
       PROVE  /\ <<"SE_NEW_INSTRUCTION", a>> \in Range(l) => <<"SE_NEW_INSTRUCTION", a>> \in L
              /\ <<"SE_SIMULATION_STOPPED", a>> \in Range(l) => w[a].alive /\ w[a].kind = "rf"
              /\ <<"SE_CYCLE_END", a>> \in Range(l) => Tracks(w, a) \/ <<"SE_CYCLE_END", a>> \in L
  <2>1. r["manager"] = a /\ p => <<"SE_NEW_INSTRUCTION", a>> \in L
    BY <1>1 DEF LeftByManager
  <2>2. \A x : x \in left => x \in L
    BY <1>1
  <2>3. <<"SE_SIMULATION_STOPPED", a>> \in Range(l) => h[a].alive /\ h[a].kind = "rf"
    BY <1>3 DEF Owned
  <2>4. Tracks(h, a) => Tracks(w, a)
    BY <1>8 DEF Tracks
  <2> QED BY <1>3, <1>5, <1>8, <2>1, <2>2, <2>3, <2>4 DEF Owned
<1>14. Owned(w, s, Range(l), FALSE, L)
  BY <1>13 DEF Owned
<1> QED BY <1>1, <1>3, <1>10, <1>11, <1>12, <1>14 DEF Consistent

(* initializeTracing registers the tracker of kind k if it makes one.      *)
Added(l, k, K, place) == IF k \in K THEN Constructed(l, k, place[k]) ELSE l

LEMMA AddedList ==
    ASSUME NEW l \in Lists, NEW k \in Trackers, NEW K, NEW place,
           k \in K => place[k] \in Addresses
    PROVE  /\ Added(l, k, K, place) \in Lists
           /\ \A x : x \in Range(Added(l, k, K, place)) <=>
                     x \in Range(l) \/ (k \in K /\ x \in EntriesOf(k, place[k]))
<1>1. CASE k \in K
  BY <1>1, ConstructedList DEF Added
<1>2. CASE k \notin K
  BY <1>2 DEF Added
<1> QED BY <1>1, <1>2

AllAdded(l, K, place) ==
    Added(Added(Added(Added(l, "execution", K, place), "rf", K, place),
                "procedure", K, place), "bus", K, place)

LEMMA AllAddedList ==
    ASSUME NEW l \in Lists, NEW K \in SUBSET Trackers, NEW place \in [K -> Addresses]
    PROVE  /\ AllAdded(l, K, place) \in Lists
           /\ \A x : x \in Range(AllAdded(l, K, place)) <=>
                     x \in Range(l) \/ \E k \in K : x \in EntriesOf(k, place[k])
<1>1. PICK l1, l2, l3, l4 :
        /\ l1 = Added(l, "execution", K, place) /\ l2 = Added(l1, "rf", K, place)
        /\ l3 = Added(l2, "procedure", K, place) /\ l4 = Added(l3, "bus", K, place)
  OBVIOUS
<1>2. /\ \A k \in Trackers : k \in K => place[k] \in Addresses
      /\ "execution" \in Trackers /\ "rf" \in Trackers
      /\ "procedure" \in Trackers /\ "bus" \in Trackers
  BY DEF Trackers
<1>3. /\ l1 \in Lists
      /\ \A x : x \in Range(l1) <=>
             x \in Range(l) \/ ("execution" \in K /\ x \in EntriesOf("execution", place["execution"]))
  BY <1>1, <1>2, AddedList
<1>4. /\ l2 \in Lists
      /\ \A x : x \in Range(l2) <=>
             x \in Range(l1) \/ ("rf" \in K /\ x \in EntriesOf("rf", place["rf"]))
  BY <1>1, <1>2, <1>3, AddedList
<1>5. /\ l3 \in Lists
      /\ \A x : x \in Range(l3) <=>
             x \in Range(l2) \/ ("procedure" \in K /\ x \in EntriesOf("procedure", place["procedure"]))
  BY <1>1, <1>2, <1>4, AddedList
<1>6. /\ l4 \in Lists
      /\ \A x : x \in Range(l4) <=>
             x \in Range(l3) \/ ("bus" \in K /\ x \in EntriesOf("bus", place["bus"]))
  BY <1>1, <1>2, <1>5, AddedList
<1>7. AllAdded(l, K, place) = l4
  BY <1>1 DEF AllAdded
<1>8. \A k \in K : k \in {"execution", "rf", "procedure", "bus"}
  BY DEF Trackers
<1> QED BY <1>3, <1>4, <1>5, <1>6, <1>7, <1>8

(* initializeTracing: a tracker that is made registers; whatever the       *)
(* member pointed to stays alive and in the list.                          *)
LEMMA ListBuilt ==
    ASSUME NEW h \in [Addresses -> Object],
           NEW s \in [Members -> Addresses \cup {NULL}],
           NEW l, NEW K \in SUBSET Trackers,
           NEW place \in [K -> {a \in Addresses : ~h[a].alive}], IsInjective(place),
           NEW p, NEW L, Consistent(h, s, l, p, L), NEW h2, NEW s2, NEW m,
           h2 = PlacedHeap(h, K, place), s2 = PlacedSlots(s, K, place),
           m = AllAdded(l, K, place)
    PROVE  Consistent(h2, s2, m, p, L) /\ s2["manager"] = s["manager"]
<1>1. /\ l \in Lists /\ L \subseteq Entry /\ MembersLive(h, s)
      /\ Told(h, Range(l)) /\ Owned(h, s, Range(l), p, L)
  BY DEF Consistent
<1>2. place \in [K -> Addresses] /\ \A k \in K : ~h[place[k]].alive
  OBVIOUS
<1>3. /\ m \in Lists
      /\ \A x : x \in Range(m) <=> x \in Range(l) \/ \E k \in K : x \in EntriesOf(k, place[k])
  BY <1>1, <1>2, AllAddedList
<1>4. /\ \A k \in Members \ K : s2[k] = s[k]
      /\ \A k \in K : s2[k] = place[k]
      /\ \A a \in Addresses : h[a].alive => h2[a] = h[a]
      /\ \A a \in Addresses : h2[a] = h[a] \/ \E k \in K : place[k] = a /\ h2[a] = New(k)
  <2>1. Placing(h, s, K, place, h2, s2)
    BY Placed
  <2> QED BY ONLY <2>1 DEF Placing
<1>5. \A k \in K : k \in Kinds /\ k \in Members /\ k \in Trackers
  BY DEF Kinds, Members
<1>6. "manager" \in Members \ K
  BY DEF Members, Trackers
<1>7. ASSUME NEW k \in K
      PROVE  h2[place[k]].alive /\ h2[place[k]].kind = k
  <2>1. PICK a \in Addresses : a = place[k]
    BY <1>2
  <2>2. (CHOOSE j \in K : place[j] = a) = k
    <3>1. \A j \in K : place[j] = a => j = k
      BY <2>1 DEF IsInjective
    <3> QED BY <2>1, <3>1
  <2>3. h2[a] = New(k)
    BY <2>1, <2>2 DEF PlacedHeap
  <2> QED BY <1>5, <2>1, <2>3, FreeObjects
<1>8. Told(h2, Range(m))
  <2>1. SUFFICES ASSUME NEW a \in Addresses, Tracks(h2, a)
                 PROVE  <<"SE_CYCLE_END", a>> \in Range(m)
    BY DEF Told
  <2>2. CASE h2[a] = h[a]
    BY <1>1, <1>3, <2>1, <2>2 DEF Told, Tracks
  <2>3. CASE \E k \in K : place[k] = a /\ h2[a] = New(k)
    BY <1>3, <2>3 DEF EntriesOf
  <2> QED BY <1>4, <2>2, <2>3
<1>9. Owned(h2, s2, Range(m), p, L)
  <2>1. SUFFICES ASSUME NEW a \in Addresses
                 PROVE  /\ <<"SE_NEW_INSTRUCTION", a>> \in Range(m) =>
                              (s2["manager"] = a /\ p) \/ <<"SE_NEW_INSTRUCTION", a>> \in L
                        /\ <<"SE_SIMULATION_STOPPED", a>> \in Range(m) =>
                              h2[a].alive /\ h2[a].kind = "rf"
                        /\ <<"SE_CYCLE_END", a>> \in Range(m) =>
                              Tracks(h2, a) \/ <<"SE_CYCLE_END", a>> \in L
    BY DEF Owned
  <2>2. <<"SE_NEW_INSTRUCTION", a>> \in Range(m) => <<"SE_NEW_INSTRUCTION", a>> \in Range(l)
    BY <1>3 DEF EntriesOf
  <2>3. <<"SE_SIMULATION_STOPPED", a>> \in Range(m) =>
          <<"SE_SIMULATION_STOPPED", a>> \in Range(l) \/ ("rf" \in K /\ place["rf"] = a)
    BY <1>3 DEF EntriesOf
  <2>4. <<"SE_CYCLE_END", a>> \in Range(m) =>
          <<"SE_CYCLE_END", a>> \in Range(l) \/ \E k \in K : place[k] = a
    BY <1>3 DEF EntriesOf
  <2>5. /\ <<"SE_NEW_INSTRUCTION", a>> \in Range(l) =>
              (s["manager"] = a /\ p) \/ <<"SE_NEW_INSTRUCTION", a>> \in L
        /\ <<"SE_SIMULATION_STOPPED", a>> \in Range(l) => h[a].alive /\ h[a].kind = "rf"
        /\ <<"SE_CYCLE_END", a>> \in Range(l) => Tracks(h, a) \/ <<"SE_CYCLE_END", a>> \in L
    BY <1>1 DEF Owned
  <2>6. \A k \in K : place[k] = a => h2[a].alive /\ h2[a].kind = k /\ Tracks(h2, a)
    BY <1>5, <1>7 DEF Tracks
  <2>7. Tracks(h, a) => Tracks(h2, a)
    BY <1>4 DEF Tracks
  <2> QED BY <1>4, <1>6, <2>2, <2>3, <2>4, <2>5, <2>6, <2>7
<1>10. MembersLive(h2, s2)
  <2>1. SUFFICES ASSUME NEW k \in Members, s2[k] # NULL
                 PROVE  h2[s2[k]].alive /\ h2[s2[k]].kind = k
    BY DEF MembersLive
  <2>2. CASE k \in K
    BY <1>4, <1>7, <2>2
  <2>3. CASE k \notin K
    <3>1. PICK a \in Addresses : a = s[k] /\ a = s2[k]
      BY <1>4, <2>1, <2>3
    <3>2. h[a].alive /\ h[a].kind = k
      BY <1>1, <2>1, <3>1 DEF MembersLive
    <3> QED BY <1>4, <3>1, <3>2
  <2> QED BY <2>2, <2>3
<1> QED BY <1>1, <1>3, <1>4, <1>6, <1>8, <1>9, <1>10 DEF Consistent

-----------------------------------------------------------------------------
(* The commands keep the list in order                                     *)

LEMMA ListInit == ASSUME Init PROVE ListInv
<1>1. listeners \in Lists /\ Range(listeners) = {}
  BY DEF Init, Lists, IsInjective, Range
<1>2. MembersLive(heap, slot)
  BY DEF Init, MembersLive, Members
<1>3. Told(heap, Range(listeners))
  BY FreeObjects DEF Init, Told, Tracks
<1>4. Owned(heap, slot, Range(listeners), points, left)
  BY <1>1 DEF Owned
<1> QED BY <1>1, <1>2, <1>3, <1>4 DEF Init, ListInv

LEMMA ListKept ==
    ASSUME ListInv, UNCHANGED <<heap, slot, listeners, points, left>>
    PROVE  ListInv'
BY DEF ListInv, MembersLive, Told, Owned, Tracks, Range

LEMMA ListLoadMachine == ASSUME Inv, ListInv, LoadMachine PROVE ListInv'
<1>1. CASE ~simCon \/ FinishFault # "none"
  <2>1. UNCHANGED <<heap, slot, listeners, points, left>>
    BY <1>1 DEF LoadMachine, Fail, commandVars
  <2> QED BY <2>1, ListKept
<1>2. CASE simCon /\ FinishFault = "none"
  <2>1. /\ heap' = WithoutController(FinishedHeap) /\ slot' = FinishedSlots
        /\ listeners' = FinishedList /\ points' = points
        /\ left' = (left \cup LeftByRF) \cap ToSet(FinishedList)
    BY <1>2 DEF LoadMachine, ToSet
  <2>2. PICK h, s, l, p, L, w : /\ h = FinishedHeap /\ s = FinishedSlots /\ l = FinishedList
                                /\ p = points /\ L = left \cup LeftByRF
                                /\ w = WithoutController(h)
    OBVIOUS
  <2>3. h \in [Addresses -> Object] /\ s \in [Members -> Addresses \cup {NULL}]
    BY <2>2, TrackersDestroyed
  <2>4. Consistent(h, s, l, p, L) /\ (p => s["manager"] # NULL)
    BY <2>2, ListFinished DEF Consistent, MembersLive, Told, Owned, Tracks, Range
  <2>5. Consistent(w, s, l, p, L)
    BY <2>2, <2>3, <2>4, ConsistentWithout
  <2>6. heap' = w
    BY <2>1, <2>2 DEF WithoutController
  <2>7. PICK L2 : L2 = L \cap Range(l)
    OBVIOUS
  <2>8. left' = L2
    BY <2>1, <2>2, <2>7 DEF ToSet, Range
  <2>9. slot' = s /\ listeners' = l /\ points' = p /\ p \in BOOLEAN
    BY <2>1, <2>2 DEF ListInv
  <2>10. L \cap Range(l) \subseteq L2 /\ L2 \subseteq Entry
    BY <2>4, <2>7 DEF Consistent
  <2> QED BY <2>4, <2>5, <2>6, <2>8, <2>9, <2>10, ListConsistent
<1> QED BY <1>1, <1>2

LEMMA ListLoadProgramFails == ASSUME Inv, ListInv, LoadProgramFails PROVE ListInv'
<1>1. PICK h, s, l, p, L, w : /\ h = heap /\ s = slot /\ l = listeners /\ p = points /\ L = left
                              /\ w = WithoutController(h)
  OBVIOUS
<1>2. heap' = w /\ slot' = s /\ listeners' = l /\ points' = p /\ left' = L
  BY <1>1 DEF LoadProgramFails, WithoutController
<1>3. /\ h \in [Addresses -> Object] /\ s \in [Members -> Addresses \cup {NULL}]
      /\ Consistent(h, s, l, p, L) /\ p \in BOOLEAN /\ (p => s["manager"] # NULL)
  BY <1>1 DEF Inv, Shape, ListInv, Consistent
<1>4. Consistent(w, s, l, p, L)
  BY <1>1, <1>3, ConsistentWithout
<1>5. L \cap Range(l) \subseteq L /\ L \subseteq Entry
  BY <1>3 DEF Consistent
<1> QED BY <1>2, <1>3, <1>4, <1>5, ListConsistent

LEMMA ListLoadProgramWithoutData ==
    ASSUME Inv, ListInv, LoadProgramWithoutData PROVE ListInv'
<1>1. PICK m \in Addresses :
        /\ Vacant(m)
        /\ heap' = IF simCon' THEN WithManager(m) ELSE WithoutController(WithManager(m))
        /\ slot' = [slot EXCEPT !["manager"] = m]
  BY DEF LoadProgramWithoutData
<1>2. PICK h, s, l, L, w : /\ h = WithManager(m) /\ s = [slot EXCEPT !["manager"] = m]
                           /\ l = listeners /\ L = left \cup LeftByManager
                           /\ w = WithoutController(h)
  OBVIOUS
<1>3. Consistent(h, s, l, FALSE, L)
  <2>1. Consistent(h, s, listeners, FALSE, left \cup LeftByManager)
    BY <1>1, <1>2, ListManagerMade
  <2> QED BY <1>2, <2>1 DEF Consistent
<1>4. h \in [Addresses -> Object] /\ s \in [Members -> Addresses \cup {NULL}]
  <2>1. PICK h0, r0, O : h0 = heap /\ r0 = slot /\ O = Living
    OBVIOUS
  <2>2. Managed(h0, r0, h, s, m)
    BY <1>2, <2>1, ManagerMade
  <2> QED BY ONLY <2>2 DEF Managed
<1>5. Consistent(w, s, l, FALSE, L)
  BY <1>2, <1>3, <1>4, ConsistentWithout
<1>6. heap' = h \/ heap' = w
  BY <1>1, <1>2 DEF WithoutController
<1>7. slot' = s /\ listeners' = l /\ points' = FALSE /\ left' = L
  BY <1>1, <1>2 DEF LoadProgramWithoutData, InitializeSimulation
<1>8. L \cap Range(l) \subseteq L /\ L \subseteq Entry
  BY <1>3 DEF Consistent
<1> QED BY <1>3, <1>5, <1>6, <1>7, <1>8, ListConsistent

LEMMA ListKill == ASSUME Inv, ListInv, KillSimulation PROVE ListInv'
<1>1. CASE FinishFault # "none"
  <2>1. UNCHANGED <<heap, slot, listeners, points, left>>
    BY <1>1 DEF KillSimulation, Fail, commandVars
  <2> QED BY <2>1, ListKept
<1>2. CASE FinishFault = "none"
  <2>1. PICK h, s, l, p, L : /\ h = FinishedHeap /\ s = FinishedSlots /\ l = FinishedList
                             /\ p = points /\ L = left \cup LeftByRF
    OBVIOUS
  <2>2. PICK place \in [Made(s) -> {a \in Addresses : ~h[a].alive}] :
          /\ IsInjective(place)
          /\ heap' = PlacedHeap(h, Made(s), place)
          /\ slot' = PlacedSlots(s, Made(s), place)
          /\ listeners' = AllAdded(l, Made(s), place)
    <3>1. InitializeTracing(FinishedHeap, FinishedSlots, FinishedList, FALSE)
      BY <1>2 DEF KillSimulation
    <3>2. PICK place \in [Made(FinishedSlots) -> {a \in Addresses : ~FinishedHeap[a].alive}] :
            /\ IsInjective(place)
            /\ heap' = PlacedHeap(FinishedHeap, Made(FinishedSlots), place)
            /\ slot' = PlacedSlots(FinishedSlots, Made(FinishedSlots), place)
            /\ listeners' = AllAdded(FinishedList, Made(FinishedSlots), place)
      BY <3>1, Zenon DEF InitializeTracing, PlacedHeap, PlacedSlots, AllAdded, Added
    <3>3. Made(FinishedSlots) = Made(s)
      BY <2>1 DEF Made
    <3> QED BY <2>1, <3>2, <3>3, Zenon DEF PlacedHeap, PlacedSlots, AllAdded, Added
  <2>3. Consistent(h, s, l, p, L) /\ (p => s["manager"] # NULL)
    BY <2>1, ListFinished DEF Consistent, MembersLive, Told, Owned, Tracks, Range
  <2>4. h \in [Addresses -> Object] /\ s \in [Members -> Addresses \cup {NULL}]
    BY <2>1, TrackersDestroyed
  <2>5. PICK K : K = Made(s)
    OBVIOUS
  <2>6. K \in SUBSET Trackers
    BY <2>5, MadeTrackers DEF Inv
  <2>7. PICK h2, s2, m : /\ h2 = PlacedHeap(h, K, place) /\ s2 = PlacedSlots(s, K, place)
                         /\ m = AllAdded(l, K, place)
    OBVIOUS
  <2>8. Consistent(h2, s2, m, p, L) /\ s2["manager"] = s["manager"]
    BY <2>2, <2>3, <2>4, <2>5, <2>6, <2>7, ListBuilt
  <2>9. heap' = h2 /\ slot' = s2 /\ listeners' = m
    BY <2>2, <2>5, <2>7
  <2>10. points' = p /\ p \in BOOLEAN
    BY <1>2, <2>1 DEF KillSimulation, ListInv
  <2>11. PICK L2 : L2 = L \cap Range(m)
    OBVIOUS
  <2>12. left' = L2
    <3>1. left' = (left \cup LeftByRF) \cap ToSet(listeners')
      BY <1>2 DEF KillSimulation
    <3> QED BY <2>1, <2>9, <2>11, <3>1 DEF ToSet, Range
  <2>13. L \cap Range(m) \subseteq L2 /\ L2 \subseteq Entry
    BY <2>3, <2>11 DEF Consistent
  <2> QED BY <2>3, <2>8, <2>9, <2>10, <2>12, <2>13, ListConsistent
<1> QED BY <1>1, <1>2

LEMMA ListLoadProgram == ASSUME Inv, ListInv, LoadProgram PROVE ListInv'
<1>1. PICK m \in Addresses :
        /\ Vacant(m)
        /\ InitializeTracing(WithManager(m), [slot EXCEPT !["manager"] = m], listeners, traceDB)
  BY DEF LoadProgram
<1>2. PICK h, s, l, L : /\ h = WithManager(m) /\ s = [slot EXCEPT !["manager"] = m]
                        /\ l = listeners /\ L = left \cup LeftByManager
  OBVIOUS
<1>3. PICK place \in [Made(s) -> {a \in Addresses : ~h[a].alive}] :
        /\ IsInjective(place)
        /\ heap' = PlacedHeap(h, Made(s), place)
        /\ slot' = PlacedSlots(s, Made(s), place)
        /\ listeners' = AllAdded(l, Made(s), place)
  <2> DEFINE S == [slot EXCEPT !["manager"] = m]
  <2>1. PICK place \in [Made(S) -> {a \in Addresses : ~WithManager(m)[a].alive}] :
          /\ IsInjective(place)
          /\ heap' = PlacedHeap(WithManager(m), Made(S), place)
          /\ slot' = PlacedSlots(S, Made(S), place)
          /\ listeners' = AllAdded(listeners, Made(S), place)
    BY <1>1, Zenon DEF InitializeTracing, PlacedHeap, PlacedSlots, AllAdded, Added
  <2>2. Made(S) = Made(s) /\ WithManager(m) = h /\ S = s /\ listeners = l
    BY <1>2 DEF Made
  <2> HIDE DEF S
  <2> QED BY <2>1, <2>2, Zenon DEF PlacedHeap, PlacedSlots, AllAdded, Added
<1>4. Consistent(h, s, l, FALSE, L)
  <2>1. Consistent(h, s, listeners, FALSE, left \cup LeftByManager)
    BY <1>1, <1>2, ListManagerMade
  <2> QED BY <1>2, <2>1 DEF Consistent
<1>5. h \in [Addresses -> Object] /\ s \in [Members -> Addresses \cup {NULL}]
  <2>1. PICK h0, r0, O : h0 = heap /\ r0 = slot /\ O = Living
    OBVIOUS
  <2>2. Managed(h0, r0, h, s, m)
    BY <1>2, <2>1, ManagerMade
  <2> QED BY ONLY <2>2 DEF Managed
<1>6. PICK K : K = Made(s)
  OBVIOUS
<1>7. K \in SUBSET Trackers
  BY <1>6, MadeTrackers DEF Inv
<1>8. PICK h2, s2, n : /\ h2 = PlacedHeap(h, K, place) /\ s2 = PlacedSlots(s, K, place)
                       /\ n = AllAdded(l, K, place)
  OBVIOUS
<1>9. Consistent(h2, s2, n, FALSE, L)
  BY <1>3, <1>4, <1>5, <1>6, <1>7, <1>8, ListBuilt
<1>10. heap' = h2 /\ slot' = s2 /\ listeners' = n
  BY <1>3, <1>6, <1>8
<1>11. points' = FALSE /\ left' = L
  BY <1>2 DEF LoadProgram, InitializeSimulation
<1>12. L \cap Range(n) \subseteq L /\ L \subseteq Entry
  BY <1>4 DEF Consistent
<1> QED BY <1>9, <1>10, <1>11, <1>12, ListConsistent

(* The manager registers with its first stop point,                        *)
LEMMA ListAddFirst == ASSUME Inv, ListInv, AddFirstStopPoint PROVE ListInv'
<1>1. PICK l, s, m : /\ l = listeners /\ s = slot
                     /\ m = Registered(l, "SE_NEW_INSTRUCTION", s["manager"])
  OBVIOUS
<1>2. /\ listeners' = m /\ points' = TRUE
      /\ UNCHANGED <<heap, slot, left>> /\ s["manager"] # NULL
  BY <1>1 DEF AddFirstStopPoint
<1>3. s["manager"] \in Addresses /\ l \in Lists /\ "SE_NEW_INSTRUCTION" \in Events
  BY <1>1, <1>2 DEF Inv, Shape, Members, ListInv, Events
<1>4. m \in Lists /\ Range(m) = Range(l) \cup {<<"SE_NEW_INSTRUCTION", s["manager"]>>}
  BY <1>1, <1>3, RegisteredList
<1>5. Told(heap, Range(m))
  BY <1>1, <1>4 DEF ListInv, Told
<1>6. Owned(heap, s, Range(m), TRUE, left)
  <2>1. Owned(heap, s, Range(l), points, left)
    BY <1>1 DEF ListInv
  <2> QED BY <1>4, <2>1 DEF Owned
<1>7. MembersLive(heap, slot)'
  BY <1>2 DEF ListInv, MembersLive
<1> QED BY <1>1, <1>2, <1>4, <1>5, <1>6, <1>7 DEF ListInv, Told, Owned, Tracks, Range

(* and unregisters with its last one, by a command or in its handler.      *)
LEMMA ListDeleteLast ==
    ASSUME Inv, ListInv, slot["manager"] \in Addresses, points' = FALSE,
           listeners' = Unregistered(listeners, "SE_NEW_INSTRUCTION", slot["manager"]),
           UNCHANGED <<heap, slot, left>>
    PROVE  ListInv' /\ Len(listeners') \in {Len(listeners), Len(listeners) - 1}
<1>1. PICK l, s, m : /\ l = listeners /\ s = slot
                     /\ m = Unregistered(l, "SE_NEW_INSTRUCTION", s["manager"])
  OBVIOUS
<1>2. s["manager"] \in Addresses /\ l \in Lists /\ "SE_NEW_INSTRUCTION" \in Events
  BY <1>1 DEF ListInv, Events
<1>3. /\ m \in Lists /\ Range(m) = Range(l) \ {<<"SE_NEW_INSTRUCTION", s["manager"]>>}
      /\ Len(m) \in {Len(l), Len(l) - 1}
  BY <1>1, <1>2, UnregisteredList
<1>4. listeners' = m
  BY <1>1
<1>5. Told(heap, Range(m))
  BY <1>1, <1>3 DEF ListInv, Told
<1>6. Owned(heap, s, Range(m), FALSE, left)
  <2>1. Owned(heap, s, Range(l), points, left)
    BY <1>1 DEF ListInv
  <2> QED BY <1>3, <2>1 DEF Owned
<1>7. MembersLive(heap, slot)'
  BY DEF ListInv, MembersLive
<1>8. ListInv'
  <2>1. Told(heap, Range(listeners))'
    BY <1>4, <1>5 DEF Told, Tracks, Range
  <2>2. Owned(heap, slot, Range(listeners), points, left)'
    BY <1>1, <1>4, <1>6 DEF Owned, Tracks, Range
  <2> QED BY <1>3, <1>4, <1>7, <2>1, <2>2 DEF ListInv
<1> QED BY <1>1, <1>3, <1>4, <1>8

(* What the loop finds at its index                                        *)
LEMMA AtIndex ==
    ASSUME ListInv, index \in Nat, index # 0, index <= Len(listeners)
    PROVE  /\ index \in DOMAIN listeners
           /\ listeners[index] \in Entry
           /\ listeners[index] \in Range(listeners)
           /\ listeners[index] = <<listeners[index][1], listeners[index][2]>>
           /\ listeners[index][2] \in Addresses
<1>1. listeners \in Seq(Entry)
  BY DEF ListInv, Lists
<1>2. index \in DOMAIN listeners /\ listeners[index] \in Entry
  BY <1>1
<1> QED BY <1>2 DEF Range, Entry

LEMMA ListNotifyLast ==
    ASSUME Inv, ListInv, index \in Nat, index # 0, NotifyLastStopPoint
    PROVE  ListInv' /\ Len(listeners') \in {Len(listeners), Len(listeners) - 1}
<1>1. listeners[index][2] = slot["manager"]
  BY DEF NotifyLastStopPoint
<1>2. slot["manager"] \in Addresses
  BY <1>1, AtIndex DEF NotifyLastStopPoint, Looping
<1> QED BY <1>2, ListDeleteLast DEF NotifyLastStopPoint

-----------------------------------------------------------------------------
(* The loop over the listeners                                             *)

Faults == {"none", "listener", "subject", "database", "assertion"}

(* Until the loop has reached the entry of a listener it was not called,   *)
(* from then on it was called once.                                        *)
Counted ==
    event = "SE_CYCLE_END" /\ <<"SE_CYCLE_END", slot["manager"]>> \notin left =>
        \A a \in Addresses :
            heard[a] = IF \E j \in DOMAIN listeners : j < index /\ listeners[j] = <<event, a>>
                       THEN 1 ELSE 0

LoopInv ==
    /\ event \in Events \cup {NULL}
    /\ index \in 0 .. Len(listeners) + 2
    /\ event = NULL <=> index = 0
    /\ heard \in [Addresses -> Nat]
    /\ fault \in Faults
    /\ Counted

LEMMA LengthNat == ASSUME NEW l \in Lists PROVE Len(l) \in Nat /\ DOMAIN l = 1 .. Len(l)
BY DEF Lists

LEMMA LoopInit == ASSUME Init PROVE LoopInv
<1>1. Len(listeners) = 0 /\ event # "SE_CYCLE_END"
  BY NULLAssumption DEF Init, Events
<1> QED BY <1>1 DEF Init, LoopInv, Counted, Faults

(* A command runs while no event is sent.                                  *)
LEMMA LoopCommand ==
    ASSUME LoopInv, event = NULL, UNCHANGED loopVars, fault' \in Faults, listeners' \in Lists
    PROVE  LoopInv'
<1>1. event' = NULL /\ index' = 0 /\ heard' = heard /\ NULL # "SE_CYCLE_END"
  BY NULLAssumption DEF LoopInv, loopVars, Events
<1>2. PICK l \in Lists : l = listeners'
  OBVIOUS
<1>3. index' \in 0 .. Len(listeners') + 2
  BY <1>1, <1>2, LengthNat
<1> QED BY <1>1, <1>3 DEF LoopInv, Counted

LEMMA FaultKinds == FinishFault \in Faults /\ \A o : HandlerFault(o) \in Faults
BY DEF FinishFault, HandlerFault, Faults

LEMMA LoopPost ==
    ASSUME ListInv, LoopInv, NEW e \in Events, Post(e)
    PROVE  LoopInv'
<1>1. /\ event' = e /\ index' = 1 /\ heard' = [a \in Addresses |-> 0]
      /\ UNCHANGED <<listeners, slot, left, fault>>
  BY DEF Post, commandVars
<1>2. Len(listeners) \in Nat /\ DOMAIN listeners = 1 .. Len(listeners)
  BY LengthNat DEF ListInv
<1>3. e # NULL
  BY NULLAssumption
<1>4. Counted'
  BY <1>1, <1>2 DEF Counted
<1> QED BY <1>1, <1>2, <1>3, <1>4 DEF LoopInv

LEMMA LoopPassOver == ASSUME ListInv, LoopInv, PassOver PROVE LoopInv'
<1>1. /\ index' = index + 1 /\ UNCHANGED <<listeners, slot, left, fault, event, heard>>
      /\ index <= Len(listeners) /\ event # NULL /\ listeners[index][1] # event
  BY DEF PassOver, Looping, commandVars
<1>2. Len(listeners) \in Nat /\ DOMAIN listeners = 1 .. Len(listeners)
  BY LengthNat DEF ListInv
<1>3. index \in Nat /\ index # 0
  BY <1>1, <1>2 DEF LoopInv
<1>4. Counted'
  <2>1. \A a \in Addresses : listeners[index] # <<event, a>>
    BY <1>1
  <2>2. \A a \in Addresses :
          (\E j \in DOMAIN listeners : j < index + 1 /\ listeners[j] = <<event, a>>)
          <=> (\E j \in DOMAIN listeners : j < index /\ listeners[j] = <<event, a>>)
    BY <1>2, <1>3, <2>1
  <2> QED BY <1>1, <2>2 DEF LoopInv, Counted
<1> QED BY <1>1, <1>2, <1>3, <1>4 DEF LoopInv

LEMMA LoopNotify == ASSUME ListInv, LoopInv, Notify PROVE LoopInv'
<1>1. /\ index <= Len(listeners) /\ event # NULL /\ listeners[index][1] = event
  BY DEF Notify, Looping
<1>2. Len(listeners) \in Nat /\ DOMAIN listeners = 1 .. Len(listeners)
  BY LengthNat DEF ListInv
<1>3. index \in Nat /\ index # 0
  BY <1>1, <1>2 DEF LoopInv
<1>4. PICK b : b = listeners[index][2]
  OBVIOUS
<1>5. b \in Addresses /\ index \in DOMAIN listeners /\ listeners[index] = <<event, b>>
  BY <1>1, <1>3, <1>4, AtIndex
<1>6. CASE HandlerFault(heap[b]) # "none"
  <2>1. fault' = HandlerFault(heap[b]) /\ UNCHANGED <<listeners, slot, left, event, index, heard>>
    BY <1>4, <1>6 DEF Notify, Fail, commandVars, loopVars
  <2>2. fault' \in Faults
    BY <2>1, FaultKinds
  <2> QED BY <2>1, <2>2 DEF LoopInv, Counted
<1>7. CASE HandlerFault(heap[b]) = "none"
  <2>1. /\ heard' = [heard EXCEPT ![b] = @ + 1] /\ index' = index + 1
        /\ UNCHANGED <<listeners, slot, left, event, fault>>
    BY <1>4, <1>7 DEF Notify, commandVars
  <2>2. \A j \in DOMAIN listeners : listeners[j] = <<event, b>> => j = index
    BY <1>5 DEF ListInv, Lists, IsInjective
  <2>3. \A a \in Addresses : a # b =>
          ((\E j \in DOMAIN listeners : j < index + 1 /\ listeners[j] = <<event, a>>)
           <=> (\E j \in DOMAIN listeners : j < index /\ listeners[j] = <<event, a>>))
    BY <1>2, <1>3, <1>5
  <2>4. /\ ~ \E j \in DOMAIN listeners : j < index /\ listeners[j] = <<event, b>>
        /\ \E j \in DOMAIN listeners : j < index + 1 /\ listeners[j] = <<event, b>>
    BY <1>2, <1>3, <1>5, <2>2
  <2>5. heard' \in [Addresses -> Nat] /\ heard'[b] = heard[b] + 1
        /\ \A a \in Addresses : a # b => heard'[a] = heard[a]
    BY <1>5, <2>1 DEF LoopInv
  <2>6. Counted'
    <3>1. SUFFICES ASSUME event = "SE_CYCLE_END", <<"SE_CYCLE_END", slot["manager"]>> \notin left,
                          NEW a \in Addresses
                   PROVE  heard'[a] = IF \E j \in DOMAIN listeners :
                                              j < index + 1 /\ listeners[j] = <<event, a>>
                                      THEN 1 ELSE 0
      BY <2>1 DEF Counted
    <3>2. heard[a] = IF \E j \in DOMAIN listeners : j < index /\ listeners[j] = <<event, a>>
                     THEN 1 ELSE 0
      BY <3>1 DEF LoopInv, Counted
    <3>3. CASE a = b
      BY <2>4, <2>5, <3>2, <3>3
    <3>4. CASE a # b
      BY <2>3, <2>5, <3>2, <3>4
    <3> QED BY <3>3, <3>4
  <2> QED BY <1>1, <1>2, <1>3, <2>1, <2>5, <2>6 DEF LoopInv
<1> QED BY <1>6, <1>7

(* A manager that is called for SE_CYCLE_END has the entry of a destroyed  *)
(* register file tracker.                                                  *)
LEMMA ManagerNotTracker ==
    ASSUME Inv, ListInv, slot["manager"] \in Addresses,
           <<"SE_CYCLE_END", slot["manager"]>> \in Range(listeners)
    PROVE  <<"SE_CYCLE_END", slot["manager"]>> \in left
<1>1. slot["manager"] # NULL /\ "manager" \in Members
  BY NULLAssumption DEF Members
<1>2. ~Tracks(heap, slot["manager"])
  BY <1>1 DEF ListInv, MembersLive, Tracks, Trackers
<1> QED BY <1>2 DEF ListInv, Owned

LEMMA LoopNotifyLast == ASSUME Inv, ListInv, LoopInv, NotifyLastStopPoint PROVE LoopInv'
<1>1. /\ index <= Len(listeners) /\ event # NULL
      /\ listeners[index] = <<event, slot["manager"]>>
      /\ heard' = [heard EXCEPT ![slot["manager"]] = @ + 1] /\ index' = index + 1
      /\ UNCHANGED <<slot, left, event, fault>>
  BY DEF NotifyLastStopPoint, Looping
<1>2. Len(listeners) \in Nat
  BY LengthNat DEF ListInv
<1>3. index \in Nat /\ index # 0
  BY <1>1, <1>2 DEF LoopInv
<1>4. /\ listeners[index] \in Range(listeners) /\ slot["manager"] \in Addresses
  BY <1>1, <1>3, AtIndex
<1>5. event = "SE_CYCLE_END" => <<"SE_CYCLE_END", slot["manager"]>> \in left
  BY <1>1, <1>4, ManagerNotTracker
<1>6. Counted'
  BY <1>1, <1>5 DEF Counted
<1>7. Len(listeners') \in {Len(listeners), Len(listeners) - 1}
  BY <1>3, ListNotifyLast
<1>8. index' \in 0 .. Len(listeners') + 2
  BY <1>1, <1>2, <1>3, <1>7
<1>9. heard' \in [Addresses -> Nat]
  BY <1>1, <1>4 DEF LoopInv
<1> QED BY <1>1, <1>3, <1>6, <1>8, <1>9 DEF LoopInv

LEMMA LoopEndEvent == ASSUME ListInv, LoopInv, EndEvent PROVE LoopInv'
<1>1. /\ event' = NULL /\ index' = 0 /\ heard' = [a \in Addresses |-> 0]
      /\ UNCHANGED <<listeners, fault>> /\ NULL # "SE_CYCLE_END"
  BY NULLAssumption DEF EndEvent, commandVars, Events
<1>2. Len(listeners) \in Nat
  BY LengthNat DEF ListInv
<1> QED BY <1>1, <1>2 DEF LoopInv, Counted

-----------------------------------------------------------------------------
(* Every step keeps Inv, ListInv and LoopInv.                              *)

Inductive == Inv /\ ListInv /\ LoopInv

LEMMA InductiveInit == ASSUME Init PROVE Inductive
BY InvInit, ListInit, LoopInit DEF Inductive

LEMMA CommandsInductive ==
    ASSUME Inductive,
           \/ LoadMachine \/ LoadProgram \/ LoadProgramWithoutData \/ LoadProgramFails
           \/ KillSimulation \/ AddFirstStopPoint \/ DeleteLastStopPoint
           \/ \E k \in Trackers : SetTracing(k)
    PROVE  Inductive'
<1>1. Inv /\ ListInv /\ LoopInv
  BY DEF Inductive
<1>2. event = NULL /\ UNCHANGED loopVars /\ fault' \in {fault, FinishFault}
  BY DEF LoadMachine, LoadProgram, LoadProgramWithoutData, LoadProgramFails,
         InitializeSimulation, KillSimulation, AddFirstStopPoint, DeleteLastStopPoint,
         SetTracing, Ready, Fail, vars
<1>3. fault' \in Faults
  BY <1>1, <1>2, FaultKinds DEF LoopInv
<1>4. Inv'
  BY <1>1, InvLoadMachine, InvLoadProgram, InvLoadProgramWithoutData, InvLoadProgramFails,
     InvKill, InvOthers
<1>5. ListInv'
  <2>1. CASE \/ LoadMachine \/ LoadProgram \/ LoadProgramWithoutData
             \/ LoadProgramFails \/ KillSimulation
    BY <1>1, <2>1, ListLoadMachine, ListLoadProgram, ListLoadProgramWithoutData,
       ListLoadProgramFails, ListKill
  <2>2. CASE AddFirstStopPoint
    BY <1>1, <2>2, ListAddFirst
  <2>3. CASE DeleteLastStopPoint
    <3>1. slot["manager"] \in Addresses
      BY <1>1, <2>3 DEF DeleteLastStopPoint, Inv, Shape, Members, ListInv
    <3> QED BY <1>1, <2>3, <3>1, ListDeleteLast DEF DeleteLastStopPoint
  <2>4. CASE \E k \in Trackers : SetTracing(k)
    BY <1>1, <2>4, ListKept DEF SetTracing
  <2> QED BY <2>1, <2>2, <2>3, <2>4
<1>6. listeners' \in Lists
  BY <1>5 DEF ListInv
<1>7. LoopInv'
  BY <1>1, <1>2, <1>3, <1>6, LoopCommand
<1> QED BY <1>4, <1>5, <1>7 DEF Inductive

LEMMA EventsInductive ==
    ASSUME Inductive,
           \/ SimulateCycle \/ EndCommand \/ PassOver \/ Notify \/ NotifyLastStopPoint
           \/ NewInstruction \/ EndEvent \/ UNCHANGED vars
    PROVE  Inductive'
<1>1. Inv /\ ListInv /\ LoopInv
  BY DEF Inductive
<1>2. Inv'
  BY <1>1, InvOthers
<1>3. CASE SimulateCycle \/ EndCommand \/ NewInstruction
  <2>1. PICK e \in Events : Post(e)
    BY <1>3 DEF SimulateCycle, EndCommand, NewInstruction, Events
  <2>2. ListInv'
    BY <1>1, <2>1, ListKept DEF Post, commandVars
  <2>3. LoopInv'
    BY <1>1, <2>1, LoopPost
  <2> QED BY <1>2, <2>2, <2>3 DEF Inductive
<1>4. CASE PassOver \/ Notify \/ EndEvent
  <2>1. ListInv'
    BY <1>1, <1>4, ListKept DEF PassOver, Notify, Fail, EndEvent, commandVars
  <2>2. LoopInv'
    BY <1>1, <1>4, LoopPassOver, LoopNotify, LoopEndEvent
  <2> QED BY <1>2, <2>1, <2>2 DEF Inductive
<1>5. CASE NotifyLastStopPoint
  <2>1. Len(listeners) \in Nat
    BY <1>1, LengthNat DEF ListInv
  <2>2. index \in Nat /\ index # 0
    BY <1>1, <1>5, <2>1 DEF LoopInv, NotifyLastStopPoint, Looping
  <2>3. ListInv' /\ LoopInv'
    BY <1>1, <1>5, <2>2, ListNotifyLast, LoopNotifyLast
  <2> QED BY <1>2, <2>3 DEF Inductive
<1>6. CASE UNCHANGED vars
  <2>1. ListInv'
    BY <1>1, <1>6, ListKept DEF vars
  <2>2. LoopInv'
    BY <1>1, <1>6 DEF vars, LoopInv, Counted
  <2> QED BY <1>2, <2>1, <2>2 DEF Inductive
<1> QED BY <1>3, <1>4, <1>5, <1>6

LEMMA Invariance == Spec => []Inductive
<1>1. Init => Inductive
  BY InductiveInit
<1>2. Inductive /\ [Next]_vars => Inductive'
  BY CommandsInductive, EventsInductive DEF Next
<1> QED BY <1>1, <1>2, PTL DEF Spec

(* The types hold, and the index of the loop of handleEvent ends at most   *)
(* one place behind a list that a handler shortened.                       *)
THEOREM TypesKept == Spec => []TypeOK
<1>1. Inductive => TypeOK
  <2>1. SUFFICES ASSUME Inv, ListInv, LoopInv PROVE TypeOK
    BY DEF Inductive
  <2>2. \A i \in DOMAIN listeners : listeners[i] \in Events \X Addresses
    BY <2>1 DEF ListInv, Lists, Entry
  <2> QED BY <2>1, <2>2 DEF TypeOK, Inv, Shape, ListInv, LoopInv, Entry, Members, Faults
<1> QED BY <1>1, Invariance, PTL

(* Whatever was destroyed and made before, an entry of the list is of a    *)
(* living object that asked for this event, or a destructor left it: that  *)
(* of a register file tracker, or that of a manager with stop points.      *)
THEOREM OnlyLeftEntriesDangle == Spec => []DanglingEntries
<1>1. Inductive => DanglingEntries
  <2>1. SUFFICES ASSUME Inv, ListInv, NEW i \in DOMAIN listeners
                 PROVE  Asked(listeners[i][1], listeners[i][2]) \/ listeners[i] \in left
    BY DEF Inductive, DanglingEntries
  <2>2. PICK e \in Events, a \in Addresses : listeners[i] = <<e, a>>
    BY <2>1 DEF ListInv, Lists, Entry
  <2>3. <<e, a>> \in Range(listeners)
    BY <2>2 DEF Range
  <2>4. Owned(heap, slot, Range(listeners), points, left) /\ MembersLive(heap, slot)
    BY <2>1 DEF ListInv
  <2>5. Asked(e, a) \/ <<e, a>> \in left
    <3>1. CASE e = "SE_CYCLE_END"
      BY <2>3, <2>4, <3>1 DEF Owned, Asked, Tracks
    <3>2. CASE e = "SE_SIMULATION_STOPPED"
      BY <2>3, <2>4, <3>2 DEF Owned, Asked
    <3>3. CASE e = "SE_NEW_INSTRUCTION"
      <4>1. slot["manager"] = a => heap[a].alive
        BY <2>4, NULLAssumption DEF MembersLive, Members
      <4> QED BY <2>3, <2>4, <3>3, <4>1 DEF Owned, Asked
    <3> QED BY <3>1, <3>2, <3>3 DEF Events
  <2> QED BY <2>2, <2>5
<1> QED BY <1>1, Invariance, PTL

(* A living tracker, also one that prog outlived, is told of the end of    *)
(* every cycle exactly once, unless the stop point manager lives where a   *)
(* register file tracker was.                                              *)
THEOREM ToldExactlyOnce == Spec => []HeardOnce
<1>1. Inductive => HeardOnce
  <2>1. SUFFICES ASSUME Inv, ListInv, LoopInv, event = "SE_CYCLE_END", Handled,
                        NEW a \in Addresses, a \in Living,
                        <<"SE_CYCLE_END", slot["manager"]>> \notin left
                 PROVE  heard[a] = 1
    BY DEF Inductive, HeardOnce, Living
  <2>2. Tracks(heap, a)
    BY <2>1 DEF Living, Tracks
  <2>3. <<"SE_CYCLE_END", a>> \in Range(listeners)
    BY <2>1, <2>2 DEF ListInv, Told
  <2>4. PICK j \in DOMAIN listeners : listeners[j] = <<"SE_CYCLE_END", a>>
    BY <2>3 DEF Range
  <2>5. Len(listeners) \in Nat /\ DOMAIN listeners = 1 .. Len(listeners)
    BY <2>1, LengthNat DEF ListInv
  <2>6. j < index
    BY <2>1, <2>5 DEF Handled, LoopInv
  <2> QED BY <2>1, <2>4, <2>6 DEF LoopInv, Counted
<1> QED BY <1>1, Invariance, PTL
=============================================================================

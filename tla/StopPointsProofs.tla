-------------------------- MODULE StopPointsProofs --------------------------
(***************************************************************************)
(* Proofs about StopPoints: the types, the list of handles and the         *)
(* registration of the manager, the stop points reported, and the          *)
(* implementation of DebuggerStops, for all bounds.                        *)
(***************************************************************************)
EXTENDS StopPoints, TLAPS

-----------------------------------------------------------------------------
(* Types                                                                   *)

(* The fields of a stop point                                              *)
LEMMA Fields ==
    ASSUME NEW p \in StopPoint
    PROVE  /\ p.watch \in BOOLEAN /\ p.addr \in Addresses /\ p.enabled \in BOOLEAN
           /\ p.disableAfter \in BOOLEAN /\ p.deleteAfter \in BOOLEAN
           /\ p.ignore \in Nat /\ p.conditional \in BOOLEAN /\ p.result \in Values
BY DEF StopPoint

(* Changing what the commands and the event may change keeps the type.     *)
LEMMA ChangedType ==
    ASSUME NEW p \in StopPoint, NEW e \in BOOLEAN, NEW d \in BOOLEAN, NEW x \in BOOLEAN,
           NEW n \in Nat, NEW c \in BOOLEAN, NEW r \in Values
    PROVE  /\ [p EXCEPT !.enabled = e] \in StopPoint
           /\ [p EXCEPT !.enabled = e, !.deleteAfter = x] \in StopPoint
           /\ [p EXCEPT !.enabled = e, !.disableAfter = d] \in StopPoint
           /\ [p EXCEPT !.ignore = n] \in StopPoint
           /\ [p EXCEPT !.conditional = c] \in StopPoint
           /\ [p EXCEPT !.result = r] \in StopPoint
           /\ [p EXCEPT !.enabled = e, !.ignore = n, !.result = r] \in StopPoint
BY DEF StopPoint

(* handleEvent keeps the type of a stop point.                             *)
LEMMA VisitedType ==
    ASSUME TypeOK, NEW h \in DOMAIN stopPoints, NEW a \in Addresses, NEW v \in Values,
           NEW c \in Nat
    PROVE  Visited(h, a, v, c) \in StopPoint
<1> DEFINE p == stopPoints[h]
           acts == p.enabled /\ IsTriggered(h, a, v, c) /\ IsConditionOK(h, v)
           e == p.enabled /\ ~ (acts /\ p.ignore = 0 /\ p.disableAfter)
           n == IF acts /\ p.ignore > 0 THEN p.ignore - 1 ELSE p.ignore
           r == IF p.enabled /\ Looks(h, c) THEN v ELSE p.result
<1>1. p \in StopPoint
  BY DEF TypeOK
<1>2. Visited(h, a, v, c) = [p EXCEPT !.enabled = e, !.ignore = n, !.result = r]
  BY DEF Visited
<1>3. e \in BOOLEAN
  BY <1>1, Fields, Zenon
<1>4. n \in Nat
  <2>1. p.ignore \in Nat
    BY <1>1, Fields
  <2> HIDE DEF p, acts
  <2> QED
    BY <2>1
<1>5. r \in Values
  BY <1>1, Fields
<1> HIDE DEF p, acts, e, n, r
<1>6. [p EXCEPT !.enabled = e, !.ignore = n, !.result = r] \in StopPoint
  BY <1>1, <1>3, <1>4, <1>5 DEF StopPoint
<1> QED
  BY <1>2, <1>6, Zenon

-----------------------------------------------------------------------------
(* Commands                                                                *)

(* The commands that change options of a stop point                        *)
Tune ==
    \/ \E h \in DOMAIN stopPoints \cap Tuned : Enable(h)
    \/ \E h \in DOMAIN stopPoints \cap Tuned : EnableOnceAndDelete(h)
    \/ \E h \in DOMAIN stopPoints \cap Tuned : EnableOnceAndDisable(h)
    \/ \E h \in DOMAIN stopPoints \cap Tuned : Disable(h)
    \/ \E h \in DOMAIN stopPoints \cap Tuned, n \in 0 .. MaxIgnore : SetIgnore(h, n)
    \/ \E h \in DOMAIN stopPoints \cap Tuned, c \in BOOLEAN : SetCondition(h, c)

SameTarget(p, q) == p.watch = q.watch /\ p.addr = q.addr /\ p.result = q.result

(* They replace one stop point by one that waits for the same.             *)
LEMMA TuneEffect ==
    ASSUME TypeOK, Tune
    PROVE  \E h \in DOMAIN stopPoints, p \in StopPoint :
               Set(h, p) /\ SameTarget(p, stopPoints[h])
<1>0. ASSUME NEW h \in DOMAIN stopPoints
      PROVE  stopPoints[h] \in StopPoint
  BY <1>0 DEF TypeOK
<1>1. ASSUME NEW h \in DOMAIN stopPoints, Enable(h)
      PROVE  \E p \in StopPoint : Set(h, p) /\ SameTarget(p, stopPoints[h])
  <2>1. [stopPoints[h] EXCEPT !.enabled = TRUE] \in StopPoint
    BY <1>0, <1>1 DEF StopPoint
  <2>2. SameTarget([stopPoints[h] EXCEPT !.enabled = TRUE], stopPoints[h])
    BY <1>0, <1>1 DEF StopPoint, SameTarget
  <2> QED
    BY <1>1, <2>1, <2>2, Zenon DEF Enable
<1>2. ASSUME NEW h \in DOMAIN stopPoints, EnableOnceAndDelete(h)
      PROVE  \E p \in StopPoint : Set(h, p) /\ SameTarget(p, stopPoints[h])
  <2>1. [stopPoints[h] EXCEPT !.enabled = TRUE, !.deleteAfter = TRUE] \in StopPoint
    BY <1>0, <1>2 DEF StopPoint
  <2>2. SameTarget([stopPoints[h] EXCEPT !.enabled = TRUE, !.deleteAfter = TRUE], stopPoints[h])
    BY <1>0, <1>2 DEF StopPoint, SameTarget
  <2> QED
    BY <1>2, <2>1, <2>2, Zenon DEF EnableOnceAndDelete
<1>3. ASSUME NEW h \in DOMAIN stopPoints, EnableOnceAndDisable(h)
      PROVE  \E p \in StopPoint : Set(h, p) /\ SameTarget(p, stopPoints[h])
  <2>1. [stopPoints[h] EXCEPT !.enabled = TRUE, !.disableAfter = TRUE] \in StopPoint
    BY <1>0, <1>3 DEF StopPoint
  <2>2. SameTarget([stopPoints[h] EXCEPT !.enabled = TRUE, !.disableAfter = TRUE], stopPoints[h])
    BY <1>0, <1>3 DEF StopPoint, SameTarget
  <2> QED
    BY <1>3, <2>1, <2>2, Zenon DEF EnableOnceAndDisable
<1>4. ASSUME NEW h \in DOMAIN stopPoints, Disable(h)
      PROVE  \E p \in StopPoint : Set(h, p) /\ SameTarget(p, stopPoints[h])
  <2>1. [stopPoints[h] EXCEPT !.enabled = FALSE] \in StopPoint
    BY <1>0, <1>4 DEF StopPoint
  <2>2. SameTarget([stopPoints[h] EXCEPT !.enabled = FALSE], stopPoints[h])
    BY <1>0, <1>4 DEF StopPoint, SameTarget
  <2> QED
    BY <1>4, <2>1, <2>2, Zenon DEF Disable
<1>5. ASSUME NEW h \in DOMAIN stopPoints, NEW n \in 0 .. MaxIgnore, SetIgnore(h, n)
      PROVE  \E p \in StopPoint : Set(h, p) /\ SameTarget(p, stopPoints[h])
  <2>1. [stopPoints[h] EXCEPT !.ignore = n] \in StopPoint
    BY <1>0, <1>5, BoundsAssumption DEF StopPoint
  <2>2. SameTarget([stopPoints[h] EXCEPT !.ignore = n], stopPoints[h])
    BY <1>0, <1>5 DEF StopPoint, SameTarget
  <2> QED
    BY <1>5, <2>1, <2>2, Zenon DEF SetIgnore
<1>6. ASSUME NEW h \in DOMAIN stopPoints, NEW c \in BOOLEAN, SetCondition(h, c)
      PROVE  \E p \in StopPoint : Set(h, p) /\ SameTarget(p, stopPoints[h])
  <2>1. [stopPoints[h] EXCEPT !.conditional = c] \in StopPoint
    BY <1>0, <1>6 DEF StopPoint
  <2>2. SameTarget([stopPoints[h] EXCEPT !.conditional = c], stopPoints[h])
    BY <1>0, <1>6 DEF StopPoint, SameTarget
  <2> QED
    BY <1>6, <2>1, <2>2, Zenon DEF SetCondition
<1> QED
  BY <1>1, <1>2, <1>3, <1>4, <1>5, <1>6, Zenon DEF Tune

(* The commands that add a stop point                                      *)
New ==
    \/ \E a \in Addresses, t \in BOOLEAN : AddBreakpoint(a, t)
    \/ AddWatch

(* They add an enabled one that knows the present value.                   *)
LEMMA NewEffect ==
    ASSUME TypeOK, New
    PROVE  /\ state \in {"initialized", "stopped", "finished"}
           /\ \E p \in StopPoint : Add(p) /\ p.enabled /\ p.result = value
<1>0. value \in Values /\ 0 \in Nat
  BY DEF TypeOK
<1>1. ASSUME NEW a \in Addresses, NEW t \in BOOLEAN, AddBreakpoint(a, t)
      PROVE  \E p \in StopPoint : Add(p) /\ p.enabled /\ p.result = value
  <2> DEFINE p == [watch |-> FALSE, addr |-> a, enabled |-> TRUE, disableAfter |-> FALSE,
                   deleteAfter |-> t, ignore |-> 0, conditional |-> FALSE, result |-> value]
  <2>1. p \in StopPoint
    BY <1>0, <1>1 DEF StopPoint
  <2>2. p.enabled /\ p.result = value
    OBVIOUS
  <2>3. Add(p)
    BY <1>1 DEF AddBreakpoint
  <2> QED
    BY <2>1, <2>2, <2>3, Zenon
<1>2. ASSUME AddWatch
      PROVE  \E p \in StopPoint : Add(p) /\ p.enabled /\ p.result = value
  <2> DEFINE p == [watch |-> TRUE, addr |-> 0, enabled |-> TRUE, disableAfter |-> FALSE,
                   deleteAfter |-> FALSE, ignore |-> 0, conditional |-> FALSE, result |-> value]
  <2>1. p \in StopPoint
    BY <1>0, AddressesAssumption DEF StopPoint
  <2>2. p.enabled /\ p.result = value
    OBVIOUS
  <2>3. Add(p)
    BY <1>2 DEF AddWatch
  <2> QED
    BY <2>1, <2>2, <2>3, Zenon
<1>3. state \in {"initialized", "stopped", "finished"}
  BY Zenon DEF New, AddBreakpoint, AddWatch, Idle
<1> QED
  BY <1>1, <1>2, <1>3, Zenon DEF New

(* The next-state relation in these terms                                  *)
LEMMA Steps ==
    ASSUME Next
    PROVE  \/ New
           \/ \E h \in DOMAIN stopPoints : DeleteStopPoint(h)
           \/ DeleteAll
           \/ \E h \in DOMAIN stopPoints : DeleteTriggered(h)
           \/ Tune
           \/ Start
           \/ \E a \in Addresses, v \in Values : SimulateCycle(a, v)
           \/ \E v \in Values : SimulateLastCycle(v)
           \/ \E v \in Values : SimulateFailingCycle(v)
           \/ PrintStopReasons
           \/ EndCommand
           \/ \E v \in Values : Kill(v)
BY Zenon DEF Next, New, Tune

-----------------------------------------------------------------------------
(* The list of handles                                                     *)

Listed == {handles[i] : i \in DOMAIN handles}
Distinct == \A i, j \in DOMAIN handles : handles[i] = handles[j] => i = j

(* Erasing an entry of a list without repetitions removes just that.       *)
LEMMA ErasedList ==
    ASSUME handles \in Seq(Handles), Distinct, NEW h \in Listed,
           handles' = Erased(h)
    PROVE  /\ handles' \in Seq(Handles)
           /\ Listed' = Listed \ {h}
           /\ Distinct'
<1> DEFINE P(i) == handles[i] = h /\ \A j \in DOMAIN handles : handles[j] = h => i <= j
<1>1. PICK k \in DOMAIN handles : handles[k] = h
  BY DEF Listed
<1>2. P(k)
  BY <1>1 DEF Distinct
<1>3. PICK i \in DOMAIN handles : i = CHOOSE j \in DOMAIN handles : P(j)
  BY <1>2, Zenon
<1>4. handles[i] = h
  BY <1>2, <1>3, Zenon
<1>5. DOMAIN handles = 1 .. Len(handles) /\ Len(handles) \in Nat
  OBVIOUS
<1>6. handles' = [j \in 1 .. Len(handles) - 1 |-> IF j < i THEN handles[j] ELSE handles[j + 1]]
  BY <1>3, Zenon DEF Erased
<1> HIDE DEF P
<1>7. handles' \in Seq(Handles)
  BY <1>5, <1>6
<1>8. DOMAIN handles' = 1 .. Len(handles) - 1
  BY <1>6
<1>9. ASSUME NEW j \in DOMAIN handles'
      PROVE  \E l \in DOMAIN handles : l # i /\ handles'[j] = handles[l]
                                       /\ l = IF j < i THEN j ELSE j + 1
  BY <1>5, <1>6, <1>8
<1>10. ASSUME NEW l \in DOMAIN handles, l # i
       PROVE  \E j \in DOMAIN handles' : handles'[j] = handles[l]
  <2>1. CASE l < i
    BY <2>1, <1>5, <1>6, <1>8, <1>10
  <2>2. CASE l > i
    <3>1. l - 1 \in DOMAIN handles' /\ ~ (l - 1 < i) /\ (l - 1) + 1 = l
      BY <2>2, <1>5, <1>8, <1>10
    <3>2. handles'[l - 1] = handles[(l - 1) + 1]
      BY <3>1, <1>6, <1>8
    <3> QED
      BY <3>1, <3>2
  <2> QED
    BY <2>1, <2>2, <1>5, <1>10
<1>11. Listed' = Listed \ {h}
  <2>1. ASSUME NEW g \in Listed' PROVE g \in Listed \ {h}
    <3>1. PICK j \in DOMAIN handles' : g = handles'[j]
      BY <2>1 DEF Listed
    <3>2. PICK l \in DOMAIN handles : l # i /\ handles'[j] = handles[l]
      BY <1>9
    <3> QED
      BY <3>1, <3>2, <1>4 DEF Listed, Distinct
  <2>2. ASSUME NEW g \in Listed \ {h} PROVE g \in Listed'
    <3>1. PICK l \in DOMAIN handles : g = handles[l]
      BY <2>2 DEF Listed
    <3>2. l # i
      BY <3>1, <2>2, <1>4
    <3> QED
      BY <3>1, <3>2, <1>10 DEF Listed
  <2> QED
    BY <2>1, <2>2
<1>12. Distinct'
  <2> SUFFICES ASSUME NEW j \in DOMAIN handles', NEW m \in DOMAIN handles',
                      handles'[j] = handles'[m]
               PROVE  j = m
    BY Zenon DEF Distinct
  <2>1. PICK l \in DOMAIN handles : /\ l # i /\ handles'[j] = handles[l]
                                    /\ l = IF j < i THEN j ELSE j + 1
    BY <1>9
  <2>2. PICK n \in DOMAIN handles : /\ n # i /\ handles'[m] = handles[n]
                                    /\ n = IF m < i THEN m ELSE m + 1
    BY <1>9
  <2>3. l = n
    BY <2>1, <2>2 DEF Distinct
  <2> QED
    BY <2>1, <2>2, <2>3, <1>5, <1>8
<1> QED
  BY <1>7, <1>11, <1>12

(* Appending a new handle adds just that.                                  *)
LEMMA AppendedList ==
    ASSUME handles \in Seq(Handles), Distinct, NEW h \in Handles, h \notin Listed,
           handles' = Append(handles, h)
    PROVE  /\ handles' \in Seq(Handles)
           /\ Listed' = Listed \cup {h}
           /\ Distinct'
<1>1. handles' \in Seq(Handles)
  OBVIOUS
<1>2. DOMAIN handles' = 1 .. Len(handles) + 1 /\ DOMAIN handles = 1 .. Len(handles)
  OBVIOUS
<1>3. \A i \in DOMAIN handles : handles'[i] = handles[i]
  OBVIOUS
<1>4. handles'[Len(handles) + 1] = h /\ Len(handles) \in Nat
  OBVIOUS
<1>5. Listed' = Listed \cup {h}
  BY <1>2, <1>3, <1>4 DEF Listed
<1>6. Distinct'
  BY <1>2, <1>3, <1>4 DEF Listed, Distinct
<1> QED
  BY <1>1, <1>5, <1>6

-----------------------------------------------------------------------------
(* The inductive invariant                                                 *)

Still(h) == IF stopPoints[h].watch THEN checked[h] = clock /\ cached[h]
            ELSE pc = stopPoints[h].addr

(* Why FiredAreReported holds: while the command runs nothing has fired,   *)
(* and afterwards the answers of the stop points are kept.                 *)
FiredInv ==
    /\ fired \subseteq 1 .. handleCount
    /\ state = "running" => fired = {}
    /\ state \in {"stopping", "stopped"} =>
           \A h \in fired \cap DOMAIN stopPoints : lastStopCycle = clock /\ Still(h)

IInv == TypeOK /\ ManagerInv /\ FiredInv

LEMMA ManagerInvParts ==
    ManagerInv <=> /\ listening <=> DOMAIN stopPoints # {}
                   /\ Listed = DOMAIN stopPoints
                   /\ Distinct
BY Zenon DEF ManagerInv, Listed, Distinct

LEMMA ManagerInvPartsNext ==
    ManagerInv' <=> /\ listening' <=> DOMAIN stopPoints' # {}
                    /\ Listed' = DOMAIN stopPoints'
                    /\ Distinct'
BY Zenon DEF ManagerInv, Listed, Distinct

LEMMA NewKeeps ==
    ASSUME IInv, New
    PROVE  IInv'
<1> USE DEF IInv
<1>1. TypeOK /\ ManagerInv /\ FiredInv
  OBVIOUS
<1>2. PICK p \in StopPoint : Add(p)
  BY <1>1, NewEffect
<1>3. state \in {"initialized", "stopped", "finished"}
  BY <1>1, NewEffect
<1> DEFINE n == handleCount + 1
<1>4. /\ handleCount' = n /\ handles' = Append(handles, n)
      /\ stopPoints' = [h \in DOMAIN stopPoints \cup {n} |-> IF h = n THEN p ELSE stopPoints[h]]
      /\ listening' = (listening \/ DOMAIN stopPoints = {})
      /\ checked' = [checked EXCEPT ![n] = 0]
      /\ cached' = [cached EXCEPT ![n] = FALSE]
      /\ UNCHANGED <<toBeDeleted, simVars, state>>
  BY <1>2, Zenon DEF Add
<1>5. UNCHANGED <<toBeDeleted, pc, clock, value, lastStopCycle, fired, state>>
  BY <1>4 DEF simVars
<1>6. handleCount \in Nat /\ n \in Handles /\ n \notin DOMAIN stopPoints
  BY <1>1, <1>2, BoundsAssumption DEF TypeOK, Add, Handles
<1>7. DOMAIN stopPoints' = DOMAIN stopPoints \cup {n}
  BY <1>4
<1>8. \A h \in DOMAIN stopPoints : stopPoints'[h] = stopPoints[h]
  BY <1>4, <1>6
<1>9. Listed = DOMAIN stopPoints /\ Distinct /\ (listening <=> DOMAIN stopPoints # {})
  BY <1>1, ManagerInvParts
<1>10. handles \in Seq(Handles)
  BY <1>1 DEF TypeOK
<1>11. handles' \in Seq(Handles) /\ Listed' = Listed \cup {n} /\ Distinct'
  <2> HIDE DEF n
  <2> QED
    BY <1>4, <1>6, <1>9, <1>10, AppendedList
<1>12. ManagerInv'
  <2>1. listening' <=> DOMAIN stopPoints' # {}
    BY <1>4, <1>7, <1>9
  <2> QED
    BY <2>1, <1>7, <1>9, <1>11, ManagerInvPartsNext, Zenon
<1>13. TypeOK'
  <2>1. stopPoints' \in [DOMAIN stopPoints' -> StopPoint]
    BY <1>1, <1>2, <1>4, <1>7 DEF TypeOK
  <2>2. DOMAIN stopPoints' \subseteq 1 .. handleCount'
    BY <1>1, <1>4, <1>6, <1>7 DEF TypeOK
  <2>3. handleCount' \in 0 .. MaxHandle
    BY <1>4, <1>6, BoundsAssumption DEF Handles
  <2>4. listening' \in BOOLEAN
    BY <1>4, Zenon
  <2>5. toBeDeleted' \subseteq DOMAIN stopPoints'
    BY <1>1, <1>5, <1>7 DEF TypeOK
  <2>6. checked' \in [Handles -> Nat] /\ cached' \in [Handles -> BOOLEAN]
    BY <1>1, <1>4, <1>6 DEF TypeOK
  <2> QED
    BY <1>1, <1>5, <1>11, <2>1, <2>2, <2>3, <2>4, <2>5, <2>6 DEF TypeOK
<1>14. FiredInv'
  <2>1. fired' \subseteq 1 .. handleCount' /\ n \notin fired
    BY <1>1, <1>4, <1>5, <1>6 DEF FiredInv
  <2>2. ASSUME NEW h \in fired' \cap DOMAIN stopPoints', state' \in {"stopping", "stopped"}
        PROVE  lastStopCycle' = clock' /\ Still(h)'
    <3>1. h \in fired \cap DOMAIN stopPoints /\ lastStopCycle = clock /\ Still(h)
      BY <1>1, <1>5, <1>7, <2>1, <2>2 DEF FiredInv
    <3>2. checked'[h] = checked[h] /\ cached'[h] = cached[h]
      BY <1>1, <1>4, <1>6, <2>1, <2>2, <3>1, BoundsAssumption DEF TypeOK, Handles
    <3> QED
      BY <3>1, <3>2, <1>5, <1>8 DEF Still
  <2> QED
    BY <2>1, <2>2, <1>1, <1>5 DEF FiredInv
<1> QED
  BY <1>12, <1>13, <1>14

LEMMA DeleteKeeps ==
    ASSUME IInv, NEW h \in DOMAIN stopPoints, Delete(h), state' = state,
           toBeDeleted' \subseteq toBeDeleted \ {h}
    PROVE  IInv'
<1>1. TypeOK /\ ManagerInv /\ FiredInv
  BY DEF IInv
<1>2. /\ stopPoints' = [g \in DOMAIN stopPoints \ {h} |-> stopPoints[g]]
      /\ handles' = Erased(h)
      /\ listening' = (listening /\ DOMAIN stopPoints # {h})
      /\ UNCHANGED <<handleCount, checked, cached, pc, clock, value, lastStopCycle, fired>>
  BY DEF Delete, watchVars, simVars
<1>3. DOMAIN stopPoints' = DOMAIN stopPoints \ {h}
  BY <1>2
<1>4. \A g \in DOMAIN stopPoints' : stopPoints'[g] = stopPoints[g]
  BY <1>2, <1>3
<1>5. Listed = DOMAIN stopPoints /\ Distinct /\ (listening <=> DOMAIN stopPoints # {})
  BY <1>1, ManagerInvParts
<1>6. handles \in Seq(Handles)
  BY <1>1 DEF TypeOK
<1>7. handles' \in Seq(Handles) /\ Listed' = Listed \ {h} /\ Distinct'
  BY <1>2, <1>5, <1>6, ErasedList
<1>8. ManagerInv'
  <2>1. listening' <=> DOMAIN stopPoints' # {}
    BY <1>2, <1>3, <1>5
  <2> QED
    BY <2>1, <1>3, <1>5, <1>7, ManagerInvPartsNext, Zenon
<1>9. TypeOK'
  <2>1. stopPoints' \in [DOMAIN stopPoints' -> StopPoint]
    BY <1>1, <1>2, <1>3 DEF TypeOK
  <2>2. listening' \in BOOLEAN
    BY <1>2, Zenon
  <2> QED
    BY <1>1, <1>2, <1>3, <1>7, <2>1, <2>2 DEF TypeOK
<1>10. FiredInv'
  <2>1. ASSUME NEW g \in fired' \cap DOMAIN stopPoints', state' \in {"stopping", "stopped"}
        PROVE  lastStopCycle' = clock' /\ Still(g)'
    <3>1. g \in fired \cap DOMAIN stopPoints /\ lastStopCycle = clock /\ Still(g)
      BY <1>1, <1>2, <1>3, <2>1 DEF FiredInv
    <3> QED
      BY <3>1, <2>1, <1>2, <1>4 DEF Still
  <2> QED
    BY <2>1, <1>1, <1>2 DEF FiredInv
<1> QED
  BY <1>8, <1>9, <1>10 DEF IInv

LEMMA DeleteAllKeeps ==
    ASSUME IInv, DeleteAll
    PROVE  IInv' /\ DOMAIN stopPoints' = {}
<1>1. TypeOK /\ ManagerInv /\ FiredInv
  BY DEF IInv
<1>2. /\ stopPoints' = [h \in DOMAIN stopPoints \ Listed |-> stopPoints[h]]
      /\ handles' = << >>
      /\ listening' = (listening /\ handles = << >>)
      /\ UNCHANGED <<handleCount, toBeDeleted, checked, cached, pc, clock, value,
                    lastStopCycle, fired, state>>
  BY DEF DeleteAll, Listed, watchVars, simVars
<1>3. Listed = DOMAIN stopPoints /\ (listening <=> DOMAIN stopPoints # {})
  BY <1>1, ManagerInvParts
<1>4. DOMAIN stopPoints' = {}
  BY <1>2, <1>3
<1>5. ~ listening'
  <2>1. handles = << >> => Listed = {}
    BY DEF Listed
  <2> QED
    BY <1>2, <1>3, <2>1, Zenon
<1>6. state # "stopping" /\ toBeDeleted = {}
  BY <1>1, Zenon DEF DeleteAll, Idle, TypeOK
<1>7. ManagerInv'
  <2>1. Listed' = {} /\ Distinct'
    BY <1>2 DEF Listed, Distinct
  <2> QED
    BY <2>1, <1>4, <1>5, ManagerInvPartsNext, Zenon
<1>8. TypeOK'
  <2>1. stopPoints' \in [DOMAIN stopPoints' -> StopPoint]
    BY <1>2, <1>4
  <2>2. listening' \in BOOLEAN
    BY <1>2, Zenon
  <2>3. handles' \in Seq(Handles)
    BY <1>2
  <2> QED
    BY <1>1, <1>2, <1>4, <1>6, <2>1, <2>2, <2>3 DEF TypeOK
<1>9. FiredInv'
  BY <1>1, <1>2, <1>4 DEF FiredInv
<1> QED
  BY <1>4, <1>7, <1>8, <1>9 DEF IInv

LEMMA TuneKeeps ==
    ASSUME IInv, Tune
    PROVE  IInv'
<1>1. TypeOK /\ ManagerInv /\ FiredInv
  BY DEF IInv
<1>2. PICK h \in DOMAIN stopPoints, p \in StopPoint :
          Set(h, p) /\ SameTarget(p, stopPoints[h])
  BY <1>1, TuneEffect
<1>3. /\ stopPoints' = [stopPoints EXCEPT ![h] = p]
      /\ UNCHANGED <<handles, handleCount, toBeDeleted, listening, checked, cached, pc,
                    clock, value, lastStopCycle, fired, state>>
  BY <1>2 DEF Set, watchVars, simVars
<1>4. DOMAIN stopPoints' = DOMAIN stopPoints
  BY <1>3
<1>5. stopPoints' \in [DOMAIN stopPoints' -> StopPoint]
  BY <1>1, <1>3, <1>4 DEF TypeOK
<1>6. TypeOK'
  BY <1>1, <1>3, <1>4, <1>5 DEF TypeOK
<1>7. ManagerInv'
  BY <1>1, <1>3, <1>4 DEF ManagerInv
<1>8. \A g \in DOMAIN stopPoints : SameTarget(stopPoints'[g], stopPoints[g])
  <2>1. stopPoints \in [DOMAIN stopPoints -> StopPoint]
    BY <1>1 DEF TypeOK
  <2> QED
    BY <1>2, <1>3, <2>1 DEF SameTarget
<1>9. FiredInv'
  <2>1. ASSUME NEW g \in fired' \cap DOMAIN stopPoints', state' \in {"stopping", "stopped"}
        PROVE  lastStopCycle' = clock' /\ Still(g)'
    <3>1. g \in fired \cap DOMAIN stopPoints /\ lastStopCycle = clock /\ Still(g)
      BY <1>1, <1>3, <1>4, <2>1 DEF FiredInv
    <3>2. stopPoints'[g].watch = stopPoints[g].watch /\ stopPoints'[g].addr = stopPoints[g].addr
      BY <3>1, <1>8 DEF SameTarget
    <3> QED
      BY <3>1, <3>2, <1>3 DEF Still
  <2> QED
    BY <2>1, <1>1, <1>3 DEF FiredInv
<1> QED
  BY <1>6, <1>7, <1>9 DEF IInv

-----------------------------------------------------------------------------
(* The event                                                               *)

Enabled == {h \in DOMAIN stopPoints : stopPoints[h].enabled}
Fires(a, v, c) == {h \in Enabled : /\ IsTriggered(h, a, v, c)
                                   /\ stopPoints[h].ignore = 0
                                   /\ IsConditionOK(h, v)}

LEMMA EventEffect ==
    ASSUME NEW a, NEW v, NEW c, HandleEvent(a, v, c)
    PROVE  /\ fired' = Fires(a, v, c)
           /\ lastStopCycle' = IF fired' = {} THEN lastStopCycle ELSE c
           /\ stopPoints' = [h \in DOMAIN stopPoints |-> Visited(h, a, v, c)]
           /\ toBeDeleted' = {h \in fired' : stopPoints[h].deleteAfter}
           /\ CheckAll(Enabled, v, c)
           /\ UNCHANGED <<handles, handleCount, listening>>
BY Zenon DEF HandleEvent, Enabled, Fires

(* Visiting a stop point keeps what it waits for.                          *)
LEMMA VisitedFields ==
    ASSUME TypeOK, NEW h \in DOMAIN stopPoints, NEW a, NEW v, NEW c
    PROVE  /\ Visited(h, a, v, c).watch = stopPoints[h].watch
           /\ Visited(h, a, v, c).addr = stopPoints[h].addr
<1>1. stopPoints[h] \in StopPoint
  BY DEF TypeOK
<1> QED
  BY <1>1 DEF Visited, StopPoint

(* The answer of an enabled watch is kept with the cycle.                  *)
LEMMA CheckedWatch ==
    ASSUME TypeOK, NEW v \in Values, NEW c \in Nat, NEW H, CheckAll(H, v, c)
    PROVE  /\ checked' \in [Handles -> Nat]
           /\ cached' \in [Handles -> BOOLEAN]
           /\ \A h \in H \cap Handles : stopPoints[h].watch =>
                  /\ checked'[h] = c
                  /\ cached'[h] <=> IF checked[h] # c THEN v # stopPoints[h].result
                                    ELSE cached[h]
           /\ \A h \in Handles : h \notin H \/ ~ stopPoints[h].watch =>
                  checked'[h] = checked[h] /\ cached'[h] = cached[h]
<1>1. checked \in [Handles -> Nat] /\ cached \in [Handles -> BOOLEAN]
  BY DEF TypeOK
<1>2. checked' = [h \in Handles |-> IF h \in H /\ Looks(h, c) THEN c ELSE checked[h]]
  BY DEF CheckAll
<1>3. cached' = [h \in Handles |-> IF h \in H /\ Looks(h, c)
                                   THEN v # stopPoints[h].result ELSE cached[h]]
  BY DEF CheckAll
<1>4. checked' \in [Handles -> Nat]
  BY <1>1, <1>2
<1>5. cached' \in [Handles -> BOOLEAN]
  BY <1>1, <1>3
<1>6. ASSUME NEW h \in H \cap Handles, stopPoints[h].watch
      PROVE  /\ checked'[h] = c
             /\ cached'[h] <=> IF checked[h] # c THEN v # stopPoints[h].result ELSE cached[h]
  <2>1. CASE checked[h] # c
    <3>1. Looks(h, c)
      BY <1>6, <2>1 DEF Looks
    <3> QED
      BY <1>2, <1>3, <1>6, <2>1, <3>1
  <2>2. CASE checked[h] = c
    <3>1. ~ Looks(h, c)
      BY <2>2 DEF Looks
    <3> QED
      BY <1>2, <1>3, <1>6, <2>2, <3>1
  <2> QED
    BY <2>1, <2>2
<1>7. ASSUME NEW h \in Handles, h \notin H \/ ~ stopPoints[h].watch
      PROVE  checked'[h] = checked[h] /\ cached'[h] = cached[h]
  <2>1. ~ (h \in H /\ Looks(h, c))
    BY <1>7 DEF Looks
  <2> QED
    BY <1>2, <1>3, <1>7, <2>1
<1> QED
  BY <1>4, <1>5, <1>6, <1>7

LEMMA CycleKeeps ==
    ASSUME IInv, NEW a \in Addresses, NEW v \in Values, SimulateCycle(a, v)
    PROVE  IInv'
<1>1. TypeOK /\ ManagerInv /\ FiredInv
  BY DEF IInv
<1>2. /\ state = "running" /\ pc' = a /\ clock' = clock + 1 /\ value' = v
      /\ state' = "stopping" \/ (fired' = {} /\ state' = "running")
  BY DEF SimulateCycle
<1>3. clock' \in Nat /\ fired = {} /\ toBeDeleted = {}
  <2>1. clock \in Nat
    BY <1>1 DEF TypeOK
  <2>2. fired = {}
    BY <1>1, <1>2 DEF FiredInv
  <2>3. toBeDeleted = {}
    BY <1>1, <1>2 DEF TypeOK
  <2> QED
    BY <1>2, <2>1, <2>2, <2>3
<1>4. CASE ~ listening
  <2>1. UNCHANGED <<stopPoints, handles, handleCount, toBeDeleted, listening, checked,
                    cached, lastStopCycle, fired>>
    BY <1>4 DEF SimulateCycle, managerVars, watchVars
  <2>2. TypeOK'
    BY <1>1, <1>2, <1>3, <2>1 DEF TypeOK
  <2>3. ManagerInv'
    BY <1>1, <2>1 DEF ManagerInv
  <2>4. FiredInv'
    BY <1>3, <2>1 DEF FiredInv
  <2> QED
    BY <2>2, <2>3, <2>4 DEF IInv
<1>5. CASE listening
  <2>1. PICK c \in Nat : c = clock + 1 /\ c = clock'
    BY <1>2, <1>3
  <2>2. HandleEvent(a, v, c)
    BY <1>5, <2>1, Zenon DEF SimulateCycle, HandleEvent, CheckAll
  <2>3. /\ fired' = Fires(a, v, c)
        /\ lastStopCycle' = IF fired' = {} THEN lastStopCycle ELSE c
        /\ stopPoints' = [h \in DOMAIN stopPoints |-> Visited(h, a, v, c)]
        /\ toBeDeleted' = {h \in fired' : stopPoints[h].deleteAfter}
        /\ CheckAll(Enabled, v, c)
        /\ UNCHANGED <<handles, handleCount, listening>>
    BY <2>2, EventEffect, Zenon
  <2>4. DOMAIN stopPoints' = DOMAIN stopPoints
    BY <2>3
  <2>5. DOMAIN stopPoints \subseteq 1 .. handleCount /\ 1 .. handleCount \subseteq Handles
    BY <1>1, BoundsAssumption DEF TypeOK, Handles
  <2>6. fired' \subseteq DOMAIN stopPoints /\ fired' \subseteq Enabled
    BY <2>3 DEF Fires, Enabled
  <2>7. stopPoints' \in [DOMAIN stopPoints' -> StopPoint]
    BY <1>1, <2>3, <2>4, VisitedType
  <2>8. checked' \in [Handles -> Nat] /\ cached' \in [Handles -> BOOLEAN]
    BY <1>1, <2>3, CheckedWatch, Zenon
  <2>9. toBeDeleted' # {} => state' = "stopping"
    BY <1>2, <2>3
  <2>10. lastStopCycle' \in Nat
    BY <1>1, <2>3 DEF TypeOK
  <2>11. state' \in {"initialized", "running", "stopping", "stopped", "finished"}
    BY <1>2
  <2>12. TypeOK'
    BY <1>1, <1>2, <1>3, <2>3, <2>4, <2>5, <2>6, <2>7, <2>8, <2>9, <2>10, <2>11 DEF TypeOK
  <2>13. ManagerInv'
    BY <1>1, <2>3, <2>4 DEF ManagerInv
  <2>14. ASSUME NEW h \in fired'
         PROVE  lastStopCycle' = clock' /\ Still(h)'
    <3>1. h \in DOMAIN stopPoints /\ h \in Enabled /\ h \in Handles /\ IsTriggered(h, a, v, c)
      BY <2>3, <2>5, <2>6, <2>14 DEF Fires
    <3>2. lastStopCycle' = clock'
      BY <2>1, <2>3, <2>14
    <3>3. stopPoints'[h].watch = stopPoints[h].watch /\ stopPoints'[h].addr = stopPoints[h].addr
      BY <1>1, <2>3, <3>1, VisitedFields
    <3>4. CASE stopPoints[h].watch
      <4>1. checked'[h] = c
        BY <1>1, <2>3, <3>1, <3>4, CheckedWatch
      <4>2. cached'[h] <=> IF checked[h] # c THEN v # stopPoints[h].result ELSE cached[h]
        BY <1>1, <2>3, <3>1, <3>4, CheckedWatch
      <4>3. cached'[h]
        BY <4>2, <3>1, <3>4 DEF IsTriggered
      <4> QED
        BY <3>2, <3>3, <3>4, <4>1, <4>3, <2>1 DEF Still
    <3>5. CASE ~ stopPoints[h].watch
      BY <3>1, <3>2, <3>3, <3>5, <1>2 DEF Still, IsTriggered
    <3> QED
      BY <3>4, <3>5
  <2>15. FiredInv'
    <3>1. fired' \subseteq 1 .. handleCount'
      BY <2>3, <2>5, <2>6
    <3>2. state' = "running" => fired' = {}
      BY <1>2
    <3> QED
      BY <3>1, <3>2, <2>14, Zenon DEF FiredInv
  <2> QED
    BY <2>12, <2>13, <2>15 DEF IInv
<1> QED
  BY <1>4, <1>5

LEMMA PrintKeeps ==
    ASSUME IInv, PrintStopReasons
    PROVE  IInv'
<1>1. TypeOK /\ ManagerInv /\ FiredInv
  BY DEF IInv
<1>2. /\ state = "stopping" /\ toBeDeleted = {} /\ state' = "stopped"
      /\ stopPoints' = [h \in DOMAIN stopPoints |->
             [stopPoints[h] EXCEPT !.result = IF Looks(h, clock) THEN value
                                              ELSE stopPoints[h].result]]
      /\ CheckAll(DOMAIN stopPoints, value, clock)
      /\ UNCHANGED <<handles, handleCount, toBeDeleted, listening, pc, clock, value,
                    lastStopCycle, fired>>
  BY DEF PrintStopReasons, simVars
<1>3. DOMAIN stopPoints' = DOMAIN stopPoints
  BY <1>2
<1>4. DOMAIN stopPoints \subseteq Handles
  BY <1>1, BoundsAssumption DEF TypeOK, Handles
<1>5. stopPoints \in [DOMAIN stopPoints -> StopPoint] /\ value \in Values /\ clock \in Nat
  BY <1>1 DEF TypeOK
<1>6. ASSUME NEW h \in DOMAIN stopPoints
      PROVE  /\ stopPoints'[h] \in StopPoint
             /\ stopPoints'[h].watch = stopPoints[h].watch
             /\ stopPoints'[h].addr = stopPoints[h].addr
  <2>1. PICK r \in Values : r = IF Looks(h, clock) THEN value ELSE stopPoints[h].result
    BY <1>5, <1>6, Fields
  <2>2. stopPoints'[h] = [stopPoints[h] EXCEPT !.result = r]
    BY <1>2, <1>6, <2>1
  <2>3. stopPoints[h] \in StopPoint
    BY <1>5, <1>6
  <2>4. PICK p \in StopPoint : p = stopPoints[h]
    BY <2>3
  <2>5. [p EXCEPT !.result = r] \in StopPoint
    BY <2>1 DEF StopPoint
  <2>6. [p EXCEPT !.result = r].watch = p.watch /\ [p EXCEPT !.result = r].addr = p.addr
    BY DEF StopPoint
  <2> QED
    BY <2>2, <2>4, <2>5, <2>6, Zenon
<1>7. stopPoints' \in [DOMAIN stopPoints' -> StopPoint]
  <2>1. stopPoints' = [h \in DOMAIN stopPoints' |-> stopPoints'[h]]
    BY <1>2
  <2> QED
    BY <1>3, <1>6, <2>1
<1>8. PICK c \in Nat : c = clock
  BY <1>5
<1>9. PICK v \in Values : v = value
  BY <1>5
<1>10. CheckAll(DOMAIN stopPoints, v, c)
  BY <1>2, <1>8, <1>9, Zenon
<1>11. checked' \in [Handles -> Nat] /\ cached' \in [Handles -> BOOLEAN]
  BY <1>1, <1>10, CheckedWatch, Zenon
<1>12. TypeOK'
  BY <1>1, <1>2, <1>3, <1>7, <1>11 DEF TypeOK
<1>13. ManagerInv'
  BY <1>1, <1>2, <1>3 DEF ManagerInv
<1>14. ASSUME NEW h \in fired' \cap DOMAIN stopPoints'
       PROVE  lastStopCycle' = clock' /\ Still(h)'
  <2>1. h \in fired \cap DOMAIN stopPoints /\ lastStopCycle = clock /\ Still(h)
    BY <1>1, <1>2, <1>3, <1>14 DEF FiredInv
  <2>2. stopPoints'[h].watch = stopPoints[h].watch /\ stopPoints'[h].addr = stopPoints[h].addr
    BY <1>6, <2>1
  <2>3. CASE stopPoints[h].watch
    <3>1. checked[h] = c /\ cached[h]
      BY <2>1, <2>3, <1>8 DEF Still
    <3>2. checked'[h] = c /\ (cached'[h] <=> cached[h])
      BY <1>1, <1>4, <1>10, <2>1, <2>3, <3>1, CheckedWatch
    <3> QED
      BY <2>1, <2>2, <2>3, <3>1, <3>2, <1>2, <1>8 DEF Still
  <2>4. CASE ~ stopPoints[h].watch
    BY <2>1, <2>2, <2>4, <1>2 DEF Still
  <2> QED
    BY <2>3, <2>4
<1>15. FiredInv'
  <2>1. fired' \subseteq 1 .. handleCount' /\ state' # "running"
    BY <1>1, <1>2 DEF FiredInv
  <2> QED
    BY <1>14, <2>1, Zenon DEF FiredInv
<1> QED
  BY <1>12, <1>13, <1>15 DEF IInv

LEMMA OthersKeep ==
    ASSUME IInv,
           \/ Start
           \/ EndCommand
           \/ \E v \in Values : SimulateLastCycle(v)
           \/ \E v \in Values : SimulateFailingCycle(v)
           \/ \E v \in Values : Kill(v)
    PROVE  IInv'
<1>1. TypeOK /\ ManagerInv /\ FiredInv
  BY DEF IInv
<1>2. /\ UNCHANGED <<stopPoints, handles, handleCount, toBeDeleted, listening, checked,
                     cached, lastStopCycle>>
      /\ pc' = pc \/ pc' = 0
      /\ clock' \in {clock, clock + 1, 0}
      /\ value' = value \/ value' \in Values
      /\ state \in {"running", "initialized", "stopped", "finished"}
              \/ (state = "stopping" /\ toBeDeleted = {})
      /\ state' \in {"running", "stopped", "finished", "initialized"}
  BY DEF Start, EndCommand, SimulateLastCycle, SimulateFailingCycle, Kill, Idle,
         managerVars, watchVars, simVars
<1>3. \/ fired' = {}
      \/ fired' = fired /\ clock' = clock /\ pc' = pc /\ state = "stopping" /\ state' = "stopped"
  BY <1>1 DEF Start, EndCommand, SimulateLastCycle, SimulateFailingCycle, Kill, FiredInv,
              managerVars, watchVars, simVars
<1>4. toBeDeleted = {}
  BY <1>1, <1>2 DEF TypeOK
<1>5. pc' \in Addresses /\ clock' \in Nat /\ value' \in Values
  BY <1>1, <1>2, AddressesAssumption DEF TypeOK
<1>6. fired' \subseteq Handles
  BY <1>1, <1>3 DEF TypeOK
<1>7. TypeOK'
  BY <1>1, <1>2, <1>4, <1>5, <1>6 DEF TypeOK
<1>8. ManagerInv'
  BY <1>1, <1>2 DEF ManagerInv
<1>9. FiredInv'
  <2>1. CASE fired' = {}
    BY <2>1 DEF FiredInv
  <2>2. CASE fired' = fired /\ clock' = clock /\ pc' = pc /\ state = "stopping" /\ state' = "stopped"
    BY <1>1, <1>2, <2>2 DEF FiredInv, Still
  <2> QED
    BY <1>3, <2>1, <2>2
<1> QED
  BY <1>7, <1>8, <1>9 DEF IInv

-----------------------------------------------------------------------------
(* Theorems                                                                *)

LEMMA InitIInv == Init => IInv
<1> SUFFICES ASSUME Init PROVE IInv
  OBVIOUS
<1>1. stopPoints = [h \in {} |-> 0] /\ handles = << >> /\ handleCount = 0
  BY DEF Init
<1>2. DOMAIN stopPoints = {}
  BY <1>1
<1>3. TypeOK
  <2>1. stopPoints \in [DOMAIN stopPoints -> StopPoint]
    BY <1>1, <1>2
  <2>2. handles \in Seq(Handles) /\ handleCount \in 0 .. MaxHandle
    BY <1>1, BoundsAssumption
  <2> QED
    BY <1>2, <2>1, <2>2, AddressesAssumption DEF Init, TypeOK
<1>4. ManagerInv
  BY <1>1, <1>2 DEF Init, ManagerInv
<1>5. FiredInv
  BY DEF Init, FiredInv
<1> QED
  BY <1>3, <1>4, <1>5 DEF IInv

LEMMA NextIInv == IInv /\ [Next]_vars => IInv'
<1> SUFFICES ASSUME IInv, [Next]_vars PROVE IInv'
  OBVIOUS
<1>1. CASE UNCHANGED vars
  BY <1>1 DEF vars, IInv, TypeOK, ManagerInv, FiredInv, Still
<1>2. ASSUME NEW h \in DOMAIN stopPoints, DeleteStopPoint(h)
      PROVE  IInv'
  <2>1. toBeDeleted = {}
    BY <1>2, Zenon DEF IInv, TypeOK, DeleteStopPoint, Idle
  <2> QED
    BY <1>2, <2>1, DeleteKeeps DEF DeleteStopPoint
<1>3. ASSUME NEW h \in DOMAIN stopPoints, DeleteTriggered(h)
      PROVE  IInv'
  BY <1>3, DeleteKeeps DEF DeleteTriggered
<1> QED
  BY <1>1, <1>2, <1>3, Steps, NewKeeps, DeleteAllKeeps, TuneKeeps, CycleKeeps, PrintKeeps,
     OthersKeep

THEOREM Inductive == Spec => []IInv
<1> QED
  BY InitIInv, NextIInv, PTL DEF Spec

(* The types hold for any number of stop points and cycles; a handle that  *)
(* is to be deleted names a stop point.                                    *)
THEOREM StopPointTypes == Spec => []TypeOK
<1>1. IInv => TypeOK
  BY DEF IInv
<1> QED
  BY <1>1, Inductive, PTL

(* Adding and deleting, by commands and from inside the event, keep the    *)
(* list of handles and the registration of the manager in step with the    *)
(* map of stop points.                                                     *)
THEOREM ManagerListens == Spec => []ManagerInv
<1>1. IInv => ManagerInv
  BY DEF IInv
<1> QED
  BY <1>1, Inductive, PTL

(* A stop point that caused the stop is reported as long as it exists.     *)
THEOREM FiredReported == Spec => []FiredAreReported
<1>1. IInv => FiredAreReported
  <2> SUFFICES ASSUME IInv, state \in {"stopping", "stopped"},
                      NEW h \in fired \cap DOMAIN stopPoints
               PROVE  h \in StopCausing
    BY Zenon DEF FiredAreReported
  <2>1. lastStopCycle = clock /\ Still(h)
    BY DEF IInv, FiredInv
  <2>2. IsTriggered(h, pc, value, clock)
    BY <2>1 DEF Still, IsTriggered
  <2> QED
    BY <2>1, <2>2 DEF StopCausing
<1> QED
  BY <1>1, Inductive, PTL

-----------------------------------------------------------------------------
(* The implementation of DebuggerStops                                     *)

Points == [h \in Kept |-> stopPoints[h]]
Doubtful == {h \in Kept : stopPoints[h].watch /\ checked[h] > clock}

LEMMA SameType == DS!StopPoint = StopPoint
BY DEF DS!StopPoint, StopPoint

LEMMA NewIsAdd ==
    ASSUME IInv, New
    PROVE  DS!Add
<1>1. TypeOK
  BY DEF IInv
<1>2. PICK p \in StopPoint : Add(p) /\ p.enabled /\ p.result = value
  BY <1>1, NewEffect
<1>3. state \in {"initialized", "stopped", "finished"}
  BY <1>1, NewEffect
<1>4. PICK n : n = handleCount + 1
  OBVIOUS
<1>5. /\ handleCount' = n
      /\ stopPoints' = [h \in DOMAIN stopPoints \cup {n} |-> IF h = n THEN p ELSE stopPoints[h]]
      /\ checked' = [checked EXCEPT ![n] = 0]
      /\ UNCHANGED <<toBeDeleted, pc, clock, value, lastStopCycle, fired, state>>
  BY <1>2, <1>4, Zenon DEF Add, simVars
<1>6. toBeDeleted = {} /\ toBeDeleted' = {}
  BY <1>1, <1>3, <1>5 DEF TypeOK
<1>7. n \in Handles /\ n \notin DOMAIN stopPoints /\ DOMAIN stopPoints \subseteq Handles
  BY <1>1, <1>2, <1>4, BoundsAssumption DEF TypeOK, Add, Handles
<1>8. Kept = DOMAIN stopPoints /\ Kept' = DOMAIN stopPoints \cup {n}
  BY <1>5, <1>6 DEF Kept
<1>9. \A h \in DOMAIN stopPoints : Points'[h] = Points[h]
  BY <1>5, <1>7, <1>8 DEF Points
<1>10. Points'[n] = p
  BY <1>5, <1>8 DEF Points
<1>11. DOMAIN Points' = DOMAIN Points \cup {n} /\ DOMAIN Points = DOMAIN stopPoints
  BY <1>8 DEF Points
<1>12. Doubtful' = Doubtful
  <2>1. n \notin Doubtful'
    <3>1. checked'[n] = 0 /\ clock' \in Nat
      BY <1>1, <1>5, <1>7 DEF TypeOK
    <3> QED
      BY <3>1 DEF Doubtful
  <2>2. ASSUME NEW h \in DOMAIN stopPoints
        PROVE  h \in Doubtful' <=> h \in Doubtful
    <3>1. stopPoints'[h] = stopPoints[h] /\ checked'[h] = checked[h] /\ clock' = clock
      BY <1>1, <1>5, <1>7, <2>2 DEF TypeOK
    <3> QED
      BY <3>1, <2>2, <1>8 DEF Doubtful
  <2>3. Doubtful \subseteq DOMAIN stopPoints /\ Doubtful' \subseteq DOMAIN stopPoints \cup {n}
    BY <1>8 DEF Doubtful
  <2> QED
    BY <2>1, <2>2, <2>3
<1>13. state # "running" /\ state' # "running"
  BY <1>3, <1>5
<1>14. Points'[n] \in StopPoint /\ Points'[n].enabled /\ Points'[n].result = value
  BY <1>2, <1>10
<1>15. /\ handleCount' = handleCount + 1 /\ UNCHANGED value
       /\ (state' # "running") = (state # "running")
  BY <1>4, <1>5
<1>16. /\ DOMAIN Points' = DOMAIN Points \cup {handleCount + 1}
       /\ \A h \in DOMAIN Points : Points'[h] = Points[h]
       /\ Points'[handleCount + 1] \in DS!StopPoint
       /\ Points'[handleCount + 1].enabled
       /\ Points'[handleCount + 1].result = value
  <2> HIDE DEF Points
  <2> QED
    BY <1>4, <1>9, <1>11, <1>14, SameType
<1> QED
  BY <1>12, <1>13, <1>15, <1>16, Zenon DEF DS!Add, Points, Doubtful

LEMMA DeleteIsRemove ==
    ASSUME IInv, NEW h \in DOMAIN stopPoints, DeleteStopPoint(h)
    PROVE  \E H \in SUBSET DOMAIN Points : DS!Remove(H)
<1>1. TypeOK
  BY DEF IInv
<1>2. /\ stopPoints' = [g \in DOMAIN stopPoints \ {h} |-> stopPoints[g]]
      /\ UNCHANGED <<toBeDeleted, handleCount, checked, clock, value, state>>
      /\ state \in {"initialized", "stopped"}
  BY DEF DeleteStopPoint, Delete, Idle, watchVars, simVars
<1>3. toBeDeleted = {} /\ toBeDeleted' = {}
  BY <1>1, <1>2 DEF TypeOK
<1>4. Kept = DOMAIN stopPoints /\ Kept' = DOMAIN stopPoints \ {h}
  BY <1>2, <1>3 DEF Kept
<1>5. Points' = [g \in DOMAIN Points \ {h} |-> Points[g]]
  BY <1>2, <1>4 DEF Points
<1>6. Doubtful' = Doubtful \ {h}
  BY <1>2, <1>4 DEF Doubtful
<1>7. {h} \in SUBSET DOMAIN Points
  BY <1>4 DEF Points
<1>8. state # "running" /\ state' # "running"
  BY <1>2
<1>9. DS!Remove({h})
  BY <1>2, <1>5, <1>6, <1>8, Zenon DEF DS!Remove, Points, Doubtful
<1> QED
  BY <1>7, <1>9, Zenon

LEMMA DeleteAllIsRemove ==
    ASSUME IInv, DeleteAll
    PROVE  \E H \in SUBSET DOMAIN Points : DS!Remove(H)
<1>1. TypeOK
  BY DEF IInv
<1>2. /\ UNCHANGED <<toBeDeleted, handleCount, checked, clock, value, state>>
      /\ state \in {"initialized", "stopped"}
  BY DEF DeleteAll, Idle, watchVars, simVars
<1>3. Kept' = {}
  BY DeleteAllKeeps DEF Kept
<1>4. PICK H : H = DOMAIN Points /\ H = Kept
  BY DEF Points
<1>5. Points' = [g \in DOMAIN Points \ H |-> Points[g]]
  BY <1>3, <1>4 DEF Points
<1>6. Doubtful' = Doubtful \ H
  BY <1>3, <1>4 DEF Doubtful
<1>7. state # "running" /\ state' # "running"
  BY <1>2
<1>8. DS!Remove(H)
  BY <1>2, <1>5, <1>6, <1>7, Zenon DEF DS!Remove, Points, Doubtful
<1> QED
  BY <1>4, <1>8, Zenon

LEMMA DeleteTriggeredIsStutter ==
    ASSUME IInv, NEW h \in DOMAIN stopPoints, DeleteTriggered(h)
    PROVE  UNCHANGED DS!vars
<1>1. /\ stopPoints' = [g \in DOMAIN stopPoints \ {h} |-> stopPoints[g]]
      /\ toBeDeleted' = toBeDeleted \ {h} /\ h \in toBeDeleted
      /\ UNCHANGED <<handleCount, checked, clock, value, state>>
  BY DEF DeleteTriggered, Delete, watchVars, simVars
<1>2. Kept' = Kept
  BY <1>1 DEF Kept
<1>3. Points' = Points
  BY <1>1, <1>2 DEF Points, Kept
<1>4. Doubtful' = Doubtful
  BY <1>1, <1>2 DEF Doubtful, Kept
<1>5. (state' # "running") = (state # "running")
  BY <1>1
<1> QED
  BY <1>1, <1>3, <1>4, <1>5, Zenon DEF DS!vars, Points, Doubtful

LEMMA TuneIsChange ==
    ASSUME IInv, Tune
    PROVE  DS!Change
<1>1. TypeOK
  BY DEF IInv
<1>2. PICK h \in DOMAIN stopPoints, p \in StopPoint :
          Set(h, p) /\ SameTarget(p, stopPoints[h])
  BY <1>1, TuneEffect
<1>3. /\ stopPoints' = [stopPoints EXCEPT ![h] = p]
      /\ UNCHANGED <<handleCount, toBeDeleted, checked, clock, value, state>>
      /\ state \in {"initialized", "stopped"}
  BY <1>2 DEF Set, Idle, watchVars, simVars
<1>4. toBeDeleted = {} /\ toBeDeleted' = {}
  BY <1>1, <1>3 DEF TypeOK
<1>5. Kept = DOMAIN stopPoints /\ Kept' = DOMAIN stopPoints
  BY <1>3, <1>4 DEF Kept
<1>6. \A g \in DOMAIN stopPoints :
          /\ stopPoints'[g] \in StopPoint
          /\ stopPoints'[g].watch = stopPoints[g].watch
          /\ stopPoints'[g].addr = stopPoints[g].addr
          /\ stopPoints'[g].result = stopPoints[g].result
  <2>1. stopPoints \in [DOMAIN stopPoints -> StopPoint]
    BY <1>1 DEF TypeOK
  <2> QED
    BY <1>2, <1>3, <2>1 DEF SameTarget
<1>7. Points' \in [DOMAIN Points -> StopPoint]
  BY <1>5, <1>6 DEF Points
<1>8. \A g \in DOMAIN Points :
          /\ Points'[g].watch = Points[g].watch
          /\ Points'[g].addr = Points[g].addr
          /\ Points'[g].result = Points[g].result
  BY <1>5, <1>6 DEF Points
<1>9. Doubtful' = Doubtful
  BY <1>3, <1>5, <1>6 DEF Doubtful
<1>10. state # "running" /\ state' # "running"
  BY <1>3
<1> QED
  BY <1>3, <1>7, <1>8, <1>9, <1>10, SameType, Zenon DEF DS!Change, Points, Doubtful

LEMMA CycleIsArrive ==
    ASSUME IInv, NEW a \in Addresses, NEW v \in Values, SimulateCycle(a, v)
    PROVE  DS!Arrive(a, v)
<1>1. TypeOK /\ ManagerInv
  BY DEF IInv
<1>2. /\ state = "running" /\ clock' = clock + 1 /\ value' = v
      /\ state' = "stopping" \/ (fired' = {} /\ state' = "running")
  BY DEF SimulateCycle
<1>3. toBeDeleted = {}
  BY <1>1, <1>2 DEF TypeOK
<1>4. Kept = DOMAIN stopPoints
  BY <1>3 DEF Kept
<1>5. clock \in Nat /\ stopPoints \in [DOMAIN stopPoints -> StopPoint]
  BY <1>1 DEF TypeOK
<1>6. DOMAIN Points = DOMAIN stopPoints /\ \A h \in DOMAIN stopPoints : Points[h] = stopPoints[h]
  BY <1>4 DEF Points
<1>7. ASSUME NEW hits \in SUBSET DOMAIN Points, NEW blind \in SUBSET Doubtful,
             NEW fires, fires = {h \in hits : Points[h].ignore = 0 /\ DS!Holds(Points[h], v)},
             \A h \in DOMAIN Points \ Doubtful :
                 h \in hits <=> Points[h].enabled /\ DS!Hit(Points[h], a, v),
             \A h \in hits : Points[h].enabled,
             Points' = [h \in DOMAIN Points \ {g \in fires : Points[g].deleteAfter} |->
                           DS!Judged(Points[h], v, h \in hits, h \notin blind)],
             fires # {} => state' = "stopping",
             Doubtful' \subseteq Doubtful \cap DOMAIN Points',
             handleCount' = handleCount
      PROVE  DS!Arrive(a, v)
  <2>1. ~ (state # "running")
    BY <1>2
  <2>2. fires # {} => (state' # "running") = TRUE
    BY <1>7
  <2>3. (state' # "running") \in BOOLEAN
    OBVIOUS
  <2> QED
    BY <1>2, <1>7, <2>1, <2>2, <2>3, Zenon DEF DS!Arrive, Points, Doubtful
<1>8. CASE ~ listening
  <2>1. UNCHANGED <<stopPoints, handles, handleCount, toBeDeleted, listening, checked,
                    cached, lastStopCycle, fired>>
    BY <1>8 DEF SimulateCycle, managerVars, watchVars
  <2>2. DOMAIN stopPoints = {}
    BY <1>1, <1>8 DEF ManagerInv
  <2>3. Kept' = {} /\ Kept = {}
    BY <2>1, <2>2 DEF Kept
  <2>4. Doubtful' = {} /\ Doubtful = {}
    BY <2>3 DEF Doubtful
  <2>5. DOMAIN Points = {} /\ DOMAIN Points' = {}
    BY <2>3 DEF Points
  <2>6. Points' = [h \in DOMAIN Points \ {} |->
                       DS!Judged(Points[h], v, h \in {}, h \notin {})]
    BY <2>3 DEF Points
  <2>7. {} = {h \in {} : Points[h].ignore = 0 /\ DS!Holds(Points[h], v)}
    OBVIOUS
  <2>8. {g \in {} : Points[g].deleteAfter} = {}
    OBVIOUS
  <2> QED
    BY <1>7, <2>1, <2>4, <2>5, <2>6, <2>7, <2>8, Zenon
<1>9. CASE listening
  <2>1. PICK c \in Nat : c = clock + 1 /\ c = clock'
    BY <1>2, <1>5
  <2>2. HandleEvent(a, v, c)
    BY <1>9, <2>1, Zenon DEF SimulateCycle, HandleEvent, CheckAll
  <2>3. /\ fired' = Fires(a, v, c)
        /\ stopPoints' = [h \in DOMAIN stopPoints |-> Visited(h, a, v, c)]
        /\ toBeDeleted' = {h \in fired' : stopPoints[h].deleteAfter}
        /\ CheckAll(Enabled, v, c)
        /\ UNCHANGED <<handles, handleCount, listening>>
    BY <2>2, EventEffect, Zenon
  <2>4. PICK hits : hits = {h \in Enabled : IsTriggered(h, a, v, c)}
    OBVIOUS
  <2>5. PICK blind : blind = {h \in Doubtful : checked[h] = c}
    OBVIOUS
  <2>6. PICK fires : fires = Fires(a, v, c)
    OBVIOUS
  <2>7. hits \in SUBSET DOMAIN Points /\ blind \in SUBSET Doubtful /\ fires \subseteq hits
    BY <1>6, <2>4, <2>5, <2>6 DEF Enabled, Fires
  <2>8. fires = {h \in hits : Points[h].ignore = 0 /\ DS!Holds(Points[h], v)}
    <3>1. \A h \in hits : /\ Points[h] = stopPoints[h]
                          /\ IsConditionOK(h, v) <=> DS!Holds(Points[h], v)
      BY <1>6, <2>7 DEF IsConditionOK, DS!Holds
    <3> QED
      BY <2>4, <2>6, <3>1 DEF Fires
  <2>9. \A h \in hits : Points[h].enabled
    BY <1>6, <2>4, <2>7 DEF Enabled
  <2>10. ASSUME NEW h \in DOMAIN Points \ Doubtful
         PROVE  h \in hits <=> Points[h].enabled /\ DS!Hit(Points[h], a, v)
    <3>1. h \in DOMAIN stopPoints /\ Points[h] = stopPoints[h]
      BY <1>6, <2>10
    <3>2. stopPoints[h].watch => checked[h] # c
      <4>1. h \in Handles /\ checked[h] \in Nat
        BY <1>1, <3>1, BoundsAssumption DEF TypeOK, Handles
      <4> QED
        BY <1>4, <1>5, <2>1, <2>10, <3>1, <4>1 DEF Doubtful
    <3>3. IsTriggered(h, a, v, c) <=> DS!Hit(Points[h], a, v)
      BY <3>1, <3>2 DEF IsTriggered, DS!Hit
    <3> QED
      BY <2>4, <3>1, <3>3 DEF Enabled
  <2>11. Kept' = DOMAIN Points \ {g \in fires : Points[g].deleteAfter}
    <3>1. DOMAIN stopPoints' = DOMAIN stopPoints
      BY <2>3
    <3>2. \A g \in fires : Points[g] = stopPoints[g]
      BY <1>6, <2>7
    <3>3. toBeDeleted' = {g \in fires : Points[g].deleteAfter}
      BY <2>3, <2>6, <3>2
    <3> QED
      BY <1>6, <3>1, <3>3 DEF Kept
  <2>12. Points' = [h \in DOMAIN Points \ {g \in fires : Points[g].deleteAfter} |->
                        DS!Judged(Points[h], v, h \in hits, h \notin blind)]
    <3>1. ASSUME NEW h \in Kept'
          PROVE  stopPoints'[h] = DS!Judged(Points[h], v, h \in hits, h \notin blind)
      <4>1. h \in DOMAIN stopPoints /\ Points[h] = stopPoints[h] /\ stopPoints[h] \in StopPoint
        BY <1>5, <1>6, <2>11, <3>1
      <4>2. h \in hits <=> stopPoints[h].enabled /\ IsTriggered(h, a, v, c)
        BY <2>4, <4>1 DEF Enabled
      <4>3. stopPoints[h].watch => (h \notin blind <=> checked[h] # c)
        <5>1. c > clock
          BY <1>5, <2>1
        <5> QED
          BY <1>4, <2>5, <4>1, <5>1 DEF Doubtful
      <4>4. Visited(h, a, v, c) = DS!Judged(stopPoints[h], v, h \in hits, h \notin blind)
        <5> DEFINE p == stopPoints[h]
                   acts == p.enabled /\ IsTriggered(h, a, v, c) /\ IsConditionOK(h, v)
                   e1 == p.enabled /\ ~ (acts /\ p.ignore = 0 /\ p.disableAfter)
                   n1 == IF acts /\ p.ignore > 0 THEN p.ignore - 1 ELSE p.ignore
                   r1 == IF p.enabled /\ Looks(h, c) THEN v ELSE p.result
                   e2 == p.enabled /\ ~ (h \in hits /\ p.ignore = 0 /\ DS!Holds(p, v) /\ p.disableAfter)
                   n2 == IF h \in hits /\ DS!Holds(p, v) /\ p.ignore > 0 THEN p.ignore - 1 ELSE p.ignore
                   r2 == IF p.watch /\ p.enabled /\ h \notin blind THEN v ELSE p.result
        <5>1. IsConditionOK(h, v) <=> DS!Holds(p, v)
          BY Zenon DEF IsConditionOK, DS!Holds
        <5>2. acts <=> h \in hits /\ DS!Holds(p, v)
          BY <4>2, <5>1, Zenon
        <5>3. e1 = e2
          BY <5>2, Zenon
        <5>4. n1 = n2
          BY <5>2, Zenon
        <5>5. r1 = r2
          BY <4>3, Zenon DEF Looks
        <5>6. Visited(h, a, v, c) = [p EXCEPT !.enabled = e1, !.ignore = n1, !.result = r1]
          BY Zenon DEF Visited
        <5>7. DS!Judged(p, v, h \in hits, h \notin blind) = [p EXCEPT !.enabled = e2, !.ignore = n2, !.result = r2]
          BY Zenon DEF DS!Judged
        <5> HIDE DEF p, acts, e1, n1, r1, e2, n2, r2
        <5> QED
          BY <5>3, <5>4, <5>5, <5>6, <5>7, Zenon DEF p
      <4>5. stopPoints'[h] = Visited(h, a, v, c)
        BY <2>3, <4>1
      <4> QED
        BY <4>1, <4>4, <4>5, Zenon
    <3>2. Points' = [h \in Kept' |-> stopPoints'[h]]
      BY DEF Points
    <3> QED
      BY <2>11, <3>1, <3>2, Zenon
  <2>13. fires # {} => state' = "stopping"
    BY <1>2, <2>3, <2>6
  <2>14. Doubtful' \subseteq Doubtful \cap DOMAIN Points'
    <3> SUFFICES ASSUME NEW h \in Doubtful' PROVE h \in Doubtful /\ h \in DOMAIN Points'
      OBVIOUS
    <3>1. h \in Kept' /\ stopPoints'[h].watch /\ checked'[h] > c
      BY <2>1 DEF Doubtful
    <3>2. h \in DOMAIN stopPoints /\ h \in Handles
      BY <1>1, <1>6, <2>11, <3>1, BoundsAssumption DEF TypeOK, Handles
    <3>3. stopPoints[h].watch
      BY <1>1, <2>3, <3>1, <3>2, VisitedFields
    <3>4. h \notin Enabled
      <4>1. h \in Enabled => checked'[h] = c
        BY <1>1, <2>3, <3>2, <3>3, CheckedWatch
      <4> QED
        BY <3>1, <4>1
    <3>5. checked'[h] = checked[h]
      BY <1>1, <2>3, <3>2, <3>4, CheckedWatch
    <3>6. checked[h] > clock
      <4>1. checked[h] \in Nat
        BY <1>1, <3>2 DEF TypeOK
      <4> QED
        BY <1>5, <2>1, <3>1, <3>5, <4>1
    <3>7. h \in DOMAIN Points'
      BY <3>1 DEF Points
    <3> QED
      BY <1>4, <3>2, <3>3, <3>6, <3>7 DEF Doubtful
  <2> QED
    BY <1>7, <2>3, <2>7, <2>8, <2>9, <2>10, <2>12, <2>13, <2>14
<1> QED
  BY <1>8, <1>9

LEMMA PrintIsLook ==
    ASSUME IInv, PrintStopReasons
    PROVE  DS!Look
<1>1. TypeOK
  BY DEF IInv
<1>2. /\ state = "stopping" /\ toBeDeleted = {} /\ toBeDeleted' = {} /\ state' = "stopped"
      /\ stopPoints' = [h \in DOMAIN stopPoints |->
             [stopPoints[h] EXCEPT !.result = IF Looks(h, clock) THEN value
                                              ELSE stopPoints[h].result]]
      /\ CheckAll(DOMAIN stopPoints, value, clock)
      /\ UNCHANGED <<handleCount, clock, value>>
  BY DEF PrintStopReasons, simVars
<1>3. Kept = DOMAIN stopPoints /\ Kept' = DOMAIN stopPoints
  BY <1>2 DEF Kept
<1>4. stopPoints \in [DOMAIN stopPoints -> StopPoint] /\ value \in Values /\ clock \in Nat
      /\ DOMAIN stopPoints \subseteq Handles
  BY <1>1, BoundsAssumption DEF TypeOK, Handles
<1>5. PICK L : L = {h \in DOMAIN stopPoints : checked[h] # clock}
  OBVIOUS
<1>6. Points' = [h \in DOMAIN Points |->
          [Points[h] EXCEPT !.result = IF Points[h].watch /\ h \in L THEN value
                                       ELSE Points[h].result]]
  <2>1. ASSUME NEW h \in DOMAIN stopPoints
        PROVE  Looks(h, clock) <=> Points[h].watch /\ h \in L
    BY <1>3, <1>5, <2>1 DEF Looks, Points
  <2>2. DOMAIN Points = DOMAIN stopPoints /\ \A h \in DOMAIN stopPoints : Points[h] = stopPoints[h]
    BY <1>3 DEF Points
  <2>3. Points' = [h \in DOMAIN stopPoints |-> stopPoints'[h]]
    BY <1>3 DEF Points
  <2>4. ASSUME NEW h \in DOMAIN stopPoints
        PROVE  stopPoints'[h] = [Points[h] EXCEPT !.result =
                   IF Points[h].watch /\ h \in L THEN value ELSE Points[h].result]
    <3>1. stopPoints'[h] = [stopPoints[h] EXCEPT !.result = IF Looks(h, clock) THEN value
                                                            ELSE stopPoints[h].result]
      BY <1>2, <2>4
    <3> QED
      BY <2>1, <2>2, <3>1, Zenon
  <2> QED
    BY <2>2, <2>3, <2>4, Zenon
<1>7. PICK c \in Nat : c = clock
  BY <1>4
<1>8. PICK v \in Values : v = value
  BY <1>4
<1>9. CheckAll(DOMAIN stopPoints, v, c)
  BY <1>2, <1>7, <1>8, Zenon
<1>10. Doubtful' \subseteq Doubtful
  <2> SUFFICES ASSUME NEW h \in Doubtful' PROVE FALSE
    OBVIOUS
  <2>1. h \in DOMAIN stopPoints /\ stopPoints'[h].watch /\ checked'[h] > c
    BY <1>2, <1>3, <1>7 DEF Doubtful
  <2>2. stopPoints[h].watch
    <3>1. stopPoints'[h] = [stopPoints[h] EXCEPT !.result = IF Looks(h, clock) THEN value
                                                            ELSE stopPoints[h].result]
      BY <1>2, <2>1
    <3>2. PICK p \in StopPoint : p = stopPoints[h]
      BY <1>4, <2>1
    <3>3. PICK r : r = IF Looks(h, clock) THEN value ELSE stopPoints[h].result
      OBVIOUS
    <3>4. [p EXCEPT !.result = r].watch = p.watch
      BY DEF StopPoint
    <3> QED
      BY <2>1, <3>1, <3>2, <3>3, <3>4, Zenon
  <2>3. checked'[h] = c
    BY <1>1, <1>4, <1>9, <2>1, <2>2, CheckedWatch
  <2> QED
    BY <2>1, <2>3
<1>11. state # "running" /\ state' # "running"
  BY <1>2
<1>12. L \in SUBSET DOMAIN Points
  BY <1>3, <1>5 DEF Points
<1> QED
  BY <1>2, <1>6, <1>10, <1>11, <1>12, Zenon DEF DS!Look, Points, Doubtful

(* Steps without an effect on stop points                                  *)
LEMMA SamePoints ==
    ASSUME UNCHANGED <<stopPoints, toBeDeleted>>
    PROVE  Kept' = Kept /\ Points' = Points
BY DEF Kept, Points

LEMMA OthersImplement ==
    ASSUME IInv,
           \/ Start
           \/ EndCommand
           \/ \E v \in Values : SimulateLastCycle(v)
           \/ \E v \in Values : SimulateFailingCycle(v)
           \/ \E v \in Values : Kill(v)
    PROVE  DS!Next \/ UNCHANGED DS!vars
<1>1. TypeOK
  BY DEF IInv
<1>2. UNCHANGED <<stopPoints, toBeDeleted, handleCount, checked>>
  BY DEF Start, EndCommand, SimulateLastCycle, SimulateFailingCycle, Kill,
         managerVars, watchVars
<1>3. Kept' = Kept /\ Points' = Points
  BY <1>2, SamePoints
<1>4. ASSUME clock' = clock PROVE Doubtful' = Doubtful
  BY <1>2, <1>3, <1>4 DEF Doubtful
<1>5. CASE Start
  <2>1. UNCHANGED <<clock, value>> /\ state # "running" /\ state' = "running"
    BY <1>5 DEF Start, Idle
  <2>2. Doubtful' = Doubtful
    BY <1>4, <2>1
  <2>3. (state # "running") /\ (state' # "running") = FALSE
    BY <2>1
  <2>4. DS!Start
    BY <1>2, <1>3, <2>1, <2>2, <2>3, Zenon DEF DS!Start, Points, Doubtful
  <2> QED
    BY <2>4 DEF DS!Next
<1>6. CASE EndCommand
  <2>1. UNCHANGED <<clock, value>> /\ state = "stopping" /\ state' = "stopped"
    BY <1>6 DEF EndCommand, simVars
  <2>2. Doubtful' = Doubtful
    BY <1>4, <2>1
  <2>3. (state' # "running") = (state # "running")
    BY <2>1
  <2>4. UNCHANGED DS!vars
    BY <1>2, <1>3, <2>1, <2>2, <2>3, Zenon DEF DS!vars, Points, Doubtful
  <2> QED
    BY <2>4
<1>7. CASE \E v \in Values : SimulateLastCycle(v) \/ SimulateFailingCycle(v)
  <2>1. /\ value' \in Values /\ state = "running" /\ state' # "running"
        /\ clock' = clock + 1 \/ clock' = clock
    BY <1>7 DEF SimulateLastCycle, SimulateFailingCycle
  <2>2. Doubtful' \subseteq Doubtful
    <3>1. ASSUME NEW h \in Doubtful' PROVE h \in Doubtful
      <4>1. h \in Kept /\ stopPoints[h].watch /\ checked[h] > clock'
        BY <1>2, <1>3, <3>1 DEF Doubtful
      <4>2. h \in Handles
        BY <1>1, <4>1, BoundsAssumption DEF TypeOK, Handles, Kept
      <4>3. checked[h] \in Nat /\ clock \in Nat
        BY <1>1, <4>2 DEF TypeOK
      <4> QED
        BY <2>1, <4>1, <4>3 DEF Doubtful
    <3> QED
      BY <3>1
  <2>3. ~ (state # "running") /\ (state' # "running") = TRUE
    BY <2>1
  <2>4. DS!StopOtherwise
    BY <1>2, <1>3, <2>1, <2>2, <2>3, Zenon DEF DS!StopOtherwise, Points, Doubtful
  <2> QED
    BY <2>4 DEF DS!Next
<1>8. CASE \E v \in Values : Kill(v)
  <2>1. /\ value' \in Values
        /\ state # "running" /\ (state' # "running") = (state # "running")
    BY <1>8 DEF Kill
  <2>2. Doubtful' \subseteq {h \in DOMAIN Points : Points[h].watch}
    BY <1>2, <1>3 DEF Doubtful, Points
  <2>3. DS!Kill
    BY <1>2, <1>3, <2>1, <2>2, Zenon DEF DS!Kill, Points, Doubtful
  <2> QED
    BY <2>3 DEF DS!Next
<1> QED
  BY <1>5, <1>6, <1>7, <1>8

LEMMA InitImplements == Init => DS!Init
<1> SUFFICES ASSUME Init PROVE DS!Init
  OBVIOUS
<1>1. Kept = {}
  BY DEF Init, Kept
<1>2. Points = [h \in {} |-> 0] /\ Doubtful = {}
  BY <1>1 DEF Points, Doubtful
<1>3. handleCount = 0 /\ value \in Values /\ (state # "running") = TRUE
  BY DEF Init
<1> QED
  BY <1>2, <1>3, Zenon DEF DS!Init, Points, Doubtful

LEMMA NextImplements == IInv /\ [Next]_vars => [DS!Next]_(DS!vars)
<1> SUFFICES ASSUME IInv, [Next]_vars PROVE DS!Next \/ UNCHANGED DS!vars
  OBVIOUS
<1>1. CASE UNCHANGED vars
  BY <1>1 DEF vars, DS!vars, Kept
<1>2. ASSUME New PROVE DS!Next
  BY <1>2, NewIsAdd DEF DS!Next
<1>3. ASSUME Tune PROVE DS!Next
  BY <1>3, TuneIsChange DEF DS!Next
<1>4. ASSUME NEW h \in DOMAIN stopPoints, DeleteStopPoint(h) PROVE DS!Next
  BY <1>4, DeleteIsRemove, Zenon DEF DS!Next, Points
<1>5. ASSUME DeleteAll PROVE DS!Next
  BY <1>5, DeleteAllIsRemove, Zenon DEF DS!Next, Points
<1>6. ASSUME NEW a \in Addresses, NEW v \in Values, SimulateCycle(a, v) PROVE DS!Next
  BY <1>6, CycleIsArrive, Zenon DEF DS!Next
<1>7. ASSUME PrintStopReasons PROVE DS!Next
  BY <1>7, PrintIsLook DEF DS!Next
<1>8. ASSUME NEW h \in DOMAIN stopPoints, DeleteTriggered(h) PROVE UNCHANGED DS!vars
  BY <1>8, DeleteTriggeredIsStutter
<1> QED
  BY <1>1, <1>2, <1>3, <1>4, <1>5, <1>6, <1>7, <1>8, Steps, OthersImplement, Zenon

(* For any number of stop points, addresses and cycles: the manager, its   *)
(* listening and the cached watches implement what stop points promise.    *)
THEOREM StopPointsImplement == Spec => ImplementsDebuggerStops
<1> QED
  BY Inductive, InitImplements, NextImplements, PTL DEF Spec, ImplementsDebuggerStops, DS!Spec
=============================================================================

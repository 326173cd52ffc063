--------------------------- MODULE DebuggerStops ---------------------------
(***************************************************************************)
(* What breakpoints and watches promise.  The simulation stops in front of *)
(* an instruction exactly if a stop point fires there: an enabled          *)
(* breakpoint of its address, or an enabled watch whose expression has     *)
(* another value than when the watch last looked, whose condition holds    *)
(* and whose ignore count is used up.  All stop points act at once, and    *)
(* nothing is said about lists, listeners or cached results.               *)
(*                                                                         *)
(* A simulation that is killed leaves watches in doubt: in the first       *)
(* instruction that finds one enabled it may repeat its last answer.       *)
(***************************************************************************)
EXTENDS Naturals

CONSTANTS Addresses, Values

StopPoint == [watch : BOOLEAN, addr : Addresses, enabled : BOOLEAN,
              disableAfter : BOOLEAN, deleteAfter : BOOLEAN, ignore : Nat,
              conditional : BOOLEAN, result : Values]

VARIABLES points,    \* the stop points, by handle
          used,      \* the handles given out are 1 .. used
          value,     \* the value of the expression
          stopped,   \* no command runs
          doubtful   \* watches in doubt

vars == <<points, used, value, stopped, doubtful>>

Init ==
    /\ points = [h \in {} |-> 0]
    /\ used = 0
    /\ value \in Values
    /\ stopped = TRUE
    /\ doubtful = {}

Add ==
    /\ stopped
    /\ used' = used + 1
    /\ DOMAIN points' = DOMAIN points \cup {used + 1}
    /\ \A h \in DOMAIN points : points'[h] = points[h]
    /\ points'[used + 1] \in StopPoint
    /\ points'[used + 1].enabled
    /\ points'[used + 1].result = value
    /\ UNCHANGED <<value, stopped, doubtful>>

Remove(H) ==
    /\ stopped
    /\ points' = [h \in DOMAIN points \ H |-> points[h]]
    /\ doubtful' = doubtful \ H
    /\ UNCHANGED <<used, value, stopped>>

(* The user may change everything but what a stop point waits for.         *)
Change ==
    /\ stopped
    /\ points' \in [DOMAIN points -> StopPoint]
    /\ \A h \in DOMAIN points :
           /\ points'[h].watch = points[h].watch
           /\ points'[h].addr = points[h].addr
           /\ points'[h].result = points[h].result
    /\ UNCHANGED <<used, value, stopped, doubtful>>

Start ==
    /\ stopped
    /\ stopped' = FALSE
    /\ UNCHANGED <<points, used, value, doubtful>>

Holds(p, v) == p.conditional => v # 0

Hit(p, a, v) == IF p.watch THEN v # p.result ELSE a = p.addr

(* Stop point p once the instruction at hand is judged                     *)
Judged(p, v, hit, looks) ==
    [p EXCEPT
        !.enabled = @ /\ ~ (hit /\ p.ignore = 0 /\ Holds(p, v) /\ p.disableAfter),
        !.ignore = IF hit /\ Holds(p, v) /\ @ > 0 THEN @ - 1 ELSE @,
        !.result = IF p.watch /\ p.enabled /\ looks THEN v ELSE @]

(* The simulation is about to execute the instruction at a.                *)
Arrive(a, v) ==
    /\ ~ stopped
    /\ value' = v
    /\ \E hits \in SUBSET DOMAIN points, blind \in SUBSET doubtful :
           LET fires == {h \in hits : points[h].ignore = 0 /\ Holds(points[h], v)}
           IN  /\ \A h \in DOMAIN points \ doubtful :
                      h \in hits <=> points[h].enabled /\ Hit(points[h], a, v)
               /\ \A h \in hits : points[h].enabled
               /\ points' = [h \in DOMAIN points \ {g \in fires : points[g].deleteAfter} |->
                                Judged(points[h], v, h \in hits, h \notin blind)]
               /\ fires # {} => stopped' = TRUE
               /\ doubtful' \subseteq doubtful \cap DOMAIN points'
    /\ stopped' \in BOOLEAN
    /\ UNCHANGED used

(* The program ends or an instruction fails, or the command is interrupted.*)
StopOtherwise ==
    /\ ~ stopped
    /\ value' \in Values
    /\ stopped' = TRUE
    /\ doubtful' \subseteq doubtful
    /\ UNCHANGED <<points, used>>

(* Watches are asked for the reason of a stop.                             *)
Look ==
    /\ stopped
    /\ \E L \in SUBSET DOMAIN points :
           points' = [h \in DOMAIN points |->
               [points[h] EXCEPT !.result = IF points[h].watch /\ h \in L THEN value ELSE @]]
    /\ doubtful' \subseteq doubtful
    /\ UNCHANGED <<used, value, stopped>>

Kill ==
    /\ stopped
    /\ value' \in Values
    /\ doubtful' \subseteq {h \in DOMAIN points : points[h].watch}
    /\ UNCHANGED <<points, used, stopped>>

Next ==
    \/ Add
    \/ \E H \in SUBSET DOMAIN points : Remove(H)
    \/ Change
    \/ Start
    \/ \E a \in Addresses, v \in Values : Arrive(a, v)
    \/ StopOtherwise
    \/ Look
    \/ Kill

Spec == Init /\ [][Next]_vars
=============================================================================

------------------------ MODULE ResourceReservations ------------------------
(***************************************************************************)
(* What a conflict detector promises: an operation is refused exactly when *)
(* it would use a port or a pipeline resource of the unit in a cycle in    *)
(* which an operation started earlier uses it.  The state is the           *)
(* reservations themselves; neither collision matrices nor an automaton    *)
(* appear here.                                                            *)
(***************************************************************************)
EXTENDS Integers

CONSTANTS Ops, NOP, Resources, Width, Table

VARIABLES reserved,   \* <<r, c>>: resource r is taken c cycles from now
          op,         \* the operation the current instruction triggers
          stage       \* how far the current cycle is

vars == <<reserved, op, stage>>

Cells == Resources \X (0 .. Width - 1)
TableOf(t) == IF t = NOP THEN {} ELSE Table[t]

Init ==
    /\ reserved = {}
    /\ op = NOP
    /\ stage = "execute"

Verdict(t) == IF TableOf(t) \cap reserved = {} THEN "issued" ELSE "stopped"

(* The instruction is executed, for the first time or again after the      *)
(* simulation was stopped by an error and resumed.                         *)
Execute(t) ==
    /\ \/ stage = "execute"
       \/ stage = "stopped" /\ t = op
    /\ op' = t
    /\ stage' = Verdict(t)
    /\ UNCHANGED reserved

(* Something else in the cycle fails.                                      *)
GiveUp ==
    /\ stage = "issued"
    /\ stage' = "stopped"
    /\ UNCHANGED <<reserved, op>>

Advance ==
    /\ stage = "issued"
    /\ reserved' = {x \in Cells : <<x[1], x[2] + 1>> \in reserved \cup TableOf(op)}
    /\ op' = NOP
    /\ stage' = "execute"

Reset ==
    /\ stage # "issued"
    /\ reserved' = {}
    /\ op' = NOP
    /\ stage' = "execute"

Next ==
    \/ \E t \in Ops \cup {NOP} : Execute(t)
    \/ GiveUp
    \/ Advance
    \/ Reset

Spec == Init /\ [][Next]_vars
=============================================================================

----------------------------- MODULE FUPipeline -----------------------------
(***************************************************************************)
(* What a function unit promises the program: a fully pipelined unit.  An  *)
(* operation triggered in a cycle reads the input ports at the end of that *)
(* cycle, and each of its results is on its output port exactly            *)
(* OutLatency[o][p] cycles later, whatever else is in flight.  No shortcut,*)
(* no buffer and no counter appears here.                                  *)
(***************************************************************************)
EXTENDS Integers

CONSTANTS NumOps, Ports, Values, Latency, OutLatency

VARIABLES phase, in, out,
          request,    \* the operation to start at the end of the cycle
          flight      \* operations started and not finished

vars == <<phase, in, out, request, flight>>

Ops == 1 .. NumOps
NoOp == -1
Finished(f) == [op |-> f.op, in |-> f.in]

Init ==
    /\ phase = "moves"
    /\ in \in Values
    /\ out = [p \in Ports |-> [op |-> 0]]
    /\ request = NoOp
    /\ flight = {}

(* A move may change the inputs and may (re)place the request.             *)
Move ==
    /\ phase = "moves"
    /\ in' \in Values
    /\ request' \in Ops \cup {request}
    /\ UNCHANGED <<phase, out, flight>>

Started == [op |-> request, in |-> in, left |-> Latency[request]]

(* The result of a single-cycle operation may be on its port as soon as    *)
(* the cycle in which it starts is over.                                   *)
Issue ==
    /\ phase = "moves"
    /\ phase' = "advance"
    /\ request' = NoOp
    /\ in' = in
    /\ \/ request = NoOp /\ UNCHANGED <<out, flight>>
       \/ /\ request # NoOp
          /\ flight' = flight \cup {Started}
          /\ out' = out
       \/ /\ request # NoOp
          /\ Latency[request] = 1
          /\ flight' = flight
          /\ out' = [p \in Ports |-> IF p \in DOMAIN OutLatency[request]
                                     THEN Finished(Started) ELSE out[p]]

Due(p) == {f \in flight : /\ p \in DOMAIN OutLatency[f.op]
                          /\ Latency[f.op] - f.left + 1 = OutLatency[f.op][p]}

Tick ==
    /\ phase = "advance"
    /\ phase' = "moves"
    /\ UNCHANGED <<in, request>>
    /\ flight' = {[f EXCEPT !.left = f.left - 1] : f \in {g \in flight : g.left > 1}}
    /\ DOMAIN out' = Ports
    /\ \A p \in Ports :
          out'[p] \in IF Due(p) = {} THEN {out[p]} ELSE {Finished(f) : f \in Due(p)}

Next == Move \/ Issue \/ Tick

Spec == Init /\ [][Next]_vars
=============================================================================

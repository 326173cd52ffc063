--------------------------- MODULE ParallelMoves ---------------------------
(***************************************************************************)
(* What a transport triggered processor promises about the moves of an     *)
(* instruction: all guards are evaluated and all sources read in the state *)
(* before the instruction, the destinations of the moves whose guard is    *)
(* true change together, and a guard of latency L > 1 sees its register as *)
(* it was at the end of the L-th last completed cycle.  Buses, loops and   *)
(* ring buffers do not appear here.                                        *)
(***************************************************************************)
EXTENDS Integers, Sequences

CONSTANTS Registers, Ports, Values, PortValues, Guards, Target, Latency,
          Instructions, Idle, Extended(_, _)

VARIABLES reg,    \* the values of registers and ports
          past,   \* past[g][j]: Target[g] at the end of the j-th last cycle
          instr,  \* the instruction of the cycle
          stage   \* how far the cycle is

vars == <<reg, past, instr, stage>>

Sees(g) == IF Latency[g] = 1 THEN reg[Target[g]] ELSE past[g][Latency[g]]

Taken(m) ==
    m.guarded => IF m.negated THEN Sees(m.guard) = 0 ELSE Sees(m.guard) # 0

(* What the instruction writes to r; more than one value if the program    *)
(* writes r more than once.                                                *)
Written(r) ==
    {reg[instr.moves[k].src] : k \in {j \in DOMAIN instr.moves :
                                         instr.moves[j].dst = r /\ Taken(instr.moves[j])}}
    \cup
    {Extended(r, instr.imms[k].bits) : k \in {j \in DOMAIN instr.imms : instr.imms[j].dst = r}}

Init ==
    /\ reg = [r \in Registers |-> 0]
    /\ past = [g \in Guards |-> [j \in 1 .. Latency[g] |-> 0]]
    /\ instr = Idle
    /\ stage = "ready"

(* An instruction that failed is the next one, unless the run is killed.   *)
Fetch(i) ==
    /\ \/ stage = "ready"
       \/ stage = "failed" /\ i = instr
    /\ instr' = i
    /\ stage' = "fetched"
    /\ UNCHANGED <<reg, past>>

Transport ==
    /\ stage = "fetched"
    /\ reg' \in [Registers -> Values]
    /\ \A r \in Registers :
           IF Written(r) = {} THEN reg'[r] = reg[r] ELSE reg'[r] \in Written(r)
    /\ stage' = "executed"
    /\ UNCHANGED <<past, instr>>

(* The units deliver their results to their ports.                         *)
Deliver ==
    /\ stage = "executed"
    /\ reg' \in [Registers -> Values]
    /\ \A r \in Registers : IF r \in Ports THEN reg'[r] \in PortValues ELSE reg'[r] = reg[r]
    /\ UNCHANGED instr

Complete ==
    /\ Deliver
    /\ past' = [g \in Guards |-> [j \in 1 .. Latency[g] |->
                   IF j = 1 THEN reg'[Target[g]] ELSE past[g][j - 1]]]
    /\ stage' = "ready"

Fail ==
    /\ Deliver
    /\ stage' = "failed"
    /\ UNCHANGED past

Kill ==
    /\ stage = "failed"
    /\ stage' = "ready"
    /\ UNCHANGED <<reg, past, instr>>

Next ==
    \/ \E i \in Instructions : Fetch(i)
    \/ Transport
    \/ Complete
    \/ Fail
    \/ Kill

Spec == Init /\ [][Next]_vars
=============================================================================

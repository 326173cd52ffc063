-------------------------- MODULE DelayedTransfer ---------------------------
(***************************************************************************)
(* What the control unit promises the program: a jump executed by an       *)
(* instruction takes effect after exactly DelaySlots further instructions, *)
(* a call also leaves in ra the address of the instruction that follows    *)
(* those, and an instruction that is executed again after a runtime error  *)
(* counts once.  The transfers under way are a shift register with one     *)
(* place per delay slot; there is no timer and no idle flag.               *)
(***************************************************************************)
EXTENDS Integers

CONSTANTS NumInstr, DelaySlots

Instr == 0 .. NumInstr - 1
Slots == 1 .. DelaySlots
Nothing == -1
NoTransfer == [op |-> "nop", to |-> 0]

VARIABLES code,      \* the program's control moves
          phase,     \* of the cycle: "fetch", "executed" or "ended"
          pc, ra,
          request,   \* what the moves of this cycle asked for
          issued,    \* target of the transfer started in this cycle
          slots      \* targets of the transfers started in the cycles before

vars == <<code, phase, pc, ra, request, issued, slots>>

Init ==
    /\ phase = "fetch"
    /\ pc = 0
    /\ ra = 0
    /\ request = NoTransfer
    /\ issued = Nothing
    /\ slots = [i \in Slots |-> Nothing]

Asked == CASE code[pc].op = "ret" -> [op |-> "jump", to |-> ra]
           [] OTHER -> code[pc]

Execute ==
    /\ phase = "fetch"
    /\ pc \in Instr
    /\ phase' = "executed"
    /\ request' = Asked
    /\ UNCHANGED <<code, pc, ra, issued, slots>>

(* No transfer is started while another one is under way.                  *)
Issue ==
    /\ phase = "executed"
    /\ phase' = "ended"
    /\ request' = NoTransfer
    /\ \/ /\ request.op = "nop"
          /\ UNCHANGED <<issued, ra>>
       \/ /\ request.op # "nop"
          /\ slots = [i \in Slots |-> Nothing]
          /\ issued' = request.to
          /\ ra' = IF request.op = "call" THEN pc + DelaySlots + 1 ELSE ra
    /\ UNCHANGED <<code, pc, slots>>

Queue == [i \in 1 .. DelaySlots + 1 |-> IF i \in Slots THEN slots[i] ELSE issued]

Commit ==
    /\ phase = "ended"
    /\ phase' = "fetch"
    /\ pc' = IF Queue[1] = Nothing THEN pc + 1 ELSE Queue[1]
    /\ slots' = [i \in Slots |-> Queue[i + 1]]
    /\ issued' = Nothing
    /\ UNCHANGED <<code, ra, request>>

(* The cycle is given up: its instruction has to be executed again.        *)
Abandon ==
    /\ phase # "fetch"
    /\ phase' = "fetch"
    /\ request' = NoTransfer
    /\ issued' = Nothing
    /\ UNCHANGED <<code, pc, ra, slots>>

Restart ==
    /\ phase = "fetch"
    /\ phase' = "fetch"
    /\ pc' = 0
    /\ ra' = 0
    /\ slots' = [i \in Slots |-> Nothing]
    /\ UNCHANGED <<code, request, issued>>

Next == Execute \/ Issue \/ Commit \/ Abandon \/ Restart

Spec == Init /\ [][Next]_vars
=============================================================================

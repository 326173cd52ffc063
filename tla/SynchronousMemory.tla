------------------------- MODULE SynchronousMemory --------------------------
(***************************************************************************)
(* What the data memory promises to a program (the comment of class Memory *)
(* in Memory.hh): the loads of a cycle return what earlier cycles stored   *)
(* and see no store of their own cycle; the stores of a cycle take effect  *)
(* together at its end, units in order.  Words are big-endian.             *)
(***************************************************************************)
EXTENDS Integers

CONSTANTS Space,     \* addresses of the address space
          MauBits,   \* width of a minimum addressable unit
          NumUnits   \* load-store units, in the order of the machine

VARIABLES mem,       \* contents of the memory
          ops,       \* the accesses of the instruction, one per unit
          running,   \* the instruction is being executed
          result     \* what the loads of the instruction returned

vars == <<mem, ops, running, result>>

Units == 1 .. NumUnits

(* Digit i of a word of n units, the most significant first.               *)
Digit(value, n, i) == (value \div 2^(MauBits * (n - 1 - i))) % 2^MauBits

(* The word of n units at an address.                                      *)
Word(m, address, n) ==
    CHOOSE v \in 0 .. 2^(MauBits * n) - 1 : \A i \in 0 .. n - 1 : Digit(v, n, i) = m[address + i]

Inside(op) == op.address .. op.address + op.size - 1 \subseteq Space

Covers(op, x) == op.kind = "store" /\ x \in op.address .. op.address + op.size - 1

(* The memory after the stores of an instruction: the last unit wins.      *)
Stored(m, o) ==
    [x \in Space |->
        LET stores == {u \in Units : Covers(o[u], x)}
            last == CHOOSE u \in stores : \A w \in stores : w <= u
        IN  IF stores = {} THEN m[x]
            ELSE Digit(o[last].value, o[last].size, x - o[last].address)]

Init == mem \in [Space -> {0}] /\ running = FALSE

Begin ==
    /\ ~ running
    /\ running' = TRUE
    /\ UNCHANGED mem

Load(u) ==
    /\ running
    /\ ops[u].kind = "load" /\ Inside(ops[u])
    /\ result' = [result EXCEPT ![u] = Word(mem, ops[u].address, ops[u].size)]
    /\ UNCHANGED <<mem, ops, running>>

EndCycle ==
    /\ running
    /\ \A u \in Units : ops[u].kind # "none" => Inside(ops[u])
    /\ \A u \in Units : ops[u].kind = "load" =>
                           result[u] = Word(mem, ops[u].address, ops[u].size)
    /\ mem' = Stored(mem, ops)
    /\ running' = FALSE

Restart ==
    /\ mem' \in [Space -> {0}]
    /\ running' = FALSE

Spec == Init /\ [][Begin \/ (\E u \in Units : Load(u)) \/ EndCycle \/ Restart]_vars
=============================================================================

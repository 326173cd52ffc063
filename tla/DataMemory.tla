----------------------------- MODULE DataMemory -----------------------------
(***************************************************************************)
(* The data memory of the simulator (Memory, IdealSRAM, PagedArray) in the *)
(* cycle of simulateCycle.  Load-store units of the fast executors access  *)
(* the memory in endClock, units of MultiLatencyOperationExecutor in       *)
(* advanceClock; between the two Memory::advanceClock commits the queue of *)
(* write requests.                                                         *)
(*                                                                         *)
(* A unit may throw before the commit: simulateCycle gives the cycle up,   *)
(* the requests stay in the queue, and resuming the simulation executes    *)
(* the instruction again.  The stuck state in which an operation of the    *)
(* detailed model that throws leaves its unit is not modelled: units of    *)
(* that kind make legal accesses only.                                     *)
(***************************************************************************)
EXTENDS Integers, Sequences

CONSTANTS Start, End,    \* first and last address of the address space
          PageSize,      \* MEM_CHUNK_SIZE
          MauBits,       \* MAUSize_
          AddressBits,   \* width of Word, the type of addresses
          NumUnits,      \* load-store units, in the order of fuCache_
          MultiChoices,  \* the possible sets of units with the executor
                         \* MultiLatencyOperationExecutor
          Addresses, Sizes, Values,  \* what programs use
          MaxQueue       \* bound on the write requests a replay starts with

Space == Start .. End
Units == 1 .. NumUnits
Mau == 0 .. 2^MauBits - 1
Page(x) == (x - Start) \div PageSize

(* The pages PagedArray(end_ - start_) makes room for.                     *)
PageTableSize == (End - Start + PageSize - 1) \div PageSize

ASSUME SpaceAssumption == Start \in Nat /\ End \in Nat /\ Start <= End
ASSUME AddressAssumption == AddressBits \in Nat /\ 2^AddressBits \in Nat
                            /\ End < 2^AddressBits
ASSUME PageAssumption == PageSize \in Nat \ {0}
ASSUME MauAssumption == MauBits \in Nat \ {0}
ASSUME UnitsAssumption == NumUnits \in Nat
ASSUME MultiAssumption == MultiChoices \subseteq SUBSET Units
ASSUME AccessAssumption == Addresses \subseteq 0 .. 2^AddressBits - 1
                           /\ Sizes \subseteq Nat \ {0} /\ Values \subseteq Nat
(* How powers grow, for the words that programs use.  It holds of all      *)
(* numbers; it is written down because the provers know nothing about ^.   *)
ASSUME PowersAssumption ==
    /\ 2^MauBits \in Nat \ {0}
    /\ \A n \in Sizes : \A j \in 0 .. n - 1 :
          2^(MauBits * (j + 1)) = 2^MauBits * 2^(MauBits * j)

NoAccess == [kind |-> "none", address |-> 0, size |-> 1, value |-> 0]
Access == {NoAccess}
          \cup [kind : {"load"}, address : Addresses, size : Sizes, value : {0}]
          \cup [kind : {"store"}, address : Addresses, size : Sizes, value : Values]

VARIABLES multi,      \* units of MultiLatencyOperationExecutor
          contents,   \* data_
          queue,      \* writeRequests_
          phase,      \* "issue", "end" (endClock) or "advance" (advanceClock)
          unit,       \* next unit to do so
          ops,        \* the accesses of the instruction
          replay,     \* the last cycle was given up with an exception
          result,     \* what the loads of the instruction returned
          earlier     \* history: the memory as earlier cycles left it

vars == <<multi, contents, queue, phase, unit, ops, replay, result, earlier>>

Zero == [x \in Space |-> 0]
NoAccesses == [u \in Units |-> NoAccess]
NoResults == [u \in Units |-> 0]

Init ==
    /\ multi \in MultiChoices
    /\ contents = Zero
    /\ queue = <<>>
    /\ phase = "issue"
    /\ unit = 1
    /\ ops = NoAccesses
    /\ replay = FALSE
    /\ result = NoResults
    /\ earlier = Zero

-----------------------------------------------------------------------------
(* class Memory                                                            *)

(* checkRange, in unsigned arithmetic.                                     *)
InRange(address, n) ==
    /\ address >= Start
    /\ address <= (End - n + 1) % 2^AddressBits

Unpack_Unmasked(value, n) == [i \in 1 .. n |-> value \div 2^(MauBits * (n - i))]

(* Shifted right and masked, the most significant unit first.              *)
Unpack(value, n) ==
    [i \in 1 .. n |-> (value \div 2^(MauBits * (n - i))) % 2^MauBits]

Request(address, n, value) == [address |-> address, data |-> Unpack(value, n)]
Requests == {Request(a, n, v) : a \in Addresses, n \in Sizes, v \in Values}

(* read: the units are shifted into place one after the other.             *)
Read(address, n) ==
    LET data[i \in 0 .. n] ==
            IF i = 0 THEN 0
            ELSE data[i - 1] + contents[address + i - 1] * 2^(MauBits * (n - i))
    IN  data[n]

(* advanceClock: the requests are written in the order they were queued.   *)
Committed(q, c) ==
    [x \in Space |->
        LET writers == {i \in DOMAIN q : x - q[i].address + 1 \in DOMAIN q[i].data}
            last == CHOOSE i \in writers : \A j \in writers : j <= i
        IN  IF writers = {} THEN c[x] ELSE q[last].data[x - q[last].address + 1]]

-----------------------------------------------------------------------------
(* The trigger of a load or a store, which checks the alignment, and the   *)
(* memory, which checks the range.                                         *)
Legal_WriteUnchecked(op) ==
    \/ op.kind = "none"
    \/ op.address % op.size = 0 /\ (op.kind = "store" \/ InRange(op.address, op.size))

Legal(op) ==
    op.kind = "none" \/ (op.address % op.size = 0 /\ InRange(op.address, op.size))

Trigger(u) ==
    \/ /\ ops[u].kind = "none"
       /\ UNCHANGED <<queue, result>>
    \/ /\ ops[u].kind = "store"
       /\ queue' = Append(queue, Request(ops[u].address, ops[u].size, ops[u].value))
       /\ UNCHANGED result
    \/ /\ ops[u].kind = "load"
       /\ result' = [result EXCEPT ![u] = Read(ops[u].address, ops[u].size)]
       /\ UNCHANGED queue

-----------------------------------------------------------------------------
(* The cycle                                                               *)

(* The moves of an instruction trigger operations in the units.            *)
Issue(o) ==
    /\ phase = "issue"
    /\ ~ replay
    /\ \A u \in multi : Legal(o[u])
    /\ ops' = o
    /\ phase' = "end"
    /\ unit' = 1
    /\ UNCHANGED <<multi, contents, queue, replay, result, earlier>>

(* The simulation is resumed with the instruction that failed.             *)
Replay ==
    /\ phase = "issue"
    /\ replay
    /\ Len(queue) <= MaxQueue
    /\ phase' = "end"
    /\ unit' = 1
    /\ replay' = FALSE
    /\ UNCHANGED <<multi, contents, queue, ops, result, earlier>>

EndClock ==
    /\ phase = "end"
    /\ unit \in Units
    /\ IF unit \in multi THEN UNCHANGED <<queue, result>>
                         ELSE Legal(ops[unit]) /\ Trigger(unit)
    /\ unit' = unit + 1
    /\ UNCHANGED <<multi, contents, phase, ops, replay, earlier>>

(* The access is illegal, or a unit that is no load-store unit throws.     *)
EndClockThrows ==
    /\ phase = "end"
    /\ phase' = "issue"
    /\ unit' = 1
    /\ replay' = TRUE
    /\ UNCHANGED <<multi, contents, queue, ops, result, earlier>>

AdvanceMemory ==
    /\ phase = "end"
    /\ unit \notin Units
    /\ contents' = Committed(queue, contents)
    /\ queue' = <<>>
    /\ phase' = "advance"
    /\ unit' = 1
    /\ UNCHANGED <<multi, ops, replay, result, earlier>>

AdvanceClock ==
    /\ phase = "advance"
    /\ unit \in Units
    /\ IF unit \in multi THEN Trigger(unit) ELSE UNCHANGED <<queue, result>>
    /\ unit' = unit + 1
    /\ UNCHANGED <<multi, contents, phase, ops, replay, earlier>>

CycleEnd ==
    /\ phase = "advance"
    /\ unit \notin Units
    /\ phase' = "issue"
    /\ unit' = 1
    /\ ops' = NoAccesses
    /\ result' = NoResults
    /\ earlier' = Committed(queue, contents)
    /\ UNCHANGED <<multi, contents, queue, replay>>

Reset_KeepsQueue == queue' = queue

(* Memory::reset clears the requests.                                      *)
Reset == queue' = <<>>

(* killSimulation between commands: initializeDataMemories resets the      *)
(* memories and writes the initial data.                                   *)
KillSimulation ==
    /\ phase = "issue"
    /\ Reset
    /\ contents' = Zero
    /\ earlier' = Zero
    /\ replay' = FALSE
    /\ ops' = NoAccesses
    /\ result' = NoResults
    /\ UNCHANGED <<multi, phase, unit>>

Next ==
    \/ \E o \in [Units -> Access] : Issue(o)
    \/ Replay
    \/ EndClock \/ EndClockThrows
    \/ AdvanceMemory
    \/ AdvanceClock
    \/ CycleEnd
    \/ KillSimulation

Spec == Init /\ [][Next]_vars

-----------------------------------------------------------------------------
(* Properties                                                              *)

(* The memory holds units of its width and the queue only requests the     *)
(* loads and stores of the program can make: unpack masks every unit.      *)
TypeOK ==
    /\ multi \in MultiChoices
    /\ contents \in [Space -> Mau]
    /\ queue \in Seq(Requests)
    /\ phase \in {"issue", "end", "advance"}
    /\ unit \in 1 .. NumUnits + 1
    /\ ops \in [Units -> Access]
    /\ replay \in BOOLEAN
    /\ result \in [Units -> Nat]
    /\ earlier \in [Space -> Mau]

(* Every write request lies in the address space and in pages that exist.  *)
WritesInside ==
    \A i \in DOMAIN queue : \A j \in DOMAIN queue[i].data :
        LET x == queue[i].address + j - 1
        IN  x \in Space /\ Page(x) < PageTableSize

(* The queue holds requests that checkRange let through, and operations    *)
(* that will access the memory in advanceClock are legal.                  *)
InsideInv ==
    /\ ops \in [Units -> Access]
    /\ multi \subseteq Units
    /\ queue \in Seq(Requests)
    /\ \A i \in 1 .. Len(queue) :
          \E a \in Addresses, n \in Sizes, v \in Values :
              InRange(a, n) /\ queue[i] = Request(a, n, v)
    /\ phase # "issue" \/ replay => \A u \in multi : Legal(ops[u])

Promise == INSTANCE SynchronousMemory WITH
    mem <- earlier, running <- phase # "issue" \/ replay

(* The loads of a cycle see all the stores of earlier cycles and none of   *)
(* their own, whatever the order of the units and however often an         *)
(* instruction was given up and executed again.                            *)
ImplementsSynchronousMemory == Promise!Spec
=============================================================================

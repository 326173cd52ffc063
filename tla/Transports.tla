----------------------------- MODULE Transports -----------------------------
(***************************************************************************)
(* The data transports of an instruction in the interpretive simulator.    *)
(* ExecutableInstruction::execute evaluates the guards of all moves, then  *)
(* reads all sources to the buses, then writes the buses to the            *)
(* destinations, then updates the long immediate registers, one move at a  *)
(* time.  (The comment above execute has the long immediates first; the    *)
(* code, and the comment inside it, have them last.)  Guards of latency 1 read their register directly; other guards   *)
(* keep a ring of its values, which is written at the end of a cycle.      *)
(*                                                                         *)
(* Which instruction comes next is left open (GCUState models it), except  *)
(* that an instruction whose cycle failed is executed again when the       *)
(* simulation is resumed.  Kill resets units but no register and no guard. *)
(* An inline immediate is a register that no move writes.                  *)
(***************************************************************************)
EXTENDS Integers, Sequences

CONSTANTS Registers,    \* registers, immediate registers and ports
          Ports,        \* the ones that units write
          PortValues,   \* what units may write to them
          Buses,
          Guards,       \* guards with a state object
          Target,       \* Target[g]: the register or port g watches
          Latency,      \* Latency[g]: global plus register file guard latency
          Instructions, \* the instructions of the program
          Idle,         \* the instruction "executed" before the first one
          Immediates,   \* bit patterns of long immediates
          SignExtending,\* registers of units that extend by the sign
          ImmWidth,     \* width the instruction template gives them
          UnitWidth,    \* width of the immediate unit's registers
          WordWidth     \* WORD_BITWIDTH

Moves == [src : Registers, bus : Buses, dst : Registers, guarded : BOOLEAN,
          guard : Guards, negated : BOOLEAN]
Updates == [dst : Registers, bits : Immediates]

ASSUME PortsAssumption == Ports \subseteq Registers
ASSUME SignAssumption == SignExtending \subseteq Registers
ASSUME GuardsAssumption ==
    /\ Target \in [Guards -> Registers]
    /\ Latency \in [Guards -> Nat \ {0}]
ASSUME InstructionsAssumption ==
    /\ Instructions \subseteq [moves : Seq(Moves), imms : Seq(Updates)]
    /\ Idle \in [moves : Seq(Moves), imms : Seq(Updates)]
(* An instruction has one move per bus.                                    *)
ASSUME BusesAssumption ==
    \A i \in Instructions \cup {Idle} : \A j, k \in DOMAIN i.moves :
        i.moves[j].bus = i.moves[k].bus => j = k
ASSUME WidthsAssumption ==
    /\ ImmWidth \in Nat \ {0} /\ UnitWidth \in Nat
    /\ Immediates \subseteq 0 .. 2^ImmWidth - 1
(* How powers grow, up to the width of a register.  It holds of all        *)
(* numbers; it is written down because the provers know nothing about ^.   *)
ASSUME PowersAssumption ==
    /\ \A m \in 0 .. UnitWidth : 2^m \in Nat \ {0}
    /\ \A m, n \in 0 .. UnitWidth : m + n <= UnitWidth => 2^(m + n) = 2^m * 2^n

-----------------------------------------------------------------------------
(* Long immediates                                                         *)

Signed(x, w) == IF x >= 2^(w - 1) THEN x - 2^w ELSE x

Extended_Zero(r, b) == b

(* LongImmediateRegisterState::setValue: shifted left in a word and right  *)
(* again, as a signed number if the unit extends by the sign.              *)
Extended(r, b) ==
    IF UnitWidth <= WordWidth /\ ImmWidth < UnitWidth
    THEN LET ext == UnitWidth - ImmWidth
             top == (b * 2^ext) % 2^WordWidth
             word == IF r \in SignExtending THEN Signed(top, WordWidth) ELSE top
         IN  (word \div 2^ext) % 2^UnitWidth
    ELSE b

Values == {0} \cup PortValues \cup {Extended(r, b) : r \in Registers, b \in Immediates}

-----------------------------------------------------------------------------

VARIABLES reg,        \* RegisterState, LongImmediateUnitState and port values
          bus,        \* BusState: the value
          busSquashed,\* BusState: squashed_
          squashed,   \* squashed_ of the moves of the instruction, by index
          ring,       \* history_ of the guards with latency other than 1
          position,   \* position_ in it
          instr,      \* the instruction of the cycle
          phase,      \* the loop of execute(), or the stage of the cycle
          k,          \* its index
          before      \* history: the registers before the instruction

guardVars == <<ring, position>>
vars == <<reg, bus, busSquashed, squashed, ring, position, instr, phase, k, before>>

Move == instr.moves[k]

Init ==
    /\ reg = [r \in Registers |-> 0]
    /\ bus = [b \in Buses |-> 0]
    /\ busSquashed = [b \in Buses |-> FALSE]
    /\ squashed = [j \in DOMAIN Idle.moves |-> FALSE]
    /\ ring = [g \in Guards |-> [p \in 0 .. Latency[g] - 1 |-> 0]]
    /\ position = [g \in Guards |-> 0]
    /\ instr = Idle
    /\ phase = "ready"
    /\ k = 1
    /\ before = reg

GuardValue(g) == IF Latency[g] = 1 THEN reg[Target[g]] ELSE ring[g][position[g]]

ClearBuses_No == bus

ClearBuses == [b \in Buses |-> 0]

(* simulateCycle: clearBuses and instructionAt                             *)
Fetch(i) ==
    /\ \/ phase = "ready"
       \/ phase = "failed" /\ i = instr
    /\ instr' = i
    /\ bus' = ClearBuses
    /\ squashed' = [j \in DOMAIN i.moves |-> FALSE]
    /\ phase' = "guards"
    /\ k' = 1
    /\ before' = reg
    /\ UNCHANGED <<reg, busSquashed, guardVars>>

EvaluateGuard ==
    /\ phase = "guards" /\ k \in DOMAIN instr.moves
    /\ squashed' = [squashed EXCEPT ![k] =
           /\ Move.guarded
           /\ ~ \/ ~ Move.negated /\ GuardValue(Move.guard) # 0
                \/ Move.negated /\ GuardValue(Move.guard) = 0]
    /\ busSquashed' = [busSquashed EXCEPT ![Move.bus] = squashed'[k]]
    /\ k' = k + 1
    /\ UNCHANGED <<reg, bus, guardVars, instr, phase, before>>

ExecuteRead ==
    /\ phase = "read" /\ k \in DOMAIN instr.moves
    /\ bus' = IF squashed[k] THEN bus ELSE [bus EXCEPT ![Move.bus] = reg[Move.src]]
    /\ k' = k + 1
    /\ UNCHANGED <<reg, busSquashed, squashed, guardVars, instr, phase, before>>

ExecuteWrite_Fused ==
    /\ phase = "write" /\ k \in DOMAIN instr.moves
    /\ reg' = IF squashed[k] THEN reg ELSE [reg EXCEPT ![Move.dst] = reg[Move.src]]
    /\ k' = k + 1
    /\ UNCHANGED <<bus, busSquashed, squashed, guardVars, instr, phase, before>>

ExecuteWrite ==
    /\ phase = "write" /\ k \in DOMAIN instr.moves
    /\ reg' = IF squashed[k] THEN reg ELSE [reg EXCEPT ![Move.dst] = bus[Move.bus]]
    /\ k' = k + 1
    /\ UNCHANGED <<bus, busSquashed, squashed, guardVars, instr, phase, before>>

UpdateImmediate ==
    /\ phase = "immediates" /\ k \in DOMAIN instr.imms
    /\ reg' = [reg EXCEPT ![instr.imms[k].dst] = Extended(instr.imms[k].dst, instr.imms[k].bits)]
    /\ k' = k + 1
    /\ UNCHANGED <<bus, busSquashed, squashed, guardVars, instr, phase, before>>

(* The loops over the moves follow each other.                             *)
EndMoveLoop ==
    /\ k \notin DOMAIN instr.moves
    /\ \/ phase = "guards" /\ phase' = "read"
       \/ phase = "read" /\ phase' = "write"
       \/ phase = "write" /\ phase' = "immediates"
    /\ k' = 1
    /\ UNCHANGED <<reg, bus, busSquashed, squashed, guardVars, instr, before>>

EndImmediateLoop ==
    /\ phase = "immediates" /\ k \notin DOMAIN instr.imms
    /\ phase' = "units"
    /\ UNCHANGED <<reg, bus, busSquashed, squashed, guardVars, instr, k, before>>

(* endClock and advanceClock of the units                                  *)
Deliver ==
    /\ phase = "units"
    /\ \E p \in [Ports -> PortValues] :
           reg' = [r \in Registers |-> IF r \in Ports THEN p[r] ELSE reg[r]]
    /\ UNCHANGED <<bus, busSquashed, squashed, instr, k, before>>

AdvanceGuards_NoWrap ==
    /\ ring' = [g \in Guards |-> [ring[g] EXCEPT ![position[g]] = reg'[Target[g]]]]
    /\ position' = [g \in Guards |-> position[g] + 1]

AdvanceGuards ==
    /\ ring' = [g \in Guards |-> [ring[g] EXCEPT ![position[g]] = reg'[Target[g]]]]
    /\ position' = [g \in Guards |-> (position[g] + 1) % Latency[g]]

CycleEnd == Deliver /\ AdvanceGuards /\ phase' = "ready"

(* A unit throws, perhaps after others have delivered: the guards are not  *)
(* advanced.                                                               *)
CycleFails == Deliver /\ phase' = "failed" /\ UNCHANGED guardVars

(* reset(): the next instruction is the first of the program               *)
Kill ==
    /\ phase = "failed"
    /\ phase' = "ready"
    /\ UNCHANGED <<reg, bus, busSquashed, squashed, guardVars, instr, k, before>>

Next ==
    \/ \E i \in Instructions : Fetch(i)
    \/ EvaluateGuard
    \/ ExecuteRead
    \/ ExecuteWrite
    \/ UpdateImmediate
    \/ EndMoveLoop
    \/ EndImmediateLoop
    \/ CycleEnd
    \/ CycleFails
    \/ Kill

Spec == Init /\ [][Next]_vars

-----------------------------------------------------------------------------
(* Properties                                                              *)

(* Values and indices stay in range; position_ stays inside the ring.      *)
TypeOK ==
    /\ reg \in [Registers -> Values]
    /\ bus \in [Buses -> Values]
    /\ busSquashed \in [Buses -> BOOLEAN]
    /\ instr \in Instructions \cup {Idle}
    /\ squashed \in [DOMAIN instr.moves -> BOOLEAN]
    /\ position \in [Guards -> Nat]
    /\ \A g \in Guards : position[g] < Latency[g]
    /\ ring = [g \in Guards |-> ring[g]]
    /\ \A g \in Guards : ring[g] \in [0 .. Latency[g] - 1 -> Values]
    /\ phase \in {"ready", "guards", "read", "write", "immediates", "units", "failed"}
    /\ k \in Nat \ {0}
    /\ before \in [Registers -> Values]

(* BusTracker prints a squashed bus as zero.                               *)
Traced(b) == IF busSquashed[b] THEN 0 ELSE bus[b]

(* At the end of a cycle the bus trace shows, for every bus, what the move *)
(* on it transported and zero if it had none or a squashed one, although   *)
(* the squashed flag of a bus without a move is one of an earlier cycle.   *)
TraceShowsTransports ==
    phase = "ready" =>
        \A b \in Buses :
            \/ \E j \in DOMAIN instr.moves :
                   /\ instr.moves[j].bus = b
                   /\ ~ squashed[j]
                   /\ Traced(b) = before[instr.moves[j].src]
            \/ /\ \A j \in DOMAIN instr.moves : instr.moves[j].bus = b => squashed[j]
               /\ Traced(b) = 0

(* A register of a sign extending unit reads, as a signed number of its    *)
(* width, what the immediate is as a signed number of the template's       *)
(* width; any other immediate register reads the bits as they are.         *)
ImmediatesExtended ==
    phase = "units" =>
        \A j \in DOMAIN instr.imms :
            (\A l \in DOMAIN instr.imms : l > j => instr.imms[l].dst # instr.imms[j].dst)
            => IF instr.imms[j].dst \in SignExtending
               THEN Signed(reg[instr.imms[j].dst], UnitWidth) = Signed(instr.imms[j].bits, ImmWidth)
               ELSE reg[instr.imms[j].dst] = instr.imms[j].bits

PM == INSTANCE ParallelMoves WITH
        reg <- IF phase \in {"write", "immediates"} THEN before ELSE reg,
        past <- [g \in Guards |-> [j \in 1 .. Latency[g] |->
                    ring[g][(position[g] - j) % Latency[g]]]],
        stage <- CASE phase = "units" -> "executed"
                   [] phase \in {"ready", "failed"} -> phase
                   [] OTHER -> "fetched"

(* The loops over moves and immediates and the guard rings implement       *)
(* parallel moves, with instructions that fail and are executed again.     *)
ImplementsParallelMoves == PM!Spec
=============================================================================

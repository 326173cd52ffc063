-------------------------- MODULE TransportsProofs --------------------------
(***************************************************************************)
(* Proofs about Transports: the loops of ExecutableInstruction::execute    *)
(* and the guard rings implement parallel moves, for every instruction,    *)
(* every set of registers, buses and guards and every guard latency; and   *)
(* long immediates of every width keep their value.                         *)
(***************************************************************************)
EXTENDS Transports, TLAPS

M(j) == instr.moves[j]
MoveSet == DOMAIN instr.moves
ImmSet == DOMAIN instr.imms

(* What the guard of a move said before the instruction wrote anything     *)
SeenBefore(g) == IF Latency[g] = 1 THEN before[Target[g]] ELSE ring[g][position[g]]
Squashes(j) ==
    /\ M(j).guarded
    /\ ~ \/ ~ M(j).negated /\ SeenBefore(M(j).guard) # 0
         \/ M(j).negated /\ SeenBefore(M(j).guard) = 0

Evaluated(j) == IF phase = "guards" THEN j < k ELSE TRUE
IsRead(j) == phase # "guards" /\ IF phase = "read" THEN j < k ELSE TRUE
IsWritten(j) == IF phase = "write" THEN j < k ELSE TRUE

RegistersKept == phase \in {"guards", "read"} => reg = before

GuardsEvaluated ==
    \A j \in MoveSet : Evaluated(j) =>
        /\ busSquashed[M(j).bus] <=> squashed[j]
        /\ phase \in {"guards", "read", "write", "immediates"} => (squashed[j] <=> Squashes(j))

BusesRead ==
    \A b \in Buses :
        \/ \E j \in MoveSet : /\ M(j).bus = b /\ ~ squashed[j] /\ IsRead(j)
                              /\ bus[b] = before[M(j).src]
        \/ /\ \A j \in MoveSet : M(j).bus = b /\ IsRead(j) => squashed[j]
           /\ bus[b] = 0

MovesWritten(r) ==
    \/ \E j \in MoveSet : /\ M(j).dst = r /\ ~ squashed[j] /\ IsWritten(j)
                          /\ reg[r] = before[M(j).src]
    \/ /\ \A j \in MoveSet : M(j).dst = r /\ IsWritten(j) => squashed[j]
       /\ reg[r] = before[r]

RegistersWritten ==
    /\ phase = "write" => \A r \in Registers : MovesWritten(r)
    /\ phase = "immediates" =>
           \A r \in Registers :
               \/ \E u \in ImmSet : u < k /\ instr.imms[u].dst = r
                                    /\ reg[r] = Extended(r, instr.imms[u].bits)
               \/ /\ \A u \in ImmSet : u < k => instr.imms[u].dst # r
                  /\ MovesWritten(r)

LoopBounds ==
    /\ phase \in {"guards", "read", "write"} => k <= Len(instr.moves) + 1
    /\ phase = "immediates" => k <= Len(instr.imms) + 1

IndInv ==
    /\ TypeOK
    /\ LoopBounds
    /\ RegistersKept
    /\ GuardsEvaluated
    /\ BusesRead
    /\ RegistersWritten

-----------------------------------------------------------------------------
(* Arithmetic of the ring                                                  *)

LEMMA ModSmall ==
    ASSUME NEW n \in Nat \ {0}, NEW x \in 0 .. n - 1
    PROVE  x % n = x
OBVIOUS

LEMMA ModNegative ==
    ASSUME NEW n \in Nat \ {0}, NEW x \in (0 - n) .. (0 - 1)
    PROVE  x % n = x + n
OBVIOUS

LEMMA ModNext ==
    ASSUME NEW n \in Nat \ {0}, NEW p \in 0 .. n - 1
    PROVE  (p + 1) % n = IF p + 1 = n THEN 0 ELSE p + 1
OBVIOUS

(* The oldest cell is the one at the position.                             *)
LEMMA RingOldest ==
    ASSUME NEW n \in Nat \ {0}, NEW p \in 0 .. n - 1
    PROVE  (p - n) % n = p
<1>1. p - n \in (0 - n) .. (0 - 1)
  OBVIOUS
<1>2. QED
  BY <1>1, ModNegative

-----------------------------------------------------------------------------
(* Types                                                                   *)

LEMMA InstrTypes ==
    ASSUME NEW i \in Instructions \cup {Idle}
    PROVE  /\ i.moves \in Seq(Moves) /\ i.imms \in Seq(Updates)
           /\ Len(i.moves) \in Nat /\ DOMAIN i.moves = 1 .. Len(i.moves)
           /\ Len(i.imms) \in Nat /\ DOMAIN i.imms = 1 .. Len(i.imms)
           /\ DOMAIN i.moves \subseteq Nat \ {0}
           /\ \A j \in DOMAIN i.moves :
                  /\ i.moves[j] \in Moves
                  /\ i.moves[j].src \in Registers /\ i.moves[j].dst \in Registers
                  /\ i.moves[j].bus \in Buses /\ i.moves[j].guard \in Guards
                  /\ i.moves[j].guarded \in BOOLEAN /\ i.moves[j].negated \in BOOLEAN
           /\ DOMAIN i.imms \subseteq Nat \ {0}
           /\ \A j \in DOMAIN i.imms :
                  /\ i.imms[j].dst \in Registers /\ i.imms[j].bits \in Immediates
<1>1. i \in [moves : Seq(Moves), imms : Seq(Updates)]
  BY InstructionsAssumption
<1>2. i.moves \in Seq(Moves) /\ i.imms \in Seq(Updates)
  BY <1>1
<1>3. /\ Len(i.moves) \in Nat /\ DOMAIN i.moves = 1 .. Len(i.moves)
      /\ Len(i.imms) \in Nat /\ DOMAIN i.imms = 1 .. Len(i.imms)
  BY <1>2
<1>4. \A j \in DOMAIN i.moves : i.moves[j] \in Moves
  BY <1>2
<1>5. \A j \in DOMAIN i.imms : i.imms[j] \in Updates
  BY <1>2
<1>6. QED
  BY <1>2, <1>3, <1>4, <1>5 DEF Moves, Updates

LEMMA ZeroValue == 0 \in Values
BY DEF Values

LEMMA ExtendedValue ==
    ASSUME NEW r \in Registers, NEW b \in Immediates
    PROVE  Extended(r, b) \in Values
BY DEF Values

LEMMA InitInv == Init => IndInv
<1> SUFFICES ASSUME Init PROVE IndInv
  OBVIOUS
<1>1. TypeOK
  <2>1. reg \in [Registers -> Values] /\ bus \in [Buses -> Values] /\ before \in [Registers -> Values]
    BY ZeroValue DEF Init
  <2>2. /\ busSquashed \in [Buses -> BOOLEAN] /\ instr \in Instructions \cup {Idle}
        /\ squashed \in [DOMAIN instr.moves -> BOOLEAN]
        /\ k \in Nat \ {0} /\ phase = "ready"
    BY DEF Init
  <2>3. position \in [Guards -> Nat] /\ \A g \in Guards : position[g] < Latency[g]
    BY GuardsAssumption DEF Init
  <2>4. /\ ring = [g \in Guards |-> ring[g]]
        /\ \A g \in Guards : ring[g] \in [0 .. Latency[g] - 1 -> Values]
    BY ZeroValue DEF Init
  <2>5. QED
    BY <2>1, <2>2, <2>3, <2>4 DEF TypeOK
<1>2. LoopBounds /\ RegistersKept /\ RegistersWritten
  BY DEF Init, LoopBounds, RegistersKept, RegistersWritten
<1>3. GuardsEvaluated
  BY InstrTypes DEF Init, GuardsEvaluated, MoveSet, M
<1>4. BusesRead
  BY InstrTypes DEF Init, BusesRead, MoveSet, M, IsRead
<1>5. QED
  BY <1>1, <1>2, <1>3, <1>4 DEF IndInv

-----------------------------------------------------------------------------
(* What the abstract specification sees                                    *)

AbsReg == IF phase \in {"write", "immediates"} THEN before ELSE reg
AbsPast == [g \in Guards |-> [j \in 1 .. Latency[g] |->
               ring[g][(position[g] - j) % Latency[g]]]]
AbsStage == CASE phase = "units" -> "executed"
              [] phase \in {"ready", "failed"} -> phase
              [] OTHER -> "fetched"

LEMMA AbstractView ==
    /\ PM!vars = <<AbsReg, AbsPast, instr, AbsStage>>
    /\ PM!vars' = <<AbsReg', AbsPast', instr', AbsStage'>>
BY DEF PM!vars, AbsReg, AbsPast, AbsStage

LEMMA GuardsKept ==
    ASSUME UNCHANGED guardVars
    PROVE  /\ AbsPast' = AbsPast
           /\ ring' = ring /\ position' = position
BY DEF guardVars, AbsPast

LEMMA RingTypes ==
    ASSUME TypeOK
    PROVE  /\ \A g \in Guards : ring[g] \in [0 .. Latency[g] - 1 -> Values]
           /\ \A g \in Guards : position[g] \in 0 .. Latency[g] - 1
           /\ \A g \in Guards : Latency[g] \in Nat \ {0} /\ Target[g] \in Registers
<1>1. \A g \in Guards : Latency[g] \in Nat \ {0} /\ Target[g] \in Registers
  BY GuardsAssumption
<1>2. \A g \in Guards : position[g] \in Nat /\ position[g] < Latency[g]
  BY DEF TypeOK
<1>3. QED
  BY <1>1, <1>2 DEF TypeOK

LEMMA PastOldest ==
    ASSUME TypeOK, NEW g \in Guards
    PROVE  AbsPast[g][Latency[g]] = ring[g][position[g]]
<1>1. Latency[g] \in Nat \ {0} /\ position[g] \in 0 .. Latency[g] - 1
  BY RingTypes
<1>2. \A n \in Nat \ {0} : \A p \in 0 .. n - 1 : (p - n) % n = p
  BY RingOldest
<1>3. (position[g] - Latency[g]) % Latency[g] = position[g]
  BY <1>1, <1>2
<1>4. AbsPast[g] = [j \in 1 .. Latency[g] |-> ring[g][(position[g] - j) % Latency[g]]]
  BY DEF AbsPast
<1>5. Latency[g] \in 1 .. Latency[g]
  BY <1>1
<1>6. QED
  BY <1>3, <1>4, <1>5

LEMMA NextPosition ==
    ASSUME TypeOK, AdvanceGuards, NEW g \in Guards
    PROVE  /\ position'[g] = IF position[g] + 1 = Latency[g] THEN 0 ELSE position[g] + 1
           /\ position'[g] \in 0 .. Latency[g] - 1
<1>1. Latency[g] \in Nat \ {0} /\ position[g] \in 0 .. Latency[g] - 1
  BY RingTypes
<1>2. position'[g] = (position[g] + 1) % Latency[g]
  BY DEF AdvanceGuards
<1>3. \A n \in Nat \ {0} : \A p \in 0 .. n - 1 : (p + 1) % n = IF p + 1 = n THEN 0 ELSE p + 1
  BY ModNext
<1>4. position'[g] = IF position[g] + 1 = Latency[g] THEN 0 ELSE position[g] + 1
  BY <1>1, <1>2, <1>3
<1>5. QED
  BY <1>1, <1>4

LEMMA NextRing ==
    ASSUME TypeOK, AdvanceGuards, NEW g \in Guards, NEW j \in 1 .. Latency[g]
    PROVE  ring'[g][(position'[g] - j) % Latency[g]] =
               IF j = 1 THEN reg'[Target[g]] ELSE AbsPast[g][j - 1]
<1>1. /\ Latency[g] \in Nat \ {0} /\ position[g] \in 0 .. Latency[g] - 1
      /\ ring[g] \in [0 .. Latency[g] - 1 -> Values]
  BY RingTypes
<1>2. /\ position'[g] = IF position[g] + 1 = Latency[g] THEN 0 ELSE position[g] + 1
      /\ position'[g] \in Int
  BY <1>1, NextPosition
<1>3. ring'[g] = [ring[g] EXCEPT ![position[g]] = reg'[Target[g]]]
  BY DEF AdvanceGuards
<1>4. PICK n \in Nat \ {0}, p \in Nat, q \in Int :
          /\ n = Latency[g] /\ p = position[g] /\ q = position'[g]
          /\ p \in 0 .. n - 1 /\ j \in 1 .. n
          /\ q = IF p + 1 = n THEN 0 ELSE p + 1
  BY <1>1, <1>2
<1>5. /\ (position'[g] - j) % Latency[g] \in 0 .. Latency[g] - 1
      /\ j = 1 => (position'[g] - j) % Latency[g] = position[g]
      /\ j # 1 => /\ (position'[g] - j) % Latency[g] = (position[g] - (j - 1)) % Latency[g]
                  /\ (position'[g] - j) % Latency[g] # position[g]
  <2>1. (q - j) % n = IF q >= j THEN q - j ELSE q - j + n
    <3>1. CASE q >= j
      <4>1. q - j \in 0 .. n - 1
        BY <1>4, <3>1
      <4>2. QED
        BY <3>1, <4>1, ModSmall
    <3>2. CASE ~ (q >= j)
      <4>1. q - j \in (0 - n) .. (0 - 1)
        BY <1>4, <3>2
      <4>2. QED
        BY <3>2, <4>1, ModNegative
    <3>3. QED
      BY <3>1, <3>2
  <2>2. j # 1 => (p - (j - 1)) % n = IF p >= j - 1 THEN p - (j - 1) ELSE p - (j - 1) + n
    <3>1. CASE j # 1 /\ p >= j - 1
      <4>1. p - (j - 1) \in 0 .. n - 1
        BY <1>4, <3>1
      <4>2. QED
        BY <3>1, <4>1, ModSmall
    <3>2. CASE j # 1 /\ ~ (p >= j - 1)
      <4>1. p - (j - 1) \in (0 - n) .. (0 - 1)
        BY <1>4, <3>2
      <4>2. QED
        BY <3>2, <4>1, ModNegative
    <3>3. QED
      BY <3>1, <3>2
  <2>3. /\ (q - j) % n \in 0 .. n - 1
        /\ j = 1 => (q - j) % n = p
        /\ j # 1 => (q - j) % n = (p - (j - 1)) % n /\ (q - j) % n # p
    BY <1>4, <2>1, <2>2
  <2>4. QED
    BY <1>4, <2>3
<1>6. CASE j = 1
  BY <1>1, <1>3, <1>5, <1>6
<1>7. CASE j # 1
  <2>1. j - 1 \in 1 .. Latency[g]
    BY <1>1, <1>7
  <2>2. AbsPast[g] = [i \in 1 .. Latency[g] |-> ring[g][(position[g] - i) % Latency[g]]]
    BY DEF AbsPast
  <2>3. AbsPast[g][j - 1] = ring[g][(position[g] - (j - 1)) % Latency[g]]
    BY <2>1, <2>2
  <2>4. QED
    BY <1>1, <1>3, <1>5, <1>7, <2>3
<1>8. QED
  BY <1>6, <1>7

LEMMA IndexInLoop ==
    ASSUME IndInv
    PROVE  /\ k \in MoveSet => k + 1 <= Len(instr.moves) + 1
           /\ k \in ImmSet => k + 1 <= Len(instr.imms) + 1
           /\ k \notin MoveSet /\ phase \in {"guards", "read", "write"} => \A j \in MoveSet : j < k
           /\ k \notin ImmSet /\ phase = "immediates" => \A u \in ImmSet : u < k
<1>1. /\ Len(instr.moves) \in Nat /\ MoveSet = 1 .. Len(instr.moves)
      /\ Len(instr.imms) \in Nat /\ ImmSet = 1 .. Len(instr.imms)
      /\ k \in Nat \ {0} /\ LoopBounds
  BY InstrTypes DEF IndInv, TypeOK, MoveSet, ImmSet
<1>2. QED
  BY <1>1 DEF LoopBounds

LEMMA FetchInv ==
    ASSUME IndInv, NEW i \in Instructions, Fetch(i)
    PROVE  IndInv' /\ PM!Fetch(i)
<1>1. /\ instr' = i /\ bus' = [b \in Buses |-> 0]
      /\ squashed' = [j \in DOMAIN i.moves |-> FALSE]
      /\ phase' = "guards" /\ k' = 1 /\ before' = reg
      /\ UNCHANGED <<reg, busSquashed, ring, position>>
  BY DEF Fetch, guardVars, ClearBuses
<1>2. TypeOK'
  BY <1>1, ZeroValue DEF IndInv, TypeOK
<1>3. \A j \in MoveSet' : j \in Nat \ {0} /\ M(j)'.bus \in Buses
  BY <1>1, InstrTypes DEF MoveSet, M
<1>4. LoopBounds' /\ RegistersKept' /\ RegistersWritten'
  BY <1>1, InstrTypes DEF LoopBounds, RegistersKept, RegistersWritten
<1>5. GuardsEvaluated'
  BY <1>1, <1>3 DEF GuardsEvaluated, Evaluated
<1>6. BusesRead'
  BY <1>1 DEF BusesRead, IsRead
<1>7. AbsPast' = AbsPast /\ AbsReg' = AbsReg /\ AbsStage' = "fetched"
  <2>1. phase \in {"ready", "failed"}
    BY DEF Fetch
  <2>2. QED
    BY <1>1, <2>1 DEF AbsPast, AbsReg, AbsStage
<1>8. \/ AbsStage = "ready"
      \/ AbsStage = "failed" /\ i = instr
  BY DEF Fetch, AbsStage
<1>9. PM!Fetch(i)
  BY <1>1, <1>7, <1>8 DEF PM!Fetch, AbsReg, AbsPast, AbsStage
<1>10. QED
  BY <1>2, <1>4, <1>5, <1>6, <1>9 DEF IndInv

LEMMA EvaluateGuardInv ==
    ASSUME IndInv, EvaluateGuard
    PROVE  IndInv' /\ UNCHANGED PM!vars
<1>1. /\ phase = "guards" /\ phase' = "guards" /\ k \in MoveSet /\ k' = k + 1
      /\ UNCHANGED <<reg, bus, ring, position, instr, before>>
      /\ squashed \in [MoveSet -> BOOLEAN] /\ k \in Nat \ {0}
      /\ reg = before /\ MoveSet' = MoveSet
  BY DEF EvaluateGuard, guardVars, IndInv, TypeOK, RegistersKept, MoveSet
<1>2. \A j \in MoveSet : j \in Nat \ {0} /\ M(j).bus \in Buses /\ M(j)' = M(j)
  BY <1>1, InstrTypes DEF MoveSet, M, IndInv, TypeOK
<1>3. squashed' = [squashed EXCEPT ![k] = Squashes(k)]
  <2>1. GuardValue(Move.guard) = SeenBefore(M(k).guard)
    BY <1>1 DEF GuardValue, SeenBefore, Move, M
  <2>2. QED
    BY <2>1 DEF EvaluateGuard, Squashes, Move, M
<1>4. busSquashed' = [busSquashed EXCEPT ![M(k).bus] = squashed'[k]]
  BY DEF EvaluateGuard, Move, M
<1>5. Squashes(k) \in BOOLEAN
  BY DEF Squashes
<1>6. TypeOK'
  <2>1. squashed' \in [MoveSet -> BOOLEAN] /\ squashed'[k] \in BOOLEAN
    BY <1>1, <1>3, <1>5
  <2>2. busSquashed' \in [Buses -> BOOLEAN]
    BY <1>4, <2>1 DEF IndInv, TypeOK
  <2>3. QED
    BY <1>1, <2>1, <2>2 DEF IndInv, TypeOK, MoveSet
<1>7. LoopBounds' /\ RegistersKept' /\ RegistersWritten'
  BY <1>1, IndexInLoop DEF LoopBounds, RegistersKept, RegistersWritten
<1>8. \A j \in MoveSet : Squashes(j)' <=> Squashes(j)
  BY <1>1, <1>2 DEF Squashes, SeenBefore
<1>9. GuardsEvaluated'
  <2> SUFFICES ASSUME NEW j \in MoveSet, j < k + 1
               PROVE  /\ busSquashed'[M(j).bus] <=> squashed'[j]
                      /\ squashed'[j] <=> Squashes(j)
    BY <1>1, <1>2, <1>8 DEF GuardsEvaluated, Evaluated
  <2>1. CASE j = k
    BY <1>1, <1>2, <1>3, <1>4, <1>5, <2>1 DEF IndInv, TypeOK
  <2>2. CASE j # k
    <3>1. /\ busSquashed[M(j).bus] <=> squashed[j]
          /\ squashed[j] <=> Squashes(j)
      <4>1. Evaluated(j)
        BY <1>1, <1>2, <2>2 DEF Evaluated
      <4>2. GuardsEvaluated
        BY DEF IndInv
      <4>3. QED
        BY <1>1, <4>1, <4>2 DEF GuardsEvaluated
    <3>2. M(j).bus # M(k).bus
      BY <1>1, <2>2, BusesAssumption DEF M, MoveSet, IndInv, TypeOK
    <3>3. squashed'[j] = squashed[j] /\ busSquashed'[M(j).bus] = busSquashed[M(j).bus]
      BY <1>1, <1>2, <1>3, <1>4, <2>2, <3>2 DEF IndInv, TypeOK
    <3>4. QED
      BY <3>1, <3>3
  <2>3. QED
    BY <2>1, <2>2
<1>10. BusesRead'
  BY <1>1, <1>2 DEF IndInv, BusesRead, IsRead
<1>11. UNCHANGED PM!vars
  BY <1>1, AbstractView DEF AbsReg, AbsPast, AbsStage
<1>12. QED
  BY <1>6, <1>7, <1>9, <1>10, <1>11 DEF IndInv

LEMMA ExecuteReadInv ==
    ASSUME IndInv, ExecuteRead
    PROVE  IndInv' /\ UNCHANGED PM!vars
<1>1. /\ phase = "read" /\ phase' = "read" /\ k \in MoveSet /\ k' = k + 1
      /\ UNCHANGED <<reg, busSquashed, squashed, ring, position, instr, before>>
      /\ k \in Nat \ {0} /\ reg = before /\ MoveSet' = MoveSet
  BY DEF ExecuteRead, guardVars, IndInv, TypeOK, RegistersKept, MoveSet
<1>2. \A j \in MoveSet : /\ j \in Nat \ {0} /\ M(j).bus \in Buses
                          /\ M(j).src \in Registers /\ M(j)' = M(j)
  BY <1>1, InstrTypes DEF MoveSet, M, IndInv, TypeOK
<1>3. bus' = IF squashed[k] THEN bus ELSE [bus EXCEPT ![M(k).bus] = before[M(k).src]]
  BY <1>1 DEF ExecuteRead, Move, M
<1>4. TypeOK'
  BY <1>1, <1>2, <1>3 DEF IndInv, TypeOK
<1>5. LoopBounds' /\ RegistersKept' /\ RegistersWritten'
  BY <1>1, IndexInLoop DEF LoopBounds, RegistersKept, RegistersWritten
<1>6. GuardsEvaluated'
  BY <1>1, <1>2 DEF IndInv, GuardsEvaluated, Evaluated, Squashes, SeenBefore
<1>7. BusesRead'
  <2> SUFFICES ASSUME NEW b \in Buses
               PROVE  \/ \E j \in MoveSet : /\ M(j).bus = b /\ ~ squashed[j] /\ j < k + 1
                                             /\ bus'[b] = before[M(j).src]
                      \/ /\ \A j \in MoveSet : M(j).bus = b /\ j < k + 1 => squashed[j]
                         /\ bus'[b] = 0
    BY <1>1, <1>2 DEF BusesRead, IsRead
  <2>1. \/ \E j \in MoveSet : /\ M(j).bus = b /\ ~ squashed[j] /\ j < k
                               /\ bus[b] = before[M(j).src]
        \/ /\ \A j \in MoveSet : M(j).bus = b /\ j < k => squashed[j]
           /\ bus[b] = 0
    BY <1>1 DEF IndInv, BusesRead, IsRead
  <2>2. CASE M(k).bus = b /\ ~ squashed[k]
    <3>1. bus'[b] = before[M(k).src]
      BY <1>3, <2>2 DEF IndInv, TypeOK
    <3>2. QED
      BY <1>1, <2>2, <3>1
  <2>3. CASE ~ (M(k).bus = b /\ ~ squashed[k])
    <3>1. bus'[b] = bus[b]
      BY <1>3, <2>3 DEF IndInv, TypeOK
    <3>2. QED
      BY <1>1, <1>2, <2>1, <2>3, <3>1
  <2>4. QED
    BY <2>2, <2>3
<1>8. UNCHANGED PM!vars
  BY <1>1, AbstractView DEF AbsReg, AbsPast, AbsStage
<1>9. QED
  BY <1>4, <1>5, <1>6, <1>7, <1>8 DEF IndInv

LEMMA ExecuteWriteInv ==
    ASSUME IndInv, ExecuteWrite
    PROVE  IndInv' /\ UNCHANGED PM!vars
<1>1. /\ phase = "write" /\ phase' = "write" /\ k \in MoveSet /\ k' = k + 1
      /\ UNCHANGED <<bus, busSquashed, squashed, ring, position, instr, before>>
      /\ k \in Nat \ {0} /\ MoveSet' = MoveSet
  BY DEF ExecuteWrite, guardVars, IndInv, TypeOK, MoveSet
<1>2. \A j \in MoveSet : /\ j \in Nat \ {0} /\ M(j).bus \in Buses
                          /\ M(j).src \in Registers /\ M(j).dst \in Registers /\ M(j)' = M(j)
  BY <1>1, InstrTypes DEF MoveSet, M, IndInv, TypeOK
<1>3. reg' = IF squashed[k] THEN reg ELSE [reg EXCEPT ![M(k).dst] = bus[M(k).bus]]
  BY DEF ExecuteWrite, Move, M
<1>4. TypeOK'
  BY <1>1, <1>2, <1>3 DEF IndInv, TypeOK
<1>5. LoopBounds' /\ RegistersKept' /\ BusesRead'
  BY <1>1, <1>2, IndexInLoop DEF LoopBounds, RegistersKept, IndInv, BusesRead, IsRead
<1>6. GuardsEvaluated'
  BY <1>1, <1>2 DEF IndInv, GuardsEvaluated, Evaluated, Squashes, SeenBefore
<1>7. ~ squashed[k] => bus[M(k).bus] = before[M(k).src]
  <2>1. \A j \in MoveSet : M(j).bus = M(k).bus => j = k
    BY <1>1, BusesAssumption DEF M, MoveSet, IndInv, TypeOK
  <2>2. QED
    BY <1>1, <1>2, <2>1 DEF IndInv, BusesRead, IsRead
<1>8. RegistersWritten'
  <2> SUFFICES ASSUME NEW r \in Registers
               PROVE  \/ \E j \in MoveSet : /\ M(j).dst = r /\ ~ squashed[j] /\ j < k + 1
                                             /\ reg'[r] = before[M(j).src]
                      \/ /\ \A j \in MoveSet : M(j).dst = r /\ j < k + 1 => squashed[j]
                         /\ reg'[r] = before[r]
    BY <1>1, <1>2 DEF RegistersWritten, MovesWritten, IsWritten
  <2>1. \/ \E j \in MoveSet : /\ M(j).dst = r /\ ~ squashed[j] /\ j < k
                               /\ reg[r] = before[M(j).src]
        \/ /\ \A j \in MoveSet : M(j).dst = r /\ j < k => squashed[j]
           /\ reg[r] = before[r]
    BY <1>1 DEF IndInv, RegistersWritten, MovesWritten, IsWritten
  <2>2. CASE M(k).dst = r /\ ~ squashed[k]
    <3>1. reg'[r] = before[M(k).src]
      BY <1>3, <1>7, <2>2 DEF IndInv, TypeOK
    <3>2. QED
      BY <1>1, <2>2, <3>1
  <2>3. CASE ~ (M(k).dst = r /\ ~ squashed[k])
    <3>1. reg'[r] = reg[r]
      BY <1>3, <2>3 DEF IndInv, TypeOK
    <3>2. QED
      BY <1>1, <1>2, <2>1, <2>3, <3>1
  <2>4. QED
    BY <2>2, <2>3
<1>9. UNCHANGED PM!vars
  BY <1>1, AbstractView DEF AbsReg, AbsPast, AbsStage
<1>10. QED
  BY <1>4, <1>5, <1>6, <1>8, <1>9 DEF IndInv

LEMMA UpdateImmediateInv ==
    ASSUME IndInv, UpdateImmediate
    PROVE  IndInv' /\ UNCHANGED PM!vars
<1>1. /\ phase = "immediates" /\ phase' = "immediates" /\ k \in ImmSet /\ k' = k + 1
      /\ UNCHANGED <<bus, busSquashed, squashed, ring, position, instr, before>>
      /\ reg' = [reg EXCEPT ![instr.imms[k].dst] = Extended(instr.imms[k].dst, instr.imms[k].bits)]
      /\ k \in Nat \ {0} /\ MoveSet' = MoveSet /\ ImmSet' = ImmSet
  BY DEF UpdateImmediate, guardVars, IndInv, TypeOK, MoveSet, ImmSet
<1>2. /\ \A j \in MoveSet : M(j)' = M(j)
      /\ \A u \in ImmSet : /\ u \in Nat \ {0} /\ instr.imms[u].dst \in Registers
                            /\ instr.imms[u].bits \in Immediates
  BY <1>1, InstrTypes DEF MoveSet, ImmSet, M, IndInv, TypeOK
<1>3. TypeOK'
  <2>1. Extended(instr.imms[k].dst, instr.imms[k].bits) \in Values
    BY <1>1, <1>2, ExtendedValue
  <2>2. QED
    BY <1>1, <1>2, <2>1 DEF IndInv, TypeOK
<1>4. LoopBounds' /\ RegistersKept' /\ BusesRead'
  BY <1>1, <1>2, IndexInLoop DEF LoopBounds, RegistersKept, IndInv, BusesRead, IsRead
<1>5. GuardsEvaluated'
  BY <1>1, <1>2 DEF IndInv, GuardsEvaluated, Evaluated, Squashes, SeenBefore
<1>6. RegistersWritten'
  <2> SUFFICES ASSUME NEW r \in Registers
               PROVE  \/ \E u \in ImmSet : u < k + 1 /\ instr.imms[u].dst = r
                                            /\ reg'[r] = Extended(r, instr.imms[u].bits)
                      \/ /\ \A u \in ImmSet : u < k + 1 => instr.imms[u].dst # r
                         /\ MovesWritten(r)'
    BY <1>1 DEF RegistersWritten
  <2>1. \/ \E u \in ImmSet : u < k /\ instr.imms[u].dst = r
                              /\ reg[r] = Extended(r, instr.imms[u].bits)
        \/ /\ \A u \in ImmSet : u < k => instr.imms[u].dst # r
           /\ MovesWritten(r)
    BY <1>1 DEF IndInv, RegistersWritten
  <2>2. CASE instr.imms[k].dst = r
    <3>1. reg'[r] = Extended(r, instr.imms[k].bits)
      BY <1>1, <2>2 DEF IndInv, TypeOK
    <3>2. QED
      BY <1>1, <2>2, <3>1
  <2>3. CASE instr.imms[k].dst # r
    <3>1. reg'[r] = reg[r]
      BY <1>1, <2>3 DEF IndInv, TypeOK
    <3>2. MovesWritten(r) => MovesWritten(r)'
      BY <1>1, <1>2, <3>1 DEF MovesWritten, IsWritten
    <3>3. QED
      BY <1>1, <1>2, <2>1, <2>3, <3>1, <3>2
  <2>4. QED
    BY <2>2, <2>3
<1>7. UNCHANGED PM!vars
  BY <1>1, AbstractView DEF AbsReg, AbsPast, AbsStage
<1>8. QED
  BY <1>3, <1>4, <1>5, <1>6, <1>7 DEF IndInv

LEMMA EndMoveLoopInv ==
    ASSUME IndInv, EndMoveLoop
    PROVE  IndInv' /\ UNCHANGED PM!vars
<1>1. /\ k \notin MoveSet /\ k' = 1
      /\ UNCHANGED <<reg, bus, busSquashed, squashed, ring, position, instr, before>>
      /\ MoveSet' = MoveSet /\ ImmSet' = ImmSet
      /\ \/ phase = "guards" /\ phase' = "read"
         \/ phase = "read" /\ phase' = "write"
         \/ phase = "write" /\ phase' = "immediates"
  BY DEF EndMoveLoop, guardVars, MoveSet, ImmSet
<1>2. \A j \in MoveSet : M(j)' = M(j) /\ j \in Nat \ {0} /\ j < k
  BY <1>1, InstrTypes, IndexInLoop DEF MoveSet, M, IndInv, TypeOK
<1>3. /\ \A u \in ImmSet : u \in Nat \ {0}
      /\ Len(instr.moves) \in Nat /\ Len(instr.imms) \in Nat
  BY InstrTypes DEF ImmSet, IndInv, TypeOK
<1>4. TypeOK' /\ LoopBounds'
  BY <1>1, <1>3 DEF IndInv, TypeOK, LoopBounds
<1>5. RegistersKept'
  BY <1>1 DEF IndInv, RegistersKept
<1>6. GuardsEvaluated'
  <2>1. \A j \in MoveSet : Evaluated(j) /\ Evaluated(j)'
    BY <1>1, <1>2 DEF Evaluated
  <2>2. \A j \in MoveSet : Squashes(j)' <=> Squashes(j)
    BY <1>1, <1>2 DEF Squashes, SeenBefore
  <2>3. QED
    BY <1>1, <1>2, <2>1, <2>2 DEF IndInv, GuardsEvaluated
<1>7. BusesRead'
  <2>1. CASE phase = "guards"
    <3>1. \A j \in MoveSet : ~ IsRead(j) /\ ~ IsRead(j)'
      BY <1>1, <1>2, <2>1 DEF IsRead
    <3>2. QED
      BY <1>1, <1>2, <3>1 DEF IndInv, BusesRead
  <2>2. CASE phase # "guards"
    <3>1. \A j \in MoveSet : IsRead(j) /\ IsRead(j)'
      BY <1>1, <1>2, <2>2 DEF IsRead
    <3>2. QED
      BY <1>1, <1>2, <3>1 DEF IndInv, BusesRead
  <2>3. QED
    BY <2>1, <2>2
<1>8. RegistersWritten'
  <2>1. CASE phase = "guards"
    BY <1>1, <2>1 DEF RegistersWritten
  <2>2. CASE phase = "read"
    <3>1. reg = before /\ phase' = "write" /\ \A j \in MoveSet : ~ IsWritten(j)'
      BY <1>1, <1>2, <2>2 DEF IndInv, RegistersKept, IsWritten
    <3>2. QED
      BY <1>1, <3>1 DEF RegistersWritten, MovesWritten
  <2>3. CASE phase = "write"
    <3>1. phase' = "immediates" /\ \A j \in MoveSet : IsWritten(j) /\ IsWritten(j)'
      BY <1>1, <1>2, <2>3 DEF IsWritten
    <3>2. \A r \in Registers : MovesWritten(r)'
      BY <1>1, <1>2, <2>3, <3>1 DEF IndInv, RegistersWritten, MovesWritten
    <3>3. QED
      BY <1>1, <1>3, <3>1, <3>2 DEF RegistersWritten
  <2>4. QED
    BY <1>1, <2>1, <2>2, <2>3
<1>9. UNCHANGED PM!vars
  <2>1. AbsReg' = AbsReg
    BY <1>1 DEF AbsReg, IndInv, RegistersKept
  <2>2. AbsStage' = AbsStage /\ AbsPast' = AbsPast
    BY <1>1 DEF AbsStage, AbsPast
  <2>3. QED
    BY <1>1, <2>1, <2>2, AbstractView
<1>10. QED
  BY <1>4, <1>5, <1>6, <1>7, <1>8, <1>9 DEF IndInv

(* The transports of the whole instruction become visible at once.         *)
LEMMA EndImmediateLoopInv ==
    ASSUME IndInv, EndImmediateLoop
    PROVE  IndInv' /\ PM!Transport
<1>1. /\ phase = "immediates" /\ phase' = "units" /\ k \notin ImmSet
      /\ UNCHANGED <<reg, bus, busSquashed, squashed, ring, position, instr, k, before>>
      /\ MoveSet' = MoveSet
  BY DEF EndImmediateLoop, guardVars, MoveSet, ImmSet
<1>2. /\ \A j \in MoveSet : /\ M(j)' = M(j) /\ M(j).guard \in Guards
                             /\ M(j).guarded \in BOOLEAN /\ M(j).negated \in BOOLEAN
      /\ \A u \in ImmSet : u < k
  BY <1>1, InstrTypes, IndexInLoop DEF MoveSet, M, IndInv, TypeOK
<1>3. TypeOK' /\ LoopBounds' /\ RegistersKept' /\ RegistersWritten'
  BY <1>1 DEF IndInv, TypeOK, LoopBounds, RegistersKept, RegistersWritten
<1>4. GuardsEvaluated'
  BY <1>1, <1>2 DEF IndInv, GuardsEvaluated, Evaluated
<1>5. BusesRead'
  BY <1>1, <1>2 DEF IndInv, BusesRead, IsRead
<1>6. /\ AbsReg = before /\ AbsReg' = reg /\ AbsPast' = AbsPast
      /\ AbsStage = "fetched" /\ AbsStage' = "executed"
  BY <1>1 DEF AbsReg, AbsPast, AbsStage
<1>7. \A j \in MoveSet : PM!Taken(M(j)) <=> ~ squashed[j]
  <2> SUFFICES ASSUME NEW j \in MoveSet PROVE PM!Taken(M(j)) <=> ~ squashed[j]
    OBVIOUS
  <2>1. squashed[j] <=> Squashes(j)
    BY <1>1 DEF IndInv, GuardsEvaluated, Evaluated
  <2>2. PM!Sees(M(j).guard) = SeenBefore(M(j).guard)
    <3>1. AbsPast[M(j).guard][Latency[M(j).guard]] = ring[M(j).guard][position[M(j).guard]]
      BY <1>2, PastOldest DEF IndInv
    <3>2. QED
      BY <1>6, <3>1 DEF PM!Sees, SeenBefore, AbsReg, AbsPast
  <2>3. QED
    BY <1>2, <2>1, <2>2 DEF PM!Taken, Squashes
<1>8. \A r \in Registers :
          IF PM!Written(r) = {} THEN reg[r] = before[r] ELSE reg[r] \in PM!Written(r)
  <2> SUFFICES ASSUME NEW r \in Registers
               PROVE  IF PM!Written(r) = {} THEN reg[r] = before[r] ELSE reg[r] \in PM!Written(r)
    OBVIOUS
  <2>1. PM!Written(r) =
            {before[M(j).src] : j \in {i \in MoveSet : M(i).dst = r /\ ~ squashed[i]}}
            \cup {Extended(r, instr.imms[u].bits) : u \in {i \in ImmSet : instr.imms[i].dst = r}}
    BY <1>6, <1>7 DEF PM!Written, M, MoveSet, ImmSet, AbsReg
  <2>2. \/ \E u \in ImmSet : instr.imms[u].dst = r /\ reg[r] = Extended(r, instr.imms[u].bits)
        \/ /\ \A u \in ImmSet : instr.imms[u].dst # r
           /\ \/ \E j \in MoveSet : /\ M(j).dst = r /\ ~ squashed[j]
                                     /\ reg[r] = before[M(j).src]
              \/ /\ \A j \in MoveSet : M(j).dst = r => squashed[j]
                 /\ reg[r] = before[r]
    BY <1>1, <1>2 DEF IndInv, RegistersWritten, MovesWritten, IsWritten
  <2>3. QED
    BY <2>1, <2>2
<1>9. PM!Transport
  <2>1. reg \in [Registers -> Values]
    BY DEF IndInv, TypeOK
  <2>2. QED
    BY <1>1, <1>6, <1>8, <2>1 DEF PM!Transport, AbsReg, AbsPast, AbsStage
<1>10. QED
  BY <1>3, <1>4, <1>5, <1>9 DEF IndInv

LEMMA DeliverStep ==
    ASSUME IndInv, Deliver
    PROVE  /\ reg' \in [Registers -> Values]
           /\ \A r \in Registers : IF r \in Ports THEN reg'[r] \in PortValues
                                                 ELSE reg'[r] = reg[r]
           /\ phase = "units"
           /\ UNCHANGED <<bus, busSquashed, squashed, instr, k, before>>
<1>1. PICK p \in [Ports -> PortValues] :
          reg' = [r \in Registers |-> IF r \in Ports THEN p[r] ELSE reg[r]]
  BY DEF Deliver
<1>2. PortValues \subseteq Values
  BY DEF Values
<1>3. QED
  BY <1>1, <1>2 DEF Deliver, IndInv, TypeOK

(* The parts of the invariant that only speak about the instruction        *)
LEMMA BetweenInstructions ==
    ASSUME IndInv, phase \in {"units", "failed"}, phase' \in {"ready", "failed"},
           UNCHANGED <<bus, busSquashed, squashed, instr, k, before>>
    PROVE  LoopBounds' /\ RegistersKept' /\ GuardsEvaluated' /\ BusesRead' /\ RegistersWritten'
<1>1. MoveSet' = MoveSet /\ \A j \in MoveSet : M(j)' = M(j)
  BY DEF MoveSet, M
<1>2. LoopBounds' /\ RegistersKept' /\ RegistersWritten'
  BY DEF LoopBounds, RegistersKept, RegistersWritten
<1>3. GuardsEvaluated'
  BY <1>1 DEF IndInv, GuardsEvaluated, Evaluated
<1>4. BusesRead'
  BY <1>1 DEF IndInv, BusesRead, IsRead
<1>5. QED
  BY <1>2, <1>3, <1>4

LEMMA CycleEndInv ==
    ASSUME IndInv, CycleEnd
    PROVE  IndInv' /\ PM!Complete
<1>1. /\ Deliver /\ phase' = "ready"
      /\ ring' = [g \in Guards |-> [ring[g] EXCEPT ![position[g]] = reg'[Target[g]]]]
      /\ position' = [g \in Guards |-> (position[g] + 1) % Latency[g]]
  BY DEF CycleEnd, AdvanceGuards
<1>2. /\ reg' \in [Registers -> Values]
      /\ \A r \in Registers : IF r \in Ports THEN reg'[r] \in PortValues ELSE reg'[r] = reg[r]
      /\ phase = "units"
      /\ UNCHANGED <<bus, busSquashed, squashed, instr, k, before>>
  BY <1>1, DeliverStep
<1>3. /\ \A g \in Guards : ring[g] \in [0 .. Latency[g] - 1 -> Values]
      /\ \A g \in Guards : position[g] \in 0 .. Latency[g] - 1
      /\ \A g \in Guards : Latency[g] \in Nat \ {0} /\ Target[g] \in Registers
  BY RingTypes DEF IndInv
<1>4. \A g \in Guards : position'[g] \in Nat /\ position'[g] < Latency[g]
  <2>1. \A g \in Guards : position'[g] \in 0 .. Latency[g] - 1
    BY NextPosition DEF IndInv, CycleEnd
  <2>2. QED
    BY <1>3, <2>1
<1>5. \A g \in Guards : ring'[g] \in [0 .. Latency[g] - 1 -> Values]
  BY <1>1, <1>2, <1>3
<1>6. TypeOK'
  <2>1. position' \in [Guards -> Nat] /\ ring' = [g \in Guards |-> ring'[g]]
    BY <1>1, <1>4
  <2>2. \A g \in Guards : position'[g] < Latency[g]
    BY <1>4
  <2>3. QED
    BY <1>1, <1>2, <1>5, <2>1, <2>2 DEF IndInv, TypeOK
<1>7. IndInv'
  BY <1>1, <1>2, <1>6, BetweenInstructions DEF IndInv
<1>8. AbsPast' = [g \in Guards |-> [j \in 1 .. Latency[g] |->
                     IF j = 1 THEN reg'[Target[g]] ELSE AbsPast[g][j - 1]]]
  <2>1. \A g \in Guards : \A j \in 1 .. Latency[g] :
            ring'[g][(position'[g] - j) % Latency[g]] =
                IF j = 1 THEN reg'[Target[g]] ELSE AbsPast[g][j - 1]
    BY NextRing DEF IndInv, CycleEnd
  <2>2. QED
    BY <2>1 DEF AbsPast
<1>9. AbsReg = reg /\ AbsReg' = reg' /\ AbsStage = "executed" /\ AbsStage' = "ready"
  BY <1>1, <1>2 DEF AbsReg, AbsStage
<1>10. PM!Complete
  BY <1>2, <1>8, <1>9 DEF PM!Complete, PM!Deliver, AbsReg, AbsPast, AbsStage
<1>11. QED
  BY <1>7, <1>10

LEMMA CycleFailsInv ==
    ASSUME IndInv, CycleFails
    PROVE  IndInv' /\ PM!Fail
<1>1. Deliver /\ phase' = "failed" /\ UNCHANGED <<ring, position>>
  BY DEF CycleFails, guardVars
<1>2. /\ reg' \in [Registers -> Values]
      /\ \A r \in Registers : IF r \in Ports THEN reg'[r] \in PortValues ELSE reg'[r] = reg[r]
      /\ phase = "units"
      /\ UNCHANGED <<bus, busSquashed, squashed, instr, k, before>>
  BY <1>1, DeliverStep
<1>3. TypeOK'
  BY <1>1, <1>2 DEF IndInv, TypeOK
<1>4. IndInv'
  BY <1>1, <1>2, <1>3, BetweenInstructions DEF IndInv
<1>5. /\ AbsReg = reg /\ AbsReg' = reg' /\ AbsStage = "executed" /\ AbsStage' = "failed"
      /\ AbsPast' = AbsPast
  BY <1>1, <1>2 DEF AbsReg, AbsStage, AbsPast
<1>6. PM!Fail
  BY <1>2, <1>5 DEF PM!Fail, PM!Deliver, AbsReg, AbsPast, AbsStage
<1>7. QED
  BY <1>4, <1>6

LEMMA KillInv ==
    ASSUME IndInv, Kill
    PROVE  IndInv' /\ PM!Kill
<1>1. /\ phase = "failed" /\ phase' = "ready"
      /\ UNCHANGED <<reg, bus, busSquashed, squashed, ring, position, instr, k, before>>
  BY DEF Kill, guardVars
<1>2. TypeOK'
  BY <1>1 DEF IndInv, TypeOK
<1>3. IndInv'
  BY <1>1, <1>2, BetweenInstructions DEF IndInv
<1>4. /\ AbsReg' = AbsReg /\ AbsStage = "failed" /\ AbsStage' = "ready"
      /\ AbsPast' = AbsPast
  BY <1>1 DEF AbsReg, AbsStage, AbsPast
<1>5. PM!Kill
  BY <1>1, <1>4 DEF PM!Kill, AbsReg, AbsPast, AbsStage
<1>6. QED
  BY <1>3, <1>5

LEMMA StepInv ==
    ASSUME IndInv, [Next]_vars
    PROVE  IndInv' /\ [PM!Next]_(PM!vars)
<1>1. CASE \E i \in Instructions : Fetch(i)
  BY <1>1, FetchInv DEF PM!Next
<1>2. CASE EvaluateGuard \/ ExecuteRead \/ ExecuteWrite \/ UpdateImmediate \/ EndMoveLoop
  BY <1>2, EvaluateGuardInv, ExecuteReadInv, ExecuteWriteInv, UpdateImmediateInv,
     EndMoveLoopInv
<1>3. CASE EndImmediateLoop
  BY <1>3, EndImmediateLoopInv DEF PM!Next
<1>4. CASE CycleEnd
  BY <1>4, CycleEndInv DEF PM!Next
<1>5. CASE CycleFails
  BY <1>5, CycleFailsInv DEF PM!Next
<1>6. CASE Kill
  BY <1>6, KillInv DEF PM!Next
<1>7. CASE UNCHANGED vars
  <2>1. UNCHANGED <<reg, bus, busSquashed, squashed, ring, position, instr, phase, k, before>>
    BY <1>7 DEF vars
  <2>2. UNCHANGED PM!vars
    BY <2>1, AbstractView DEF AbsReg, AbsPast, AbsStage
  <2>3. TypeOK' /\ LoopBounds' /\ RegistersKept'
    BY <2>1 DEF IndInv, TypeOK, LoopBounds, RegistersKept
  <2>4. GuardsEvaluated' /\ BusesRead' /\ RegistersWritten'
    BY <2>1 DEF IndInv, GuardsEvaluated, BusesRead, RegistersWritten, MovesWritten, MoveSet,
                ImmSet, M, Evaluated, IsRead, IsWritten, Squashes, SeenBefore
  <2>5. QED
    BY <2>2, <2>3, <2>4 DEF IndInv
<1>8. QED
  BY <1>1, <1>2, <1>3, <1>4, <1>5, <1>6, <1>7 DEF Next

-----------------------------------------------------------------------------

LEMMA Invariance == Spec => []IndInv
<1>1. IndInv /\ [Next]_vars => IndInv'
  BY StepInv
<1>2. QED
  BY InitInv, <1>1, PTL DEF Spec

(* Registers, buses and guard rings keep their types; position_ of a       *)
(* GuardState never leaves its ring.                                       *)
THEOREM TransportTypes == Spec => []TypeOK
<1>1. IndInv => TypeOK
  BY DEF IndInv
<1>2. QED
  BY <1>1, Invariance, PTL

(* What BusTracker prints at the end of a cycle is what the moves of the   *)
(* instruction transported.                                                *)
THEOREM BusTraceFaithful == Spec => []TraceShowsTransports
<1>1. IndInv => TraceShowsTransports
  <2> SUFFICES ASSUME IndInv, phase = "ready", NEW b \in Buses
               PROVE  \/ \E j \in DOMAIN instr.moves :
                             /\ instr.moves[j].bus = b
                             /\ ~ squashed[j]
                             /\ Traced(b) = before[instr.moves[j].src]
                      \/ /\ \A j \in DOMAIN instr.moves : instr.moves[j].bus = b => squashed[j]
                         /\ Traced(b) = 0
    BY DEF TraceShowsTransports
  <2>1. \A j \in MoveSet : M(j).bus = b => (busSquashed[b] <=> squashed[j])
    BY DEF IndInv, GuardsEvaluated, Evaluated
  <2>2. \/ \E j \in MoveSet : M(j).bus = b /\ ~ squashed[j] /\ bus[b] = before[M(j).src]
        \/ (\A j \in MoveSet : M(j).bus = b => squashed[j]) /\ bus[b] = 0
    BY DEF IndInv, BusesRead, IsRead
  <2>3. QED
    BY <2>1, <2>2 DEF Traced, MoveSet, M
<1>2. QED
  BY <1>1, Invariance, PTL

(* ExecutableInstruction::execute and GuardState implement parallel moves  *)
(* with delayed guards, for every program, machine and guard latency.      *)
THEOREM TransportsAreParallel == Spec => ImplementsParallelMoves
<1>1. Init => PM!Init
  <2> SUFFICES ASSUME Init PROVE PM!Init
    OBVIOUS
  <2>1. AbsReg = [r \in Registers |-> 0] /\ instr = Idle /\ AbsStage = "ready"
    BY DEF Init, AbsReg, AbsStage
  <2>2. AbsPast = [g \in Guards |-> [j \in 1 .. Latency[g] |-> 0]]
    <3>1. ASSUME NEW g \in Guards, NEW j \in 1 .. Latency[g]
          PROVE  ring[g][(position[g] - j) % Latency[g]] = 0
      <4>1. Latency[g] \in Nat \ {0} /\ position[g] = 0
        BY GuardsAssumption DEF Init
      <4>2. (position[g] - j) % Latency[g] \in 0 .. Latency[g] - 1
        <5>1. 0 - j \in (0 - Latency[g]) .. (0 - 1)
          BY <4>1
        <5>2. QED
          BY <4>1, <5>1, ModNegative
      <4>3. QED
        BY <4>2 DEF Init
    <3>2. QED
      BY <3>1 DEF AbsPast
  <2>3. QED
    BY <2>1, <2>2 DEF PM!Init, AbsReg, AbsPast, AbsStage
<1>2. IndInv /\ [Next]_vars => [PM!Next]_(PM!vars)
  BY StepInv
<1>3. QED
  BY <1>1, <1>2, Invariance, PTL DEF Spec, ImplementsParallelMoves, PM!Spec

-----------------------------------------------------------------------------
(* Long immediates                                                         *)

(* Sign extension with the powers as plain numbers: h is the weight of the *)
(* sign bit of the immediate and e the factor to that of the register.     *)
SignedAt(y, top, full) == IF y >= top THEN y - full ELSE y
Extension(h, e, b, w, s, x) ==
    /\ h \in Nat \ {0} /\ e \in Nat \ {0} /\ b \in 0 .. 2 * h - 1 /\ w = 2 * (h * e)
    /\ s = SignedAt((b * e) % w, h * e, w) /\ x = (s \div e) % w
LEMMA ExtendNumber ==
    ASSUME NEW h, NEW e, NEW b, NEW w, NEW s, NEW x, Extension(h, e, b, w, s, x)
    PROVE  SignedAt(x, h * e, w) = SignedAt(b, h, 2 * h)
<1> h \in Nat \ {0} /\ e \in Nat \ {0} /\ b \in 0 .. 2 * h - 1 /\ w = 2 * (h * e)
  BY DEF Extension
<1>0. s = SignedAt((b * e) % w, h * e, w) /\ x = (s \div e) % w
  BY DEF Extension
<1>1. /\ h * e \in Nat /\ h * e >= h /\ w \in Nat \ {0} /\ b * e \in Nat
      /\ (2 * h) * e = w
  OBVIOUS
<1>2. b * e \in 0 .. w - 1
  <2>1. b * e <= (2 * h - 1) * e /\ (2 * h - 1) * e = (2 * h) * e - e
    OBVIOUS
  <2> QED BY <1>1, <2>1
<1>3. (b * e) % w = b * e
  BY <1>1, <1>2, ModSmall
<1>4. \A y \in Int : (y * e) \div e = y
  OBVIOUS
<1>5. CASE b < h
  <2>1. b * e < h * e
    BY <1>5
  <2>2. s = b * e
    BY <1>0, <1>3, <2>1 DEF SignedAt
  <2>3. s \div e = b
    BY <1>4, <2>2
  <2>4. b \in 0 .. w - 1
    BY <1>1, <1>5
  <2>5. x = b
    BY <1>0, <1>1, <2>3, <2>4, ModSmall
  <2> QED BY <1>1, <1>5, <2>5 DEF SignedAt
<1>6. CASE b >= h
  <2>1. b * e >= h * e
    BY <1>6
  <2>2. s = b * e - w
    BY <1>0, <1>3, <2>1 DEF SignedAt
  <2>3. (b - 2 * h) * e = b * e - (2 * h) * e
    OBVIOUS
  <2>4. s \div e = b - 2 * h
    BY <1>1, <1>4, <2>2, <2>3
  <2>5. b - 2 * h \in (0 - w) .. (0 - 1)
    BY <1>1, <1>6
  <2>6. x = b - 2 * h + w
    BY <1>0, <1>1, <2>4, <2>5, ModNegative
  <2> QED BY <1>1, <1>6, <2>6 DEF SignedAt
<1> QED BY <1>5, <1>6

(* In a unit whose registers are as wide as a word, or as wide as the      *)
(* immediates, the shifts neither lose a bit nor miss the sign bit.        *)
SignReachesTop == ImmWidth = UnitWidth \/ (ImmWidth < UnitWidth /\ UnitWidth = WordWidth)

(* The powers of the widths as plain numbers: h is the weight of the sign  *)
(* bit of an immediate, e the distance it is shifted, w a word.            *)
Powers(h, e, w) ==
    /\ h \in Nat \ {0} /\ e \in Nat \ {0} /\ w = 2 * (h * e)
    /\ e = 2^(UnitWidth - ImmWidth) /\ w = 2^UnitWidth
    /\ 2^(ImmWidth - 1) = h /\ 2^ImmWidth = 2 * h /\ 2^(UnitWidth - 1) = h * e

LEMMA PowersOfWidths ==
    ASSUME ImmWidth < UnitWidth
    PROVE  \E h, e, w : Powers(h, e, w)
<1>1. PICK h, e, w : /\ h = 2^(ImmWidth - 1) /\ e = 2^(UnitWidth - ImmWidth)
                     /\ w = 2^UnitWidth
  OBVIOUS
<1>2. /\ ImmWidth \in Nat \ {0} /\ UnitWidth \in Nat
      /\ ImmWidth - 1 \in 0 .. UnitWidth /\ UnitWidth - ImmWidth \in 0 .. UnitWidth
      /\ 1 \in 0 .. UnitWidth /\ UnitWidth - 1 \in 0 .. UnitWidth
      /\ 1 + (ImmWidth - 1) = ImmWidth /\ 1 + (UnitWidth - 1) = UnitWidth
      /\ (ImmWidth - 1) + (UnitWidth - ImmWidth) = UnitWidth - 1
  BY WidthsAssumption
<1>3. h \in Nat \ {0} /\ e \in Nat \ {0}
  BY <1>1, <1>2, PowersAssumption
<1>4. 2^1 = 2
  OBVIOUS
<1>5. 2^ImmWidth = 2 * h
  <2>1. PICK m, i : m = 1 /\ i = ImmWidth - 1
    OBVIOUS
  <2>2. m \in 0 .. UnitWidth /\ i \in 0 .. UnitWidth /\ m + i = ImmWidth
    BY <1>2, <2>1
  <2>3. m + i <= UnitWidth
    BY <1>2, <2>2
  <2>4. 2^(m + i) = 2^m * 2^i
    BY ONLY <2>2, <2>3, PowersAssumption
  <2>5. 2^m = 2 /\ 2^i = h /\ 2^(m + i) = 2^ImmWidth
    BY <1>1, <1>4, <2>1, <2>2, Zenon
  <2> QED BY <2>4, <2>5, Zenon
<1>6. 2^(UnitWidth - 1) = h * e
  <2>1. 2^((ImmWidth - 1) + (UnitWidth - ImmWidth)) = 2^(ImmWidth - 1) * 2^(UnitWidth - ImmWidth)
    BY <1>2, PowersAssumption
  <2> QED BY <1>1, <1>2, <2>1
<1>7. w = 2 * (h * e)
  <2>1. PICK m, i : m = 1 /\ i = UnitWidth - 1
    OBVIOUS
  <2>2. m \in 0 .. UnitWidth /\ i \in 0 .. UnitWidth /\ m + i = UnitWidth
    BY <1>2, <2>1
  <2>3. m + i <= UnitWidth
    BY <1>2, <2>2
  <2>4. 2^(m + i) = 2^m * 2^i
    BY ONLY <2>2, <2>3, PowersAssumption
  <2>5. 2^m = 2 /\ 2^i = h * e /\ 2^(m + i) = w
    BY <1>1, <1>4, <1>6, <2>1, <2>2, Zenon
  <2> QED BY <2>4, <2>5, Zenon
<1>8. Powers(h, e, w)
  BY <1>1, <1>3, <1>5, <1>6, <1>7 DEF Powers
<1> QED BY <1>8

LEMMA ExtendedIsSigned ==
    ASSUME SignReachesTop, NEW r \in SignExtending, NEW b \in Immediates
    PROVE  Signed(Extended(r, b), UnitWidth) = Signed(b, ImmWidth)
<1>1. CASE ImmWidth = UnitWidth
  <2>1. ~ (ImmWidth < UnitWidth)
    BY <1>1, WidthsAssumption
  <2>2. Extended(r, b) = b
    BY <2>1 DEF Extended
  <2> QED BY <1>1, <2>2
<1>2. CASE ImmWidth < UnitWidth /\ UnitWidth = WordWidth
  <2>1. PICK h, e, w : Powers(h, e, w)
    BY <1>2, PowersOfWidths
  <2>2. PICK s, x : /\ s = SignedAt((b * e) % w, h * e, w)
                    /\ x = (s \div e) % w
    OBVIOUS
  <2>3. Extended(r, b) = x
    <3>1. Signed((b * e) % w, UnitWidth) = s
      BY <2>1, <2>2 DEF Powers, Signed, SignedAt
    <3>2. UnitWidth <= WordWidth /\ UnitWidth = WordWidth
      BY <1>2, WidthsAssumption
    <3>3. e = 2^(UnitWidth - ImmWidth) /\ w = 2^UnitWidth
      BY <2>1 DEF Powers
    <3> QED BY <1>2, <2>2, <3>1, <3>2, <3>3 DEF Extended
  <2>4. Signed(x, UnitWidth) = SignedAt(x, h * e, w)
    BY <2>1 DEF Powers, Signed, SignedAt
  <2>5. Signed(b, ImmWidth) = SignedAt(b, h, 2 * h)
    BY <2>1 DEF Powers, Signed, SignedAt
  <2>6. SignedAt(x, h * e, w) = SignedAt(b, h, 2 * h)
    <3>1. b \in 0 .. 2 * h - 1
      BY <2>1, WidthsAssumption DEF Powers
    <3>2. Extension(h, e, b, w, s, x)
      BY <2>1, <2>2, <3>1 DEF Powers, Extension
    <3> QED BY <3>2, ExtendNumber
  <2> QED BY <2>3, <2>4, <2>5, <2>6, Zenon
<1> QED BY <1>1, <1>2 DEF SignReachesTop

(* A unit that extends by zeros leaves the bits as they are.               *)
ZeroExtension(h, e, b, w, x) ==
    /\ h \in Nat \ {0} /\ e \in Nat \ {0} /\ b \in 0 .. 2 * h - 1 /\ w = 2 * (h * e)
    /\ x = (((b * e) % w) \div e) % w
LEMMA ZeroExtendNumber ==
    ASSUME NEW h, NEW e, NEW b, NEW w, NEW x, ZeroExtension(h, e, b, w, x)
    PROVE  x = b
<1> h \in Nat \ {0} /\ e \in Nat \ {0} /\ b \in 0 .. 2 * h - 1 /\ w = 2 * (h * e)
  BY DEF ZeroExtension
<1>0. x = (((b * e) % w) \div e) % w
  BY DEF ZeroExtension
<1>1. /\ h * e \in Nat /\ h * e >= h /\ w \in Nat \ {0} /\ b * e \in Nat
      /\ (2 * h) * e = w
  OBVIOUS
<1>2. b * e \in 0 .. w - 1
  <2>1. b * e <= (2 * h - 1) * e /\ (2 * h - 1) * e = (2 * h) * e - e
    OBVIOUS
  <2> QED BY <1>1, <2>1
<1>3. (b * e) % w = b * e
  BY <1>1, <1>2, ModSmall
<1>4. (b * e) \div e = b
  OBVIOUS
<1>5. b \in 0 .. w - 1
  BY <1>1
<1>6. b % w = b
  BY <1>1, <1>5, ModSmall
<1> QED BY <1>0, <1>3, <1>4, <1>6

LEMMA ExtendedByZeros ==
    ASSUME SignReachesTop, NEW r \in Registers \ SignExtending, NEW b \in Immediates
    PROVE  Extended(r, b) = b
<1>1. CASE ImmWidth = UnitWidth
  <2>1. ~ (ImmWidth < UnitWidth)
    BY <1>1, WidthsAssumption
  <2> QED BY <2>1 DEF Extended
<1>2. CASE ImmWidth < UnitWidth /\ UnitWidth = WordWidth
  <2>1. PICK h, e, w : Powers(h, e, w)
    BY <1>2, PowersOfWidths
  <2>2. PICK x : x = (((b * e) % w) \div e) % w
    OBVIOUS
  <2>3. Extended(r, b) = x
    <3>1. UnitWidth <= WordWidth /\ UnitWidth = WordWidth
      BY <1>2, WidthsAssumption
    <3>2. e = 2^(UnitWidth - ImmWidth) /\ w = 2^UnitWidth
      BY <2>1 DEF Powers
    <3> QED BY <1>2, <2>2, <3>1, <3>2 DEF Extended
  <2>4. b \in 0 .. 2 * h - 1
    BY <2>1, WidthsAssumption DEF Powers
  <2>5. x = b
    <3>1. h \in Nat \ {0} /\ e \in Nat \ {0} /\ w = 2 * (h * e)
      BY <2>1 DEF Powers
    <3>2. ZeroExtension(h, e, b, w, x)
      BY <2>2, <2>4, <3>1 DEF ZeroExtension
    <3> QED BY <3>2, ZeroExtendNumber
  <2> QED BY <2>3, <2>5
<1> QED BY <1>1, <1>2 DEF SignReachesTop

(* The immediates updated so far are in their registers, unless a later    *)
(* update of the instruction has taken the register.                       *)
Updated(j) == phase = "units" \/ j < k
ImmediatesWritten ==
    phase \in {"immediates", "units"} =>
        \A j \in ImmSet :
            Updated(j) /\ (\A l \in ImmSet : l > j /\ Updated(l) =>
                               instr.imms[l].dst # instr.imms[j].dst)
            => reg[instr.imms[j].dst] = Extended(instr.imms[j].dst, instr.imms[j].bits)

LEMMA ImmediatesStep ==
    IndInv /\ ImmediatesWritten /\ [Next]_vars => ImmediatesWritten'
<1> SUFFICES ASSUME IndInv, ImmediatesWritten, [Next]_vars PROVE ImmediatesWritten'
  OBVIOUS
<1>1. CASE UpdateImmediate
  <2>1. /\ phase = "immediates" /\ phase' = "immediates" /\ k \in ImmSet /\ k' = k + 1
        /\ instr' = instr /\ ImmSet' = ImmSet /\ k \in Nat
        /\ reg' = [reg EXCEPT ![instr.imms[k].dst] = Extended(instr.imms[k].dst, instr.imms[k].bits)]
    BY <1>1 DEF UpdateImmediate, ImmSet, IndInv, TypeOK
  <2>2. \A u \in ImmSet : u \in Nat \ {0} /\ instr.imms[u].dst \in Registers
    BY InstrTypes DEF ImmSet, IndInv, TypeOK
  <2>3. reg \in [Registers -> Values]
    BY DEF IndInv, TypeOK
  <2> SUFFICES ASSUME NEW j \in ImmSet, j < k + 1,
                      \A l \in ImmSet : l > j /\ l < k + 1 => instr.imms[l].dst # instr.imms[j].dst
               PROVE  reg'[instr.imms[j].dst] = Extended(instr.imms[j].dst, instr.imms[j].bits)
    BY <2>1 DEF ImmediatesWritten, Updated
  <2>4. CASE j = k
    BY <2>1, <2>2, <2>3, <2>4
  <2>5. CASE j < k
    <3>1. instr.imms[k].dst # instr.imms[j].dst
      BY <2>1, <2>5
    <3>2. reg[instr.imms[j].dst] = Extended(instr.imms[j].dst, instr.imms[j].bits)
      <4>1. \A l \in ImmSet : l < k => l < k + 1
        BY <2>1, <2>2
      <4> QED BY <2>1, <2>5, <4>1 DEF ImmediatesWritten, Updated
    <3> QED BY <2>1, <2>2, <2>3, <3>1, <3>2
  <2> QED BY <2>1, <2>2, <2>4, <2>5
<1>2. CASE EndMoveLoop
  <2>1. k' = 1 /\ phase' # "units" /\ instr' = instr /\ ImmSet' = ImmSet
    BY <1>2 DEF EndMoveLoop, ImmSet
  <2>2. \A u \in ImmSet : ~ (u < 1)
    BY InstrTypes DEF ImmSet, IndInv, TypeOK
  <2> QED BY <2>1, <2>2 DEF ImmediatesWritten, Updated
<1>3. CASE EndImmediateLoop
  <2>1. /\ phase = "immediates" /\ phase' = "units" /\ k \notin ImmSet
        /\ UNCHANGED <<reg, instr, k>> /\ ImmSet' = ImmSet
    BY <1>3 DEF EndImmediateLoop, ImmSet
  <2>2. \A u \in ImmSet : u < k
    BY <2>1, IndexInLoop, InstrTypes DEF ImmSet, IndInv, TypeOK
  <2> QED BY <2>1, <2>2 DEF ImmediatesWritten, Updated
<1>4. CASE CycleEnd \/ CycleFails \/ Kill \/ \E i \in Instructions : Fetch(i)
  <2>1. phase' \notin {"immediates", "units"}
    BY <1>4 DEF CycleEnd, CycleFails, Kill, Fetch
  <2> QED BY <2>1 DEF ImmediatesWritten
<1>5. CASE EvaluateGuard \/ ExecuteRead \/ ExecuteWrite
  <2>1. phase' \notin {"immediates", "units"}
    BY <1>5 DEF EvaluateGuard, ExecuteRead, ExecuteWrite
  <2> QED BY <2>1 DEF ImmediatesWritten
<1>6. CASE UNCHANGED vars
  BY <1>6 DEF vars, ImmediatesWritten, Updated, ImmSet
<1> QED BY <1>1, <1>2, <1>3, <1>4, <1>5, <1>6 DEF Next

(* After the loop over the immediates, each register of a sign extending   *)
(* unit reads as the signed number its last immediate was, and each other  *)
(* one holds its bits, provided the sign bit can reach the top of the      *)
(* register: LongImmediateRegisterState::setValue shifts within a word.    *)
THEOREM ImmediatesKeepTheirSign ==
    ASSUME SignReachesTop
    PROVE  Spec => []ImmediatesExtended
<1>1. Init => ImmediatesWritten
  BY DEF Init, ImmediatesWritten
<1>2. IndInv /\ ImmediatesWritten => ImmediatesExtended
  <2> SUFFICES ASSUME IndInv, ImmediatesWritten, phase = "units", NEW j \in DOMAIN instr.imms,
                      \A l \in DOMAIN instr.imms : l > j => instr.imms[l].dst # instr.imms[j].dst
               PROVE  IF instr.imms[j].dst \in SignExtending
                      THEN Signed(reg[instr.imms[j].dst], UnitWidth)
                               = Signed(instr.imms[j].bits, ImmWidth)
                      ELSE reg[instr.imms[j].dst] = instr.imms[j].bits
    BY DEF ImmediatesExtended
  <2>1. reg[instr.imms[j].dst] = Extended(instr.imms[j].dst, instr.imms[j].bits)
    BY DEF ImmediatesWritten, Updated, ImmSet
  <2>2. instr.imms[j].bits \in Immediates /\ instr.imms[j].dst \in Registers
    BY InstrTypes DEF IndInv, TypeOK
  <2> QED BY <2>1, <2>2, ExtendedIsSigned, ExtendedByZeros
<1> QED BY <1>1, <1>2, ImmediatesStep, Invariance, PTL DEF Spec
=============================================================================

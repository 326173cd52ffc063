-------------------------- MODULE DataMemoryProofs ---------------------------
(***************************************************************************)
(* Proofs about DataMemory for every address space, page size, number of   *)
(* units and set of accesses: the range check and the page table, what     *)
(* Memory::read computes from its units, what committing the queue of      *)
(* write requests does, and that both together implement the memory of     *)
(* SynchronousMemory.                                                      *)
(***************************************************************************)
EXTENDS DataMemory, WellFoundedInduction, TLAPS

(* checkRange computes end - size + 1 in unsigned arithmetic.  As long as  *)
(* that does not wrap around, it admits exactly the accesses that lie in   *)
(* the address space.                                                      *)
LEMMA RangeCheckExact ==
    ASSUME NEW a \in Nat, NEW n \in Nat \ {0}, n - 1 <= End
    PROVE  InRange(a, n) <=> (a \in Space /\ a + n - 1 \in Space)
<1> DEFINE W == 2^AddressBits
<1>1. W \in Nat /\ End < W /\ Start \in Nat /\ End \in Nat /\ Start <= End
  BY SpaceAssumption, AddressAssumption
<1>2. End - n + 1 \in 0 .. W - 1
  BY <1>1
<1>3. (End - n + 1) % W = End - n + 1
  <2> HIDE DEF W
  <2>1. \A k \in Int, m \in Nat : k \in 0 .. m - 1 => k % m = k
    OBVIOUS
  <2>2. QED
    BY <1>1, <1>2, <2>1
<1>4. InRange(a, n) <=> a >= Start /\ a <= End - n + 1
  BY <1>3 DEF InRange
<1>5. QED
  BY <1>1, <1>4 DEF Space

(* PagedArray(end_ - start_) has a page for every address of the space     *)
(* unless the size it is given is a multiple of the page size.             *)
LEMMA PagesCover ==
    ASSUME (End - Start) % PageSize # 0, NEW x \in Space
    PROVE  Page(x) < PageTableSize
<1> DEFINE d == End - Start
           k == x - Start
<1>1. PageSize \in Nat /\ PageSize > 0 /\ d \in Nat /\ k \in Nat /\ k <= d
  BY SpaceAssumption, PageAssumption DEF Space
<1>2. \A p \in Nat, i \in Nat, j \in Nat :
        p > 0 /\ i <= j /\ j % p # 0 => i \div p < (j + p - 1) \div p
  OBVIOUS
<1>3. QED
  BY <1>1, <1>2 DEF Page, PageTableSize

-----------------------------------------------------------------------------
(* One more request that checkRange let through keeps the queue sound.     *)
QueueSound ==
    /\ queue \in Seq(Requests)
    /\ \A i \in 1 .. Len(queue) :
          \E a \in Addresses, n \in Sizes, v \in Values :
              InRange(a, n) /\ queue[i] = Request(a, n, v)

LEMMA AppendSound ==
    ASSUME QueueSound,
           NEW a \in Addresses, NEW n \in Sizes, NEW v \in Values, InRange(a, n),
           queue' = Append(queue, Request(a, n, v))
    PROVE  QueueSound'
<1> DEFINE r == Request(a, n, v)
<1>1. r \in Requests
  BY DEF Requests
<1> HIDE DEF r
<1>2. queue \in Seq(Requests) /\ queue' = Append(queue, r)
  BY DEF QueueSound, r
<1>3. /\ queue' \in Seq(Requests)
      /\ Len(queue') = Len(queue) + 1
      /\ \A i \in 1 .. Len(queue) : queue'[i] = queue[i]
      /\ queue'[Len(queue) + 1] = r
      /\ Len(queue) \in Nat
  BY <1>1, <1>2
<1>4. ASSUME NEW i \in 1 .. Len(queue')
      PROVE  \E b \in Addresses, m \in Sizes, w \in Values :
                 InRange(b, m) /\ queue'[i] = Request(b, m, w)
  <2>1. CASE i \in 1 .. Len(queue)
    BY <2>1, <1>3 DEF QueueSound
  <2>2. CASE i = Len(queue) + 1
    BY <2>2, <1>3 DEF r
  <2>3. QED
    BY <1>3, <1>4, <2>1, <2>2
<1>5. QED
  BY <1>3, <1>4 DEF QueueSound, InRange

(* The trigger of a legal access keeps the queue sound.                    *)
LEMMA TriggerSound ==
    ASSUME QueueSound, NEW u \in Units, ops[u] \in Access, Legal(ops[u]), Trigger(u)
    PROVE  QueueSound'
<1>1. CASE UNCHANGED queue
  BY <1>1 DEF QueueSound, InRange
<1>2. CASE ops[u].kind = "store" /\ queue' = Append(queue, Request(ops[u].address, ops[u].size, ops[u].value))
  <2>1. /\ ops[u].address \in Addresses /\ ops[u].size \in Sizes
        /\ ops[u].value \in Values /\ InRange(ops[u].address, ops[u].size)
    BY <1>2 DEF Access, NoAccess, Legal
  <2>2. QED
    BY <1>2, <2>1, AppendSound
<1>3. QED
  BY <1>1, <1>2, Zenon DEF Trigger

AdvanceLegal == phase # "issue" \/ replay => \A u \in multi : Legal(ops[u])

(* InsideInv and its parts, now and in the next state.                     *)
LEMMA InsideParts ==
    /\ InsideInv <=> /\ ops \in [Units -> Access] /\ multi \subseteq Units
                     /\ QueueSound /\ AdvanceLegal
    /\ InsideInv' <=> /\ ops' \in [Units -> Access] /\ multi' \subseteq Units
                      /\ QueueSound' /\ AdvanceLegal'
  BY DEF InsideInv, QueueSound, AdvanceLegal, Legal, InRange

(* What makes the operations of advanceClock legal after a step.           *)
LEMMA AdvanceLegalNext ==
    ASSUME \A u \in multi' : Legal(ops'[u]) PROVE AdvanceLegal'
  BY DEF AdvanceLegal, Legal, InRange

LEMMA AdvanceLegalKept ==
    ASSUME AdvanceLegal, UNCHANGED <<multi, ops>>, phase # "issue" \/ replay
    PROVE  AdvanceLegal'
<1>1. \A u \in multi : Legal(ops[u])
  BY Zenon DEF AdvanceLegal
<1>2. QED
  BY <1>1, AdvanceLegalNext

LEMMA EmptySound == ASSUME queue' = <<>> PROVE QueueSound'
  BY DEF QueueSound

LEMMA InsideInit == Init => InsideInv
<1> SUFFICES ASSUME Init PROVE InsideInv
  OBVIOUS
<1>1. QueueSound
  BY DEF Init, QueueSound
<1>2. ops \in [Units -> Access] /\ multi \subseteq Units
  BY MultiAssumption DEF Init, NoAccesses, Access
<1>3. ~ (phase # "issue" \/ replay)
  BY Zenon DEF Init
<1>4. QED
  BY <1>1, <1>2, <1>3, InsideParts, Zenon DEF AdvanceLegal

LEMMA InsideStep == InsideInv /\ [Next]_vars => InsideInv'
<1> SUFFICES ASSUME InsideInv, [Next]_vars PROVE InsideInv'
  OBVIOUS
<1>1. /\ ops \in [Units -> Access] /\ multi \subseteq Units
      /\ QueueSound /\ AdvanceLegal
  BY InsideParts
<1>2. UNCHANGED queue => QueueSound'
  BY <1>1 DEF QueueSound, InRange
<1>3. ASSUME NEW o \in [Units -> Access], Issue(o) PROVE InsideInv'
  <2>1. /\ UNCHANGED queue /\ UNCHANGED multi /\ ops' = o
        /\ \A u \in multi : Legal(o[u])
    BY <1>3, Zenon DEF Issue
  <2>2. AdvanceLegal'
    BY <2>1, AdvanceLegalNext
  <2>3. QED
    BY <1>1, <1>2, <2>1, <2>2, InsideParts
<1>4. ASSUME UNCHANGED <<multi, ops, queue>>, phase # "issue" \/ replay
      PROVE  InsideInv'
  BY <1>1, <1>2, <1>4, AdvanceLegalKept, InsideParts
<1>5. CASE Replay
  BY <1>4, <1>5, Zenon DEF Replay
<1>6. CASE EndClockThrows
  <2>1. UNCHANGED <<multi, ops, queue>> /\ phase = "end"
    BY <1>6, Zenon DEF EndClockThrows
  <2>2. phase # "issue"
    BY <2>1
  <2>3. QED
    BY <1>4, <2>1, <2>2, Zenon
<1>7. CASE UNCHANGED vars
  <2>1. AdvanceLegal'
    BY <1>1, <1>7 DEF AdvanceLegal, Legal, InRange, vars
  <2>2. QED
    BY <1>1, <1>2, <1>7, <2>1, InsideParts DEF vars
<1>8. CASE EndClock
  <2>1. /\ UNCHANGED <<multi, ops>> /\ phase = "end"
        /\ unit \in Units
        /\ UNCHANGED queue \/ (Legal(ops[unit]) /\ Trigger(unit))
    BY <1>8, Zenon DEF EndClock
  <2>2. QueueSound'
    BY <1>1, <1>2, <2>1, TriggerSound
  <2>3. phase # "issue"
    BY <2>1
  <2>4. AdvanceLegal'
    BY <1>1, <2>1, <2>3, AdvanceLegalKept, Zenon
  <2>5. QED
    BY <1>1, <2>1, <2>2, <2>4, InsideParts
<1>9. CASE AdvanceMemory
  <2>1. UNCHANGED <<multi, ops>> /\ queue' = <<>> /\ phase = "end"
    BY <1>9, Zenon DEF AdvanceMemory
  <2>2. phase # "issue"
    BY <2>1
  <2>3. AdvanceLegal'
    BY <1>1, <2>1, <2>2, AdvanceLegalKept, Zenon
  <2>4. QED
    BY <1>1, <2>1, <2>3, EmptySound, InsideParts
<1>10. CASE AdvanceClock
  <2>1. /\ UNCHANGED <<multi, ops>> /\ phase = "advance"
        /\ unit \in Units
        /\ UNCHANGED queue \/ (unit \in multi /\ Trigger(unit))
    BY <1>10, Zenon DEF AdvanceClock
  <2>2. phase # "issue"
    BY <2>1
  <2>3. \A u \in multi : Legal(ops[u])
    BY <1>1, <2>2, Zenon DEF AdvanceLegal
  <2>4. QueueSound'
    BY <1>1, <1>2, <2>1, <2>3, TriggerSound
  <2>5. AdvanceLegal'
    BY <1>1, <2>1, <2>2, AdvanceLegalKept, Zenon
  <2>6. QED
    BY <1>1, <2>1, <2>4, <2>5, InsideParts
<1>11. CASE CycleEnd \/ KillSimulation
  <2>1. /\ UNCHANGED multi /\ ops' = NoAccesses
        /\ UNCHANGED queue \/ queue' = <<>>
    BY <1>11, Zenon DEF CycleEnd, KillSimulation, Reset
  <2>2. QueueSound'
    BY <1>2, <2>1, EmptySound
  <2>3. ops' \in [Units -> Access] /\ \A u \in Units : ops'[u].kind = "none"
    BY <2>1 DEF NoAccesses, NoAccess, Access
  <2>4. AdvanceLegal'
    BY <1>1, <2>1, <2>3, AdvanceLegalNext DEF Legal
  <2>5. QED
    BY <1>1, <2>1, <2>2, <2>3, <2>4, InsideParts
<1>12. QED
  BY <1>3, <1>5, <1>6, <1>7, <1>8, <1>9, <1>10, <1>11 DEF Next

(* The queue of write requests only ever holds requests that the range     *)
(* check let through, across failed cycles, replays and kills.             *)
THEOREM QueueChecked == Spec => []InsideInv
  BY InsideInit, InsideStep, PTL DEF Spec

(* Every write request lies in the address space and in pages that exist,  *)
(* provided no access is larger than the end address and the page table is *)
(* not one page short.                                                     *)
THEOREM WritesAlwaysInside ==
    ASSUME \A n \in Sizes : n - 1 <= End, (End - Start) % PageSize # 0
    PROVE  Spec => []WritesInside
<1>1. InsideInv => WritesInside
  <2> SUFFICES ASSUME InsideInv,
                      NEW i \in DOMAIN queue, NEW j \in DOMAIN queue[i].data
               PROVE  LET x == queue[i].address + j - 1
                      IN  x \in Space /\ Page(x) < PageTableSize
    BY DEF WritesInside
  <2>1. PICK a \in Addresses, n \in Sizes, v \in Values :
          InRange(a, n) /\ queue[i] = Request(a, n, v)
    BY DEF InsideInv
  <2>2. queue[i].address = a /\ j \in 1 .. n
    BY <2>1 DEF Request, Unpack
  <2>3. a \in Nat /\ n \in Nat \ {0} /\ n - 1 <= End
    BY AccessAssumption, AddressAssumption
  <2>4. a \in Space /\ a + n - 1 \in Space
    BY <2>1, <2>3, RangeCheckExact
  <2>5. a + j - 1 \in Space
    BY <2>2, <2>3, <2>4, SpaceAssumption DEF Space
  <2>6. QED
    BY <2>2, <2>5, PagesCover
<1>2. QED
  BY <1>1, QueueChecked, PTL

-----------------------------------------------------------------------------
(* Words and their units                                                   *)

(* Induction over the naturals, for sets.                                  *)
LEMMA Induct ==
    ASSUME NEW S, 0 \in S, \A k \in Nat : k \in S => k + 1 \in S
    PROVE  Nat \subseteq S
<1> SUFFICES ASSUME Nat \ S # {} PROVE FALSE
  OBVIOUS
<1> DEFINE R == OpToRel(<, Nat)
           T == Nat \ S
<1>1. \A x, y \in Nat : <<y, x>> \in R <=> y < x
  BY DEF OpToRel
<1>2. IsWellFoundedOn(R, Nat)
  BY NatLessThanWellFounded, Zenon
<1> HIDE DEF R
<1>3. T \subseteq Nat /\ T # {}
  OBVIOUS
<1> HIDE DEF T
<1>4. PICK x \in T : \A y \in T : ~ (<<y, x>> \in R)
  BY <1>2, <1>3, WFMin
<1>5. \A y \in T : ~ (y < x)
  BY <1>1, <1>3, <1>4, Zenon
<1>6. x \in Nat /\ x # 0 /\ x - 1 \in Nat
  BY <1>3, <1>4 DEF T
<1>7. x - 1 \in S
  BY <1>5, <1>6 DEF T
<1> QED BY <1>6, <1>7, <1>4 DEF T

(* Quotients and remainders.                                               *)
LEMMA DivExact ==
    ASSUME NEW p \in Nat \ {0}, NEW x \in Nat, NEW r \in 0 .. p - 1
    PROVE  (x * p + r) \div p = x
OBVIOUS

LEMMA ModExact ==
    ASSUME NEW p \in Nat \ {0}, NEW x \in Nat, NEW r \in 0 .. p - 1
    PROVE  (x * p + r) % p = r
OBVIOUS

LEMMA DivMod ==
    ASSUME NEW p \in Nat \ {0}, NEW x \in Nat
    PROVE  x \div p \in Nat /\ x % p \in 0 .. p - 1 /\ x = ((x \div p) * p) + (x % p)
<1>1. x \div p \in Int /\ x % p \in 0 .. p - 1
  OBVIOUS
<1>2. x = p * (x \div p) + (x % p)
  OBVIOUS
<1>3. x \div p >= 0
  OBVIOUS
<1> QED BY <1>1, <1>2, <1>3

(* Shifting right twice is shifting right once.                            *)
LEMMA DivTwice ==
    ASSUME NEW p \in Nat \ {0}, NEW b \in Nat \ {0}, NEW v \in Nat
    PROVE  (v \div p) \div b = v \div (b * p)
<1>1. PICK q, r, s, t : q = v \div p /\ r = v % p /\ s = q \div b /\ t = q % b
  OBVIOUS
<1>2. q \in Nat /\ r \in 0 .. p - 1 /\ v = (q * p) + r
  BY <1>1, DivMod
<1>3. s \in Nat /\ t \in 0 .. b - 1 /\ q = s * b + t
  BY <1>1, <1>2, DivMod
<1>4. b * p \in Nat \ {0}
  OBVIOUS
<1>5. t * p + r \in 0 .. b * p - 1
  <2>1. t * p <= (b - 1) * p
    BY <1>3
  <2>2. (b - 1) * p = b * p - p
    OBVIOUS
  <2>3. t * p \in Nat
    BY <1>3
  <2> QED BY <1>2, <1>4, <2>1, <2>2, <2>3
<1>6. v = s * (b * p) + (t * p + r)
  <2>1. (s * b + t) * p = s * (b * p) + t * p
    BY <1>3
  <2> QED BY <1>2, <1>3, <2>1
<1>7. PICK w, y : w = b * p /\ y = t * p + r
  OBVIOUS
<1>8. (s * w + y) \div w = s
  BY <1>3, <1>4, <1>5, <1>7, DivExact
<1> QED BY <1>1, <1>6, <1>7, <1>8

(* g[i] is the sum of the first i terms of t.                              *)
Sums(g, t, k) == g = [i \in 0 .. k |-> IF i = 0 THEN 0 ELSE g[i - 1] + t[i]]

(* The function that the loop of Memory::read computes exists.             *)
LEMMA SumsExist ==
    ASSUME NEW n \in Nat, NEW t
    PROVE  \E g : Sums(g, t, n)
<1> DEFINE S == {k \in Nat : \E g : Sums(g, t, k)}
<1>1. 0 \in S
  <2>1. Sums([i \in 0 .. 0 |-> 0], t, 0)
    BY DEF Sums
  <2> QED BY <2>1
<1>2. ASSUME NEW k \in Nat, k \in S PROVE k + 1 \in S
  <2>1. PICK g : Sums(g, t, k)
    BY <1>2
  <2>2. PICK h : h = [i \in 0 .. k + 1 |-> IF i = k + 1 THEN g[k] + t[k + 1] ELSE g[i]]
    OBVIOUS
  <2>3. \A i \in 0 .. k : h[i] = g[i]
    BY <2>2
  <2>4. \A i \in 0 .. k + 1 : h[i] = IF i = 0 THEN 0 ELSE h[i - 1] + t[i]
    <3>1. \A i \in 0 .. k : g[i] = IF i = 0 THEN 0 ELSE g[i - 1] + t[i]
      BY <2>1 DEF Sums
    <3>2. \A i \in 0 .. k : i # 0 => i - 1 \in 0 .. k
      OBVIOUS
    <3>3. h[k + 1] = h[k] + t[k + 1]
      BY <2>2, <2>3
    <3>4. \A i \in 0 .. k + 1 : i = k + 1 \/ i \in 0 .. k
      OBVIOUS
    <3> QED BY <2>3, <3>1, <3>2, <3>3, <3>4
  <2>5. Sums(h, t, k + 1)
    BY <2>2, <2>4 DEF Sums
  <2> QED BY <2>5
<1> HIDE DEF S
<1>3. Nat \subseteq S
  BY <1>1, <1>2, Induct
<1> QED BY <1>3 DEF S

(* P[j] is the j-th power of b.                                            *)
IsPowers(P, b, n) ==
    /\ P \in [0 .. n -> Nat \ {0}]
    /\ P[0] = 1
    /\ \A j \in 0 .. n - 1 : P[j + 1] = b * P[j]

(* g[i] is the sum of the i most significant of the n units c, in place.   *)
IsWord(g, c, P, b, n) ==
    /\ DOMAIN g = 0 .. n
    /\ g[0] = 0
    /\ \A i \in 1 .. n : g[i] = g[i - 1] + c[i] * P[n - i]
    /\ \A i \in 1 .. n : c[i] \in 0 .. b - 1

(* One more unit below those already summed.                              *)
LEMMA UpStep ==
    ASSUME NEW b \in Nat \ {0}, NEW p \in Nat \ {0}, NEW x \in Int, NEW m \in Int,
           NEW c \in 0 .. b - 1, 0 <= x, x <= m - b * p
    PROVE  0 <= x + c * p /\ x + c * p <= m - p
<1>1. c * p <= (b - 1) * p /\ (b - 1) * p = b * p - p /\ c * p >= 0 /\ c * p \in Int /\ b * p \in Int
  OBVIOUS
<1> QED BY <1>1

(* The units below unit j sum up to less than one of unit j.               *)
LEMMA PartsBelow ==
    ASSUME NEW b \in Nat \ {0}, NEW n \in Nat, NEW P, IsPowers(P, b, n),
           NEW g, NEW c, IsWord(g, c, P, b, n), NEW j \in 0 .. n, g[j] \in Nat
    PROVE  \A i \in j .. n : g[i] \in Nat /\ g[i] - g[j] >= 0 /\ g[i] - g[j] <= P[n - j] - P[n - i]
<1> DEFINE G(i) == g[i] \in Nat /\ g[i] - g[j] >= 0 /\ g[i] - g[j] <= P[n - j] - P[n - i]
           S == {k \in Nat : j + k <= n => G(j + k)}
<1>0. \A i \in 0 .. n : P[n - i] \in Nat \ {0}
  BY DEF IsPowers
<1>1. 0 \in S
  BY <1>0
<1>2. ASSUME NEW k \in Nat, k \in S PROVE k + 1 \in S
  <2> SUFFICES ASSUME j + k + 1 <= n PROVE G(j + k + 1)
    OBVIOUS
  <2>1. PICK i : i = j + k
    OBVIOUS
  <2>2. i \in 0 .. n - 1 /\ i + 1 \in 1 .. n
    BY <2>1
  <2>3. g[i] \in Nat /\ g[i] - g[j] >= 0 /\ g[i] - g[j] <= P[n - j] - P[n - i]
    BY <1>2, <2>1, <2>2
  <2>4. g[i + 1] = g[i] + c[i + 1] * P[n - (i + 1)] /\ c[i + 1] \in 0 .. b - 1
    BY <2>2 DEF IsWord
  <2>5. P[n - i] = b * P[n - (i + 1)]
    <3>1. n - (i + 1) \in 0 .. n - 1 /\ (n - (i + 1)) + 1 = n - i
      BY <2>2
    <3> QED BY <3>1 DEF IsPowers
  <2>6. P[n - (i + 1)] \in Nat \ {0} /\ P[n - j] \in Nat
    BY <1>0, <2>2
  <2>7. PICK x, y, p, m : /\ x = g[i] - g[j] /\ y = c[i + 1] /\ p = P[n - (i + 1)]
                       /\ m = P[n - j]
    OBVIOUS
  <2>8. 0 <= x + y * p /\ x + y * p <= m - p
    BY <2>3, <2>4, <2>5, <2>6, <2>7, UpStep
  <2>9. y * p \in Nat
    BY <2>4, <2>6, <2>7
  <2> QED BY <2>1, <2>3, <2>4, <2>6, <2>7, <2>8, <2>9
<1> HIDE DEF S
<1>3. Nat \subseteq S
  BY <1>1, <1>2, Induct
<1>4. ASSUME NEW i \in j .. n PROVE G(i)
  <2>1. i - j \in S
    BY <1>3
  <2> QED BY <2>1 DEF S
<1> QED BY <1>4

(* The units above unit i sum up to a multiple of unit i.                  *)
LEMMA Multiples ==
    ASSUME NEW b \in Nat \ {0}, NEW n \in Nat, NEW P, IsPowers(P, b, n),
           NEW g, NEW c, IsWord(g, c, P, b, n)
    PROVE  \A i \in 0 .. n : \E h \in Nat : g[i] = h * P[n - i]
<1> DEFINE S == {k \in Nat : k <= n => \E h \in Nat : g[k] = h * P[n - k]}
<1>0. \A i \in 0 .. n : P[n - i] \in Nat \ {0}
  BY DEF IsPowers
<1>1. 0 \in S
  <2>1. PICK p \in Nat : p = P[n - 0]
    BY <1>0
  <2>2. 0 * p = 0 /\ g[0] = 0
    BY DEF IsWord
  <2> QED BY <2>1, <2>2
<1>2. ASSUME NEW k \in Nat, k \in S PROVE k + 1 \in S
  <2> SUFFICES ASSUME k + 1 <= n PROVE \E h \in Nat : g[k + 1] = h * P[n - (k + 1)]
    OBVIOUS
  <2>1. PICK h \in Nat : g[k] = h * P[n - k]
    BY <1>2
  <2>2. k + 1 \in 1 .. n /\ n - (k + 1) \in 0 .. n - 1 /\ (n - (k + 1)) + 1 = n - k
    OBVIOUS
  <2>3. g[k + 1] = g[k] + c[k + 1] * P[n - (k + 1)] /\ c[k + 1] \in 0 .. b - 1
    <3>1. g[k + 1] = g[(k + 1) - 1] + c[k + 1] * P[n - (k + 1)] /\ c[k + 1] \in 0 .. b - 1
      BY <2>2 DEF IsWord
    <3> QED BY <3>1
  <2>4. P[n - k] = b * P[n - (k + 1)]
    BY <2>2 DEF IsPowers
  <2>5. PICK p, y : p = P[n - (k + 1)] /\ y = c[k + 1]
    OBVIOUS
  <2>6. p \in Nat /\ y \in Nat
    BY <1>0, <2>2, <2>3, <2>5
  <2>7. h * (b * p) + y * p = (h * b + y) * p
    BY <2>6
  <2>8. h * b + y \in Nat
    BY <2>6
  <2> QED BY <2>1, <2>3, <2>4, <2>5, <2>7, <2>8
<1> HIDE DEF S
<1>3. Nat \subseteq S
  BY <1>1, <1>2, Induct
<1> QED BY <1>3 DEF S

(* The digits of the sum are the units.                                    *)
LEMMA WordDigits ==
    ASSUME NEW b \in Nat \ {0}, NEW n \in Nat, NEW P, IsPowers(P, b, n),
           NEW g, NEW c, IsWord(g, c, P, b, n)
    PROVE  /\ g[n] \in 0 .. P[n] - 1
           /\ \A j \in 1 .. n : (g[n] \div P[n - j]) % b = c[j]
<1>0. \A i \in 0 .. n : P[n - i] \in Nat \ {0} /\ P[n - n] = 1 /\ P[n - 0] = P[n]
  BY DEF IsPowers
<1>1. g[n] \in 0 .. P[n] - 1
  <2>1. g[0] = 0 /\ 0 \in 0 .. n /\ n \in 0 .. n
    BY DEF IsWord
  <2>2. g[n] \in Nat /\ g[n] - g[0] <= P[n - 0] - P[n - n]
    BY <2>1, PartsBelow
  <2> QED BY <1>0, <2>1, <2>2
<1>2. ASSUME NEW j \in 1 .. n PROVE (g[n] \div P[n - j]) % b = c[j]
  <2>1. j - 1 \in 0 .. n /\ j \in 0 .. n /\ n \in j .. n /\ n - j \in 0 .. n - 1 /\ (n - j) + 1 = n - (j - 1)
    OBVIOUS
  <2>2. PICK p : p = P[n - j]
    OBVIOUS
  <2>3. p \in Nat \ {0} /\ P[n - (j - 1)] = b * p
    BY <1>0, <2>1, <2>2 DEF IsPowers
  <2>4. PICK h \in Nat : g[j - 1] = h * P[n - (j - 1)]
    BY <2>1, Multiples
  <2>5. g[j] = g[j - 1] + c[j] * p /\ c[j] \in 0 .. b - 1
    BY <2>2 DEF IsWord
  <2>6. PICK y, x : y = c[j] /\ x = h * b + y
    OBVIOUS
  <2>7. x \in Nat /\ g[j] = x * p
    <3>1. y \in Nat
      BY <2>5, <2>6
    <3>2. h * (b * p) + y * p = (h * b + y) * p /\ h * b + y \in Nat
      BY <2>3, <3>1
    <3> QED BY <2>3, <2>4, <2>5, <2>6, <3>2
  <2>8. g[j] \in Nat
    BY <2>3, <2>7
  <2>9. g[n] \in Nat /\ g[n] - g[j] >= 0 /\ g[n] - g[j] <= P[n - j] - P[n - n]
    BY <2>1, <2>8, PartsBelow
  <2>10. PICK r : r = g[n] - g[j]
    OBVIOUS
  <2>11. r \in 0 .. p - 1 /\ g[n] = x * p + r
    BY <1>0, <2>1, <2>2, <2>3, <2>7, <2>8, <2>9, <2>10
  <2>12. (x * p + r) \div p = x
    BY <2>3, <2>7, <2>11, DivExact
  <2>13. (h * b + y) % b = y
    BY <2>5, <2>6, ModExact
  <2> QED BY <2>2, <2>6, <2>11, <2>12, <2>13
<1> QED BY <1>1, <1>2

(* A number is determined by its digits.                                   *)
LEMMA DigitsDecide ==
    ASSUME NEW b \in Nat \ {0}, NEW n \in Nat, NEW P, IsPowers(P, b, n),
           NEW v \in 0 .. P[n] - 1, NEW w \in 0 .. P[n] - 1,
           \A j \in 1 .. n : (v \div P[n - j]) % b = (w \div P[n - j]) % b
    PROVE  v = w
<1> DEFINE S == {k \in Nat : k <= n => v \div P[n - k] = w \div P[n - k]}
<1>0. /\ \A i \in 0 .. n : P[n - i] \in Nat \ {0}
      /\ P[n] \in Nat \ {0} /\ P[n - n] = 1 /\ P[n - 0] = P[n]
  BY DEF IsPowers
<1>a. v \in Nat /\ w \in Nat
  BY <1>0
<1>1. 0 \in S
  <2>1. PICK p \in Nat \ {0} : p = P[n]
    BY <1>0
  <2>2. v \in 0 .. p - 1 /\ w \in 0 .. p - 1
    BY <2>1
  <2>3. v \div p = 0 /\ w \div p = 0
    BY <2>2
  <2> QED BY <1>0, <2>1, <2>3
<1>2. ASSUME NEW k \in Nat, k \in S PROVE k + 1 \in S
  <2> SUFFICES ASSUME k + 1 <= n PROVE v \div P[n - (k + 1)] = w \div P[n - (k + 1)]
    OBVIOUS
  <2>1. v \div P[n - k] = w \div P[n - k]
    BY <1>2
  <2>2. k + 1 \in 1 .. n /\ n - (k + 1) \in 0 .. n - 1 /\ (n - (k + 1)) + 1 = n - k
    OBVIOUS
  <2>3. PICK p : p = P[n - (k + 1)]
    OBVIOUS
  <2>4. p \in Nat \ {0} /\ P[n - k] = b * p
    BY <1>0, <2>2, <2>3 DEF IsPowers
  <2>5. (v \div p) % b = (w \div p) % b
    BY <2>2, <2>3
  <2>6. PICK x, y : x = v \div p /\ y = w \div p
    OBVIOUS
  <2>7. x \in Nat /\ y \in Nat /\ x \div b = y \div b
    <3>1. (v \div p) \div b = v \div (b * p) /\ (w \div p) \div b = w \div (b * p)
      BY ONLY <1>a, <2>4, b \in Nat \ {0}, DivTwice
    <3>2. v \div p \in Nat /\ w \div p \in Nat
      BY ONLY <1>a, <2>4, DivMod
    <3> QED BY <2>1, <2>4, <2>6, <3>1, <3>2, Zenon
  <2>8. x = ((x \div b) * b) + (x % b) /\ y = ((y \div b) * b) + (y % b)
    BY <2>7, DivMod
  <2> QED BY <2>3, <2>5, <2>6, <2>7, <2>8
<1> HIDE DEF S
<1>3. n \in S
  BY <1>1, <1>2, Induct
<1>4. v \div 1 = w \div 1
  BY <1>0, <1>3 DEF S
<1> QED BY <1>a, <1>4

(* The weights of the units of a word.                                     *)
Weights(n) == [j \in 0 .. n |-> 2^(MauBits * j)]

LEMMA WeightsArePowers ==
    ASSUME NEW n \in Sizes
    PROVE  n \in Nat \ {0} /\ IsPowers(Weights(n), 2^MauBits, n)
<1>1. n \in Nat \ {0} /\ MauBits \in Nat /\ 2^MauBits \in Nat \ {0}
  BY AccessAssumption, MauAssumption, PowersAssumption
<1>2. PICK b, W : b = 2^MauBits /\ W = Weights(n)
  OBVIOUS
<1>3. W[0] = 1
  <2>1. MauBits * 0 = 0
    BY <1>1
  <2>2. W[0] = 2^(MauBits * 0)
    BY <1>1, <1>2 DEF Weights
  <2>3. 2^0 = 1
    OBVIOUS
  <2> QED BY <2>1, <2>2, <2>3
<1>4. \A j \in 0 .. n - 1 : W[j + 1] = b * W[j]
  <2>1. \A j \in 0 .. n - 1 : j \in 0 .. n /\ j + 1 \in 0 .. n
    BY <1>1
  <2>2. \A j \in 0 .. n : W[j] = 2^(MauBits * j)
    BY <1>2 DEF Weights
  <2>3. \A j \in 0 .. n - 1 : 2^(MauBits * (j + 1)) = b * 2^(MauBits * j)
    BY <1>2, PowersAssumption
  <2> QED BY <2>1, <2>2, <2>3, Zenon
<1>5. \A j \in 0 .. n : W[j] \in Nat \ {0}
  <2> DEFINE S == {k \in Nat : k <= n => W[k] \in Nat \ {0}}
  <2>1. 0 \in S
    BY <1>3
  <2>2. ASSUME NEW k \in Nat, k \in S PROVE k + 1 \in S
    <3> SUFFICES ASSUME k + 1 <= n PROVE W[k + 1] \in Nat \ {0}
      OBVIOUS
    <3>1. k \in 0 .. n - 1 /\ W[k] \in Nat \ {0}
      BY <1>1, <2>2
    <3>2. W[k + 1] = b * W[k]
      BY <1>4, <3>1
    <3>3. \A x, y \in Nat \ {0} : x * y \in Nat \ {0}
      OBVIOUS
    <3> QED BY <1>1, <1>2, <3>1, <3>2, <3>3
  <2> HIDE DEF S
  <2>3. Nat \subseteq S
    BY <2>1, <2>2, Induct
  <2> QED BY <1>1, <2>3 DEF S
<1>6. W = [j \in 0 .. n |-> W[j]]
  BY <1>2 DEF Weights
<1> QED BY <1>1, <1>2, <1>3, <1>4, <1>5, <1>6 DEF IsPowers

(* The loop of Memory::read computes the word at the address.              *)
LEMMA ReadWord ==
    ASSUME NEW a \in Nat, NEW n \in Sizes,
           \A i \in 1 .. n : contents[a + i - 1] \in Mau
    PROVE  /\ Read(a, n) \in Nat
           /\ Read(a, n) = Promise!Word(contents, a, n)
<1>1. PICK W, b : W = Weights(n) /\ b = 2^MauBits
  OBVIOUS
<1>2. n \in Nat /\ b \in Nat \ {0} /\ IsPowers(W, b, n)
  BY <1>1, WeightsArePowers, PowersAssumption
<1>3. PICK c : c = [i \in 1 .. n |-> contents[a + i - 1]]
  OBVIOUS
<1>4. PICK t : t = [i \in 1 .. n |-> c[i] * W[n - i]]
  OBVIOUS
<1>5. PICK g : Sums(g, t, n) /\ Read(a, n) = g[n]
  <2> DEFINE Body(f) == [i \in 0 .. n |->
                IF i = 0 THEN 0
                ELSE f[i - 1] + contents[a + i - 1] * 2^(MauBits * (n - i))]
             d == CHOOSE f : f = Body(f)
  <2>1. Read(a, n) = d[n]
    BY DEF Read
  <2>2. \A f : Body(f) = [i \in 0 .. n |-> IF i = 0 THEN 0 ELSE f[i - 1] + t[i]]
    <3>1. \A i \in 0 .. n : i # 0 => i \in 1 .. n /\ n - i \in 0 .. n
      BY <1>2
    <3>2. \A i \in 0 .. n : W[i] = 2^(MauBits * i)
      BY <1>1 DEF Weights
    <3>3. \A i \in 1 .. n : t[i] = c[i] * W[n - i] /\ c[i] = contents[a + i - 1]
      BY <1>3, <1>4
    <3>4. \A i \in 1 .. n : t[i] = contents[a + i - 1] * 2^(MauBits * (n - i))
      BY <3>1, <3>2, <3>3, <1>2
    <3> QED BY <3>1, <3>4
  <2>3. PICK h : Sums(h, t, n)
    BY <1>2, SumsExist
  <2>4. h = Body(h)
    BY <2>2, <2>3 DEF Sums
  <2> HIDE DEF Body
  <2>5. d = Body(d)
    BY <2>4, Zenon
  <2>6. Sums(d, t, n)
    BY <2>2, <2>5 DEF Sums
  <2> QED BY <2>1, <2>6
<1>6. IsWord(g, c, W, b, n)
  <2>1. \A i \in 1 .. n : i \in 0 .. n /\ i # 0
    OBVIOUS
  <2>2. DOMAIN g = 0 .. n /\ \A i \in 0 .. n : g[i] = IF i = 0 THEN 0 ELSE g[i - 1] + t[i]
    BY <1>5 DEF Sums
  <2>3. g[0] = 0
    BY <1>2, <2>2
  <2>4. \A i \in 1 .. n : g[i] = g[i - 1] + c[i] * W[n - i]
    BY <1>4, <2>1, <2>2
  <2>5. \A i \in 1 .. n : c[i] \in 0 .. b - 1
    BY <1>1, <1>3 DEF Mau
  <2> QED BY <2>2, <2>3, <2>4, <2>5 DEF IsWord
<1>7. g[n] \in 0 .. W[n] - 1 /\ \A j \in 1 .. n : (g[n] \div W[n - j]) % b = c[j]
  BY <1>2, <1>6, WordDigits
<1>8. PICK X, Q : /\ X = 0 .. W[n] - 1
                  /\ Q = [v \in X |-> \A j \in 1 .. n : (v \div W[n - j]) % b = c[j]]
  OBVIOUS
<1>9. \A v \in X : Q[v] <=> v = g[n]
  <2> TAKE v \in X
  <2>1. ASSUME Q[v] PROVE v = g[n]
    <3>1. \A j \in 1 .. n : (v \div W[n - j]) % b = (g[n] \div W[n - j]) % b
      BY <1>7, <1>8, <2>1
    <3> QED BY <1>2, <1>7, <1>8, <3>1, DigitsDecide
  <2> QED BY <1>7, <1>8, <2>1
<1>10. ASSUME NEW v \in X
       PROVE  (\A i \in 0 .. n - 1 : Promise!Digit(v, n, i) = contents[a + i]) <=> Q[v]
  <2>1. \A i \in 0 .. n : W[i] = 2^(MauBits * i)
    BY <1>1 DEF Weights
  <2>2. \A i \in 0 .. n - 1 : Promise!Digit(v, n, i) = (v \div W[n - 1 - i]) % b
    <3>1. \A i \in 0 .. n - 1 : n - 1 - i \in 0 .. n
      BY <1>2
    <3> QED BY <1>1, <2>1, <3>1 DEF Promise!Digit
  <2>3. ASSUME NEW i \in 0 .. n - 1
        PROVE  Promise!Digit(v, n, i) = contents[a + i] <=> (v \div W[n - (i + 1)]) % b = c[i + 1]
    <3>1. i + 1 \in 1 .. n /\ n - 1 - i = n - (i + 1) /\ a + (i + 1) - 1 = a + i
      BY <1>2
    <3>2. c[i + 1] = contents[a + i]
      BY <1>3, <3>1
    <3> QED BY <2>2, <3>1, <3>2
  <2>4. ASSUME \A i \in 0 .. n - 1 : Promise!Digit(v, n, i) = contents[a + i],
               NEW j \in 1 .. n
        PROVE  (v \div W[n - j]) % b = c[j]
    <3>1. PICK i \in 0 .. n - 1 : j = i + 1
      BY <1>2
    <3> QED BY <2>3, <2>4, <3>1
  <2>5. ASSUME \A j \in 1 .. n : (v \div W[n - j]) % b = c[j], NEW i \in 0 .. n - 1
        PROVE  Promise!Digit(v, n, i) = contents[a + i]
    <3>1. i + 1 \in 1 .. n
      BY <1>2
    <3> QED BY <2>3, <2>5, <3>1
  <2>6. Q[v] <=> \A j \in 1 .. n : (v \div W[n - j]) % b = c[j]
    BY <1>8
  <2> QED BY <2>4, <2>5, <2>6
<1>11. Promise!Word(contents, a, n) = g[n]
  <2> DEFINE Fits(v) == \A i \in 0 .. n - 1 : Promise!Digit(v, n, i) = contents[a + i]
             w == CHOOSE v \in X : Fits(v)
  <2>1. X = 0 .. 2^(MauBits * n) - 1
    BY <1>1, <1>2, <1>8 DEF Weights
  <2>2. Promise!Word(contents, a, n) = w
    BY <2>1 DEF Promise!Word
  <2>3. \A v \in X : Fits(v) <=> v = g[n]
    BY <1>9, <1>10
  <2>4. g[n] \in X
    BY <1>7, <1>8
  <2> HIDE DEF Fits
  <2>5. w \in X /\ Fits(w)
    BY <2>3, <2>4, Zenon
  <2> QED BY <2>2, <2>3, <2>5
<1>12. g[n] \in Nat
  BY <1>2, <1>7 DEF IsPowers
<1> QED BY <1>5, <1>11, <1>12

-----------------------------------------------------------------------------
(* The commit of the queue                                                 *)

(* A non-empty set of indices has a last one.                              *)
LEMMA LastExists ==
    ASSUME NEW n \in Nat, NEW T \in SUBSET (1 .. n), T # {}
    PROVE  \E i \in T : \A j \in T : j <= i
<1> DEFINE S == {k \in Nat : (\E i \in T : i >= n - k) => \E i \in T : \A j \in T : j <= i}
<1>1. 0 \in S
  OBVIOUS
<1>2. ASSUME NEW k \in Nat, k \in S PROVE k + 1 \in S
  <2> SUFFICES ASSUME NEW i \in T, i >= n - (k + 1) PROVE \E l \in T : \A j \in T : j <= l
    OBVIOUS
  <2>1. CASE \E l \in T : l >= n - k
    BY <1>2, <2>1
  <2>2. CASE \A l \in T : ~ (l >= n - k)
    <3>1. \A l \in T : l \in Nat /\ l <= i
      BY <2>2
    <3> QED BY <3>1
  <2> QED BY <2>1, <2>2
<1> HIDE DEF S
<1>3. n \in S
  BY <1>1, <1>2, Induct
<1>4. \E i \in T : i >= n - n
  <2>1. PICK i \in T : TRUE
    OBVIOUS
  <2>2. i \in 1 .. n
    OBVIOUS
  <2> QED BY <2>2
<1> QED BY <1>3, <1>4 DEF S

(* The requests of q that write address x                                  *)
Writers(q, x) == {i \in DOMAIN q : x - q[i].address + 1 \in DOMAIN q[i].data}

(* What is committed at an address is the unit of the last request for it. *)
LEMMA CommittedAt ==
    ASSUME NEW q \in Seq(Requests), NEW c, NEW x \in Space
    PROVE  /\ Writers(q, x) = {} => Committed(q, c)[x] = c[x]
           /\ \A i \in Writers(q, x) : (\A j \in Writers(q, x) : j <= i) =>
                 Committed(q, c)[x] = q[i].data[x - q[i].address + 1]
           /\ Writers(q, x) # {} => \E i \in Writers(q, x) : \A j \in Writers(q, x) : j <= i
<1>1. PICK T : T = Writers(q, x)
  OBVIOUS
<1>2. Len(q) \in Nat /\ DOMAIN q = 1 .. Len(q)
  OBVIOUS
<1>3. T \in SUBSET (1 .. Len(q))
  BY <1>1, <1>2 DEF Writers
<1>4. PICK l : l = CHOOSE i \in T : \A j \in T : j <= i
  OBVIOUS
<1>5. Committed(q, c)[x] = IF T = {} THEN c[x] ELSE q[l].data[x - q[l].address + 1]
  BY <1>1, <1>4 DEF Committed, Writers
<1>6. T # {} => \E i \in T : \A j \in T : j <= i
  BY <1>2, <1>3, LastExists
<1>7. ASSUME NEW i \in T, \A j \in T : j <= i PROVE l = i
  <2>1. l \in T /\ \A j \in T : j <= l
    BY <1>4, <1>7, Zenon
  <2>2. l <= i /\ i <= l /\ l \in Nat /\ i \in Nat
    BY <1>3, <1>7, <2>1
  <2> QED BY <2>2
<1> QED BY <1>1, <1>5, <1>6, <1>7

(* Every unit of a request is one of the memory's width.                   *)
LEMMA RequestUnits ==
    ASSUME NEW r \in Requests
    PROVE  /\ r.address \in Nat
           /\ \A i \in DOMAIN r.data : r.data[i] \in Mau
<1>1. PICK a \in Addresses, n \in Sizes, v \in Values : r = Request(a, n, v)
  BY DEF Requests
<1>2. r.address = a /\ r.data = Unpack(v, n)
  BY <1>1 DEF Request
<1>3. a \in Nat
  BY AccessAssumption, AddressAssumption
<1>4. PICK b : b = 2^MauBits
  OBVIOUS
<1>5. b \in Nat \ {0}
  BY <1>4, PowersAssumption
<1>6. n \in Nat \ {0} /\ v \in Nat /\ IsPowers(Weights(n), b, n)
  BY <1>4, WeightsArePowers, AccessAssumption
<1>7. ASSUME NEW i \in 1 .. n PROVE Unpack(v, n)[i] \in 0 .. b - 1
  <2>1. PICK p : p = 2^(MauBits * (n - i))
    OBVIOUS
  <2>2. p \in Nat \ {0}
    <3>1. n - i \in 0 .. n
      BY <1>6
    <3>2. Weights(n)[n - i] = p
      BY <2>1, <3>1 DEF Weights
    <3>3. \A j \in 0 .. n : Weights(n)[j] \in Nat \ {0}
      BY <1>6 DEF IsPowers
    <3> QED BY <3>1, <3>2, <3>3
  <2>3. v \div p \in Nat
    BY <1>6, <2>2, DivMod
  <2>4. (v \div p) % b \in 0 .. b - 1
    BY <1>5, <2>3, DivMod
  <2> QED BY <1>4, <2>1, <2>4 DEF Unpack
<1>8. DOMAIN Unpack(v, n) = 1 .. n
  BY DEF Unpack
<1> QED BY <1>2, <1>3, <1>4, <1>7, <1>8 DEF Mau

(* A commit leaves units of the memory's width in the memory.              *)
LEMMA CommittedType ==
    ASSUME NEW q \in Seq(Requests), NEW c \in [Space -> Mau]
    PROVE  Committed(q, c) \in [Space -> Mau]
<1>1. ASSUME NEW x \in Space PROVE Committed(q, c)[x] \in Mau
  <2>1. CASE Writers(q, x) = {}
    BY <2>1, CommittedAt
  <2>2. CASE Writers(q, x) # {}
    <3>1. PICK i \in Writers(q, x) : \A j \in Writers(q, x) : j <= i
      BY <2>2, CommittedAt
    <3>2. Committed(q, c)[x] = q[i].data[x - q[i].address + 1]
      BY <3>1, CommittedAt
    <3>3. q[i] \in Requests /\ x - q[i].address + 1 \in DOMAIN q[i].data
      BY DEF Writers
    <3> QED BY <3>2, <3>3, RequestUnits
  <2> QED BY <2>1, <2>2
<1>2. Committed(q, c) = [x \in Space |-> Committed(q, c)[x]]
  BY DEF Committed
<1> QED BY <1>1, <1>2

LEMMA CommitNothing ==
    ASSUME NEW c \in [Space -> Mau]
    PROVE  Committed(<<>>, c) = c
<1>1. <<>> \in Seq(Requests) /\ \A x \in Space : Writers(<<>>, x) = {}
  BY DEF Writers
<1>2. \A x \in Space : Committed(<<>>, c)[x] = c[x]
  BY <1>1, CommittedAt
<1>3. Committed(<<>>, c) \in [Space -> Mau]
  BY <1>1, CommittedType
<1> QED BY <1>2, <1>3

-----------------------------------------------------------------------------
(* Type correctness                                                        *)

(* No access is so large that end - size + 1 wraps around in checkRange.   *)
NoWrap == \A n \in Sizes : n - 1 <= End

(* A load or a store that is carried out lies in the address space.        *)
LEMMA LegalInside ==
    ASSUME NoWrap, NEW op \in Access, op.kind # "none", Legal(op)
    PROVE  /\ op.address \in Addresses /\ op.size \in Sizes
           /\ op.address \in Nat /\ op.size \in Nat \ {0}
           /\ \A i \in 1 .. op.size : op.address + i - 1 \in Space
           /\ Promise!Inside(op)
<1>1. PICK a, n : a = op.address /\ n = op.size
  OBVIOUS
<1>2. a \in Addresses /\ n \in Sizes
  BY <1>1 DEF Access, NoAccess
<1>3. a \in Nat /\ n \in Nat \ {0} /\ n - 1 <= End
  BY <1>2, AccessAssumption, AddressAssumption DEF NoWrap
<1>4. InRange(a, n)
  BY <1>1 DEF Legal
<1>5. a \in Space /\ a + n - 1 \in Space
  BY <1>3, <1>4, RangeCheckExact
<1>6. \A x \in a .. a + n - 1 : x \in Space
  BY <1>3, <1>5, SpaceAssumption DEF Space
<1>7. \A i \in 1 .. n : a + i - 1 \in Space
  BY <1>3, <1>6
<1> QED BY <1>1, <1>2, <1>3, <1>6, <1>7 DEF Promise!Inside

(* What the loads of a unit return is a number.                            *)
LEMMA TriggerType ==
    ASSUME NoWrap, contents \in [Space -> Mau], result \in [Units -> Nat],
           NEW u \in Units, ops[u] \in Access, Legal(ops[u]), Trigger(u)
    PROVE  result' \in [Units -> Nat]
<1>1. CASE UNCHANGED result
  BY <1>1
<1>2. CASE /\ ops[u].kind = "load"
           /\ result' = [result EXCEPT ![u] = Read(ops[u].address, ops[u].size)]
  <2>1. PICK a, n : a = ops[u].address /\ n = ops[u].size
    OBVIOUS
  <2>2. a \in Nat /\ n \in Sizes /\ \A i \in 1 .. n : a + i - 1 \in Space
    BY <1>2, <2>1, LegalInside
  <2>3. \A i \in 1 .. n : contents[a + i - 1] \in Mau
    BY <2>2
  <2>4. Read(a, n) \in Nat
    BY <2>2, <2>3, ReadWord
  <2> QED BY <1>2, <2>1, <2>4
<1> QED BY <1>1, <1>2, Zenon DEF Trigger

LEMMA TypeInit == Init => TypeOK
<1> SUFFICES ASSUME Init PROVE TypeOK
  OBVIOUS
<1>1. 0 \in Mau
  <2>1. PICK b : b = 2^MauBits
    OBVIOUS
  <2> QED BY <2>1, PowersAssumption DEF Mau
<1>2. Zero \in [Space -> Mau] /\ NoResults \in [Units -> Nat] /\ NoAccesses \in [Units -> Access]
  BY <1>1 DEF Zero, NoResults, NoAccesses, Access
<1>3. queue \in Seq(Requests)
  BY InsideInit DEF InsideInv
<1>4. unit \in 1 .. NumUnits + 1
  BY UnitsAssumption DEF Init
<1>5. replay \in BOOLEAN
  BY Zenon DEF Init
<1>6. /\ multi \in MultiChoices /\ contents \in [Space -> Mau] /\ phase = "issue"
      /\ ops \in [Units -> Access] /\ result \in [Units -> Nat] /\ earlier \in [Space -> Mau]
  BY <1>2, Zenon DEF Init
<1> QED BY <1>3, <1>4, <1>5, <1>6 DEF TypeOK

LEMMA TypeStep == NoWrap /\ TypeOK /\ InsideInv /\ InsideInv' /\ [Next]_vars => TypeOK'
<1> SUFFICES ASSUME NoWrap, TypeOK, InsideInv, InsideInv', [Next]_vars PROVE TypeOK'
  OBVIOUS
<1>1. queue \in Seq(Requests) /\ queue' \in Seq(Requests)
  BY DEF InsideInv
<1>2. 0 \in Mau
  <2>1. PICK b : b = 2^MauBits
    OBVIOUS
  <2> QED BY <2>1, PowersAssumption DEF Mau
<1>3. Zero \in [Space -> Mau] /\ NoResults \in [Units -> Nat] /\ NoAccesses \in [Units -> Access]
  BY <1>2 DEF Zero, NoResults, NoAccesses, Access
<1>4. Committed(queue, contents) \in [Space -> Mau]
  BY <1>1, CommittedType DEF TypeOK
<1>5. 1 \in 1 .. NumUnits + 1 /\ \A u \in Units : u + 1 \in 1 .. NumUnits + 1
  BY UnitsAssumption DEF Units
<1>6. ASSUME NEW o \in [Units -> Access], Issue(o) PROVE TypeOK'
  BY <1>1, <1>5, <1>6 DEF Issue, TypeOK
<1>7. CASE Replay
  BY <1>1, <1>5, <1>7 DEF Replay, TypeOK
<1>8. CASE EndClockThrows
  BY <1>1, <1>5, <1>8 DEF EndClockThrows, TypeOK
<1>9. CASE EndClock \/ AdvanceClock
  <2>1. /\ unit \in Units /\ unit' = unit + 1
        /\ UNCHANGED <<multi, contents, phase, ops, replay, earlier>>
    BY <1>9 DEF EndClock, AdvanceClock
  <2>2. result' \in [Units -> Nat]
    <3>1. UNCHANGED result => result' \in [Units -> Nat]
      BY DEF TypeOK
    <3>2. ops[unit] \in Access
      BY <2>1 DEF TypeOK
    <3>3. Legal(ops[unit]) /\ Trigger(unit) => result' \in [Units -> Nat]
      BY <2>1, <3>2, TriggerType DEF TypeOK
    <3>4. CASE EndClock
      BY <3>1, <3>3, <3>4 DEF EndClock
    <3>5. CASE AdvanceClock
      <4>1. phase # "issue"
        BY <3>5 DEF AdvanceClock
      <4>2. \A u \in multi : Legal(ops[u])
        BY <4>1, InsideParts, Zenon DEF AdvanceLegal
      <4> QED BY <3>1, <3>3, <3>5, <4>2, Zenon DEF AdvanceClock
    <3> QED BY <1>9, <3>4, <3>5
  <2> QED BY <1>1, <1>5, <2>1, <2>2 DEF TypeOK
<1>10. CASE AdvanceMemory
  BY <1>1, <1>4, <1>5, <1>10 DEF AdvanceMemory, TypeOK
<1>11. CASE CycleEnd
  BY <1>1, <1>3, <1>4, <1>5, <1>11 DEF CycleEnd, TypeOK
<1>12. CASE KillSimulation
  BY <1>1, <1>3, <1>12 DEF KillSimulation, TypeOK
<1>13. CASE UNCHANGED vars
  BY <1>13 DEF vars, TypeOK
<1> QED BY <1>6, <1>7, <1>8, <1>9, <1>10, <1>11, <1>12, <1>13 DEF Next

(* The memory holds units of its width, the queue requests of the program  *)
(* and the loads return numbers, provided no access is larger than the end *)
(* address.                                                                *)
THEOREM MemoryTypes == ASSUME NoWrap PROVE Spec => []TypeOK
  BY TypeInit, TypeStep, QueueChecked, PTL DEF Spec

-----------------------------------------------------------------------------
(* The memory implements the synchronous memory of SynchronousMemory       *)

StoreOf(o, u) == Request(o[u].address, o[u].size, o[u].value)
IsStore(o, u) == o[u].kind = "store"

(* The queue holds stores of the instruction only, and after what earlier  *)
(* attempts at it have left there come those of the units before m, in the *)
(* order of the units.                                                     *)
Queued(q, o, m) ==
    /\ \A i \in 1 .. Len(q) : \E u \in Units : IsStore(o, u) /\ q[i] = StoreOf(o, u)
    /\ \A u \in Units : u < m /\ IsStore(o, u) =>
          \E i \in 1 .. Len(q) :
              /\ q[i] = StoreOf(o, u)
              /\ \A j \in 1 .. Len(q) : j > i =>
                    \E w \in Units : u < w /\ IsStore(o, w) /\ q[j] = StoreOf(o, w)

(* The accesses of the units before m were legal, and their loads have     *)
(* returned the words of memory mem.                                       *)
Done(mem, o, res, m) ==
    \A u \in Units : u < m =>
        /\ Legal(o[u])
        /\ o[u].kind = "load" => res[u] = Promise!Word(mem, o[u].address, o[u].size)

LEMMA QueuedEmpty ==
    ASSUME NEW o PROVE Queued(<<>>, o, 1)
  BY UnitsAssumption DEF Queued, Units

LEMMA QueuedRestart ==
    ASSUME NEW q, NEW o, NEW m, Queued(q, o, m) PROVE Queued(q, o, 1)
<1>1. \A u \in Units : ~ (u < 1)
  BY UnitsAssumption DEF Units
<1> QED BY <1>1 DEF Queued

LEMMA QueuedSkip ==
    ASSUME NEW q, NEW o, NEW m \in Units, Queued(q, o, m), ~ IsStore(o, m)
    PROVE  Queued(q, o, m + 1)
<1>1. \A u \in Units : u < m + 1 => u < m \/ u = m
  BY UnitsAssumption DEF Units
<1> QED BY <1>1 DEF Queued

LEMMA QueuedAppend ==
    ASSUME NEW q \in Seq(Requests), NEW o \in [Units -> Access], NEW m \in Units,
           Queued(q, o, m), IsStore(o, m)
    PROVE  Queued(Append(q, StoreOf(o, m)), o, m + 1)
<1>1. PICK r, p, n : r = StoreOf(o, m) /\ p = Append(q, r) /\ n = Len(q)
  OBVIOUS
<1>2. r \in Requests
  BY <1>1 DEF StoreOf, IsStore, Requests, Access, NoAccess
<1>3. /\ n \in Nat /\ Len(p) = n + 1 /\ p[n + 1] = r
      /\ \A i \in 1 .. n : p[i] = q[i]
  BY <1>1, <1>2
<1>4. \A i \in 1 .. n + 1 : i \in 1 .. n \/ i = n + 1
  BY <1>3
<1>5. ASSUME NEW i \in 1 .. n + 1
      PROVE  \E u \in Units : IsStore(o, u) /\ p[i] = StoreOf(o, u)
  BY <1>1, <1>3, <1>4 DEF Queued
<1>6. ASSUME NEW u \in Units, u < m + 1, IsStore(o, u)
      PROVE  \E i \in 1 .. n + 1 :
                 /\ p[i] = StoreOf(o, u)
                 /\ \A j \in 1 .. n + 1 : j > i =>
                       \E w \in Units : u < w /\ IsStore(o, w) /\ p[j] = StoreOf(o, w)
  <2>1. u = m \/ u < m
    BY <1>6, UnitsAssumption DEF Units
  <2>2. CASE u = m
    <3>1. \A j \in 1 .. n + 1 : ~ (j > n + 1)
      BY <1>3
    <3>2. n + 1 \in 1 .. n + 1
      BY <1>3
    <3> QED BY <1>1, <1>3, <2>2, <3>1, <3>2
  <2>3. CASE u < m
    <3>1. PICK i \in 1 .. n :
             /\ q[i] = StoreOf(o, u)
             /\ \A j \in 1 .. n : j > i =>
                    \E w \in Units : u < w /\ IsStore(o, w) /\ q[j] = StoreOf(o, w)
      BY <1>1, <1>6, <2>3 DEF Queued
    <3>2. ASSUME NEW j \in 1 .. n + 1, j > i
          PROVE  \E w \in Units : u < w /\ IsStore(o, w) /\ p[j] = StoreOf(o, w)
      BY <1>1, <1>3, <1>4, <2>3, <3>1, <3>2
    <3>3. i \in 1 .. n + 1 /\ p[i] = StoreOf(o, u)
      BY <1>3, <3>1
    <3> QED BY <3>2, <3>3
  <2> QED BY <2>1, <2>2, <2>3
<1>7. Queued(p, o, m + 1)
  BY <1>3, <1>5, <1>6 DEF Queued
<1> QED BY <1>1, <1>7

(* A request writes what the store covers, the digits of its value.        *)
LEMMA StoreWrites ==
    ASSUME NEW o \in [Units -> Access], NEW u \in Units, IsStore(o, u), NEW x \in Space
    PROVE  /\ x - StoreOf(o, u).address + 1 \in DOMAIN StoreOf(o, u).data
                 <=> Promise!Covers(o[u], x)
           /\ Promise!Covers(o[u], x) =>
                 StoreOf(o, u).data[x - StoreOf(o, u).address + 1]
                     = Promise!Digit(o[u].value, o[u].size, x - o[u].address)
<1>1. PICK a, n, v, r : a = o[u].address /\ n = o[u].size /\ v = o[u].value /\ r = StoreOf(o, u)
  OBVIOUS
<1>2. a \in Nat /\ n \in Nat \ {0} /\ x \in Nat
  <2>1. a \in Addresses /\ n \in Sizes
    BY <1>1 DEF IsStore, Access, NoAccess
  <2> QED BY <2>1, AccessAssumption, AddressAssumption, SpaceAssumption DEF Space
<1>3. r.address = a /\ r.data = Unpack(v, n)
  BY <1>1 DEF StoreOf, Request
<1>4. DOMAIN Unpack(v, n) = 1 .. n
  BY DEF Unpack
<1>5. Promise!Covers(o[u], x) <=> x \in a .. a + n - 1
  BY <1>1 DEF IsStore, Promise!Covers
<1>6. x - a + 1 \in 1 .. n <=> x \in a .. a + n - 1
  BY <1>2
<1>7. ASSUME x - a + 1 \in 1 .. n
      PROVE  Unpack(v, n)[x - a + 1] = Promise!Digit(v, n, x - a)
  <2>1. n - (x - a + 1) = n - 1 - (x - a)
    BY <1>2
  <2>2. Unpack(v, n)[x - a + 1] = (v \div 2^(MauBits * (n - (x - a + 1)))) % 2^MauBits
    BY <1>7 DEF Unpack
  <2> QED BY <2>1, <2>2, Zenon DEF Promise!Digit
<1> QED BY <1>1, <1>3, <1>4, <1>5, <1>6, <1>7

(* Committing the stores of all units is storing them together.            *)
LEMMA CommitIsStored ==
    ASSUME NEW q \in Seq(Requests), NEW o \in [Units -> Access],
           NEW c \in [Space -> Mau], Queued(q, o, NumUnits + 1)
    PROVE  Committed(q, c) = Promise!Stored(c, o)
<1>0. Promise!Units = Units /\ Units \subseteq Nat /\ \A u \in Units : u < NumUnits + 1
  BY UnitsAssumption DEF Units, Promise!Units
<1>1. ASSUME NEW x \in Space PROVE Committed(q, c)[x] = Promise!Stored(c, o)[x]
  <2>1. PICK T, l : /\ T = {u \in Units : Promise!Covers(o[u], x)}
                    /\ l = CHOOSE u \in T : \A w \in T : w <= u
    OBVIOUS
  <2>2. Promise!Stored(c, o)[x] =
          IF T = {} THEN c[x] ELSE Promise!Digit(o[l].value, o[l].size, x - o[l].address)
    BY <1>0, <2>1 DEF Promise!Stored
  <2>3. \A u \in T : IsStore(o, u)
    BY <2>1 DEF Promise!Covers, IsStore
  <2>4. \A i \in 1 .. Len(q), u \in Units :
           IsStore(o, u) /\ q[i] = StoreOf(o, u) => (i \in Writers(q, x) <=> u \in T)
    BY <2>1, StoreWrites DEF Writers
  <2>5. \A i \in Writers(q, x) : i \in 1 .. Len(q)
    BY DEF Writers
  <2>6. CASE T = {}
    <3>1. Writers(q, x) = {}
      BY <2>4, <2>5, <2>6 DEF Queued
    <3> QED BY <2>2, <2>6, <3>1, CommittedAt
  <2>7. CASE T # {}
    <3>1. T \in SUBSET (1 .. NumUnits) /\ NumUnits \in Nat
      BY <2>1, UnitsAssumption DEF Units
    <3>2. l \in T /\ \A w \in T : w <= l
      <4>1. \E u \in T : \A w \in T : w <= u
        BY <2>7, <3>1, LastExists
      <4> QED BY <2>1, <4>1, Zenon
    <3>3. l \in Units /\ IsStore(o, l) /\ Promise!Covers(o[l], x)
      BY <2>1, <2>3, <3>2
    <3>4. PICK i \in 1 .. Len(q) :
             /\ q[i] = StoreOf(o, l)
             /\ \A j \in 1 .. Len(q) : j > i =>
                    \E w \in Units : l < w /\ IsStore(o, w) /\ q[j] = StoreOf(o, w)
      BY <1>0, <3>3 DEF Queued
    <3>5. i \in Writers(q, x)
      BY <2>4, <3>2, <3>3, <3>4
    <3>6. ASSUME NEW j \in Writers(q, x) PROVE j <= i
      <4>1. SUFFICES ASSUME j > i PROVE FALSE
        BY <2>5
      <4>2. PICK w \in Units : l < w /\ IsStore(o, w) /\ q[j] = StoreOf(o, w)
        BY <2>5, <3>4, <4>1
      <4>3. w \in T
        BY <2>4, <2>5, <4>2
      <4> QED BY <1>0, <3>2, <3>3, <4>2, <4>3
    <3>7. Committed(q, c)[x] = q[i].data[x - q[i].address + 1]
      BY <3>5, <3>6, CommittedAt
    <3>8. StoreOf(o, l).data[x - StoreOf(o, l).address + 1]
            = Promise!Digit(o[l].value, o[l].size, x - o[l].address)
      BY <3>3, StoreWrites
    <3> QED BY <2>2, <2>7, <3>4, <3>7, <3>8
  <2> QED BY <2>6, <2>7
<1>2. /\ Committed(q, c) = [x \in Space |-> Committed(q, c)[x]]
      /\ Promise!Stored(c, o) = [x \in Space |-> Promise!Stored(c, o)[x]]
  BY DEF Committed, Promise!Stored
<1> QED BY <1>1, <1>2

(* All units access the memory in the same half of the cycle.              *)
OneKind == MultiChoices \subseteq {{}, Units}

(* Units that access the memory in endClock: between attempts the queue    *)
(* holds nothing but stores of the instruction that failed.                *)
FastInv ==
    /\ phase # "advance" => contents = earlier
    /\ phase = "issue" /\ ~ replay => queue = <<>>
    /\ phase = "issue" /\ replay => Queued(queue, ops, 1)
    /\ phase = "end" => Queued(queue, ops, unit) /\ Done(earlier, ops, result, unit)
    /\ phase = "advance" => /\ queue = <<>>
                            /\ contents = Promise!Stored(earlier, ops)
                            /\ Done(earlier, ops, result, NumUnits + 1)

(* Units that access it in advanceClock: the stores of a cycle wait in the *)
(* queue until the next one.                                               *)
DetailedInv ==
    /\ phase # "advance" => earlier = Committed(queue, contents)
    /\ phase = "advance" => /\ contents = earlier
                            /\ Queued(queue, ops, unit)
                            /\ Done(earlier, ops, result, unit)

CycleInv ==
    /\ phase # "issue" => ~ replay
    /\ multi = {} => FastInv
    /\ multi # {} => DetailedInv /\ multi = Units

(* A unit's access: a store is queued behind the earlier ones, and a load  *)
(* returns the word of the memory.                                         *)
LEMMA AccessStep ==
    ASSUME NoWrap, TypeOK, unit \in Units, contents = earlier,
           Queued(queue, ops, unit), Done(earlier, ops, result, unit),
           Legal(ops[unit]), Trigger(unit)
    PROVE  /\ Queued(queue', ops, unit + 1)
           /\ Done(earlier, ops, result', unit + 1)
           /\ \/ result' = result
              \/ /\ ops[unit].kind = "load" /\ Promise!Inside(ops[unit])
                 /\ result' = [result EXCEPT ![unit] =
                                Promise!Word(earlier, ops[unit].address, ops[unit].size)]
<1>1. PICK u, op, w : /\ u = unit /\ op = ops[u]
                      /\ w = Promise!Word(earlier, op.address, op.size)
  OBVIOUS
<1>2. /\ u \in Units /\ op \in Access /\ queue \in Seq(Requests) /\ result \in [Units -> Nat]
      /\ ops \in [Units -> Access]
      /\ \A x \in Units : x < u + 1 => x < u \/ x = u
      /\ \A x \in Units : x < u => x # u
  BY <1>1, UnitsAssumption DEF TypeOK, Units
<1>3. CASE op.kind = "none" /\ UNCHANGED <<queue, result>>
  <2>1. Queued(queue', ops, u + 1)
    BY <1>1, <1>2, <1>3, QueuedSkip DEF IsStore
  <2>2. Done(earlier, ops, result', u + 1)
    BY <1>1, <1>2, <1>3 DEF Done
  <2> QED BY <1>1, <1>3, <2>1, <2>2
<1>4. CASE op.kind = "store" /\ queue' = Append(queue, StoreOf(ops, u)) /\ UNCHANGED result
  <2>1. Queued(queue', ops, u + 1)
    BY <1>1, <1>2, <1>4, QueuedAppend DEF IsStore
  <2>2. Done(earlier, ops, result', u + 1)
    BY <1>1, <1>2, <1>4 DEF Done
  <2> QED BY <1>1, <1>4, <2>1, <2>2
<1>5. CASE /\ op.kind = "load" /\ UNCHANGED queue
           /\ result' = [result EXCEPT ![u] = Read(op.address, op.size)]
  <2>1. /\ op.address \in Nat /\ op.size \in Sizes /\ Promise!Inside(op)
        /\ \A i \in 1 .. op.size : op.address + i - 1 \in Space
    BY <1>1, <1>2, <1>5, LegalInside
  <2>2. \A i \in 1 .. op.size : contents[op.address + i - 1] \in Mau
    BY <2>1 DEF TypeOK
  <2>3. Read(op.address, op.size) = w
    <3>1. Read(op.address, op.size) = Promise!Word(contents, op.address, op.size)
      BY <2>1, <2>2, ReadWord
    <3> QED BY <1>1, <3>1
  <2>4. result' = [result EXCEPT ![u] = w]
    BY <1>5, <2>3
  <2>5. result'[u] = w /\ \A x \in Units : x # u => result'[x] = result[x]
    BY <1>2, <2>4
  <2>6. Queued(queue', ops, u + 1)
    BY <1>1, <1>2, <1>5, QueuedSkip DEF IsStore
  <2>7. Done(earlier, ops, result', u + 1)
    BY <1>1, <1>2, <2>5 DEF Done
  <2> QED BY <1>1, <1>5, <2>1, <2>4, <2>6, <2>7
<1>6. Trigger(u) /\ op = ops[u]
  BY <1>1
<1> QED BY <1>3, <1>4, <1>5, <1>6, Zenon DEF Trigger, StoreOf

(* Initially memory and promise agree on zeros.                            *)
LEMMA PromiseInit == OneKind /\ Init => CycleInv /\ Promise!Init
<1> SUFFICES ASSUME OneKind, Init PROVE CycleInv /\ Promise!Init
  OBVIOUS
<1>1. /\ phase = "issue" /\ replay = FALSE /\ queue = <<>> /\ contents = earlier
      /\ earlier = Zero /\ contents = Zero
      /\ multi \in {{}, Units}
  BY DEF Init, OneKind
<1>2. 0 \in Mau
  <2>1. PICK b : b = 2^MauBits
    OBVIOUS
  <2> QED BY <2>1, PowersAssumption DEF Mau
<1>3. contents \in [Space -> Mau]
  BY <1>1, <1>2 DEF Zero
<1>4. earlier = Committed(queue, contents)
  BY <1>1, <1>3, CommitNothing
<1>5. CycleInv
  BY <1>1, <1>4 DEF CycleInv, FastInv, DetailedInv
<1>6. (phase # "issue" \/ replay) = FALSE
  BY <1>1
<1>7. earlier \in [Space -> {0}]
  BY <1>1 DEF Zero
<1> QED BY <1>5, <1>6, <1>7 DEF Promise!Init

(* A step of the synchronous memory, or a stutter.                         *)
PromiseStep ==
    \/ Promise!Begin
    \/ \E u \in Promise!Units : Promise!Load(u)
    \/ Promise!EndCycle
    \/ Promise!Restart
    \/ UNCHANGED Promise!vars

(* A step that only moves the work of a cycle along is a stutter.          *)
LEMMA Stutters ==
    ASSUME UNCHANGED <<earlier, ops, result>>,
           phase # "issue" \/ replay, phase' # "issue" \/ replay'
    PROVE  PromiseStep
  BY DEF PromiseStep, Promise!vars

LEMMA IssueStep ==
    ASSUME CycleInv, NEW o \in [Units -> Access], Issue(o)
    PROVE  CycleInv' /\ PromiseStep
<1>1. /\ phase = "issue" /\ phase' = "end" /\ ~ replay /\ ops' = o /\ unit' = 1
      /\ UNCHANGED <<multi, contents, queue, replay, result, earlier>>
  BY DEF Issue
<1>2. \A u \in Units : ~ (u < 1)
  BY UnitsAssumption DEF Units
<1>3. ~ replay'
  BY <1>1
<1>4. CASE multi = {}
  <2>1. queue' = <<>> /\ contents' = earlier'
    BY <1>1, <1>4 DEF CycleInv, FastInv
  <2>2. Queued(queue', ops', unit')
    BY <1>1, <2>1, QueuedEmpty
  <2>3. Done(earlier', ops', result', unit')
    BY <1>1, <1>2 DEF Done
  <2> QED BY <1>1, <1>3, <1>4, <2>1, <2>2, <2>3
          DEF CycleInv, FastInv, PromiseStep, Promise!Begin
<1>5. CASE multi # {}
  <2>1. earlier' = Committed(queue', contents')
    BY <1>1, <1>5 DEF CycleInv, DetailedInv
  <2> QED BY <1>1, <1>3, <1>5, <2>1 DEF CycleInv, DetailedInv, PromiseStep, Promise!Begin
<1> QED BY <1>4, <1>5

LEMMA ReplayStep ==
    ASSUME CycleInv, Replay
    PROVE  CycleInv' /\ PromiseStep
<1>1. /\ phase = "issue" /\ phase' = "end" /\ replay /\ ~ replay' /\ unit' = 1
      /\ UNCHANGED <<multi, contents, queue, ops, result, earlier>>
  BY DEF Replay
<1>2. \A u \in Units : ~ (u < 1)
  BY UnitsAssumption DEF Units
<1>3. PromiseStep
  BY <1>1, Stutters
<1>4. CASE multi = {}
  <2>1. Queued(queue', ops', unit') /\ contents' = earlier'
    BY <1>1, <1>4 DEF CycleInv, FastInv
  <2>2. Done(earlier', ops', result', unit')
    BY <1>1, <1>2 DEF Done
  <2> QED BY <1>1, <1>3, <1>4, <2>1, <2>2 DEF CycleInv, FastInv
<1>5. CASE multi # {}
  BY <1>1, <1>3, <1>5 DEF CycleInv, DetailedInv
<1> QED BY <1>4, <1>5

LEMMA ThrowStep ==
    ASSUME CycleInv, EndClockThrows
    PROVE  CycleInv' /\ PromiseStep
<1>1. /\ phase = "end" /\ phase' = "issue" /\ replay' /\ unit' = 1
      /\ UNCHANGED <<multi, contents, queue, ops, result, earlier>>
  BY DEF EndClockThrows
<1>2. PromiseStep
  BY <1>1, Stutters
<1>3. CASE multi = {}
  <2>1. Queued(queue', ops', 1) /\ contents' = earlier'
    BY <1>1, <1>3, QueuedRestart DEF CycleInv, FastInv
  <2> QED BY <1>1, <1>2, <1>3, <2>1 DEF CycleInv, FastInv
<1>4. CASE multi # {}
  BY <1>1, <1>2, <1>4 DEF CycleInv, DetailedInv
<1> QED BY <1>3, <1>4

(* The access of a unit is a load of the synchronous memory or a stutter.  *)
LEMMA AccessPromise ==
    ASSUME unit \in Units, phase # "issue", UNCHANGED <<earlier, ops, phase, replay>>,
           \/ result' = result
           \/ /\ ops[unit].kind = "load" /\ Promise!Inside(ops[unit])
              /\ result' = [result EXCEPT ![unit] =
                             Promise!Word(earlier, ops[unit].address, ops[unit].size)]
    PROVE  PromiseStep
<1>1. CASE result' = result
  BY <1>1, Stutters
<1>2. CASE /\ ops[unit].kind = "load" /\ Promise!Inside(ops[unit])
           /\ result' = [result EXCEPT ![unit] =
                          Promise!Word(earlier, ops[unit].address, ops[unit].size)]
  <2>1. Promise!Load(unit)
    BY <1>2 DEF Promise!Load
  <2>2. unit \in Promise!Units
    BY DEF Units, Promise!Units
  <2> QED BY <2>1, <2>2 DEF PromiseStep
<1> QED BY <1>1, <1>2

LEMMA EndClockStep ==
    ASSUME NoWrap, TypeOK, CycleInv, EndClock
    PROVE  CycleInv' /\ PromiseStep
<1>1. /\ phase = "end" /\ unit \in Units /\ unit' = unit + 1
      /\ UNCHANGED <<multi, contents, phase, ops, replay, earlier>>
      /\ unit \in multi => UNCHANGED <<queue, result>>
      /\ unit \notin multi => Legal(ops[unit]) /\ Trigger(unit)
  BY DEF EndClock
<1>2. CASE multi = {}
  <2>1. /\ contents = earlier /\ Queued(queue, ops, unit) /\ Done(earlier, ops, result, unit)
        /\ Legal(ops[unit]) /\ Trigger(unit)
    BY <1>1, <1>2 DEF CycleInv, FastInv
  <2>2. /\ Queued(queue', ops, unit + 1)
        /\ Done(earlier, ops, result', unit + 1)
        /\ \/ result' = result
           \/ /\ ops[unit].kind = "load" /\ Promise!Inside(ops[unit])
              /\ result' = [result EXCEPT ![unit] =
                             Promise!Word(earlier, ops[unit].address, ops[unit].size)]
    BY <1>1, <2>1, AccessStep
  <2>3. PromiseStep
    BY <1>1, <2>2, AccessPromise
  <2>4. Queued(queue', ops', unit') /\ Done(earlier', ops', result', unit')
    BY <1>1, <2>2
  <2> QED BY <1>1, <1>2, <2>1, <2>3, <2>4 DEF CycleInv, FastInv
<1>3. CASE multi # {}
  <2>1. UNCHANGED <<queue, result>>
    BY <1>1, <1>3 DEF CycleInv
  <2>2. PromiseStep
    BY <1>1, <2>1, Stutters
  <2> QED BY <1>1, <1>3, <2>1, <2>2 DEF CycleInv, DetailedInv
<1> QED BY <1>2, <1>3

LEMMA CommitStep ==
    ASSUME TypeOK, CycleInv, AdvanceMemory
    PROVE  CycleInv' /\ PromiseStep
<1>1. /\ phase = "end" /\ phase' = "advance" /\ unit \notin Units /\ unit' = 1
      /\ contents' = Committed(queue, contents) /\ queue' = <<>>
      /\ UNCHANGED <<multi, ops, replay, result, earlier>>
  BY DEF AdvanceMemory
<1>2. PromiseStep
  BY <1>1, Stutters
<1>3. unit = NumUnits + 1 /\ \A u \in Units : ~ (u < 1)
  BY <1>1, UnitsAssumption DEF TypeOK, Units
<1>4. CASE multi = {}
  <2>1. /\ Queued(queue, ops, NumUnits + 1) /\ Done(earlier, ops, result, NumUnits + 1)
        /\ contents = earlier
    BY <1>1, <1>3, <1>4 DEF CycleInv, FastInv
  <2>2. Committed(queue, contents) = Promise!Stored(contents, ops)
    BY <2>1, CommitIsStored DEF TypeOK
  <2>3. contents' = Promise!Stored(earlier', ops')
    BY <1>1, <2>1, <2>2
  <2>4. Done(earlier', ops', result', NumUnits + 1)
    BY <1>1, <2>1
  <2> QED BY <1>1, <1>2, <1>4, <2>3, <2>4 DEF CycleInv, FastInv
<1>5. CASE multi # {}
  <2>1. contents' = earlier'
    BY <1>1, <1>5 DEF CycleInv, DetailedInv
  <2>2. Queued(queue', ops', unit')
    BY <1>1, QueuedEmpty
  <2>3. Done(earlier', ops', result', unit')
    BY <1>1, <1>3 DEF Done
  <2> QED BY <1>1, <1>2, <1>5, <2>1, <2>2, <2>3 DEF CycleInv, DetailedInv
<1> QED BY <1>4, <1>5

LEMMA AdvanceClockStep ==
    ASSUME NoWrap, TypeOK, InsideInv, CycleInv, AdvanceClock
    PROVE  CycleInv' /\ PromiseStep
<1>1. /\ phase = "advance" /\ unit \in Units /\ unit' = unit + 1
      /\ UNCHANGED <<multi, contents, phase, ops, replay, earlier>>
      /\ unit \in multi => Trigger(unit)
      /\ unit \notin multi => UNCHANGED <<queue, result>>
  BY DEF AdvanceClock
<1>2. CASE multi = {}
  <2>1. UNCHANGED <<queue, result>>
    BY <1>1, <1>2
  <2>2. PromiseStep
    BY <1>1, <2>1, Stutters
  <2> QED BY <1>1, <1>2, <2>1, <2>2 DEF CycleInv, FastInv
<1>3. CASE multi # {}
  <2>1. unit \in multi /\ phase # "issue"
    BY <1>1, <1>3 DEF CycleInv
  <2>2. Legal(ops[unit])
    BY <2>1, InsideParts, Zenon DEF AdvanceLegal
  <2>3. /\ contents = earlier /\ Queued(queue, ops, unit) /\ Done(earlier, ops, result, unit)
        /\ Trigger(unit)
    BY <1>1, <1>3, <2>1 DEF CycleInv, DetailedInv
  <2>4. /\ Queued(queue', ops, unit + 1)
        /\ Done(earlier, ops, result', unit + 1)
        /\ \/ result' = result
           \/ /\ ops[unit].kind = "load" /\ Promise!Inside(ops[unit])
              /\ result' = [result EXCEPT ![unit] =
                             Promise!Word(earlier, ops[unit].address, ops[unit].size)]
    BY <1>1, <2>2, <2>3, AccessStep
  <2>5. PromiseStep
    BY <1>1, <2>1, <2>4, AccessPromise
  <2>6. Queued(queue', ops', unit') /\ Done(earlier', ops', result', unit')
    BY <1>1, <2>4
  <2> QED BY <1>1, <1>3, <2>3, <2>5, <2>6 DEF CycleInv, DetailedInv
<1> QED BY <1>2, <1>3

LEMMA CycleEndStep ==
    ASSUME NoWrap, TypeOK, CycleInv, CycleEnd
    PROVE  CycleInv' /\ PromiseStep
<1>1. /\ phase = "advance" /\ phase' = "issue" /\ unit \notin Units
      /\ earlier' = Committed(queue, contents)
      /\ UNCHANGED <<multi, contents, queue, replay>>
  BY DEF CycleEnd
<1>2. unit = NumUnits + 1 /\ Units = Promise!Units /\ \A u \in Units : u < NumUnits + 1
  BY <1>1, UnitsAssumption DEF TypeOK, Units, Promise!Units
<1>3. ~ replay /\ ~ replay'
  BY <1>1 DEF CycleInv
<1>4. Done(earlier, ops, result, NumUnits + 1)
  BY <1>1, <1>2 DEF CycleInv, FastInv, DetailedInv
<1>5. earlier' = Promise!Stored(earlier, ops)
  <2>1. CASE multi = {}
    <3>1. queue = <<>> /\ contents = Promise!Stored(earlier, ops)
      BY <1>1, <2>1 DEF CycleInv, FastInv
    <3> QED BY <1>1, <3>1, CommitNothing DEF TypeOK
  <2>2. CASE multi # {}
    <3>1. contents = earlier /\ Queued(queue, ops, NumUnits + 1)
      BY <1>1, <1>2, <2>2 DEF CycleInv, DetailedInv
    <3> QED BY <1>1, <3>1, CommitIsStored DEF TypeOK
  <2> QED BY <2>1, <2>2
<1>6. /\ \A u \in Units : ops[u].kind # "none" => Promise!Inside(ops[u])
      /\ \A u \in Units : ops[u].kind = "load" =>
             result[u] = Promise!Word(earlier, ops[u].address, ops[u].size)
  <2>1. \A u \in Units : ops[u] \in Access /\ Legal(ops[u])
    BY <1>2, <1>4 DEF Done, TypeOK
  <2>2. \A u \in Units : ops[u].kind # "none" => Promise!Inside(ops[u])
    BY <2>1, LegalInside
  <2> QED BY <1>2, <1>4, <2>2 DEF Done
<1>7. PromiseStep
  BY <1>1, <1>2, <1>3, <1>5, <1>6 DEF PromiseStep, Promise!EndCycle
<1>8. CASE multi = {}
  <2>1. queue' = <<>> /\ contents' = earlier'
    BY <1>1, <1>8, CommitNothing DEF CycleInv, FastInv, TypeOK
  <2> QED BY <1>1, <1>3, <1>7, <1>8, <2>1 DEF CycleInv, FastInv
<1>9. CASE multi # {}
  BY <1>1, <1>3, <1>7, <1>9 DEF CycleInv, DetailedInv
<1> QED BY <1>8, <1>9

LEMMA KillStep ==
    ASSUME TypeOK', CycleInv, KillSimulation
    PROVE  CycleInv' /\ PromiseStep
<1>1. /\ phase' = "issue" /\ ~ replay' /\ queue' = <<>> /\ contents' = earlier'
      /\ earlier' = Zero /\ multi' = multi
  BY DEF KillSimulation, Reset
<1>2. earlier' = Committed(queue', contents')
  BY <1>1, CommitNothing DEF TypeOK
<1>3. CycleInv'
  BY <1>1, <1>2 DEF CycleInv, FastInv, DetailedInv
<1>4. Zero \in [Space -> {0}]
  BY DEF Zero
<1> QED BY <1>1, <1>3, <1>4 DEF PromiseStep, Promise!Restart

(* Every step keeps the invariant and is a step of the synchronous memory. *)
LEMMA MemoryStep ==
    NoWrap /\ TypeOK /\ TypeOK' /\ InsideInv /\ CycleInv /\ [Next]_vars
        => CycleInv' /\ PromiseStep
<1> SUFFICES ASSUME NoWrap, TypeOK, TypeOK', InsideInv, CycleInv, [Next]_vars
             PROVE  CycleInv' /\ PromiseStep
  OBVIOUS
<1>1. CASE UNCHANGED vars
  BY <1>1 DEF vars, CycleInv, FastInv, DetailedInv, PromiseStep, Promise!vars
<1> QED BY <1>1, IssueStep, ReplayStep, ThrowStep, EndClockStep, CommitStep,
           AdvanceClockStep, CycleEndStep, KillStep DEF Next

(* The loads of a cycle return what earlier cycles stored and see no store *)
(* of their own, and the stores of a cycle take effect together, however   *)
(* often the cycle failed and was executed again: the queued memory is the *)
(* synchronous one, provided all units access it in the same half of the   *)
(* cycle and no access is larger than the end address.                     *)
THEOREM MemoryIsSynchronous ==
    ASSUME NoWrap, OneKind
    PROVE  Spec => ImplementsSynchronousMemory
<1>1. PromiseStep <=> [Promise!Begin \/ (\E u \in Promise!Units : Promise!Load(u))
                       \/ Promise!EndCycle \/ Promise!Restart]_(Promise!vars)
  BY DEF PromiseStep
<1> QED BY <1>1, PromiseInit, MemoryStep, MemoryTypes, QueueChecked, PTL
        DEF Spec, ImplementsSynchronousMemory, Promise!Spec

=============================================================================

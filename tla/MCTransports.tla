---------------------------- MODULE MCTransports ----------------------------
(* A guard register p and a port o of a unit, watched by guards of latency *)
(* 1 and 3 and 2; instructions that swap registers, that overwrite the     *)
(* guard they use, that choose one of two moves, and that update immediate *)
(* registers: im of a unit that extends by the sign, which the instruction *)
(* also reads, and zx of one that extends by zeros.                        *)
EXTENDS Transports

CONSTANTS a, p, o, im, zx, b1, b2, direct, late, unit

Plain(s, b, d) ==
    [src |-> s, bus |-> b, dst |-> d, guarded |-> FALSE, guard |-> direct, negated |-> FALSE]
Guarded(g, n, s, b, d) ==
    [src |-> s, bus |-> b, dst |-> d, guarded |-> TRUE, guard |-> g, negated |-> n]

MCIdle == [moves |-> <<>>, imms |-> <<>>]

MCInstructions ==
    {[moves |-> <<Plain(a, b1, p), Plain(p, b2, a)>>, imms |-> <<>>],
     [moves |-> <<Guarded(direct, FALSE, im, b1, p), Guarded(direct, TRUE, o, b2, p)>>,
      imms |-> <<>>],
     [moves |-> <<Guarded(late, FALSE, o, b1, a)>>, imms |-> <<[dst |-> zx, bits |-> 2]>>],
     [moves |-> <<Guarded(unit, TRUE, im, b2, p)>>,
      imms |-> <<[dst |-> im, bits |-> 1], [dst |-> im, bits |-> 2]>>]}

MCTarget == [g \in Guards |-> IF g = unit THEN o ELSE p]
MCLatency == [g \in Guards |-> CASE g = direct -> 1 [] g = late -> 3 [] g = unit -> 2]
=============================================================================

----------------------------- MODULE MCFUState ------------------------------
EXTENDS FUState, TLC

CONSTANTS p1, p2, v1, v2

(* A ring buffer, a single-cycle operation and a two-result operation that *)
(* share ports, as the operations of an ALU do.                            *)
MCLatency == <<3, 1, 2>>
MCOutLatency == <<(p1 :> 3), (p1 :> 1), (p1 :> 2 @@ p2 :> 1)>>
=============================================================================

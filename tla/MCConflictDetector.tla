------------------------- MODULE MCConflictDetector -------------------------
(* A unit with an operation that keeps a stage for two cycles and one that *)
(* is pipelined but needs that stage in its last cycle.                    *)
EXTENDS ConflictDetector

CONSTANTS mul, add, port, stage1, stage2

MCTable ==
    [o \in Ops |->
        IF o = mul THEN {<<port, 0>>, <<stage2, 1>>, <<stage2, 2>>}
                   ELSE {<<port, 0>>, <<stage1, 1>>, <<stage2, 3>>}]
=============================================================================

------------------------ MODULE MCSimulatorFrontend -------------------------
EXTENDS SimulatorFrontend

CONSTANTS t1, t2, user

(* main at 0 .. 2 with a loop, a call to a procedure at 3 that loops and   *)
(* returns, and a jump that may leave the program.                         *)
MCFlow == [a \in 0 .. 3 |-> CASE a = 0 -> {1, 3}
                              [] a = 1 -> {0, 2}
                              [] a = 2 -> {4}
                              [] OTHER -> {3, 1, 9}]
MCProcedure == [a \in 0 .. 3 |-> IF a < 3 THEN "main" ELSE "callee"]
=============================================================================

------------------------- MODULE MCSimulationEvents -------------------------
(***************************************************************************)
(* The observers on a heap of a few addresses.  Addresses are compared for *)
(* equality only, so they are symmetric.  What prog outlives and what      *)
(* destructors leave piles up over the commands; a state with more of it   *)
(* than MaxStrays is checked, but not continued.                           *)
(***************************************************************************)
EXTENDS SimulationEvents

CONSTANT MaxStrays  \* bound: outlived trackers and left entries together

Symmetry == Permutations(Addresses)

FewStrays == Cardinality(outlived) + Cardinality(left) <= MaxStrays
=============================================================================

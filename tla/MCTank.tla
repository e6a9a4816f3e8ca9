-------------------------------- MODULE MCTank --------------------------------
(* Instances of FuelTank for TLC. *)
EXTENDS FuelTank, TLC

CONSTANTS tank1, tank2, sup1, sup2, ev1, req1, req2

MCCapacity == [t \in Tanks |-> 2]

MCSymmetry == Permutations(Requests) \cup Permutations(Supplies)

=============================================================================

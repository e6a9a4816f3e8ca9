------------------------------- MODULE MCBilling -------------------------------
(* Instances of TripBilling for TLC. *)
EXTENDS TripBilling, TLC

CONSTANTS trip1, rev1, rev2, rev3, req1, req2

MCSymmetry == Permutations(Requests) \cup Permutations(Revenues)

=============================================================================

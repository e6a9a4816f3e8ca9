------------------------------ MODULE MCWorkshop -------------------------------
(* Instances of Workshop for TLC. *)
EXTENDS Workshop, TLC

CONSTANTS order1, order2, vehicle1, part1, req1, req2

\* The status changes that differ in what they do to vehicles and parts; the
\* PATCH to COMPLETED is allowed wherever the action "complete" is, and twice.
MCOffered ==
  {c \in Changes : \/ c.action \in {"start", "cancel"}
                   \/ c.action = "patch" /\ c.to \in {"WAITING_PARTS", "COMPLETED"}}

MCDeltas == {2, -1}

MCSymmetry == Permutations(Requests) \cup Permutations(Orders)

=============================================================================

------------------------------- MODULE MCTrips ---------------------------------
(* Instances of TripLifecycle for TLC.                                            *)
EXTENDS TripLifecycle, TLC

CONSTANTS r1, r2, d1, d2

\* Two requests at once, or one after the other: trips that move, are edited and deleted;
\* readings of the odometer; idle periods; drivers and vehicles that are switched off.
MCMoves ==
  (r1 :> {"WAITING_DRIVER", "IN_PROGRESS", "CANCELLED", "edit"})
    @@ (r2 :> {"WAITING_DEPARTURE", "IN_PROGRESS", "PAUSED", "COMPLETED", "delete"})
MCReadings ==
  (r1 :> {"IN_PROGRESS", "COMPLETED", "fuel", "vehicle"})
    @@ (r2 :> {"IN_PROGRESS", "COMPLETED", "start"})
MCPeriods ==
  (r1 :> {"IN_PROGRESS", "COMPLETED", "period"}) @@ (r2 :> {"IN_PROGRESS", "COMPLETED"})
MCSwitches ==
  (r1 :> {"IN_PROGRESS", "switch"}) @@ (r2 :> {"COMPLETED", "start"})
MCWorkloads == {MCMoves, MCReadings, MCPeriods, MCSwitches}

\* Two starts.
MCStarts == {[r \in Requests |-> {"IN_PROGRESS"}]}

MCSymmetry == Permutations(Trips) \cup Permutations({d1, d2})

=============================================================================

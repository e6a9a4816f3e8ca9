------------------------------- MODULE TripProofs ------------------------------
(***************************************************************************)
(* Proofs about TripLifecycle, for any trips, drivers and vehicles and any  *)
(* number of concurrent requests.                                           *)
(***************************************************************************)
EXTENDS TripLifecycle, TLAPS

(***************************************************************************)
(* What the requests hold, and what the rules compute.                      *)
(***************************************************************************)

\* Every operation names a trip, and a status change or a start has a target.
LEMMA OpType ==
  ASSUME NEW op \in Op
  PROVE  /\ op.trip \in Trips
         /\ op.kind \in {"status", "start"} => op.to \in Status /\ op.km \in Reading
         /\ op.kind = "start" => op.to = "IN_PROGRESS"
         /\ op.kind = "fuel" => op.km \in Km
         /\ op.kind = "edit" => op.driver \in Drivers /\ op.vehicle \in Vehicles \cup {None}
BY DEF Op, Status, Reading

\* A request that is not idle holds an operation and the row it read.
LEMMA RequestType ==
  ASSUME TablesOK, NEW r \in Requests, NEW point \in Points, At(r, point)
  PROVE  req[r] \in [at: Points, op: Op, row: Trip, km: Km]
BY DEF TablesOK, Request, Idle, Points, At

\* Idle is none of the points a request stops at.
LEMMA IdleIsNoPoint ==
  ASSUME NEW q \in [at: Points, op: Op, row: Trip, km: Km]
  PROVE  q # Idle
BY DEF Idle, Points

\* The odometer stays within its readings.
LEMMA BumpedType ==
  ASSUME TablesOK, NEW vehicle \in Vehicles \cup {None}, NEW km \in Reading, NEW current \in Km
  PROVE  Bumped(vehicle, km, current) \in [Vehicles -> Km]
<1>1. CASE vehicle # None /\ km # None
  <2>1. vehicle \in Vehicles /\ km \in Km
    BY <1>1 DEF Reading
  <2> QED
    BY <2>1 DEF Bumped, TablesOK
<1>2. CASE ~(vehicle # None /\ km # None)
  BY <1>2 DEF Bumped, TablesOK
<1> QED
  BY <1>1, <1>2

\* A vehicle's odometer is one of the readings.
LEMMA OdometerOfType ==
  ASSUME TablesOK, NEW row \in Trip
  PROVE  OdometerOf(row) \in Km
BY NoneAssumption DEF OdometerOf, TablesOK, Trip, Km

\* A period is opened when its vehicle has none open: the open ones stay one per vehicle.
LEMMA AppendedPeriod ==
  ASSUME TablesOK, OneOpenPeriod, NEW p \in Period,
         p.ended \/ ~HasOpen(p.vehicle), periods' = Append(periods, p)
  PROVE  /\ periods' \in Seq(Period)
         /\ OneOpenPeriod'
         /\ \A n \in DOMAIN periods : n \in DOMAIN periods' /\ periods'[n] = periods[n]
         /\ \A n \in DOMAIN periods' : n \in DOMAIN periods \/ periods'[n] = p
<1>1. periods \in Seq(Period)
  BY DEF TablesOK
<1>2. periods' \in Seq(Period)
  BY <1>1
<1>3. \A n \in DOMAIN periods : n \in DOMAIN periods' /\ periods'[n] = periods[n]
  BY <1>1
<1>4. \A n \in DOMAIN periods' : n \in DOMAIN periods \/ (n = Len(periods) + 1 /\ periods'[n] = p)
  BY <1>1
<1>5. ASSUME NEW m \in DOMAIN periods', NEW n \in DOMAIN periods',
             periods'[m].vehicle = periods'[n].vehicle, ~periods'[m].ended, ~periods'[n].ended
      PROVE  m = n
  BY <1>3, <1>4, <1>5 DEF OneOpenPeriod, HasOpen
<1> QED
  BY <1>2, <1>3, <1>4, <1>5 DEF OneOpenPeriod

\* Ending periods opens none.
LEMMA EndedPeriods ==
  ASSUME TablesOK, OneOpenPeriod, NEW more, more \in Seq(Period),
         periods' = more, DOMAIN more = DOMAIN periods,
         \A n \in DOMAIN periods : more[n].vehicle = periods[n].vehicle
                                     /\ (periods[n].ended => more[n].ended)
  PROVE  OneOpenPeriod'
BY DEF OneOpenPeriod

----
(***************************************************************************)
(* The steps of a request.                                                  *)
(***************************************************************************)

\* A trip that left keeps its departure.
Departures(rows, more) == \A t \in Trips : rows[t].departed => more[t].departed

\* What a request holds stays good while other requests move their trips.
LEMMA HeldTripKept ==
  ASSUME NEW q \in Request, NEW rows, NEW more, HeldTrip(q, rows), Departures(rows, more)
  PROVE  HeldTrip(q, more)
<1>1. CASE q = Idle
  BY <1>1 DEF HeldTrip
<1>2. CASE q # Idle
  <2>1. q.op \in Op
    BY <1>2 DEF Request
  <2>2. q.op.trip \in Trips
    BY <2>1, OpType
  <2> QED
    BY <1>2, <2>2 DEF HeldTrip, Departures
<1> QED
  BY <1>1, <1>2

\* The invariant survives a step that keeps the types, the departures and the open
\* periods, and leaves one request with something good to hold.
LEMMA TripPreserved ==
  ASSUME TripInv, NEW r \in Requests, NEW q, q = Idle \/ q \in [at: Points, op: Op, row: Trip, km: Km],
         Goes(r, q), HeldTrip(q, trips'),
         trips' \in [Trips -> Trip], active' = active, fleet' = fleet,
         odometer' \in [Vehicles -> Km], periods' \in Seq(Period),
         Departures(trips, trips'), RoadHasDeparture', OneOpenPeriod'
  PROVE  TripInv'
<1>1. req' = [req EXCEPT ![r] = q]
  BY DEF Goes
<1>2. q \in Request
  BY DEF Request
<1>3. req \in [Requests -> Request]
  BY DEF TripInv, TablesOK
<1>4. TablesOK'
  BY <1>1, <1>2, <1>3 DEF TripInv, TablesOK
<1>5. ASSUME NEW s \in Requests PROVE HeldTrip(req'[s], trips')
  <2>1. CASE s = r
    BY <1>1, <1>3, <2>1
  <2>2. CASE s # r
    <3>1. req'[s] = req[s] /\ req[s] \in Request /\ HeldTrip(req[s], trips)
      BY <1>1, <1>3, <2>2 DEF TripInv
    <3> QED
      BY <3>1, HeldTripKept
  <2> QED
    BY <2>1, <2>2
<1> QED
  BY <1>4, <1>5 DEF TripInv

\* A request that only reads, and then holds something good or is refused.
LEMMA TripMoved ==
  ASSUME TripInv, NEW r \in Requests, NEW q, q = Idle \/ q \in [at: Points, op: Op, row: Trip, km: Km],
         Goes(r, q), HeldTrip(q, trips), Unread
  PROVE  TripInv'
<1>1. /\ trips' \in [Trips -> Trip] /\ active' = active /\ fleet' = fleet
      /\ odometer' \in [Vehicles -> Km] /\ periods' \in Seq(Period)
  BY DEF Unread, TripInv, TablesOK
<1>2. Departures(trips, trips') /\ RoadHasDeparture' /\ OneOpenPeriod'
  BY DEF Unread, TripInv, Departures, RoadHasDeparture, OneOpenPeriod
<1>3. HeldTrip(q, trips')
  BY DEF Unread
<1> QED
  BY <1>1, <1>2, <1>3, TripPreserved

\* A refused request holds nothing.
LEMMA TripRefused ==
  ASSUME TripInv, NEW r \in Requests, Goes(r, Idle), Unread
  PROVE  TripInv'
BY TripMoved DEF HeldTrip

\* A check passes on to the next point, or ends the request.
LEMMA TripChecked ==
  ASSUME TripInv, NEW r \in Requests, NEW point \in Points, NEW next \in Points,
         At(r, point), point \notin {"details", "reread"}, next \notin {"details", "reread"},
         Advance(r, next) \/ Goes(r, Idle), Unread
  PROVE  TripInv'
<1>1. CASE Goes(r, Idle)
  BY <1>1, TripRefused
<1>2. CASE Advance(r, next)
  <2> DEFINE q == [req[r] EXCEPT !.at = next]
  <2>1. req[r] \in [at: Points, op: Op, row: Trip, km: Km]
    BY RequestType DEF TripInv
  <2>2. q \in [at: Points, op: Op, row: Trip, km: Km] /\ q.op = req[r].op /\ q.row = req[r].row
    BY <2>1
  <2>3. req[r] # Idle /\ HeldTrip(req[r], trips) /\ req[r].at = point
    BY <2>1, IdleIsNoPoint DEF TripInv, At
  <2>4. HeldTrip(q, trips)
    BY <2>2, <2>3 DEF HeldTrip
  <2> HIDE DEF q
  <2> QED
    BY <1>2, <2>2, <2>4, TripMoved DEF Advance, q
<1> QED
  BY <1>1, <1>2

\* Receiving a request, and the reads and checks before its write.
LEMMA TripRead ==
  ASSUME TripInv, NEW r \in Requests,
         \/ Receive(r) \/ Reread(r)
         \/ CheckDriver(r) \/ CheckDriverFree(r) \/ CheckVehicle(r) \/ CheckVehicleFree(r)
  PROVE  TripInv' /\ Unread
<1>0. /\ {"driver", "driverFree", "vehicle", "vehicleFree", "write"} \subseteq Points
      /\ {"driver", "driverFree", "vehicle", "vehicleFree", "write"} \cap {"details", "reread"} = {}
  BY DEF Points
<1>t. TablesOK /\ RoadHasDeparture
  BY DEF TripInv
<1>1. CASE Receive(r)
  <2>1. PICK op \in Op :
          /\ Accepts(op, trips[op.trip])
          /\ Goes(r, [at |-> FirstPoint(op), op |-> op, row |-> trips[op.trip],
                      km |-> OdometerOf(trips[op.trip])])
    BY <1>1 DEF Receive
  <2> DEFINE row == trips[op.trip]
             q == [at |-> FirstPoint(op), op |-> op, row |-> row, km |-> OdometerOf(row)]
  <2>2. op.trip \in Trips /\ row \in Trip
    BY <1>t, OpType DEF TablesOK
  <2>3. OdometerOf(row) \in Km
    BY <1>t, <2>2, OdometerOfType
  <2>4. FirstPoint(op) \in Points
    BY DEF FirstPoint, Points
  <2>5. q \in [at: Points, op: Op, row: Trip, km: Km]
    BY <2>2, <2>3, <2>4
  <2>6. row.departed \/ row.status \in OnRoad \cup {"COMPLETED"} => trips[op.trip].departed
    BY <1>t, <2>2 DEF RoadHasDeparture
  <2>7. op.kind = "status" => op.to \in ALLOWED_TRANSITIONS[row.status]
    BY <2>1 DEF Accepts, MayMove
  <2>8. /\ op.kind = "start" => FirstPoint(op) = "details"
        /\ FirstPoint(op) \in {"details", "reread"} => op.kind = "start"
    BY DEF FirstPoint
  <2>9. HeldTrip(q, trips)
    BY <2>6, <2>7, <2>8 DEF HeldTrip
  <2>10. Goes(r, q) /\ Unread
    BY <1>1, <2>1 DEF Receive
  <2> HIDE DEF q
  <2> QED
    BY <2>5, <2>9, <2>10, TripMoved
<1>2. CASE Reread(r)
  <2> DEFINE row == trips[req[r].op.trip]
             q == [req[r] EXCEPT !.at = "driver", !.row = row, !.km = OdometerOf(row)]
  <2>1. CASE Goes(r, Idle)
    BY <1>2, <2>1, TripRefused DEF Reread
  <2>2. CASE MayMove(req[r].op, row) /\ Goes(r, q)
    <3>1. req[r] \in [at: Points, op: Op, row: Trip, km: Km]
      BY <1>2, <1>t, RequestType DEF Reread, Points
    <3>2. row \in Trip
      BY <1>t, <3>1, OpType DEF TablesOK
    <3>3. OdometerOf(row) \in Km
      BY <1>t, <3>2, OdometerOfType
    <3>4. /\ q \in [at: Points, op: Op, row: Trip, km: Km]
          /\ q.op = req[r].op /\ q.row = row /\ q.at = "driver"
      BY <1>0, <3>1, <3>2, <3>3
    <3>5. row.departed \/ row.status \in OnRoad \cup {"COMPLETED"}
            => trips[req[r].op.trip].departed
      BY <1>t, <3>1, OpType DEF RoadHasDeparture
    <3>6. req[r].op.to \in ALLOWED_TRANSITIONS[row.status]
      BY <2>2 DEF MayMove
    <3> HIDE DEF q
    <3>7. HeldTrip(q, trips)
      BY <3>4, <3>5, <3>6 DEF HeldTrip
    <3> QED
      BY <1>2, <2>2, <3>4, <3>7, TripMoved DEF Reread
  <2> QED
    BY <1>2, <2>1, <2>2 DEF Reread
<1>3. CASE CheckDriver(r)
  BY <1>0, <1>3, TripChecked DEF CheckDriver, Check
<1>4. CASE CheckDriverFree(r)
  BY <1>0, <1>4, TripChecked DEF CheckDriverFree, Check
<1>5. CASE CheckVehicle(r)
  <2>1. At(r, "vehicle") /\ Unread
    BY <1>5 DEF CheckVehicle
  <2>2. Advance(r, "write") \/ Advance(r, "vehicleFree") \/ Goes(r, Idle)
    BY <1>5 DEF CheckVehicle, Check
  <2> QED
    BY <1>0, <2>1, <2>2, TripChecked
<1>6. CASE CheckVehicleFree(r)
  BY <1>0, <1>6, TripChecked DEF CheckVehicleFree, Check
<1>7. Unread
  BY DEF Receive, Reread, CheckDriver, CheckDriverFree, CheckVehicle, CheckVehicleFree
<1> QED
  BY <1>1, <1>2, <1>3, <1>4, <1>5, <1>6, <1>7

----
(***************************************************************************)
(* The writes.                                                              *)
(***************************************************************************)

\* What EndedByOneTrip says of one step.
EndedKept ==
  \A n \in DOMAIN periods :
    /\ n \in DOMAIN periods'
    /\ periods[n].ended => periods'[n] = periods[n]

\* Every period named trips that had left: they still have when departures are kept.
LEMMA OldPeriod ==
  ASSUME TripInv, Departures(trips, trips'), NEW n \in DOMAIN periods, ~periods[n].manual,
         NEW t \in {periods[n].before, periods[n].after} \ {None}
  PROVE  trips'[t].departed
<1>1. periods[n] \in Period
  BY DEF TripInv, TablesOK
<1>2. t \in Trips
  BY <1>1 DEF Period
<1>3. trips[t].departed
  BY DEF TripInv, RoadHasDeparture
<1> QED
  BY <1>2, <1>3 DEF Departures

\* A write that leaves the periods alone.
LEMMA SamePeriods ==
  ASSUME TripInv, periods' = periods, Departures(trips, trips'),
         \A t \in Trips : trips'[t].status \in OnRoad \cup {"COMPLETED"} => trips'[t].departed
  PROVE  RoadHasDeparture' /\ OneOpenPeriod' /\ EndedKept /\ periods' \in Seq(Period)
<1>1. \A n \in DOMAIN periods : ~periods[n].manual =>
        \A t \in {periods[n].before, periods[n].after} \ {None} : trips'[t].departed
  BY OldPeriod
<1> QED
  BY <1>1 DEF RoadHasDeparture, TripInv, OneOpenPeriod, EndedKept, TablesOK

\* The handlers' writes other than a change of status: the odometer of the driver's
\* start details or of a fuel supply, an edit, a deletion.
LEMMA TripWritten ==
  ASSUME TripInv, NEW r \in Requests,
         ApplyStartDetails(r) \/ CommitFuel(r) \/ CommitEdit(r) \/ CommitDelete(r)
  PROVE  TripInv' /\ EndedKept
<1>0. "details" \in Points /\ "write" \in Points /\ "reread" \in Points
  BY DEF Points
<1>t. TablesOK /\ RoadHasDeparture
  BY DEF TripInv
<1>1. req[r] \in [at: Points, op: Op, row: Trip, km: Km]
  BY <1>0, <1>t, RequestType DEF ApplyStartDetails, CommitFuel, CommitEdit, CommitDelete
<1>2. req[r] # Idle /\ HeldTrip(req[r], trips)
  BY <1>1, IdleIsNoPoint DEF TripInv
<1>3. req[r].row.vehicle \in Vehicles \cup {None} /\ req[r].km \in Km /\ req[r].op \in Op
  BY <1>1 DEF Trip
<1>4. active' = active /\ fleet' = fleet /\ periods' = periods
  BY DEF ApplyStartDetails, CommitFuel, CommitEdit, CommitDelete
<1>h. HeldTrip(Idle, trips')
  BY DEF HeldTrip
<1>5. CASE ApplyStartDetails(r)
  <2> DEFINE q == [req[r] EXCEPT !.at = "reread"]
  <2>1. At(r, "details") /\ Goes(r, q) /\ trips' = trips
    BY <1>5 DEF ApplyStartDetails, Advance
  <2>2. req[r].op.kind = "start"
    BY <1>2, <2>1 DEF HeldTrip, At
  <2>3. odometer' \in [Vehicles -> Km]
    BY <1>5, <1>t, <1>3, <2>2, OpType, BumpedType DEF ApplyStartDetails
  <2>4. /\ q \in [at: Points, op: Op, row: Trip, km: Km]
        /\ q.op = req[r].op /\ q.row = req[r].row /\ q.at = "reread"
    BY <1>0, <1>1
  <2> HIDE DEF q
  <2>5. HeldTrip(q, trips')
    BY <1>2, <2>1, <2>2, <2>4 DEF HeldTrip
  <2>6. Departures(trips, trips') /\ trips' \in [Trips -> Trip]
    BY <1>t, <2>1 DEF Departures, TablesOK
  <2>7. RoadHasDeparture' /\ OneOpenPeriod' /\ EndedKept /\ periods' \in Seq(Period)
    BY <1>t, <1>4, <2>1, <2>6, SamePeriods DEF RoadHasDeparture
  <2> QED
    BY <1>4, <2>1, <2>3, <2>4, <2>5, <2>6, <2>7, TripPreserved
<1>6. CASE CommitFuel(r)
  <2>1. Goes(r, Idle) /\ trips' = trips /\ req[r].op.kind = "fuel"
    BY <1>6 DEF CommitFuel
  <2>2. odometer' \in [Vehicles -> Km]
    BY <1>6, <1>t, <1>3, <2>1, OpType, BumpedType DEF CommitFuel, Reading
  <2>3. Departures(trips, trips') /\ trips' \in [Trips -> Trip]
    BY <1>t, <2>1 DEF Departures, TablesOK
  <2>4. RoadHasDeparture' /\ OneOpenPeriod' /\ EndedKept /\ periods' \in Seq(Period)
    BY <1>t, <1>4, <2>1, <2>3, SamePeriods DEF RoadHasDeparture
  <2> QED
    BY <1>4, <1>h, <2>1, <2>2, <2>3, <2>4, TripPreserved
<1>7. CASE CommitEdit(r) \/ CommitDelete(r)
  <2>1. Goes(r, Idle) /\ odometer' = odometer
    BY <1>7 DEF CommitEdit, CommitDelete
  <2>2. \A t \in Trips : /\ trips'[t] \in Trip
                         /\ trips'[t].status = trips[t].status
                         /\ trips'[t].departed = trips[t].departed
    <3>1. CASE CommitDelete(r)
      BY <1>t, <3>1 DEF CommitDelete, TablesOK, Trip
    <3>2. CASE CommitEdit(r)
      <4>1. req[r].op.driver \in Drivers /\ req[r].op.vehicle \in Vehicles \cup {None}
        BY <1>3, <3>2, OpType DEF CommitEdit
      <4> QED
        BY <1>t, <3>2, <4>1 DEF CommitEdit, TablesOK, Trip
    <3> QED
      BY <1>7, <3>1, <3>2
  <2>3. trips' \in [Trips -> Trip]
    BY <1>7, <1>t, <2>2 DEF CommitEdit, CommitDelete, TablesOK
  <2>4. Departures(trips, trips')
    BY <2>2 DEF Departures
  <2>5. RoadHasDeparture' /\ OneOpenPeriod' /\ EndedKept /\ periods' \in Seq(Period)
    BY <1>t, <1>4, <2>2, <2>4, SamePeriods DEF RoadHasDeparture
  <2>6. odometer' \in [Vehicles -> Km]
    BY <1>t, <2>1 DEF TablesOK
  <2> QED
    BY <1>4, <1>h, <2>1, <2>3, <2>4, <2>5, <2>6, TripPreserved
<1> QED
  BY <1>5, <1>6, <1>7

\* The change of status: the trip has a departure whenever its new status needs one, and
\* a completion opens a period only where none is open.
LEMMA TripStatus ==
  ASSUME TripInv, NEW r \in Requests, CommitStatus(r)
  PROVE  TripInv' /\ EndedKept
<1> DEFINE op == req[r].op
           row == req[r].row
           u == op.trip
<1>t. TablesOK /\ RoadHasDeparture /\ OneOpenPeriod
  BY DEF TripInv
<1>1. At(r, "write") /\ op.kind \in {"status", "start"} /\ Goes(r, Idle)
  BY DEF CommitStatus
<1>2. req[r] \in [at: Points, op: Op, row: Trip, km: Km]
  BY <1>1, <1>t, RequestType DEF Points
<1>3. /\ u \in Trips /\ op.to \in Status /\ op.km \in Reading
      /\ row \in Trip /\ row.vehicle \in Vehicles \cup {None} /\ req[r].km \in Km
  BY <1>1, <1>2, OpType DEF Trip
<1>4. /\ op.to \in ALLOWED_TRANSITIONS[row.status]
      /\ row.status \in OnRoad \cup {"COMPLETED"} => trips[u].departed
  BY <1>1, <1>2, IdleIsNoPoint DEF TripInv, HeldTrip, At
<1>5. op.to \in {"PAUSED", "COMPLETED"} => row.status = "IN_PROGRESS"
  BY <1>3, <1>4 DEF ALLOWED_TRANSITIONS, Status, Terminal, Trip
<1>6. op.to \in OnRoad \cup {"COMPLETED"} => trips[u].departed \/ op.to = "IN_PROGRESS"
  BY <1>4, <1>5 DEF OnRoad
<1>7. trips' = [trips EXCEPT ![u].status = op.to, ![u].departed = @ \/ op.to = "IN_PROGRESS"]
  BY DEF CommitStatus
<1>8. active' = active /\ fleet' = fleet
  BY DEF CommitStatus
<1>9. /\ trips'[u].status = op.to
      /\ trips'[u].departed = (trips[u].departed \/ op.to = "IN_PROGRESS")
      /\ trips'[u] \in Trip
      /\ \A t \in Trips \ {u} : trips'[t] = trips[t]
      /\ trips' \in [Trips -> Trip]
  BY <1>t, <1>3, <1>7 DEF TablesOK, Trip
<1>10. Departures(trips, trips')
  BY <1>9 DEF Departures
<1>11. \A t \in Trips : trips'[t].status \in OnRoad \cup {"COMPLETED"} => trips'[t].departed
  BY <1>t, <1>6, <1>9 DEF RoadHasDeparture
<1>12. odometer' \in [Vehicles -> Km]
  <2>1. odometer' = Bumped(row.vehicle, op.km, req[r].km) \/ odometer' = odometer
    BY DEF CommitStatus
  <2>2. Bumped(row.vehicle, op.km, req[r].km) \in [Vehicles -> Km]
    BY <1>t, <1>3, BumpedType
  <2>3. odometer \in [Vehicles -> Km]
    BY <1>t DEF TablesOK
  <2> QED
    BY <2>1, <2>2, <2>3
<1>13. HeldTrip(Idle, trips')
  BY DEF HeldTrip
<1> HIDE DEF op, row, u
<1>14. RoadHasDeparture' /\ OneOpenPeriod' /\ EndedKept /\ periods' \in Seq(Period)
  <2>1. CASE periods' = periods
    BY <1>10, <1>11, <2>1, SamePeriods
  <2>2. CASE /\ row.vehicle # None /\ op.to = "COMPLETED" /\ periods' = Opened(row.vehicle, u)
             /\ periods' # periods
    <3> DEFINE p == [vehicle |-> row.vehicle, ended |-> FALSE, manual |-> FALSE,
                     before |-> u, after |-> None]
    <3>1. p \in Period
      BY <1>3, <2>2 DEF Period
    <3>2. ~HasOpen(p.vehicle) /\ periods' = Append(periods, p)
      BY <2>2 DEF Opened
    <3>3. trips'[u].departed
      BY <1>6, <1>9, <2>2
    <3>4. p.vehicle = row.vehicle /\ ~p.ended /\ p.before = u /\ p.after = None
      OBVIOUS
    <3> HIDE DEF p
    <3>5. /\ periods' \in Seq(Period) /\ OneOpenPeriod'
          /\ \A n \in DOMAIN periods : n \in DOMAIN periods' /\ periods'[n] = periods[n]
          /\ \A n \in DOMAIN periods' : n \in DOMAIN periods \/ periods'[n] = p
      BY <1>t, <3>1, <3>2, AppendedPeriod
    <3>6. ASSUME NEW n \in DOMAIN periods', ~periods'[n].manual,
                 NEW t \in {periods'[n].before, periods'[n].after} \ {None}
          PROVE  trips'[t].departed
      <4>1. CASE n \in DOMAIN periods
        BY <1>10, <3>5, <3>6, <4>1, OldPeriod
      <4>2. CASE periods'[n] = p
        BY <3>3, <3>4, <3>6, <4>2
      <4> QED
        BY <3>5, <4>1, <4>2
    <3> QED
      BY <1>11, <3>5, <3>6 DEF RoadHasDeparture, EndedKept
  <2>3. CASE op.to = "IN_PROGRESS" /\ row.vehicle # None /\ periods' = Closed(row.vehicle, u)
    <3>1. DOMAIN periods' = DOMAIN periods
      BY <2>3 DEF Closed
    <3>2. \A n \in DOMAIN periods :
            \/ periods'[n] = periods[n]
            \/ /\ ~periods[n].ended
               /\ periods'[n] = [periods[n] EXCEPT !.ended = TRUE, !.after = u]
      BY <2>3 DEF Closed, Closable
    <3>3. \A n \in DOMAIN periods : periods[n] \in Period
      BY <1>t DEF TablesOK
    <3>4. \A n \in DOMAIN periods :
            /\ periods'[n] \in Period
            /\ periods'[n].vehicle = periods[n].vehicle
            /\ periods'[n].manual = periods[n].manual
            /\ periods'[n].before = periods[n].before
            /\ periods'[n].after = periods[n].after \/ periods'[n].after = u
            /\ periods[n].ended => periods'[n] = periods[n] /\ periods'[n].ended
      BY <1>3, <3>2, <3>3 DEF Period
    <3>5. periods' \in Seq(Period)
      <4>1. Len(periods) \in Nat /\ DOMAIN periods = 1..Len(periods)
        BY <1>t DEF TablesOK
      <4>2. periods' = [n \in 1..Len(periods) |-> periods'[n]]
        BY <2>3, <4>1 DEF Closed
      <4> QED
        BY <3>4, <4>1, <4>2
    <3>6. OneOpenPeriod'
      BY <1>t, <3>1, <3>4 DEF OneOpenPeriod
    <3>7. trips'[u].departed
      BY <1>9, <2>3
    <3>8. ASSUME NEW n \in DOMAIN periods', ~periods'[n].manual,
                 NEW t \in {periods'[n].before, periods'[n].after} \ {None}
          PROVE  trips'[t].departed
      <4>1. n \in DOMAIN periods /\ ~periods[n].manual
        BY <3>1, <3>4, <3>8
      <4>2. t = u \/ t \in {periods[n].before, periods[n].after} \ {None}
        BY <3>4, <3>8, <4>1
      <4> QED
        BY <1>10, <3>7, <4>1, <4>2, OldPeriod
    <3> QED
      BY <1>11, <3>1, <3>4, <3>5, <3>6, <3>8 DEF RoadHasDeparture, EndedKept
  <2>4. \/ periods' = periods
        \/ row.vehicle # None /\ op.to = "COMPLETED" /\ periods' = Opened(row.vehicle, u)
        \/ op.to = "IN_PROGRESS" /\ row.vehicle # None /\ periods' = Closed(row.vehicle, u)
    BY DEF CommitStatus, op, row, u
  <2> QED
    BY <2>1, <2>2, <2>3, <2>4
<1> QED
  BY <1>1, <1>8, <1>9, <1>10, <1>12, <1>13, <1>14, TripPreserved

----
(***************************************************************************)
(* The back office, and the theorems.                                       *)
(***************************************************************************)

\* The office switches drivers and vehicles, writes odometers, and enters and ends idle
\* periods.
LEMMA TripOffice ==
  ASSUME TripInv,
         \/ \E d \in Drivers : SwitchDriver(d)
         \/ \E v \in Vehicles : SwitchVehicle(v) \/ UpdateVehicle(v) \/ CreatePeriod(v)
         \/ EndPeriod
  PROVE  TripInv' /\ EndedKept
<1>t. TablesOK /\ OneOpenPeriod
  BY DEF TripInv
<1>1. trips' = trips /\ req' = req
  BY DEF SwitchDriver, SwitchVehicle, UpdateVehicle, CreatePeriod, EndPeriod
<1>2. active' \subseteq Drivers /\ fleet' \subseteq Vehicles /\ odometer' \in [Vehicles -> Km]
  BY <1>t DEF SwitchDriver, SwitchVehicle, UpdateVehicle, CreatePeriod, EndPeriod, TablesOK
<1>3. Departures(trips, trips')
  BY <1>1 DEF Departures
<1>4. \A t \in Trips : trips'[t].status \in OnRoad \cup {"COMPLETED"} => trips'[t].departed
  BY <1>1 DEF TripInv, RoadHasDeparture
<1>5. \A r \in Requests : HeldTrip(req'[r], trips')
  BY <1>1 DEF TripInv
<1>6. RoadHasDeparture' /\ OneOpenPeriod' /\ EndedKept /\ periods' \in Seq(Period)
  <2>1. CASE periods' = periods
    BY <1>3, <1>4, <2>1, SamePeriods
  <2>2. CASE \E v \in Vehicles : CreatePeriod(v)
    <3>1. PICK v \in Vehicles, ended \in BOOLEAN, before \in Trips \cup {None} :
            /\ ended \/ ~HasOpen(v)
            /\ periods' = Append(periods, [vehicle |-> v, ended |-> ended, manual |-> TRUE,
                                           before |-> before, after |-> None])
      BY <2>2 DEF CreatePeriod
    <3> DEFINE p == [vehicle |-> v, ended |-> ended, manual |-> TRUE,
                     before |-> before, after |-> None]
    <3>2. p \in Period
      BY DEF Period
    <3>3. p.manual /\ (p.ended \/ ~HasOpen(p.vehicle)) /\ periods' = Append(periods, p)
      BY <3>1
    <3> HIDE DEF p
    <3>4. /\ periods' \in Seq(Period) /\ OneOpenPeriod'
          /\ \A n \in DOMAIN periods : n \in DOMAIN periods' /\ periods'[n] = periods[n]
          /\ \A n \in DOMAIN periods' : n \in DOMAIN periods \/ periods'[n] = p
      BY <1>t, <3>2, <3>3, AppendedPeriod
    <3>5. ASSUME NEW n \in DOMAIN periods', ~periods'[n].manual,
                 NEW t \in {periods'[n].before, periods'[n].after} \ {None}
          PROVE  trips'[t].departed
      <4>1. n \in DOMAIN periods /\ periods'[n] = periods[n]
        BY <3>3, <3>4, <3>5
      <4> QED
        BY <1>3, <3>5, <4>1, OldPeriod
    <3> QED
      BY <1>4, <3>4, <3>5 DEF RoadHasDeparture, EndedKept
  <2>3. CASE EndPeriod
    <3>1. PICK k \in DOMAIN periods : periods' = [periods EXCEPT ![k].ended = TRUE]
      BY <2>3 DEF EndPeriod
    <3>2. \A n \in DOMAIN periods : periods[n] \in Period
      BY <1>t DEF TablesOK
    <3>3. DOMAIN periods' = DOMAIN periods
      BY <3>1
    <3>4. \A n \in DOMAIN periods : n # k => periods'[n] = periods[n]
      BY <3>1
    <3>5. periods'[k] = [periods[k] EXCEPT !.ended = TRUE]
      BY <3>1
    <3>6. \A n \in DOMAIN periods :
            /\ periods'[n] \in Period
            /\ periods'[n].vehicle = periods[n].vehicle
            /\ periods'[n].manual = periods[n].manual
            /\ periods'[n].before = periods[n].before
            /\ periods'[n].after = periods[n].after
            /\ periods[n].ended => periods'[n] = periods[n] /\ periods'[n].ended
      <4>1. TAKE n \in DOMAIN periods
      <4>2. CASE n # k
        BY <3>2, <3>4, <4>2 DEF Period
      <4>3. CASE n = k
        <5>1. periods[k] \in Period
          BY <3>2
        <5>2. /\ periods'[k] \in Period
              /\ periods'[k].vehicle = periods[k].vehicle
              /\ periods'[k].manual = periods[k].manual
              /\ periods'[k].before = periods[k].before
              /\ periods'[k].after = periods[k].after
              /\ periods'[k].ended
          BY <3>5, <5>1 DEF Period
        <5>3. periods[k].ended => periods'[k] = periods[k]
          BY <3>5, <5>1 DEF Period
        <5> QED
          BY <4>3, <5>2, <5>3
      <4> QED
        BY <4>2, <4>3
    <3>7. periods' \in Seq(Period)
      <4>1. Len(periods) \in Nat /\ DOMAIN periods = 1..Len(periods)
        BY <1>t DEF TablesOK
      <4>2. periods' = [n \in 1..Len(periods) |-> periods'[n]]
        BY <3>1, <4>1
      <4> QED
        BY <3>6, <4>1, <4>2
    <3>8. OneOpenPeriod'
      BY <1>t, <3>3, <3>6 DEF OneOpenPeriod
    <3>9. ASSUME NEW n \in DOMAIN periods', ~periods'[n].manual,
                 NEW t \in {periods'[n].before, periods'[n].after} \ {None}
          PROVE  trips'[t].departed
      BY <1>3, <3>3, <3>6, <3>9, OldPeriod
    <3> QED
      BY <1>4, <3>3, <3>6, <3>7, <3>8, <3>9 DEF RoadHasDeparture, EndedKept
  <2> QED
    BY <2>1, <2>2, <2>3 DEF SwitchDriver, SwitchVehicle, UpdateVehicle
<1>7. TablesOK'
  BY <1>t, <1>1, <1>2, <1>6 DEF TablesOK
<1> QED
  BY <1>5, <1>6, <1>7 DEF TripInv

\* Every step keeps the invariant, and the periods that were ended.
LEMMA TripStep ==
  ASSUME TripInv, [Next]_vars
  PROVE  TripInv' /\ EndedKept
<1>1. CASE UNCHANGED vars
  BY <1>1 DEF vars, tables, TripInv, TablesOK, RoadHasDeparture, OneOpenPeriod, HeldTrip, EndedKept
<1>2. CASE \E r \in Requests : Handle(r)
  <2>1. PICK r \in Requests : Handle(r)
    BY <1>2
  <2>2. CASE \/ Receive(r) \/ Reread(r)
             \/ CheckDriver(r) \/ CheckDriverFree(r) \/ CheckVehicle(r) \/ CheckVehicleFree(r)
    <3>1. TripInv' /\ Unread
      BY <2>2, TripRead
    <3> QED
      BY <3>1 DEF Unread, EndedKept
  <2>3. CASE ApplyStartDetails(r) \/ CommitFuel(r) \/ CommitEdit(r) \/ CommitDelete(r)
    BY <2>3, TripWritten
  <2>4. CASE CommitStatus(r)
    BY <2>4, TripStatus
  <2> QED
    BY <2>1, <2>2, <2>3, <2>4 DEF Handle
<1>3. CASE \/ \E d \in Drivers : SwitchDriver(d)
           \/ \E v \in Vehicles : SwitchVehicle(v) \/ UpdateVehicle(v) \/ CreatePeriod(v)
           \/ EndPeriod
  BY <1>3, TripOffice
<1> QED
  BY <1>1, <1>2, <1>3 DEF Next, Steps

\* No trip has left at first, and no request holds anything.
LEMMA TripStart ==
  ASSUME Init
  PROVE  TripInv
<1>0. \A t \in Trips : trips[t].status = "PLANNED" /\ trips[t] \in Trip
  BY DEF Init, Trip, Status
<1>1. TablesOK
  <2>1. trips \in [Trips -> Trip]
    BY <1>0 DEF Init
  <2>2. odometer \in [Vehicles -> Km]
    BY NoneAssumption DEF Init, Km
  <2>3. periods \in Seq(Period) /\ req \in [Requests -> Request]
    BY DEF Init, Request
  <2> QED
    BY <2>1, <2>2, <2>3 DEF Init, TablesOK
<1>2. RoadHasDeparture /\ OneOpenPeriod
  <2>1. DOMAIN periods = {}
    BY DEF Init
  <2> QED
    BY <1>0, <2>1 DEF RoadHasDeparture, OneOpenPeriod, OnRoad
<1>3. \A r \in Requests : HeldTrip(req[r], trips)
  BY DEF Init, HeldTrip
<1> QED
  BY <1>1, <1>2, <1>3 DEF TripInv

\* In every reachable state the tables are well typed, trips on the road have left, no
\* vehicle has two open periods, and every request still holds something good.
THEOREM TripInvariance == Spec => []TripInv
<1>1. Init => TripInv
  BY TripStart
<1>2. TripInv /\ [Next]_vars => TripInv'
  BY TripStep
<1> QED
  BY <1>1, <1>2, PTL DEF Spec

\* The tables of trips, vehicles and idle periods stay well typed.
THEOREM TripTypeCorrect == Spec => []TypeOK
<1>1. Init => TripInv /\ TypeOK
  BY TripStart DEF Init, TypeOK, TripInv
<1>2. ASSUME TripInv, TypeOK, [Next]_vars
      PROVE  TripInv' /\ TypeOK'
  <2>1. TripInv' /\ TablesOK'
    BY <1>2, TripStep DEF TripInv
  <2>2. CASE UNCHANGED vars
    BY <1>2, <2>1, <2>2 DEF vars, history, TypeOK
  <2>3. CASE Next
    <3>1. workload' = workload /\ overtaken' \subseteq Requests /\ outrun' \subseteq Requests
      BY <2>3 DEF Next, Watch
    <3>2. ASSUME NEW s \in overtaken, Writes(s)
          PROVE  req[s].op.trip \in Trips
      <4>1. s \in Requests /\ TablesOK /\ At(s, "write")
        BY <1>2, <3>2 DEF TypeOK, Writes
      <4> QED
        BY <4>1, RequestType, OpType DEF Points
    <3>3. loose' \subseteq Trips
      BY <1>2, <2>3, <3>2 DEF Next, Watch, TypeOK
    <3> QED
      BY <1>2, <2>1, <3>1, <3>3 DEF TypeOK
  <2> QED
    BY <1>2, <2>2, <2>3
<1> QED
  BY <1>1, <1>2, PTL DEF Spec

\* A trip on the road, or completed, has an actualDeparture, and so have the trips an
\* automatic idle period names.
THEOREM DeparturesRecorded == Spec => []RoadHasDeparture
<1>1. TripInv => RoadHasDeparture
  BY DEF TripInv
<1> QED
  BY <1>1, TripInvariance, PTL

\* A vehicle never has two open idle periods.
THEOREM PeriodsUnique == Spec => []OneOpenPeriod
<1>1. TripInv => OneOpenPeriod
  BY DEF TripInv
<1> QED
  BY <1>1, TripInvariance, PTL

\* A period that was ended is never ended again, nor taken over by a later start.
THEOREM PeriodsEndOnce == Spec => EndedByOneTrip
<1>1. TripInv /\ [Next]_vars => EndedKept
  BY TripStep
<1>2. EndedKept <=> \A n \in DOMAIN periods :
                      /\ n \in DOMAIN periods'
                      /\ periods[n].ended => periods'[n] = periods[n]
  BY DEF EndedKept
<1> QED
  BY <1>1, <1>2, TripInvariance, PTL DEF Spec, EndedByOneTrip

----
(***************************************************************************)
(* What the checks guarantee.                                               *)
(*                                                                          *)
(* The handlers check rows that they read earlier, so a second request can  *)
(* overtake the checks of a first.  What a request that nobody overtook     *)
(* knows is still so when it writes; what an overtaken one writes is loose, *)
(* and the invariants say nothing of a loose trip, whoever looks at it.     *)
(***************************************************************************)

Starts(op) == op.kind \in {"status", "start"} /\ op.to = "IN_PROGRESS"

\* The checks of a start that are behind it still hold, but for some trips.
Checked(q, rows, exempt) ==
  \A u \in Trips \ ({q.op.trip} \cup exempt) : rows[u].status \in OnRoad =>
    /\ q.at \in {"vehicle", "vehicleFree", "write"} => rows[u].driver # q.row.driver
    /\ q.at = "write" /\ q.row.vehicle # None => rows[u].vehicle # q.row.vehicle

\* What the request has read is what the tables hold.
FreshRow(q, rows, exempt) ==
  q # Idle =>
    /\ q.row = rows[q.op.trip] /\ ~q.row.deleted
    /\ q.op.kind = "edit" => q.row.status = "PLANNED"
    /\ q.op.kind = "delete" => q.row.status \in Deletable
    /\ q.at \notin {"details", "reread", "write"} => Starts(q.op)
    /\ Starts(q.op) => Checked(q, rows, exempt)

RowsHeld == \A r \in Requests \ overtaken : FreshRow(req[r], trips, loose)

\* The invariants that speak of the tables alone.
TablesHold == ApartUnlessOvertaken /\ RoadIsNotIdle /\ DeletedNeverRan

FreshInv == TripInv /\ RowsHeld /\ TablesHold

\* What TerminalIsFinal says of one step.
FinalKept ==
  \A t \in Trips \ loose' : trips[t].status \in Terminal => trips'[t].status = trips[t].status

\* A trip that was loose stays so.
LEMMA LooseGrows ==
  ASSUME Watch
  PROVE  loose \subseteq loose'
BY DEF Watch

\* What an overtaken request writes is loose.
LEMMA OvertakenWrites ==
  ASSUME Watch, NEW r \in overtaken, Writes(r)
  PROVE  req[r].op.trip \in loose'
BY DEF Watch

\* A request that goes on with what it had read, and is not overtaken, never was.
LEMMA NotOvertaken ==
  ASSUME Watch, NEW s \in Requests \ overtaken', req[s] # Idle, req'[s] # Idle,
         At(s, "reread") => req'[s] = req[s]
  PROVE  s \notin overtaken /\ ~Overtakes(s)
BY DEF Watch, Holding

\* The rows that a request holds stay those of the tables when nobody overtakes it.
LEMMA RowStays ==
  ASSUME TablesOK, RowsHeld, Watch, NEW s \in Requests \ overtaken', req'[s] = req[s]
  PROVE  FreshRow(req'[s], trips', loose')
<1>1. CASE req[s] = Idle
  BY <1>1 DEF FreshRow
<1>2. CASE req[s] # Idle
  <2>1. PICK q : q = req[s]
    OBVIOUS
  <2>2. s \notin overtaken /\ ~Overtakes(s)
    BY <1>2, NotOvertaken
  <2>3. FreshRow(q, trips, loose) /\ q # Idle
    BY <1>2, <2>1, <2>2 DEF RowsHeld
  <2>4. trips'[q.op.trip] = trips[q.op.trip]
    BY <2>1, <2>2 DEF Overtakes
  <2>5. ASSUME NEW u \in Trips \ {q.op.trip}, trips'[u] # trips[u], trips'[u].status \in OnRoad
        PROVE  /\ trips'[u].driver # q.row.driver
               /\ q.row.vehicle # None => trips'[u].vehicle # q.row.vehicle
    BY <2>1, <2>2, <2>5 DEF Overtakes
  <2>6. Checked(q, trips, loose) => Checked(q, trips', loose')
    <3>1. ASSUME Checked(q, trips, loose), NEW u \in Trips \ ({q.op.trip} \cup loose'),
                 trips'[u].status \in OnRoad
          PROVE  /\ q.at \in {"vehicle", "vehicleFree", "write"} => trips'[u].driver # q.row.driver
                 /\ q.at = "write" /\ q.row.vehicle # None => trips'[u].vehicle # q.row.vehicle
      <4>1. u \in Trips \ ({q.op.trip} \cup loose)
        BY LooseGrows
      <4>2. CASE trips'[u] = trips[u]
        BY <3>1, <4>1, <4>2 DEF Checked
      <4>3. CASE trips'[u] # trips[u]
        BY <2>5, <3>1, <4>3
      <4> QED
        BY <4>2, <4>3
    <3> QED
      BY <3>1 DEF Checked
  <2>7. FreshRow(q, trips', loose')
    BY <2>3, <2>4, <2>6 DEF FreshRow
  <2> QED
    BY <2>1, <2>7
<1> QED
  BY <1>1, <1>2

\* It is enough to look at the request that takes the step.
LEMMA RowsStay ==
  ASSUME TripInv, RowsHeld, Watch, NEW r \in Requests, NEW q, Goes(r, q),
         r \notin overtaken' => FreshRow(q, trips', loose')
  PROVE  RowsHeld'
<1>t. TablesOK
  BY DEF TripInv
<1>1. req'[r] = q /\ \A s \in Requests \ {r} : req'[s] = req[s]
  BY <1>t DEF Goes, TablesOK
<1>2. ASSUME NEW s \in Requests \ overtaken'
      PROVE  FreshRow(req'[s], trips', loose')
  <2>1. CASE s = r
    BY <1>1, <1>2, <2>1
  <2>2. CASE s # r
    BY <1>t, <1>1, <2>2, RowStays
  <2> QED
    BY <2>1, <2>2
<1> QED
  BY <1>2 DEF RowsHeld

\* The end of a request leaves what the others hold.
LEMMA RowsStayAtEnd ==
  ASSUME TripInv, RowsHeld, Watch, NEW r \in Requests, Goes(r, Idle)
  PROVE  RowsHeld'
BY RowsStay DEF FreshRow

\* A step that leaves the trips and the periods alone.
LEMMA SameTables ==
  ASSUME TablesHold, UNCHANGED <<trips, periods>>, loose \subseteq loose'
  PROVE  TablesHold' /\ FinalKept
<1>1. ApartUnlessOvertaken'
  BY DEF TablesHold, ApartUnlessOvertaken
<1>2. RoadIsNotIdle'
  BY DEF TablesHold, RoadIsNotIdle
<1>3. DeletedNeverRan'
  BY DEF TablesHold, DeletedNeverRan
<1> QED
  BY <1>1, <1>2, <1>3 DEF TablesHold, FinalKept

\* A check that passes adds to what the request has checked.
LEMMA RowAdvances ==
  ASSUME FreshInv, Watch, NEW r \in Requests, NEW next \in Points, Advance(r, next), Unread,
         At(r, "driver") \/ At(r, "driverFree") \/ At(r, "vehicle") \/ At(r, "vehicleFree"),
         next \notin {"details", "reread"},
         RowsHeld /\ r \notin overtaken => Checked([req[r] EXCEPT !.at = next], trips, loose)
  PROVE  RowsHeld'
<1>0. TablesOK /\ TripInv /\ RowsHeld
  BY DEF FreshInv, TripInv
<1>1. req[r] \in [at: Points, op: Op, row: Trip, km: Km]
  BY <1>0, RequestType DEF Points
<1>2. PICK q : q = [req[r] EXCEPT !.at = next]
  OBVIOUS
<1>3. /\ req[r] # Idle /\ q.op = req[r].op /\ q.row = req[r].row
      /\ q.at = next /\ q \in [at: Points, op: Op, row: Trip, km: Km]
  BY <1>1, <1>2, IdleIsNoPoint
<1>4. Goes(r, q) /\ req'[r] = q /\ trips' = trips
  BY <1>0, <1>2 DEF Advance, Goes, TablesOK, Unread
<1>5. ASSUME r \notin overtaken'
      PROVE  FreshRow(q, trips', loose')
  <2>1. r \notin overtaken
    <3>1. req'[r] # Idle
      BY <1>3, <1>4, IdleIsNoPoint
    <3>2. ~At(r, "reread")
      BY DEF At
    <3> QED
      BY <1>3, <1>5, <3>1, <3>2, NotOvertaken
  <2>2. FreshRow(req[r], trips, loose) /\ Checked(q, trips, loose)
    BY <1>0, <1>2, <2>1 DEF RowsHeld
  <2>3. Starts(req[r].op)
    BY <1>3, <2>2 DEF FreshRow, At
  <2>4. Checked(q, trips, loose')
    BY <2>2, LooseGrows DEF Checked
  <2>5. /\ q.row = trips[q.op.trip] /\ ~q.row.deleted
        /\ q.op.kind = "edit" => q.row.status = "PLANNED"
        /\ q.op.kind = "delete" => q.row.status \in Deletable
    BY <1>3, <2>2 DEF FreshRow
  <2> QED
    BY <1>3, <1>4, <2>3, <2>4, <2>5 DEF FreshRow
<1> QED
  BY <1>0, <1>4, <1>5, RowsStay

\* The reads and checks of a request.
LEMMA FreshRead ==
  ASSUME FreshInv, Watch, NEW r \in Requests,
         \/ Receive(r) \/ Reread(r)
         \/ CheckDriver(r) \/ CheckDriverFree(r) \/ CheckVehicle(r) \/ CheckVehicleFree(r)
  PROVE  FreshInv' /\ FinalKept
<1>t. TablesOK /\ TripInv /\ RowsHeld /\ TablesHold
  BY DEF FreshInv, TripInv
<1>0. TripInv' /\ Unread
  BY <1>t, TripRead
<1>s. TablesHold' /\ FinalKept
  BY <1>0, <1>t, SameTables, LooseGrows DEF Unread
<1>p. {"driver", "driverFree", "vehicle", "vehicleFree", "write"} \subseteq Points
  BY DEF Points
<1>i. ASSUME Goes(r, Idle) PROVE RowsHeld'
  BY <1>t, <1>i, RowsStayAtEnd
<1>d. \A u \in Trips \ loose : trips[u].status \in OnRoad => ~trips[u].deleted
  BY <1>t DEF TablesHold, DeletedNeverRan, OnRoad
<1>1. ASSUME Receive(r) PROVE RowsHeld'
  <2>1. PICK op \in Op :
          /\ ~trips[op.trip].deleted /\ Accepts(op, trips[op.trip])
          /\ Goes(r, [at |-> FirstPoint(op), op |-> op, row |-> trips[op.trip],
                      km |-> OdometerOf(trips[op.trip])])
    BY <1>1 DEF Receive
  <2>2. PICK q : q = [at |-> FirstPoint(op), op |-> op, row |-> trips[op.trip],
                      km |-> OdometerOf(trips[op.trip])]
    OBVIOUS
  <2>3. q.at = FirstPoint(op) /\ q.op = op /\ q.row = trips[op.trip]
    BY <2>2
  <2>4. /\ q.op.kind = "edit" => q.row.status = "PLANNED"
        /\ q.op.kind = "delete" => q.row.status \in Deletable
    BY <2>1, <2>3 DEF Accepts
  <2>5. /\ q.at \notin {"details", "reread", "write"} => Starts(q.op)
        /\ Starts(q.op) => q.at \in {"details", "driver"}
    BY <2>3 DEF FirstPoint, Starts
  <2>6. Starts(q.op) => Checked(q, trips, loose')
    BY <2>5 DEF Checked
  <2>7. FreshRow(q, trips, loose')
    BY <2>1, <2>3, <2>4, <2>5, <2>6 DEF FreshRow
  <2> QED
    BY <1>0, <1>t, <2>1, <2>2, <2>7, RowsStay DEF Unread
<1>2. ASSUME Reread(r) PROVE RowsHeld'
  <2>1. CASE Goes(r, Idle)
    BY <1>i, <2>1
  <2>2. CASE ~Goes(r, Idle)
    <3>1. req[r] \in [at: Points, op: Op, row: Trip, km: Km]
      BY <1>2, <1>t, RequestType DEF Reread, Points
    <3>2. PICK op \in Op, row \in Trip : op = req[r].op /\ row = trips[op.trip]
      BY <1>t, <3>1, OpType DEF TablesOK
    <3>3. ~row.deleted
          /\ Goes(r, [req[r] EXCEPT !.at = "driver", !.row = row, !.km = OdometerOf(row)])
      BY <1>2, <2>2, <3>2 DEF Reread
    <3>4. PICK q : q = [req[r] EXCEPT !.at = "driver", !.row = row, !.km = OdometerOf(row)]
      OBVIOUS
    <3>5. q.at = "driver" /\ q.op = op /\ q.row = row
      BY <3>1, <3>2, <3>4
    <3>6. op.kind = "start"
      BY <1>2, <1>t, <3>1, <3>2, IdleIsNoPoint DEF TripInv, HeldTrip, Reread, At
    <3>7. Starts(op)
      BY <3>6, OpType DEF Starts
    <3>8. Checked(q, trips, loose')
      BY <3>5 DEF Checked
    <3>9. FreshRow(q, trips, loose')
      BY <3>2, <3>3, <3>5, <3>6, <3>7, <3>8 DEF FreshRow
    <3> QED
      BY <1>0, <1>t, <3>3, <3>4, <3>9, RowsStay DEF Unread
  <2> QED
    BY <2>1, <2>2
<1>3. ASSUME NEW point \in Points, At(r, point)
      PROVE  /\ req[r] \in [at: Points, op: Op, row: Trip, km: Km]
             /\ req[r] # Idle /\ req[r].at = point
  BY <1>t, <1>3, RequestType, IdleIsNoPoint DEF At
<1>4. ASSUME CheckDriver(r) PROVE RowsHeld'
  <2>1. At(r, "driver") /\ (Advance(r, "driverFree") \/ Goes(r, Idle))
    BY <1>4 DEF CheckDriver, Check
  <2>2. Checked([req[r] EXCEPT !.at = "driverFree"], trips, loose)
    BY <1>3, <1>p, <2>1 DEF Checked
  <2> QED
    BY <1>0, <1>i, <1>p, <2>1, <2>2, RowAdvances
<1>5. ASSUME CheckDriverFree(r) PROVE RowsHeld'
  <2>1. /\ At(r, "driverFree")
        /\ Goes(r, Idle)
           \/ (/\ Advance(r, "vehicle")
               /\ \A u \in OthersOnRoad(req[r].op.trip) : trips[u].driver # req[r].row.driver)
    BY <1>5 DEF CheckDriverFree, Check
  <2>2. CASE Goes(r, Idle)
    BY <1>i, <2>2
  <2>3. CASE ~Goes(r, Idle)
    <3>1. Checked([req[r] EXCEPT !.at = "vehicle"], trips, loose)
      BY <1>3, <1>p, <1>d, <2>1, <2>3 DEF Checked, OthersOnRoad
    <3> QED
      BY <1>0, <1>p, <2>1, <2>3, <3>1, RowAdvances
  <2> QED
    BY <2>2, <2>3
<1>6. ASSUME CheckVehicle(r) PROVE RowsHeld'
  <2>1. /\ At(r, "vehicle")
        /\ \/ Goes(r, Idle)
           \/ req[r].row.vehicle = None /\ Advance(r, "write")
           \/ Advance(r, "vehicleFree")
    BY <1>6 DEF CheckVehicle, Check
  <2>2. req[r] # Idle /\ req[r].at = "vehicle"
        /\ req[r] \in [at: Points, op: Op, row: Trip, km: Km]
    BY <1>3, <1>p, <2>1
  <2>3. r \notin overtaken => Checked(req[r], trips, loose)
    BY <1>t, <2>2 DEF RowsHeld, FreshRow
  <2>4. r \notin overtaken =>
          /\ Checked([req[r] EXCEPT !.at = "vehicleFree"], trips, loose)
          /\ req[r].row.vehicle = None => Checked([req[r] EXCEPT !.at = "write"], trips, loose)
    BY <2>2, <2>3 DEF Checked
  <2> QED
    BY <1>0, <1>i, <1>p, <2>1, <2>4, RowAdvances
<1>7. ASSUME CheckVehicleFree(r) PROVE RowsHeld'
  <2>1. /\ At(r, "vehicleFree")
        /\ Goes(r, Idle)
           \/ (/\ Advance(r, "write")
               /\ \A u \in OthersOnRoad(req[r].op.trip) : trips[u].vehicle # req[r].row.vehicle)
    BY <1>7 DEF CheckVehicleFree, Check
  <2>2. req[r] # Idle /\ req[r].at = "vehicleFree"
        /\ req[r] \in [at: Points, op: Op, row: Trip, km: Km]
    BY <1>3, <1>p, <2>1
  <2>3. r \notin overtaken => Checked(req[r], trips, loose)
    BY <1>t, <2>2 DEF RowsHeld, FreshRow
  <2>4. CASE Goes(r, Idle)
    BY <1>i, <2>4
  <2>5. CASE ~Goes(r, Idle)
    <3>1. r \notin overtaken => Checked([req[r] EXCEPT !.at = "write"], trips, loose)
      BY <1>d, <2>1, <2>2, <2>3, <2>5 DEF Checked, OthersOnRoad
    <3> QED
      BY <1>0, <1>p, <2>1, <2>5, <3>1, RowAdvances
  <2> QED
    BY <2>4, <2>5
<1>8. RowsHeld'
  BY <1>1, <1>2, <1>4, <1>5, <1>6, <1>7
<1> QED
  BY <1>0, <1>s, <1>8 DEF FreshInv

\* The writes other than a change of status: an edit, or a deletion, that nobody overtook
\* finds its trip in its planning, or cancelled.
LEMMA FreshWritten ==
  ASSUME FreshInv, Watch, NEW r \in Requests,
         ApplyStartDetails(r) \/ CommitFuel(r) \/ CommitEdit(r) \/ CommitDelete(r)
  PROVE  FreshInv' /\ FinalKept
<1>t. TablesOK /\ TripInv /\ RowsHeld /\ TablesHold /\ loose \subseteq loose'
  BY LooseGrows DEF FreshInv, TripInv
<1>0. TripInv'
  BY <1>t, TripWritten
<1>1. req[r] \in [at: Points, op: Op, row: Trip, km: Km]
  BY <1>t, RequestType DEF ApplyStartDetails, CommitFuel, CommitEdit, CommitDelete, Points
<1>2. req[r] # Idle /\ HeldTrip(req[r], trips)
  BY <1>1, <1>t, IdleIsNoPoint DEF TripInv
<1>5. CASE ApplyStartDetails(r)
  <2>1. At(r, "details") /\ UNCHANGED <<trips, periods>> /\ Advance(r, "reread")
    BY <1>5 DEF ApplyStartDetails
  <2>2. req[r].op.kind = "start"
    BY <1>2, <2>1 DEF HeldTrip, At
  <2>3. PICK q : q = [req[r] EXCEPT !.at = "reread"]
    OBVIOUS
  <2>4. /\ q.at = "reread" /\ q.op = req[r].op /\ q.row = req[r].row
        /\ q \in [at: Points, op: Op, row: Trip, km: Km]
    BY <1>1, <2>3 DEF Points
  <2>5. Checked(q, trips, loose') /\ q.op.kind \notin {"edit", "delete"}
    BY <2>2, <2>4 DEF Checked
  <2>6. Goes(r, q) /\ req'[r] = q
    BY <1>t, <2>1, <2>3 DEF Advance, Goes, TablesOK
  <2>7. ASSUME r \notin overtaken' PROVE FreshRow(q, trips', loose')
    <3>1. r \notin overtaken
      BY <1>2, <2>1, <2>4, <2>6, <2>7, IdleIsNoPoint, NotOvertaken DEF At
    <3>2. FreshRow(req[r], trips, loose)
      BY <1>t, <3>1 DEF RowsHeld
    <3> QED
      BY <1>2, <2>1, <2>4, <2>5, <3>2 DEF FreshRow
  <2>8. RowsHeld'
    BY <1>t, <2>6, <2>7, RowsStay
  <2>9. TablesHold' /\ FinalKept
    BY <1>t, <2>1, SameTables
  <2> QED
    BY <1>0, <2>8, <2>9 DEF FreshInv
<1>6. CASE CommitFuel(r)
  <2>1. UNCHANGED <<trips, periods>> /\ Goes(r, Idle)
    BY <1>6 DEF CommitFuel
  <2>2. TablesHold' /\ FinalKept
    BY <1>t, <2>1, SameTables
  <2> QED
    BY <1>0, <1>t, <2>1, <2>2, RowsStayAtEnd DEF FreshInv
<1>7. CASE CommitEdit(r) \/ CommitDelete(r)
  <2>1. Goes(r, Idle) /\ odometer' = odometer /\ periods' = periods /\ At(r, "write")
    BY <1>7 DEF CommitEdit, CommitDelete
  <2>2. PICK u \in Trips : u = req[r].op.trip
    BY <1>1, OpType
  <2>3. /\ \A t \in Trips : /\ trips'[t].status = trips[t].status
                            /\ trips'[t].departed = trips[t].departed
        /\ \A t \in Trips \ {u} : trips'[t] = trips[t]
    BY <1>t, <1>7, <2>2 DEF CommitEdit, CommitDelete, TablesOK, Trip
  <2>w. ASSUME u \notin loose' PROVE r \notin overtaken
    <3>1. req'[r] = Idle
      BY <1>t, <2>1 DEF Goes, TablesOK
    <3>2. Writes(r)
      BY <1>2, <1>7, <2>1, <3>1 DEF Writes, CommitEdit, CommitDelete
    <3> QED
      BY <2>w, <2>2, <3>2, OvertakenWrites
  <2>f. ASSUME u \notin loose'
        PROVE  /\ trips[u] = req[r].row /\ ~trips[u].deleted
               /\ req[r].op.kind = "edit" => trips[u].status = "PLANNED"
               /\ req[r].op.kind = "delete" => trips[u].status \in Deletable
    BY <1>t, <1>2, <2>2, <2>w, <2>f DEF RowsHeld, FreshRow
  <2>4. u \notin loose' => trips[u].status \notin OnRoad
    BY <1>7, <2>f DEF CommitEdit, CommitDelete, Deletable, OnRoad
  <2>5. u \notin loose' => (trips'[u].deleted => trips[u].status \in {"PLANNED", "CANCELLED"})
    <3>1. CASE CommitEdit(r)
      <4>1. trips'[u].deleted = trips[u].deleted
        BY <1>t, <2>2, <3>1 DEF CommitEdit, TablesOK, Trip
      <4> QED
        BY <2>f, <4>1
    <3>2. CASE CommitDelete(r)
      BY <2>f, <3>2 DEF CommitDelete, Deletable
    <3> QED
      BY <1>7, <3>1, <3>2
  <2>6. FinalKept
    BY <2>3 DEF FinalKept
  <2>7. DeletedNeverRan'
    BY <1>t, <2>3, <2>5 DEF TablesHold, DeletedNeverRan
  <2>8. ApartUnlessOvertaken'
    BY <1>t, <2>3, <2>4 DEF TablesHold, ApartUnlessOvertaken
  <2>9. RoadIsNotIdle'
    BY <1>t, <2>1, <2>3, <2>4 DEF TablesHold, RoadIsNotIdle
  <2>10. RowsHeld'
    BY <1>t, <2>1, RowsStayAtEnd
  <2> QED
    BY <1>0, <2>6, <2>7, <2>8, <2>9, <2>10 DEF FreshInv, TablesHold
<1> QED
  BY <1>5, <1>6, <1>7

\* A start ends the open periods of its vehicle, and leaves every period its vehicle and
\* the trip before it.
LEMMA ClosedPeriods ==
  ASSUME TablesOK, NEW vehicle, NEW after \in Trips, periods' = Closed(vehicle, after)
  PROVE  /\ DOMAIN periods' = DOMAIN periods
         /\ \A n \in DOMAIN periods :
              /\ periods'[n].vehicle = periods[n].vehicle
              /\ periods'[n].manual = periods[n].manual
              /\ periods'[n].before = periods[n].before
              /\ periods[n].ended \/ periods[n].vehicle = vehicle => periods'[n].ended
<1>1. DOMAIN periods' = DOMAIN periods
  BY DEF Closed
<1>2. \A n \in DOMAIN periods :
        \/ periods'[n] = [periods[n] EXCEPT !.ended = TRUE, !.after = after]
        \/ periods'[n] = periods[n] /\ (periods[n].ended \/ periods[n].vehicle # vehicle)
  BY DEF Closed, Closable
<1>3. \A n \in DOMAIN periods : periods[n] \in Period
  BY DEF TablesOK
<1> QED
  BY <1>1, <1>2, <1>3 DEF Period

\* The change of status: a start that nobody overtook finds its driver and its vehicle
\* free, and ends their idle period; a completion leaves no other trip of the vehicle on
\* the road.  What an overtaken request writes is loose.
LEMMA FreshStatus ==
  ASSUME FreshInv, Watch, NEW r \in Requests, CommitStatus(r)
  PROVE  FreshInv' /\ FinalKept
<1>t. /\ TablesOK /\ TripInv /\ RowsHeld /\ loose \subseteq loose'
      /\ ApartUnlessOvertaken /\ RoadIsNotIdle /\ DeletedNeverRan
  BY LooseGrows DEF FreshInv, TripInv, TablesHold
<1>0. TripInv'
  BY <1>t, TripStatus
<1>1. At(r, "write") /\ req[r].op.kind \in {"status", "start"} /\ Goes(r, Idle)
  BY DEF CommitStatus
<1>2. req[r] \in [at: Points, op: Op, row: Trip, km: Km] /\ req[r] # Idle
  BY <1>1, <1>t, RequestType, IdleIsNoPoint DEF Points
<1>3. PICK op \in Op, row \in Trip : op = req[r].op /\ row = req[r].row
  BY <1>2
<1>4. PICK u \in Trips : u = op.trip
  BY OpType
<1>5. row.vehicle \in Vehicles \cup {None} /\ op.to \in Status
  BY <1>1, <1>3, OpType DEF Trip
<1>w. u \notin loose' => r \notin overtaken
  <2>1. req'[r] = Idle
    BY <1>t, <1>1 DEF Goes, TablesOK
  <2>2. Writes(r)
    BY <1>1, <1>2, <2>1 DEF Writes
  <2> QED
    BY <1>3, <1>4, <2>2, OvertakenWrites
<1>f. u \notin loose' => FreshRow(req[r], trips, loose) /\ row = trips[u] /\ ~row.deleted
  BY <1>t, <1>2, <1>3, <1>4, <1>w DEF RowsHeld, FreshRow
<1>6. op.to \in ALLOWED_TRANSITIONS[row.status]
  BY <1>t, <1>1, <1>2, <1>3 DEF TripInv, HeldTrip, At
<1>7. /\ row.status \notin Terminal
      /\ op.to = "PAUSED" => row.status \in OnRoad
      /\ op.to = "COMPLETED" => row.status \in OnRoad
      /\ row.status \in OnRoad => op.to \in OnRoad \cup Terminal
  BY <1>6 DEF ALLOWED_TRANSITIONS, Status, Terminal, OnRoad, Trip
<1>8. trips' = [trips EXCEPT ![u].status = op.to, ![u].departed = @ \/ op.to = "IN_PROGRESS"]
  BY <1>3, <1>4 DEF CommitStatus
<1>9. /\ trips'[u].status = op.to /\ trips'[u].driver = trips[u].driver
      /\ trips'[u].vehicle = trips[u].vehicle /\ trips'[u].deleted = trips[u].deleted
      /\ trips'[u].departed = (trips[u].departed \/ op.to = "IN_PROGRESS")
      /\ \A t \in Trips \ {u} : trips'[t] = trips[t]
  BY <1>t, <1>8 DEF TablesOK, Trip
<1>10. FinalKept
  BY <1>f, <1>7, <1>9 DEF FinalKept
<1>11. DeletedNeverRan'
  <2>1. u \notin loose' /\ trips'[u].departed => trips'[u].status \in OnRoad \cup Terminal
    BY <1>t, <1>f, <1>7, <1>9 DEF DeletedNeverRan, OnRoad
  <2>2. u \notin loose' => ~trips'[u].deleted
    BY <1>f, <1>9
  <2> QED
    BY <1>t, <1>9, <2>1, <2>2 DEF DeletedNeverRan
<1>13. ASSUME u \notin loose', op.to \in OnRoad,
              NEW t \in Trips \ ({u} \cup loose), trips[t].status \in OnRoad
       PROVE  trips[t].driver # row.driver /\ (trips[t].vehicle = row.vehicle => row.vehicle = None)
  <2>1. CASE op.to = "IN_PROGRESS"
    <3>1. Starts(op)
      BY <1>1, <1>3, <2>1 DEF Starts
    <3>2. Checked(req[r], trips, loose)
      BY <1>f, <1>2, <1>3, <1>13, <3>1 DEF FreshRow
    <3> QED
      BY <1>1, <1>3, <1>4, <1>13, <3>2 DEF Checked, At
  <2>2. CASE op.to = "PAUSED"
    BY <1>t, <1>f, <1>7, <1>13, <2>2 DEF ApartUnlessOvertaken
  <2> QED
    BY <1>13, <2>1, <2>2 DEF OnRoad
<1>14. ApartUnlessOvertaken'
  BY <1>t, <1>f, <1>9, <1>13 DEF ApartUnlessOvertaken
<1>16. /\ \/ periods' = periods
          \/ row.vehicle # None /\ op.to = "COMPLETED" /\ periods' = Opened(row.vehicle, u)
          \/ row.vehicle # None /\ op.to = "IN_PROGRESS" /\ periods' = Closed(row.vehicle, u)
       /\ op.to = "IN_PROGRESS" /\ row.vehicle # None /\ ~row.departed
            => periods' = Closed(row.vehicle, u)
  BY <1>3, <1>4 DEF CommitStatus
<1>17. \A n \in DOMAIN periods : periods[n] \in Period /\ periods[n].vehicle # None
  <2>1. \A n \in DOMAIN periods : periods[n] \in Period
    BY <1>t DEF TablesOK
  <2> QED
    BY <2>1, NoneAssumption DEF Period
<1>18. RoadIsNotIdle'
  <2> SUFFICES ASSUME NEW t \in Trips \ loose', NEW n \in DOMAIN periods',
                      trips'[t].status \in OnRoad,
                      periods'[n].vehicle = trips'[t].vehicle, periods'[n].before \notin loose'
               PROVE  periods'[n].ended \/ periods'[n].manual
    BY DEF RoadIsNotIdle
  <2>t. t \in Trips \ loose
    BY <1>t
  <2>1. ASSUME NEW k \in DOMAIN periods, periods[k].vehicle = trips'[t].vehicle,
               periods[k].before \notin loose',
               ~(t = u /\ periods' = Closed(row.vehicle, u))
        PROVE  periods[k].ended \/ periods[k].manual
    <3>0. periods[k].before \notin loose
      BY <1>t, <2>1
    <3>1. CASE t # u
      BY <1>t, <1>9, <2>t, <2>1, <3>0, <3>1 DEF RoadIsNotIdle
    <3>2. CASE t = u
      <4>0. row = trips[u]
        BY <1>f, <3>2
      <4>1. row.vehicle # None /\ op.to \in OnRoad
        BY <1>9, <1>17, <2>1, <3>2, <4>0
      <4>2. row.status \in OnRoad
        <5>1. CASE op.to = "PAUSED"
          BY <1>7, <5>1
        <5>2. CASE op.to = "IN_PROGRESS"
          <6>1. row.departed
            BY <1>16, <2>1, <3>2, <4>1, <5>2
          <6> QED
            BY <1>t, <1>7, <2>t, <3>2, <4>0, <6>1 DEF DeletedNeverRan
        <5> QED
          BY <4>1, <5>1, <5>2 DEF OnRoad
      <4> QED
        BY <1>t, <1>9, <2>t, <2>1, <3>0, <3>2, <4>0, <4>2 DEF RoadIsNotIdle
    <3> QED
      BY <3>1, <3>2
  <2>2. CASE periods' = periods /\ periods # Closed(row.vehicle, u)
    BY <2>1, <2>2
  <2>3. CASE row.vehicle # None /\ op.to = "COMPLETED" /\ periods' = Opened(row.vehicle, u)
    <3>1. op.to \notin OnRoad
      BY <2>3 DEF OnRoad
    <3>2. t # u
      BY <1>9, <3>1
    <3>3. u \notin loose' => trips[t].vehicle # row.vehicle /\ trips'[t] = trips[t]
      BY <1>t, <1>f, <1>7, <1>9, <2>t, <2>3, <3>2 DEF ApartUnlessOvertaken
    <3>4. PICK p : p = [vehicle |-> row.vehicle, ended |-> FALSE, manual |-> FALSE,
                        before |-> u, after |-> None]
      OBVIOUS
    <3>5. /\ p.vehicle = row.vehicle /\ p.before = u
          /\ periods' = periods \/ periods' = Append(periods, p)
      BY <2>3, <3>4 DEF Opened
    <3>6. (n \in DOMAIN periods /\ periods'[n] = periods[n]) \/ periods'[n] = p
      BY <1>t, <3>5 DEF TablesOK
    <3> QED
      BY <2>1, <3>2, <3>3, <3>5, <3>6
  <2>4. CASE periods' = Closed(row.vehicle, u)
    <3>1. n \in DOMAIN periods
      BY <1>t, <2>4, ClosedPeriods
    <3>2. /\ periods'[n].vehicle = periods[n].vehicle
          /\ periods'[n].manual = periods[n].manual
          /\ periods'[n].before = periods[n].before
          /\ periods[n].ended \/ periods[n].vehicle = row.vehicle => periods'[n].ended
      BY <1>t, <2>4, <3>1, ClosedPeriods
    <3>3. CASE t = u
      BY <1>f, <1>9, <3>2, <3>3
    <3>4. CASE t # u
      BY <2>1, <3>1, <3>2, <3>4
    <3> QED
      BY <3>3, <3>4
  <2> QED
    BY <1>16, <2>2, <2>3, <2>4
<1>19. RowsHeld'
  BY <1>t, <1>1, RowsStayAtEnd
<1> QED
  BY <1>0, <1>10, <1>11, <1>14, <1>18, <1>19 DEF FreshInv, TablesHold

\* The office enters idle periods by hand, and ends any.
LEMMA FreshOffice ==
  ASSUME FreshInv, Watch,
         \/ \E d \in Drivers : SwitchDriver(d)
         \/ \E v \in Vehicles : SwitchVehicle(v) \/ UpdateVehicle(v) \/ CreatePeriod(v)
         \/ EndPeriod
  PROVE  FreshInv' /\ FinalKept
<1>t. /\ TablesOK /\ TripInv /\ RowsHeld /\ loose \subseteq loose'
      /\ ApartUnlessOvertaken /\ RoadIsNotIdle /\ DeletedNeverRan
  BY LooseGrows DEF FreshInv, TripInv, TablesHold
<1>0. TripInv'
  BY <1>t, TripOffice
<1>1. UNCHANGED <<trips, req>>
  BY DEF SwitchDriver, SwitchVehicle, UpdateVehicle, CreatePeriod, EndPeriod
<1>2. ASSUME NEW n \in DOMAIN periods'
      PROVE  \/ periods'[n].manual \/ periods'[n].ended
             \/ n \in DOMAIN periods /\ periods'[n] = periods[n]
  <2>1. CASE periods' = periods
    BY <1>2, <2>1
  <2>2. CASE \E v \in Vehicles : CreatePeriod(v)
    <3>1. PICK p : p.manual /\ periods' = Append(periods, p)
      BY <2>2 DEF CreatePeriod
    <3>2. (n \in DOMAIN periods /\ periods'[n] = periods[n]) \/ periods'[n] = p
      BY <1>t, <1>2, <3>1 DEF TablesOK
    <3> QED
      BY <3>1, <3>2
  <2>3. CASE EndPeriod
    <3>1. PICK k \in DOMAIN periods : periods' = [periods EXCEPT ![k].ended = TRUE]
      BY <2>3 DEF EndPeriod
    <3>2. n \in DOMAIN periods /\ periods[k] \in Period
      BY <1>t, <1>2, <3>1 DEF TablesOK
    <3> QED
      BY <3>1, <3>2 DEF Period
  <2> QED
    BY <2>1, <2>2, <2>3 DEF SwitchDriver, SwitchVehicle, UpdateVehicle
<1>3. RoadIsNotIdle'
  BY <1>t, <1>1, <1>2 DEF RoadIsNotIdle
<1>4. ApartUnlessOvertaken' /\ DeletedNeverRan' /\ FinalKept
  BY <1>t, <1>1 DEF ApartUnlessOvertaken, DeletedNeverRan, FinalKept
<1>5. RowsHeld'
  <2>1. \A s \in Requests \ overtaken' : FreshRow(req'[s], trips', loose')
    BY <1>t, <1>1, RowStays
  <2> QED
    BY <2>1 DEF RowsHeld
<1> QED
  BY <1>0, <1>3, <1>4, <1>5 DEF FreshInv, TablesHold

LEMMA FreshStep ==
  ASSUME FreshInv, [Next]_vars
  PROVE  FreshInv' /\ FinalKept
<1>1. CASE UNCHANGED vars
  <2>1. TripInv'
    BY TripStep DEF FreshInv
  <2>2. UNCHANGED <<trips, periods, req, overtaken, loose>>
    BY <1>1 DEF vars, tables, history
  <2>3. TablesHold' /\ FinalKept
    BY <2>2, SameTables DEF FreshInv
  <2>4. RowsHeld'
    BY <2>2 DEF FreshInv, RowsHeld
  <2> QED
    BY <2>1, <2>3, <2>4 DEF FreshInv
<1>2. CASE Watch /\ \E r \in Requests : Handle(r)
  BY <1>2, FreshRead, FreshWritten, FreshStatus DEF Handle
<1>3. CASE /\ Watch
           /\ \/ \E d \in Drivers : SwitchDriver(d)
              \/ \E v \in Vehicles : SwitchVehicle(v) \/ UpdateVehicle(v) \/ CreatePeriod(v)
              \/ EndPeriod
  BY <1>3, FreshOffice
<1> QED
  BY <1>1, <1>2, <1>3 DEF Next, Steps

LEMMA FreshStart ==
  ASSUME Init
  PROVE  FreshInv
<1>1. \A t \in Trips : trips[t].status = "PLANNED" /\ ~trips[t].departed /\ ~trips[t].deleted
  BY DEF Init
<1>2. RowsHeld
  BY DEF Init, RowsHeld, FreshRow
<1>3. TablesHold
  BY <1>1 DEF TablesHold, ApartUnlessOvertaken, RoadIsNotIdle, DeletedNeverRan, OnRoad
<1> QED
  BY <1>2, <1>3, TripStart DEF FreshInv

----
(***************************************************************************)
(* Odometers.                                                               *)
(***************************************************************************)

\* The reading that a request compares with is the one its vehicle shows.
FreshKm(q, km) ==
  q # Idle /\ q.at # "reread" /\ q.row.vehicle # None => q.km = km[q.row.vehicle]

KmHeld == \A r \in Requests \ outrun : FreshKm(req[r], odometer)

\* What OdometerNeverGoesBack says of one step.
OdometerKept ==
  \A r \in Requests \ outrun :
    req'[r] # req[r] => \A v \in Vehicles : odometer'[v] >= odometer[v]

\* A request that goes on with the reading it had, and is not outrun, never was.
LEMMA NotOutrun ==
  ASSUME Watch, NEW s \in Requests \ outrun', req[s] # Idle, req'[s] # Idle,
         At(s, "reread") => req'[s] = req[s]
  PROVE  s \notin outrun /\ ~Outruns(s)
BY DEF Watch, Holding

\* It is enough to look at the request that takes the step.
LEMMA KmStays ==
  ASSUME TablesOK, KmHeld, Watch,
         \A s \in Requests \ outrun' : req'[s] # req[s] => FreshKm(req'[s], odometer')
  PROVE  KmHeld'
<1>1. ASSUME NEW s \in Requests \ outrun', req'[s] = req[s], req[s] # Idle
      PROVE  FreshKm(req[s], odometer')
  <2>1. s \notin outrun /\ ~Outruns(s)
    BY <1>1, NotOutrun
  <2> QED
    BY <2>1 DEF KmHeld, FreshKm, Outruns
<1>2. \A s \in Requests \ outrun' : FreshKm(req'[s], odometer')
  BY <1>1 DEF FreshKm
<1> QED
  BY <1>2 DEF KmHeld

\* Readings only grow when they are compared with what the vehicle shows now.
LEMMA BumpedGrows ==
  ASSUME TablesOK, NEW vehicle \in Vehicles \cup {None}, NEW km \in Reading, NEW current \in Km,
         vehicle # None => current = odometer[vehicle],
         odometer' = Bumped(vehicle, km, current)
  PROVE  \A v \in Vehicles : odometer'[v] >= odometer[v]
<1>1. \A v \in Vehicles : odometer[v] \in Nat
  BY NoneAssumption DEF TablesOK, Km
<1>2. CASE vehicle # None /\ km # None /\ km > current
  <2>1. vehicle \in Vehicles /\ km \in Nat
    BY <1>2, NoneAssumption DEF Reading, Km
  <2>2. odometer' = [odometer EXCEPT ![vehicle] = km]
    BY <1>2 DEF Bumped
  <2>3. \A v \in Vehicles : odometer'[v] = IF v = vehicle THEN km ELSE odometer[v]
    BY <2>2 DEF TablesOK
  <2>4. km > odometer[vehicle]
    BY <1>2
  <2> QED
    BY <1>1, <2>1, <2>3, <2>4
<1>3. CASE ~(vehicle # None /\ km # None /\ km > current)
  <2>1. odometer' = odometer
    BY <1>3 DEF Bumped
  <2> QED
    BY <1>1, <2>1
<1> QED
  BY <1>2, <1>3

\* A handler compares with what it read, and what nobody outran is what the vehicle shows.
LEMMA KmHandled ==
  ASSUME TripInv, KmHeld, Watch, NEW r \in Requests, Handle(r)
  PROVE  KmHeld' /\ OdometerKept
<1>t. TablesOK /\ \A v \in Vehicles : odometer[v] \in Nat
  BY NoneAssumption DEF TripInv, TablesOK, Km
<1>1. \A s \in Requests : req'[s] # req[s] => s = r
  BY <1>t DEF TablesOK, Handle, Goes, Advance, Check, Receive, ApplyStartDetails, Reread,
            CheckDriver, CheckDriverFree, CheckVehicle, CheckVehicleFree,
            CommitStatus, CommitFuel, CommitEdit, CommitDelete
<1>k. ASSUME NEW q, Goes(r, q), r \notin outrun' => FreshKm(q, odometer')
      PROVE  KmHeld'
  <2>1. req'[r] = q
    BY <1>t, <1>k DEF Goes, TablesOK
  <2> QED
    BY <1>t, <1>1, <1>k, <2>1, KmStays
<1>i. ASSUME Goes(r, Idle) PROVE KmHeld'
  BY <1>i, <1>k DEF FreshKm
<1>o. ASSUME \/ r \in outrun
             \/ \A v \in Vehicles : odometer'[v] >= odometer[v]
      PROVE  OdometerKept
  BY <1>1, <1>o DEF OdometerKept
<1>h. ASSUME NEW point \in Points, At(r, point)
      PROVE  /\ req[r] \in [at: Points, op: Op, row: Trip, km: Km]
             /\ req[r] # Idle /\ req[r].at = point
             /\ req[r].row.vehicle \in Vehicles \cup {None} /\ req[r].km \in Km
             /\ HeldTrip(req[r], trips)
  BY <1>t, <1>h, RequestType, IdleIsNoPoint DEF At, Trip, TripInv
<1>w. ASSUME NEW point \in Points \ {"reread"}, At(r, point), NEW km \in Reading,
             odometer' = Bumped(req[r].row.vehicle, km, req[r].km)
      PROVE  OdometerKept
  <2>1. CASE r \in outrun
    BY <1>o, <2>1
  <2>2. CASE r \notin outrun
    <3>1. FreshKm(req[r], odometer)
      BY <2>2 DEF KmHeld
    <3>2. req[r].row.vehicle # None => req[r].km = odometer[req[r].row.vehicle]
      BY <1>h, <1>w, <3>1 DEF FreshKm
    <3>3. req[r].row.vehicle \in Vehicles \cup {None} /\ req[r].km \in Km
      BY <1>h, <1>w
    <3>4. \A v \in Vehicles : odometer'[v] >= odometer[v]
      BY <1>t, <1>w, <3>2, <3>3, BumpedGrows
    <3> QED
      BY <1>o, <3>4
  <2> QED
    BY <2>1, <2>2
<1>s. ASSUME odometer' = odometer PROVE OdometerKept
  BY <1>t, <1>o, <1>s
<1>p. {"details", "reread", "driver", "driverFree", "vehicle", "vehicleFree", "write"} = Points
  BY DEF Points
<1>2. CASE Receive(r)
  <2>1. PICK op \in Op :
          Goes(r, [at |-> FirstPoint(op), op |-> op, row |-> trips[op.trip],
                   km |-> OdometerOf(trips[op.trip])])
    BY <1>2 DEF Receive
  <2>2. odometer' = odometer
    BY <1>2 DEF Receive, Unread
  <2>3. FreshKm([at |-> FirstPoint(op), op |-> op, row |-> trips[op.trip],
                 km |-> OdometerOf(trips[op.trip])], odometer')
    BY <2>2 DEF FreshKm, OdometerOf
  <2>4. KmHeld'
    BY <1>k, <2>1, <2>3
  <2> QED
    BY <1>s, <2>2, <2>4
<1>3. CASE Reread(r)
  <2>0. odometer' = odometer /\ At(r, "reread")
    BY <1>3 DEF Reread, Unread
  <2>1. CASE Goes(r, Idle)
    BY <1>i, <1>s, <2>0, <2>1
  <2>2. CASE ~Goes(r, Idle)
    <3>1. PICK row : /\ row = trips[req[r].op.trip]
                     /\ Goes(r, [req[r] EXCEPT !.at = "driver", !.row = row,
                                               !.km = OdometerOf(row)])
      BY <1>3, <2>2 DEF Reread
    <3>2. PICK q : q = [req[r] EXCEPT !.at = "driver", !.row = row, !.km = OdometerOf(row)]
      OBVIOUS
    <3>3. q.row = row /\ q.km = OdometerOf(row)
      BY <1>h, <1>p, <2>0, <3>2
    <3>4. FreshKm(q, odometer')
      BY <2>0, <3>3 DEF FreshKm, OdometerOf
    <3>5. KmHeld'
      BY <1>k, <3>1, <3>2, <3>4
    <3> QED
      BY <1>s, <2>0, <3>5
  <2> QED
    BY <2>1, <2>2
<1>4. CASE CheckDriver(r) \/ CheckDriverFree(r) \/ CheckVehicle(r) \/ CheckVehicleFree(r)
  <2>1. /\ odometer' = odometer
        /\ At(r, "driver") \/ At(r, "driverFree") \/ At(r, "vehicle") \/ At(r, "vehicleFree")
    BY <1>4 DEF CheckDriver, CheckDriverFree, CheckVehicle, CheckVehicleFree, Unread
  <2>2. \/ Goes(r, Idle)
        \/ \E next \in Points : Advance(r, next)
    BY <1>4, <1>p DEF CheckDriver, CheckDriverFree, CheckVehicle, CheckVehicleFree, Check
  <2>3. CASE Goes(r, Idle)
    BY <1>i, <1>s, <2>1, <2>3
  <2>4. CASE \E next \in Points : Advance(r, next)
    <3>1. PICK next \in Points : Goes(r, [req[r] EXCEPT !.at = next])
      BY <2>4 DEF Advance
    <3>2. PICK q : q = [req[r] EXCEPT !.at = next]
      OBVIOUS
    <3>3. /\ req[r] # Idle /\ q.row = req[r].row /\ q.km = req[r].km /\ req[r].at # "reread"
          /\ q \in [at: Points, op: Op, row: Trip, km: Km]
      BY <1>h, <1>p, <2>1, <3>2
    <3>4. req'[r] = q
      BY <1>t, <3>1, <3>2 DEF Goes, TablesOK
    <3>5. ASSUME r \notin outrun' PROVE FreshKm(q, odometer')
      <4>1. r \notin outrun
        BY <3>3, <3>4, <3>5, IdleIsNoPoint, NotOutrun DEF At
      <4>2. FreshKm(req[r], odometer)
        BY <4>1 DEF KmHeld
      <4> QED
        BY <2>1, <3>3, <4>2 DEF FreshKm
    <3>6. KmHeld'
      BY <1>k, <3>1, <3>2, <3>5
    <3> QED
      BY <1>s, <2>1, <3>6
  <2> QED
    BY <2>2, <2>3, <2>4
<1>5. CASE ApplyStartDetails(r)
  <2>1. /\ At(r, "details") /\ Goes(r, [req[r] EXCEPT !.at = "reread"])
        /\ odometer' = Bumped(req[r].row.vehicle, req[r].op.km, req[r].km)
    BY <1>5 DEF ApplyStartDetails, Advance
  <2>2. req[r].op \in Op /\ req[r].op.kind = "start"
    BY <1>h, <1>p, <2>1 DEF HeldTrip
  <2>3. req[r].op.km \in Reading
    BY <2>2, OpType
  <2>4. OdometerKept
    BY <1>w, <1>p, <2>1, <2>3
  <2>5. FreshKm([req[r] EXCEPT !.at = "reread"], odometer')
    BY <1>h, <1>p, <2>1 DEF FreshKm
  <2>6. KmHeld'
    BY <1>k, <2>1, <2>5
  <2> QED
    BY <2>4, <2>6
<1>6. CASE CommitStatus(r) \/ CommitFuel(r)
  <2>1. /\ At(r, "write") /\ Goes(r, Idle) /\ req[r].op.kind \in {"status", "start", "fuel"}
        /\ \/ odometer' = odometer
           \/ odometer' = Bumped(req[r].row.vehicle, req[r].op.km, req[r].km)
    BY <1>6 DEF CommitStatus, CommitFuel
  <2>2. req[r].op \in Op
    BY <1>h, <1>p, <2>1
  <2>3. req[r].op.km \in Reading
    BY <2>1, <2>2, OpType DEF Reading
  <2>4. OdometerKept
    BY <1>s, <1>w, <1>p, <2>1, <2>3
  <2> QED
    BY <1>i, <2>1, <2>4
<1>7. CASE CommitEdit(r) \/ CommitDelete(r)
  BY <1>7, <1>i, <1>s DEF CommitEdit, CommitDelete
<1> QED
  BY <1>2, <1>3, <1>4, <1>5, <1>6, <1>7 DEF Handle

LEMMA KmStep ==
  ASSUME TripInv, KmHeld, [Next]_vars
  PROVE  KmHeld' /\ OdometerKept
<1>1. CASE UNCHANGED vars
  BY <1>1 DEF vars, tables, history, KmHeld, OdometerKept
<1>2. CASE Watch /\ \E r \in Requests : Handle(r)
  BY <1>2, KmHandled
<1>3. CASE Watch /\ req' = req
  BY <1>3, KmStays DEF OdometerKept, TripInv
<1>4. Next => \/ Watch /\ \E r \in Requests : Handle(r)
              \/ Watch /\ req' = req
  BY DEF Next, Steps, SwitchDriver, SwitchVehicle, UpdateVehicle, CreatePeriod, EndPeriod
<1> QED
  BY <1>1, <1>2, <1>3, <1>4

----
(***************************************************************************)
(* The theorems about the checks.                                           *)
(***************************************************************************)

\* What a request that nobody overtook has read is what the tables hold, and the checks
\* it has made are true when it writes, whatever other requests do.
THEOREM FreshInvariance == Spec => []FreshInv
<1>1. Init => FreshInv
  BY FreshStart
<1>2. FreshInv /\ [Next]_vars => FreshInv'
  BY FreshStep
<1> QED
  BY <1>1, <1>2, PTL DEF Spec

\* Two starts put one driver, or one vehicle, on the road with two trips only when one of
\* them was overtaken between its checks and its write.
THEOREM TripsApart == Spec => []ApartUnlessOvertaken
<1>1. FreshInv => ApartUnlessOvertaken
  BY DEF FreshInv, TablesHold
<1> QED
  BY <1>1, FreshInvariance, PTL

\* A vehicle on the road is in no idle period that the end of a trip opened, whatever the
\* office enters or ends meanwhile, but for trips that an overtaken request wrote.
THEOREM RoadNotIdle == Spec => []RoadIsNotIdle
<1>1. FreshInv => RoadIsNotIdle
  BY DEF FreshInv, TablesHold
<1> QED
  BY <1>1, FreshInvariance, PTL

\* A deleted trip is in its planning or cancelled, and a trip in its planning never left,
\* but for trips that an overtaken request wrote.
THEOREM DeletedTripsNeverRan == Spec => []DeletedNeverRan
<1>1. FreshInv => DeletedNeverRan
  BY DEF FreshInv, TablesHold
<1> QED
  BY <1>1, FreshInvariance, PTL

\* A completed or cancelled trip stays so, until an overtaken request writes it.
THEOREM TerminalStays == Spec => TerminalIsFinal
<1>1. FreshInv /\ [Next]_vars => FinalKept
  BY FreshStep
<1>2. FinalKept <=>
        \A t \in Trips \ loose' :
          trips[t].status \in Terminal => trips'[t].status = trips[t].status
  BY DEF FinalKept
<1> QED
  BY <1>1, <1>2, FreshInvariance, PTL DEF Spec, TerminalIsFinal

\* A handler takes an odometer back only when another step changed its vehicle's reading
\* after it had read it.
THEOREM OdometerOnlyGrows == Spec => OdometerNeverGoesBack
<1>1. Init => KmHeld
  BY DEF Init, KmHeld, FreshKm
<1>2. TripInv /\ KmHeld /\ [Next]_vars => KmHeld' /\ OdometerKept
  BY KmStep
<1>3. OdometerKept <=>
        \A r \in Requests \ outrun :
          req'[r] # req[r] => \A v \in Vehicles : odometer'[v] >= odometer[v]
  BY DEF OdometerKept
<1> QED
  BY <1>1, <1>2, <1>3, TripInvariance, PTL DEF Spec, OdometerNeverGoesBack

=============================================================================

----------------------------- MODULE TripLifecycle -----------------------------
(***************************************************************************)
(* Dispatching trips: TripsService.updateStatus with the checks that let a  *)
(* trip start, its effects on the vehicle's odometer and idle periods, and  *)
(* the handlers that race with it (the driver's start, an edit, a delete, a *)
(* fuel supply).                                                            *)
(*                                                                          *)
(* A handler reads rows, checks them, and writes by id what it computed     *)
(* from the rows it read; every await of a query is a step, and what was    *)
(* read stays in the request.  The write is one transaction.                *)
(***************************************************************************)
EXTENDS Integers, Sequences, FiniteSets

CONSTANTS
  Trips, Drivers, Vehicles,
  Requests,        \* bound: API requests handled at once
  None,            \* no vehicle (its composition was unlinked), no trip, no reading
  MaxKm,           \* bound: highest odometer reading
  MaxPeriods,      \* bound: idle periods
  Workloads        \* bound: the ways to share what arrives among the requests

ASSUME NoneAssumption ==
  /\ None \notin Trips \cup Vehicles
  /\ MaxKm \in Nat /\ None \notin 0..MaxKm

VARIABLES
  trips,      \* Trip rows
  active,     \* drivers with isActive
  fleet,      \* vehicles with status ACTIVE
  odometer,   \* Vehicle.odometerKm
  periods,    \* VehicleIdlePeriod rows, in the order they were inserted
  req,        \* the requests being handled, with what they have read
  workload    \* the kinds of requests each may be, in this behaviour

\* History: what the properties speak of and no step looks at.
VARIABLES
  overtaken,  \* requests whose trip another step moved, or whose driver or vehicle it
              \* put on the road, after they read them
  outrun,     \* requests whose vehicle got another reading after they read its odometer
  loose       \* trips that an overtaken request wrote

tables == <<trips, active, fleet, odometer, periods, req>>
history == <<overtaken, outrun, loose>>
vars == <<tables, workload, history>>

Status == {"PLANNED", "WAITING_DRIVER", "WAITING_DEPARTURE", "IN_PROGRESS", "PAUSED",
           "COMPLETED", "CANCELLED"}

OnRoad == {"IN_PROGRESS", "PAUSED"}
Terminal == {"COMPLETED", "CANCELLED"}

\* What arrives: changes of status, by their target, the other handlers of trips and of
\* fuel supplies, and what the back office does.
Kinds == Status \cup {"start", "fuel", "edit", "delete", "switch", "period", "vehicle"}

ASSUME WorkloadsAssumption == Workloads \subseteq [Requests -> SUBSET Kinds]

\* Bound: a trip always names a driver, as a new one must (driverId is nullable, and an
\* unnamed driver skips the driver's two checks).
Trip == [status: Status, driver: Drivers, vehicle: Vehicles \cup {None},
         departed: BOOLEAN, deleted: BOOLEAN]

\* before and after are the trips that opened and ended the period, if a trip did; in a
\* period entered by hand (source MANUAL_ADMIN) the office may name any trip.
Period == [vehicle: Vehicles, ended: BOOLEAN, manual: BOOLEAN,
           before: Trips \cup {None}, after: Trips \cup {None}]

Km == 0..MaxKm
Reading == Km \cup {None}

Op ==
  [kind: {"status"}, trip: Trips, to: Status, km: Reading]
    \cup [kind: {"start"}, trip: Trips, to: {"IN_PROGRESS"}, km: Reading]
    \cup [kind: {"fuel"}, trip: Trips, km: Km]
    \cup [kind: {"edit"}, trip: Trips, driver: Drivers, vehicle: Vehicles \cup {None}]
    \cup [kind: {"delete"}, trip: Trips]

Kind(op) == IF op.kind = "status" THEN op.to ELSE op.kind

Idle == [at |-> "idle"]

Points == {"details", "reread", "driver", "driverFree", "vehicle", "vehicleFree", "write"}

Request == {Idle} \cup [at: Points, op: Op, row: Trip, km: Km]

TablesOK ==
  /\ trips \in [Trips -> Trip]
  /\ active \subseteq Drivers
  /\ fleet \subseteq Vehicles
  /\ odometer \in [Vehicles -> Km]
  /\ periods \in Seq(Period)
  /\ req \in [Requests -> Request]

TypeOK ==
  /\ TablesOK
  /\ workload \in Workloads
  /\ overtaken \subseteq Requests /\ outrun \subseteq Requests /\ loose \subseteq Trips

----
(* Rules. *)

\* Mutant of ALLOWED_TRANSITIONS: a trip that was completed can be paused.
Reopening == [s \in Status |->
  CASE s = "PLANNED"           -> {"WAITING_DRIVER", "WAITING_DEPARTURE", "IN_PROGRESS", "CANCELLED"}
    [] s = "WAITING_DRIVER"    -> {"WAITING_DEPARTURE", "IN_PROGRESS", "CANCELLED"}
    [] s = "WAITING_DEPARTURE" -> {"IN_PROGRESS", "PAUSED", "CANCELLED"}
    [] s = "IN_PROGRESS"       -> {"PAUSED", "COMPLETED", "CANCELLED"}
    [] s = "PAUSED"            -> {"IN_PROGRESS", "CANCELLED"}
    [] s = "COMPLETED"         -> {"PAUSED"}
    [] s = "CANCELLED"         -> {}]

ALLOWED_TRANSITIONS == [s \in Status |->
  CASE s = "PLANNED"           -> {"WAITING_DRIVER", "WAITING_DEPARTURE", "IN_PROGRESS", "CANCELLED"}
    [] s = "WAITING_DRIVER"    -> {"WAITING_DEPARTURE", "IN_PROGRESS", "CANCELLED"}
    [] s = "WAITING_DEPARTURE" -> {"IN_PROGRESS", "CANCELLED"}
    [] s = "IN_PROGRESS"       -> {"PAUSED", "COMPLETED", "CANCELLED"}
    [] s = "PAUSED"            -> {"IN_PROGRESS", "CANCELLED"}
    [] s \in Terminal          -> {}]

\* Mutant of OdometerOf: the vehicle is not included in what is read, and a vehicle with
\* no reading accepts any.
NotIncluded(row) == -1

\* Where the vehicle's odometer stood when a handler read the trip's row; a vehicle
\* that never had a reading stands at 0.
OdometerOf(row) == IF row.vehicle = None THEN 0 ELSE odometer[row.vehicle]

\* assertOdometerNotBelowVehicle.
NotBelow(km, current) == km # None => km >= current

\* computeBumpedOdometer, written by the vehicle's id.
Bumped(vehicle, km, current) ==
  IF vehicle # None /\ km # None /\ km > current
  THEN [odometer EXCEPT ![vehicle] = km] ELSE odometer

\* Mutant of Deletable: any trip that is not under way.
NotUnderWay == Status \ OnRoad

\* softDelete.
Deletable == {"PLANNED", "CANCELLED"}

\* Mutant of OthersOnRoad: a paused trip does not count.
OthersDriving(t) == {u \in Trips \ {t} : trips[u].status = "IN_PROGRESS" /\ ~trips[u].deleted}

\* The other trips that are physically active.
OthersOnRoad(t) == {u \in Trips \ {t} : trips[u].status \in OnRoad /\ ~trips[u].deleted}

----
(* Idle periods of a vehicle between two trips. *)

\* Mutant of HasOpen: the table has no partial unique index.
NoIndex(vehicle) == \E n \in DOMAIN periods : periods[n].vehicle = None

HasOpen(vehicle) == \E n \in DOMAIN periods : periods[n].vehicle = vehicle /\ ~periods[n].ended

\* openForCompletedTrip: ON CONFLICT DO NOTHING against the open period of the vehicle.
Opened(vehicle, before) ==
  IF HasOpen(vehicle) THEN periods
  ELSE Append(periods, [vehicle |-> vehicle, ended |-> FALSE, manual |-> FALSE,
                        before |-> before, after |-> None])

\* Mutant of Closable: endedAt is not looked at.
ClosableAgain(n, vehicle) == periods[n].vehicle = vehicle

\* Mutant of Closable: only the periods the office opened.
ClosableByHand(n, vehicle) ==
  periods[n].vehicle = vehicle /\ ~periods[n].ended /\ periods[n].manual

Closable(n, vehicle) == periods[n].vehicle = vehicle /\ ~periods[n].ended

\* closeForStartedTrip.
Closed(vehicle, after) ==
  [n \in DOMAIN periods |->
    IF Closable(n, vehicle) THEN [periods[n] EXCEPT !.ended = TRUE, !.after = after]
    ELSE periods[n]]

----
(* Handlers. *)

Goes(r, state) == req' = [req EXCEPT ![r] = state]
Advance(r, point) == Goes(r, [req[r] EXCEPT !.at = point])

\* A check that does not pass ends the request with an error.
Check(r, ok, next) == IF ok THEN Advance(r, next) ELSE Goes(r, Idle)

At(r, point) == req[r].at = point

Unread == UNCHANGED <<trips, active, fleet, odometer, periods>>

\* updateStatus's own read and first checks.
MayMove(op, row) ==
  /\ op.to \in ALLOWED_TRANSITIONS[row.status]
  /\ op.to = "COMPLETED" => NotBelow(op.km, OdometerOf(row))

FirstPoint(op) ==
  CASE op.kind = "start"                               -> "details"
    [] op.kind = "status" /\ op.to = "IN_PROGRESS"     -> "driver"
    [] OTHER                                           -> "write"

Accepts(op, row) ==
  CASE op.kind = "status" -> /\ MayMove(op, row)
                             /\ op.to # "COMPLETED" => op.km = None
    [] op.kind = "start"  -> row.status # "IN_PROGRESS" /\ NotBelow(op.km, OdometerOf(row))
    [] op.kind = "fuel"   -> row.vehicle # None /\ NotBelow(op.km, OdometerOf(row))
    [] op.kind = "edit"   -> row.status = "PLANNED"
    [] op.kind = "delete" -> row.status \in Deletable

\* The requests a handler refuses at once, or answers with what is there, are left out.
Receive(r) ==
  /\ req[r] = Idle
  /\ \E op \in Op :
       LET row == trips[op.trip]
       IN  /\ Kind(op) \in workload[r] /\ ~row.deleted /\ Accepts(op, row)
           /\ Goes(r, [at |-> FirstPoint(op), op |-> op, row |-> row, km |-> OdometerOf(row)])
  /\ Unread

\* The driver's start writes its details before updateStatus looks at the trip.
ApplyStartDetails(r) ==
  /\ At(r, "details")
  /\ odometer' = Bumped(req[r].row.vehicle, req[r].op.km, req[r].km)
  /\ Advance(r, "reread")
  /\ UNCHANGED <<trips, active, fleet, periods>>

Reread(r) ==
  /\ At(r, "reread")
  /\ LET row == trips[req[r].op.trip]
     IN  IF ~row.deleted /\ MayMove(req[r].op, row)
         THEN Goes(r, [req[r] EXCEPT !.at = "driver", !.row = row, !.km = OdometerOf(row)])
         ELSE Goes(r, Idle)
  /\ Unread

\* assertCanStart, one query after the other.
CheckDriver(r) ==
  /\ At(r, "driver")
  /\ Check(r, req[r].row.driver \in active, "driverFree")
  /\ Unread

CheckDriverFree(r) ==
  /\ At(r, "driverFree")
  /\ Check(r, \A u \in OthersOnRoad(req[r].op.trip) : trips[u].driver # req[r].row.driver,
           "vehicle")
  /\ Unread

CheckVehicle(r) ==
  /\ At(r, "vehicle")
  /\ LET vehicle == req[r].row.vehicle
     IN  IF vehicle = None THEN Advance(r, "write")
         ELSE Check(r, vehicle \in fleet, "vehicleFree")
  /\ Unread

\* The pre-trip checklist, when the tenant asks for one, may still refuse the start.
CheckVehicleFree(r) ==
  /\ At(r, "vehicleFree")
  /\ \/ Check(r, \A u \in OthersOnRoad(req[r].op.trip) : trips[u].vehicle # req[r].row.vehicle,
              "write")
     \/ Goes(r, Idle)
  /\ Unread

\* The transaction of updateStatus.
CommitStatus(r) ==
  /\ At(r, "write") /\ req[r].op.kind \in {"status", "start"}
  /\ LET op == req[r].op
         row == req[r].row
     IN  /\ trips' = [trips EXCEPT ![op.trip].status = op.to,
                                   ![op.trip].departed = @ \/ op.to = "IN_PROGRESS"]
         /\ odometer' = IF op.to = "COMPLETED" THEN Bumped(row.vehicle, op.km, req[r].km)
                        ELSE odometer
         /\ periods' = IF row.vehicle = None THEN periods
                       ELSE IF op.to = "COMPLETED" THEN Opened(row.vehicle, op.trip)
                       ELSE IF op.to = "IN_PROGRESS" /\ ~row.departed
                            THEN Closed(row.vehicle, op.trip)
                       ELSE periods
         /\ Len(periods') <= MaxPeriods
  /\ Goes(r, Idle)
  /\ UNCHANGED <<active, fleet>>

CommitFuel(r) ==
  /\ At(r, "write") /\ req[r].op.kind = "fuel"
  /\ odometer' = Bumped(req[r].row.vehicle, req[r].op.km, req[r].km)
  /\ Goes(r, Idle)
  /\ UNCHANGED <<trips, active, fleet, periods>>

\* The schedule of the new driver and vehicle may overlap: the edit is refused.
CommitEdit(r) ==
  /\ At(r, "write") /\ req[r].op.kind = "edit"
  /\ \/ trips' = [trips EXCEPT ![req[r].op.trip].driver = req[r].op.driver,
                               ![req[r].op.trip].vehicle = req[r].op.vehicle]
     \/ UNCHANGED trips
  /\ Goes(r, Idle)
  /\ UNCHANGED <<active, fleet, odometer, periods>>

CommitDelete(r) ==
  /\ At(r, "write") /\ req[r].op.kind = "delete"
  /\ trips' = [trips EXCEPT ![req[r].op.trip].deleted = TRUE]
  /\ Goes(r, Idle)
  /\ UNCHANGED <<active, fleet, odometer, periods>>

Handle(r) ==
  \/ Receive(r) \/ ApplyStartDetails(r) \/ Reread(r)
  \/ CheckDriver(r) \/ CheckDriverFree(r) \/ CheckVehicle(r) \/ CheckVehicleFree(r)
  \/ CommitStatus(r) \/ CommitFuel(r) \/ CommitEdit(r) \/ CommitDelete(r)

----
(* The back office. *)

Offered(kind) == \E r \in Requests : kind \in workload[r]

SwitchDriver(d) ==
  /\ Offered("switch")
  /\ active' \in {active \cup {d}, active \ {d}}
  /\ UNCHANGED <<trips, fleet, odometer, periods, req>>

SwitchVehicle(v) ==
  /\ Offered("switch")
  /\ fleet' \in {fleet \cup {v}, fleet \ {v}}
  /\ UNCHANGED <<trips, active, odometer, periods, req>>

\* VehiclesService.update: the form's odometerKm is written as it is.
UpdateVehicle(v) ==
  /\ Offered("vehicle")
  /\ \E km \in Km : odometer' = [odometer EXCEPT ![v] = km]
  /\ UNCHANGED <<trips, active, fleet, periods, req>>

\* An idle period the office enters, open or ended, and one it ends, whatever had ended
\* it before.  The unique index is the last word on an open one.  Bound: it names the
\* trip before, and leaves the trip after to the start that ends the period.
CreatePeriod(v) ==
  /\ Offered("period") /\ Len(periods) < MaxPeriods
  /\ \E ended \in BOOLEAN, before \in Trips \cup {None} :
       /\ ended \/ ~HasOpen(v)
       /\ before # None => ~trips[before].deleted
       /\ periods' = Append(periods, [vehicle |-> v, ended |-> ended, manual |-> TRUE,
                                      before |-> before, after |-> None])
  /\ UNCHANGED <<trips, active, fleet, odometer, req>>

EndPeriod ==
  /\ Offered("period")
  /\ \E n \in DOMAIN periods : periods' = [periods EXCEPT ![n].ended = TRUE]
  /\ UNCHANGED <<trips, active, fleet, odometer, req>>

----
(* What the history keeps. *)

\* A request that goes on with the rows it has read.
Holding(s) == /\ req[s] # Idle /\ req'[s] # Idle
              /\ ~(At(s, "reread") /\ req'[s] # req[s])

Overtakes(s) ==
  LET row == req[s].row
      t == req[s].op.trip
  IN  \/ trips'[t] # trips[t]
      \/ \E u \in Trips \ {t} :
           /\ trips'[u] # trips[u] /\ trips'[u].status \in OnRoad
           /\ trips'[u].driver = row.driver
              \/ (row.vehicle # None /\ trips'[u].vehicle = row.vehicle)

Outruns(s) ==
  LET vehicle == req[s].row.vehicle
  IN  vehicle # None /\ odometer'[vehicle] # odometer[vehicle]

\* The request writes its trip.
Writes(s) == At(s, "write") /\ req[s].op.kind # "fuel" /\ req'[s] # req[s]

Watch ==
  /\ overtaken' = {s \in Requests : Holding(s) /\ (s \in overtaken \/ Overtakes(s))}
  /\ outrun' = {s \in Requests : Holding(s) /\ (s \in outrun \/ Outruns(s))}
  /\ loose' = loose \cup {req[s].op.trip : s \in {q \in overtaken : Writes(q)}}

----
(* Specification. *)

Init ==
  /\ trips \in [Trips -> [status: {"PLANNED"}, driver: Drivers, vehicle: Vehicles,
                          departed: {FALSE}, deleted: {FALSE}]]
  /\ active = Drivers
  /\ fleet = Vehicles
  /\ odometer = [v \in Vehicles |-> 0]
  /\ periods = <<>>
  /\ req = [r \in Requests |-> Idle]
  /\ workload \in Workloads
  /\ overtaken = {} /\ outrun = {} /\ loose = {}

Steps ==
  \/ \E r \in Requests : Handle(r)
  \/ \E d \in Drivers : SwitchDriver(d)
  \/ \E v \in Vehicles : SwitchVehicle(v) \/ UpdateVehicle(v) \/ CreatePeriod(v)
  \/ EndPeriod

Next == Steps /\ Watch /\ UNCHANGED workload

Spec == Init /\ [][Next]_vars

----
(* Properties. *)

\* Whatever requests interleave, a trip that is or was on the road has an
\* actualDeparture, and so has every trip an automatic idle period names.
RoadHasDeparture ==
  /\ \A t \in Trips : trips[t].status \in OnRoad \cup {"COMPLETED"} => trips[t].departed
  /\ \A n \in DOMAIN periods :
       ~periods[n].manual => \A t \in {periods[n].before, periods[n].after} \ {None} :
                               trips[t].departed

\* Whatever requests interleave, a vehicle has at most one open idle period (completing
\* twice, or completing while the office opens one, does not duplicate it).
OneOpenPeriod ==
  \A m, n \in DOMAIN periods :
    periods[m].vehicle = periods[n].vehicle /\ ~periods[m].ended /\ ~periods[n].ended => m = n

\* A period is ended by the start of one trip, and no later start takes it over.
EndedByOneTrip ==
  [][\A n \in DOMAIN periods :
       /\ n \in DOMAIN periods'
       /\ periods[n].ended => periods'[n] = periods[n]]_vars

\* Nobody drives two trucks at once: a driver, and a vehicle, are on one trip at a time
\* (the comment of assertCanStart).
OneTripAtATime ==
  \A t, u \in Trips :
    t # u /\ {trips[t].status, trips[u].status} \subseteq OnRoad
      => /\ trips[t].driver # trips[u].driver
         /\ trips[t].vehicle = trips[u].vehicle => trips[t].vehicle = None

\* Two trips on the road share their driver or their vehicle in one way only: one of the
\* two was written by a request that another had overtaken between its checks and its
\* write (assertCanStart, and the update by id that follows it).
ApartUnlessOvertaken ==
  \A t, u \in Trips \ loose :
    t # u /\ {trips[t].status, trips[u].status} \subseteq OnRoad
      => /\ trips[t].driver # trips[u].driver
         /\ trips[t].vehicle = trips[u].vehicle => trips[t].vehicle = None

\* COMPLETED and CANCELLED are final, whatever requests interleave, for every trip that
\* no overtaken request wrote (ALLOWED_TRANSITIONS, checked before the write).
TerminalIsFinal ==
  [][\A t \in Trips \ loose' :
       trips[t].status \in Terminal => trips'[t].status = trips[t].status]_vars

\* A vehicle that is on the road with a trip is not in an idle period that the end of an
\* earlier trip opened, whatever the office did to its periods in between; unless one of
\* the two trips was written by an overtaken request.
RoadIsNotIdle ==
  \A t \in Trips \ loose, n \in DOMAIN periods :
    /\ trips[t].status \in OnRoad /\ periods[n].vehicle = trips[t].vehicle
    /\ periods[n].before \notin loose
    => periods[n].ended \/ periods[n].manual

\* A handler whose vehicle got no other reading since it read the odometer never takes an
\* odometer back, its own vehicle's or another's (odometer.util).
OdometerNeverGoesBack ==
  [][\A r \in Requests \ outrun :
       req'[r] # req[r] => \A v \in Vehicles : odometer'[v] >= odometer[v]]_vars

\* A trip that was deleted is in its planning or was cancelled, and a trip in its planning
\* never left, whatever requests interleave; unless an overtaken request wrote it
\* (softDelete).
DeletedNeverRan ==
  \A t \in Trips \ loose :
    /\ trips[t].deleted => trips[t].status \in {"PLANNED", "CANCELLED"}
    /\ trips[t].departed => trips[t].status \in OnRoad \cup Terminal

\* The inductive invariant behind the theorems of TripProofs: a handler that has read a
\* trip that left knows one that left, and it moves a trip only along a transition that
\* was allowed from the status it read.
HeldTrip(q, rows) ==
  q # Idle =>
    /\ q.row.departed \/ q.row.status \in OnRoad \cup {"COMPLETED"} => rows[q.op.trip].departed
    /\ q.op.kind = "status" \/ (q.op.kind = "start" /\ q.at \notin {"details", "reread"}) =>
         q.op.to \in ALLOWED_TRANSITIONS[q.row.status]
    /\ q.at \in {"details", "reread"} => q.op.kind = "start"

TripInv ==
  /\ TablesOK
  /\ RoadHasDeparture
  /\ OneOpenPeriod
  /\ \A r \in Requests : HeldTrip(req[r], trips)

=============================================================================

\* Two trips of one driver and one vehicle are started at once.
\* A trip is never ended here, so the system stops.
SPECIFICATION Spec
CONSTANTS
  r1 = r1  r2 = r2  t1 = t1  t2 = t2  d1 = d1  d2 = d2  v1 = v1
  None = None
  Requests = {r1, r2}
  Trips = {t1, t2}
  Drivers = {d1, d2}
  Vehicles = {v1}
  MaxKm = 0
  MaxPeriods = 1
  Workloads <- MCStarts
CHECK_DEADLOCK FALSE
INVARIANT OneTripAtATime

\* Requests one after the other and two at once, with the office (it may have no more
\* to do once every trip is over).
SPECIFICATION Spec
CONSTANTS
  r1 = r1  r2 = r2  t1 = t1  t2 = t2  d1 = d1  d2 = d2  v1 = v1
  None = None
  Requests = {r1, r2}
  Trips = {t1, t2}
  Drivers = {d1, d2}
  Vehicles = {v1}
  MaxKm = 1
  MaxPeriods = 2
  Workloads <- MCWorkloads
SYMMETRY MCSymmetry
CHECK_DEADLOCK FALSE
INVARIANTS RoadHasDeparture OneOpenPeriod ApartUnlessOvertaken RoadIsNotIdle DeletedNeverRan
PROPERTIES EndedByOneTrip TerminalIsFinal OdometerNeverGoesBack

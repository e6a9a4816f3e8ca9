\* Two requests on one tank: receipts, fuelings of the office and of the app,
\* removals and physical checks, with conflicts and retries.
SPECIFICATION Spec
CONSTANTS
  tank1 = tank1  tank2 = tank2  sup1 = sup1  sup2 = sup2  ev1 = ev1
  req1 = req1  req2 = req2
  NoEvent = NoEvent  NoSupply = NoSupply
  Tanks = {tank1}
  Supplies = {sup1, sup2}
  Events = {ev1}
  Requests = {req1, req2}
  Litres = {1}
  Capacity <- MCCapacity
  MaxMovements = 4
  MaxChecks = 1
SYMMETRY MCSymmetry
CHECK_DEADLOCK FALSE
INVARIANTS LedgerIsChain AdjustedChecksAreExact SupplyDrawnOnce
PROPERTIES ImplementsStockBook

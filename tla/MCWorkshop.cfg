\* Two requests on two orders of one vehicle that may take the same part, with
\* repeated completions, conflicts, retries, removals and lost audit entries.
SPECIFICATION Spec
CONSTANTS
  order1 = order1  order2 = order2  vehicle1 = vehicle1  part1 = part1
  req1 = req1  req2 = req2
  NoOrder = NoOrder
  Orders = {order1, order2}
  Vehicles = {vehicle1}
  Parts = {part1}
  Requests = {req1, req2}
  Quantities = {1}
  MaxMovements = 3
  MaxCalls = 4
  Offered <- MCOffered
  Deltas <- MCDeltas
  ByHand = {"ACTIVE", "INACTIVE"}
SYMMETRY MCSymmetry
CHECK_DEADLOCK FALSE
INVARIANTS TypeOK ConsumedOnce VehicleFollowsOrders
PROPERTIES ImplementsStockBook

\* One request at a time on one trip: revenue applied, then an invoice.
SPECIFICATION Spec
CONSTANTS
  trip1 = trip1  rev1 = rev1  rev2 = rev2  rev3 = rev3  req1 = req1  req2 = req2
  NoRevenue = NoRevenue  NoBilling = NoBilling  All = All
  Trips = {trip1}
  Revenues = {rev1, rev2}
  Requests = {req1}
  Prices = {1}
  Amounts = {1}
CHECK_DEADLOCK FALSE
INVARIANT RevenueWithinBillable

\* Two requests on one trip: freight edited, revenue applied, invoices in parts
\* or whole, confirmation, cancellation, the receivable, and revenues by hand.
SPECIFICATION Spec
CONSTANTS
  trip1 = trip1  rev1 = rev1  rev2 = rev2  rev3 = rev3  req1 = req1  req2 = req2
  NoRevenue = NoRevenue  NoBilling = NoBilling  All = All
  Trips = {trip1}
  Revenues = {rev1, rev2, rev3}
  Requests = {req1, req2}
  Prices = {1, 3}
  Amounts = {1, 2}
SYMMETRY MCSymmetry
CHECK_DEADLOCK FALSE
INVARIANTS BilledWithinBillable EntriesExplainInvoiced
PROPERTIES BillableFrozen ClosedStaysClosed

\* A flush and a submission over one queue.
SPECIFICATION Spec
CONSTANTS
  c1 = c1
  c2 = c2
  s1 = s1
  s2 = s2
  Calls = {c1, c2}
  Slots = {s1, s2}
  MaxActions = 2
  MaxLosses = 1
  MaxCrashes = 0
  Offered <- EventsOnly
  Refusable <- EventsOnly
INVARIANT NothingLost

\* Two calls of the app over one queue, with a loss and a crash.
SPECIFICATION FairSpec
CONSTANTS
  c1 = c1
  c2 = c2
  s1 = s1
  s2 = s2
  Calls = {c1, c2}
  Slots = {s1, s2}
  MaxActions = 2
  MaxLosses = 1
  MaxCrashes = 1
  Offered <- Everything
  Refusable <- Nothing
INVARIANTS LostOnlyOverwritten QueueInOrder CreatedOnce
PROPERTIES DroppedOnlyWhenServed ServedOrRefused

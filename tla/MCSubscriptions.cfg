\* One preapproval and a payment of it, notified and repeated in any order to two
\* handlers, among a payment or a change by the office and the daily check.
SPECIFICATION FairSpec
CONSTANTS
  pre1 = pre1  chg1 = chg1  req1 = req1  req2 = req2
  NotLinked = NotLinked
  Preapprovals = {pre1}
  Charges = {chg1}
  Requests = {req1, req2}
  MaxMonths = 1
  MaxByHand = 1
  MaxFailures = 1
CHECK_DEADLOCK FALSE
INVARIANTS DueNeverAhead CreditedOnce NothingUnanswered
PROPERTY EventuallyAnswered

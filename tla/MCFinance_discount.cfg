\* A single payment, with a discount.
SPECIFICATION Spec
CONSTANTS
  req1 = req1  req2 = req2  req3 = req3  acc1 = acc1  acc2 = acc2
  rec1 = rec1  rec2 = rec2  rec3 = rec3  pay1 = pay1  bill1 = bill1  doc1 = doc1
  Manual = Manual
  MaxInstallments = 2
  Receivables = {rec1}
  Payables = {pay1}
  Origins = {}
  Documents = {}
  Requests = {req1}
  Accounts = {acc1}
  Periods = {1}
  TitleAmounts = {4}
  Amounts = {1, 2}
  Extras = {0, 2}
  InitialTitles = {rec1, pay1}
  Workloads <- MCPayer
CHECK_DEADLOCK FALSE
INVARIANTS NoCriticalIssue

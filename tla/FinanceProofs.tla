----------------------------- MODULE FinanceProofs ----------------------------
(***************************************************************************)
(* Proofs about FinanceCore, for any sets of titles, requests, accounts and  *)
(* periods and any amounts.                                                  *)
(***************************************************************************)
EXTENDS FinanceCore, SumTheorems, TLAPS

(***************************************************************************)
(* The money rules.                                                         *)
(***************************************************************************)

\* A rounded share of a total is a whole number of cents.
LEMMA SharesType ==
  ASSUME NEW total \in Int, NEW n \in Nat \ {0}
  PROVE  Shares(total, n) \subseteq Int
<1>1. total \div n \in Int
  OBVIOUS
<1>2. total \div n + 1 \in Int
  BY <1>1
<1> QED
  BY <1>1, <1>2 DEF Shares

\* An instalment plan is a sequence of whole numbers of cents.
LEMMA PlansType ==
  ASSUME NEW total \in Int, NEW n \in Nat \ {0}
  PROVE  InstallmentPlans(total, n) \subseteq Seq(Int)
<1> SUFFICES ASSUME NEW share \in Shares(total, n)
             PROVE  [i \in 1..n |-> IF i < n THEN share ELSE total - (n - 1) * share] \in Seq(Int)
  BY DEF InstallmentPlans
<1>1. share \in Int
  BY SharesType
<1>2. total - (n - 1) * share \in Int
  BY <1>1
<1> QED
  BY <1>1, <1>2

\* The first k instalments of a plan add up to k shares.
LEMMA FirstShares ==
  ASSUME NEW n \in Nat, NEW share \in Int, NEW plan, \A i \in 1..n : plan[i] = share
  PROVE  SumFunctionOnSet(plan, 1..n) = n * share
<1> DEFINE Good == {k \in Nat : k <= n => SumFunctionOnSet(plan, 1..k) = k * share}
<1>1. 0 \in Good
  <2>1. 1..0 = {} /\ 0 * share = 0
    OBVIOUS
  <2> QED
    BY <2>1, SumEmpty
<1>2. ASSUME NEW k \in Nat, k \in Good PROVE k + 1 \in Good
  <2>1. SUFFICES ASSUME k + 1 <= n
                 PROVE  SumFunctionOnSet(plan, 1..(k + 1)) = (k + 1) * share
    OBVIOUS
  <2>2. /\ IsFiniteSet(1..k) /\ k + 1 \notin 1..k /\ 1..(k + 1) = (1..k) \cup {k + 1}
        /\ \A i \in (1..k) \cup {k + 1} : plan[i] \in Int
    <3>1. IsFiniteSet(1..k)
      BY FS_Interval
    <3>2. 1..(k + 1) = (1..k) \cup {k + 1} /\ k + 1 \notin 1..k
      OBVIOUS
    <3>3. \A i \in 1..(k + 1) : plan[i] = share
      BY <2>1
    <3> QED
      BY <3>1, <3>2, <3>3
  <2>3. SumFunctionOnSet(plan, 1..(k + 1)) = plan[k + 1] + SumFunctionOnSet(plan, 1..k)
    BY <2>2, SumAdds
  <2>4. SumFunctionOnSet(plan, 1..k) = k * share /\ plan[k + 1] = share
    BY <1>2, <2>1
  <2>5. k * share \in Int /\ (k + 1) * share = share + k * share
    OBVIOUS
  <2> QED
    BY <2>3, <2>4, <2>5
<1> HIDE DEF Good
<1>3. n \in Good
  BY <1>1, <1>2, NatSetInduction
<1> QED
  BY <1>3 DEF Good

\* "The sum of the instalments is always exactly originalAmount" (buildInstallmentPlan),
\* for every total and every number of instalments.
THEOREM PlanAddsUp ==
  ASSUME NEW total \in Int, NEW n \in Nat \ {0}, NEW plan \in InstallmentPlans(total, n)
  PROVE  SumFunctionOnSet(plan, DOMAIN plan) = total
<1>1. PICK share \in Shares(total, n) :
        plan = [i \in 1..n |-> IF i < n THEN share ELSE total - (n - 1) * share]
  BY DEF InstallmentPlans
<1>2. share \in Int /\ n - 1 \in Nat
  BY SharesType
<1>3. \A i \in 1..(n - 1) : plan[i] = share
  BY <1>1
<1>4. SumFunctionOnSet(plan, 1..(n - 1)) = (n - 1) * share
  BY <1>2, <1>3, FirstShares
<1>5. plan[n] = total - (n - 1) * share
  BY <1>1
<1>6. (n - 1) * share \in Int
  BY <1>2
<1>7. /\ IsFiniteSet(1..(n - 1)) /\ n \notin 1..(n - 1) /\ DOMAIN plan = (1..(n - 1)) \cup {n}
      /\ \A i \in (1..(n - 1)) \cup {n} : plan[i] \in Int
  BY <1>1, <1>2, <1>3, <1>5, <1>6, FS_Interval
<1>8. SumFunctionOnSet(plan, DOMAIN plan) = plan[n] + SumFunctionOnSet(plan, 1..(n - 1))
  BY <1>7, SumAdds
<1> QED
  BY <1>4, <1>5, <1>6, <1>8

\* Products keep an order.
LEMMA TimesMonotone ==
  ASSUME NEW n \in Nat, NEW a \in Int, NEW b \in Int, a <= b
  PROVE  n * a <= n * b
OBVIOUS

\* The rest of the rounding is less than the last instalment when the total is large
\* enough for the number of instalments: then every instalment can be paid.
THEOREM InstallmentsPayable ==
  ASSUME NEW total \in Nat, NEW n \in Nat \ {0}, 2 * total > n * (n - 1),
         NEW plan \in InstallmentPlans(total, n), NEW i \in DOMAIN plan
  PROVE  plan[i] > 0
<1> DEFINE d == total \div n
           m == total % n
<1>1. d \in Int /\ m \in 0..(n - 1) /\ total = n * d + m
  OBVIOUS
<1>2. PICK share \in Shares(total, n) :
        plan = [j \in 1..n |-> IF j < n THEN share ELSE total - (n - 1) * share]
  BY DEF InstallmentPlans
<1>3. share = d \/ (share = d + 1 /\ 2 * m >= n)
  BY <1>2 DEF Shares
<1> HIDE DEF d, m
<1>4. 2 * d >= n - 2
  <2>1. SUFFICES ASSUME 2 * d <= n - 3 PROVE FALSE
    BY <1>1
  <2>2. n * (2 * d) <= n * (n - 3)
    BY <1>1, <2>1, TimesMonotone
  <2>3. n * (2 * d) = 2 * (n * d) /\ n * (n - 3) = n * (n - 1) - 2 * n
    BY <1>1
  <2>4. n * d \in Int /\ n * (n - 1) \in Int
    BY <1>1
  <2> QED
    BY <1>1, <2>2, <2>3, <2>4
<1>5. n >= 2 => d >= 1
  <2>1. SUFFICES ASSUME n >= 2, d <= 0 PROVE FALSE
    BY <1>1
  <2>2. n * d <= n * 0
    BY <1>1, <2>1, TimesMonotone
  <2>3. total <= n - 1
    BY <1>1, <2>2
  <2>4. n = 2 /\ d = 0
    BY <1>1, <1>4, <2>1
  <2> QED
    BY <2>3, <2>4
<1>6. (n - 1) * share < total
  <2>0. n * d \in Int /\ (n - 1) * d = n * d - d /\ (n - 1) * (d + 1) = n * d - d + n - 1
    BY <1>1
  <2>1. CASE share = d
    <3>1. d + m > 0
      <4>1. CASE n >= 2
        BY <1>1, <1>5, <4>1
      <4>2. CASE n = 1
        <5>1. n * d = d
          BY <1>1, <4>2
        <5> QED
          BY <1>1, <4>2, <5>1
      <4> QED
        BY <4>1, <4>2
    <3> QED
      BY <1>1, <2>0, <2>1, <3>1
  <2>2. CASE share = d + 1 /\ 2 * m >= n
    <3>1. d + m >= n - 1
      BY <1>1, <1>4, <2>2
    <3>2. d + m > n - 1
      <4>1. SUFFICES ASSUME d + m = n - 1 PROVE FALSE
        BY <1>1, <3>1
      <4>2. 2 * m = n /\ 2 * d = n - 2
        BY <1>1, <1>4, <2>2, <4>1
      <4>3. n * (2 * d) = n * (n - 2) /\ n * (2 * d) = 2 * (n * d) /\ n * (n - 2) = n * (n - 1) - n
        BY <1>1, <4>2
      <4> QED
        BY <1>1, <2>0, <4>2, <4>3
    <3> QED
      BY <1>1, <2>0, <2>2, <3>2
  <2> QED
    BY <1>3, <2>1, <2>2
<1>7. share \in Int /\ (n - 1) * share \in Int /\ (n >= 2 => share > 0)
  BY <1>1, <1>3, <1>5
<1> QED
  BY <1>2, <1>6, <1>7

\* Whatever the amounts, one of the four persisted statuses is written.
LEMMA WrittenStatusType ==
  ASSUME NEW original, NEW paid, NEW cancelled
  PROVE  WrittenStatus(original, paid, cancelled) \in WrittenStatuses
BY DEF WrittenStatus, WrittenStatuses

\* A payment that fits is settled within the original amount.
LEMMA FitsWithinOriginal ==
  ASSUME NEW original \in Int, NEW seen \in Int, NEW settled \in Int,
         Balance(original, seen) > 0, settled <= Balance(original, seen)
  PROVE  seen + settled <= original
BY DEF Balance

----
(***************************************************************************)
(* What a handler holds at each of its steps.                               *)
(***************************************************************************)

\* A handler holds the fields of the step it is at.
LEMMA StepTypes ==
  ASSUME TypeOK, NEW r \in Requests
  PROVE  /\ At(r, "payRead") =>
              req[r] \in [step: {"payRead"}, title: Titles, seen: Int]
         /\ At(r, "payAccount") =>
              req[r] \in [step: {"payAccount"}, title: Titles, seen: Int, account: Accounts]
         /\ At(r, "payReady") =>
              req[r] \in [step: {"payReady"}, title: Titles, seen: Int, account: Accounts,
                          period: Periods, amount: Int, discount: Int, extra: Int]
         /\ (At(r, "cancelRead") \/ At(r, "cancelReady")) =>
              req[r] \in [step: {"cancelRead", "cancelReady"}, title: Titles]
         /\ (At(r, "generateRead") \/ At(r, "manualGuarded") \/ At(r, "insert")) =>
              req[r] \in [step: {"generateRead", "manualGuarded", "insert"},
                          table: {Receivables, Payables},
                          origin: Origins \cup {Manual}, plan: Seq(Int), period: Periods]
         /\ At(r, "legsChecked") =>
              req[r] \in [step: {"legsChecked"}, legs: SUBSET Leg, kind: {"manual", "transfer"}]
         /\ At(r, "legsReady") =>
              req[r] \in [step: {"legsReady"}, legs: SUBSET Leg, kind: {"manual", "transfer"},
                          amount: Int, period: Periods]
         /\ At(r, "closeRead") =>
              req[r] \in [step: {"closeRead"}, period: Periods,
                          rows: SUBSET [title: Titles, original: Int, settled: Int]]
         /\ At(r, "closeReady") =>
              req[r] \in [step: {"closeReady"}, period: Periods]
<1>1. req[r] \in RequestState
  BY DEF TypeOK
<1> QED
  BY <1>1 DEF RequestState, At

\* Moving one handler to a legal state keeps the handlers well typed.
LEMMA GotoType ==
  ASSUME TypeOK, NEW r \in Requests, NEW state \in RequestState, Goto(r, state)
  PROVE  req' \in [Requests -> RequestState]
BY DEF TypeOK, Goto

\* An error response leaves a well typed handler.
LEMMA RejectType ==
  ASSUME TypeOK, NEW r \in Requests, Reject(r)
  PROVE  req' \in [Requests -> RequestState]
<1>1. Idle \in RequestState
  BY DEF Idle, RequestState
<1> QED
  BY <1>1, GotoType DEF Reject

\* A new title is a well typed row.
LEMMA NewTitleType ==
  ASSUME NEW origin \in Origins \cup {Manual}, NEW original \in Int, NEW p \in Periods
  PROVE  NewTitle(origin, original, p) \in Row
<1> DEFINE status == WrittenStatus(original, 0, FALSE)
<1>1. status \in WrittenStatuses
  BY WrittenStatusType, Zenon
<1> HIDE DEF status
<1>2. [origin |-> origin, original |-> original, settled |-> 0, status |-> status,
       cancelled |-> FALSE, period |-> p] \in Row
  BY <1>1 DEF Row
<1> QED
  BY <1>2, Zenon DEF NewTitle, status

----
(***************************************************************************)
(* Type correctness.                                                        *)
(***************************************************************************)

\* The entries of a sequence of integers are integers.
LEMMA SeqEntry ==
  ASSUME NEW s \in Seq(Int), NEW i \in DOMAIN s
  PROVE  s[i] \in Int
OBVIOUS

\* A step that only moves a handler keeps the types.
LEMMA TypeMove ==
  ASSUME TypeOK, UNCHANGED tables, NEW r \in Requests, NEW state \in RequestState,
         Goto(r, state) \/ Reject(r)
  PROVE  TypeOK'
<1>1. req' \in [Requests -> RequestState]
  BY GotoType, RejectType
<1> QED
  BY <1>1 DEF TypeOK, tables

\* Generating a title, or creating one by hand, keeps the types.
LEMMA TypeCreate ==
  ASSUME TypeOK, NEW r \in Requests, Creating(r)
  PROVE  TypeOK'
<1>1. CASE GenerateRead(r)
  <2>1. PICK table \in {Receivables, Payables}, origin \in Origins, amount \in TitleAmounts,
             p \in Periods :
          Goto(r, [step |-> "generateRead", table |-> table, origin |-> origin,
                   plan |-> <<amount>>, period |-> p])
    BY <1>1 DEF GenerateRead
  <2>2. <<amount>> \in Seq(Int)
    BY AmountsAssumption
  <2>3. [step |-> "generateRead", table |-> table, origin |-> origin,
         plan |-> <<amount>>, period |-> p] \in RequestState
    BY <2>2 DEF RequestState
  <2> QED
    BY <1>1, <2>1, <2>3, TypeMove DEF GenerateRead
<1>2. CASE GenerateGuard(r)
  <2>1. [req[r] EXCEPT !.step = "insert"] \in RequestState
    BY <1>2, StepTypes DEF GenerateGuard, RequestState
  <2> QED
    BY <1>2, <2>1, TypeMove DEF GenerateGuard
<1>3. CASE ManualGuard(r)
  <2>1. PICK table \in {Receivables, Payables}, origin \in Documents \cup {Manual}, p \in Periods,
             total \in TitleAmounts, n \in 1..MaxInstallments :
          \E plan \in InstallmentPlans(total, n) :
            Goto(r, [step |-> IF origin = Manual THEN "insert" ELSE "manualGuarded",
                     table |-> table, origin |-> origin, plan |-> plan, period |-> p])
    BY <1>3 DEF ManualGuard
  <2>2. PICK plan \in InstallmentPlans(total, n) :
          Goto(r, [step |-> IF origin = Manual THEN "insert" ELSE "manualGuarded",
                   table |-> table, origin |-> origin, plan |-> plan, period |-> p])
    BY <2>1
  <2>3. total \in Int /\ n \in Nat \ {0}
    BY AmountsAssumption
  <2>4. plan \in Seq(Int) /\ origin \in Origins \cup {Manual}
    BY <2>3, PlansType, TitlesAssumption
  <2>5. [step |-> IF origin = Manual THEN "insert" ELSE "manualGuarded",
         table |-> table, origin |-> origin, plan |-> plan, period |-> p] \in RequestState
    BY <2>4 DEF RequestState
  <2> QED
    BY <1>3, <2>2, <2>5, TypeMove DEF ManualGuard
<1>4. CASE ManualCheckDocument(r)
  <2>1. [req[r] EXCEPT !.step = "insert"] \in RequestState
    BY <1>4, StepTypes DEF ManualCheckDocument, RequestState
  <2> QED
    BY <1>4, <2>1, TypeMove DEF ManualCheckDocument
<1>5. CASE InsertTitles(r)
  <2> DEFINE q == req[r]
             free == q.table \ DOMAIN title
  <2>0. Reject(r) /\ At(r, "insert") /\ UNCHANGED <<payments, ledger, active, period>>
    BY <1>5 DEF InsertTitles
  <2>1. /\ q.table \in {Receivables, Payables} /\ q.origin \in Origins \cup {Manual}
        /\ q.plan \in Seq(Int) /\ q.period \in Periods
    BY <2>0, StepTypes
  <2>2. CASE UniqueViolated(q)
    <3>1. title' = title
      BY <1>5, <2>2 DEF InsertTitles
    <3> QED
      BY <2>0, <3>1, RejectType DEF TypeOK
  <2>3. CASE ~UniqueViolated(q)
    <3>1. PICK ids \in [DOMAIN q.plan -> free] :
            title' = [t \in DOMAIN title \cup {ids[i] : i \in DOMAIN q.plan} |->
                        IF t \in DOMAIN title THEN title[t]
                        ELSE NewTitle(q.origin,
                                      q.plan[CHOOSE i \in DOMAIN q.plan : ids[i] = t],
                                      q.period)]
      BY <1>5, <2>3 DEF InsertTitles
    <3>2. DOMAIN title' = DOMAIN title \cup {ids[i] : i \in DOMAIN q.plan}
      BY <3>1
    <3>3. DOMAIN title' \subseteq Titles
      BY <2>1, <3>1, <3>2 DEF Titles, TypeOK
    <3>4. ASSUME NEW t \in DOMAIN title' PROVE title'[t] \in Row
      <4>1. CASE t \in DOMAIN title
        BY <3>1, <3>2, <4>1 DEF TypeOK
      <4>2. CASE t \notin DOMAIN title
        <5> DEFINE k == CHOOSE i \in DOMAIN q.plan : ids[i] = t
        <5>1. k \in DOMAIN q.plan
          BY <3>2, <4>2
        <5>2. q.plan[k] \in Int
          <6> HIDE DEF q, k
          <6> QED
            BY <2>1, <5>1, SeqEntry
        <5>3. title'[t] = NewTitle(q.origin, q.plan[k], q.period)
          BY <3>1, <3>2, <4>2
        <5> QED
          BY <2>1, <5>2, <5>3, NewTitleType
      <4> QED
        BY <4>1, <4>2
    <3>5. title' \in [DOMAIN title' -> Row]
      BY <3>1, <3>2, <3>4
    <3> QED
      BY <2>0, <3>3, <3>5, RejectType DEF TypeOK
  <2> QED
    BY <2>2, <2>3
<1> QED
  BY <1>1, <1>2, <1>3, <1>4, <1>5 DEF Creating

\* A step of a payment keeps the types.
LEMMA TypePay ==
  ASSUME TypeOK, NEW r \in Requests, Paying(r)
  PROVE  TypeOK'
<1>1. CASE PaymentRead(r)
  <2>1. PICK t \in DOMAIN title :
          Goto(r, [step |-> "payRead", title |-> t, seen |-> title[t].settled])
    BY <1>1 DEF PaymentRead
  <2>2. [step |-> "payRead", title |-> t, seen |-> title[t].settled] \in RequestState
    BY DEF RequestState, TypeOK, Row
  <2> QED
    BY <1>1, <2>1, <2>2, TypeMove DEF PaymentRead
<1>2. CASE PaymentCheckAccount(r)
  <2>1. PICK a \in Accounts :
          \/ Goto(r, [step |-> "payAccount", title |-> req[r].title, seen |-> req[r].seen,
                      account |-> a])
          \/ Reject(r)
    BY <1>2 DEF PaymentCheckAccount
  <2>2. [step |-> "payAccount", title |-> req[r].title, seen |-> req[r].seen,
         account |-> a] \in RequestState
    BY <1>2, StepTypes DEF PaymentCheckAccount, RequestState
  <2> QED
    BY <1>2, <2>1, <2>2, TypeMove DEF PaymentCheckAccount
<1>3. CASE PaymentGuard(r)
  <2>1. PICK amount \in Amounts, discount \in Extras, extra \in Extras, p \in Periods :
          \/ Goto(r, [step |-> "payReady", title |-> req[r].title, seen |-> req[r].seen,
                      account |-> req[r].account, period |-> p, amount |-> amount,
                      discount |-> discount, extra |-> extra])
          \/ Reject(r)
    BY <1>3 DEF PaymentGuard
  <2>2. amount \in Int /\ discount \in Int /\ extra \in Int
    BY AmountsAssumption
  <2>3. [step |-> "payReady", title |-> req[r].title, seen |-> req[r].seen,
         account |-> req[r].account, period |-> p, amount |-> amount,
         discount |-> discount, extra |-> extra] \in RequestState
    BY <1>3, <2>2, StepTypes DEF PaymentGuard, RequestState
  <2> QED
    BY <1>3, <2>1, <2>3, TypeMove DEF PaymentGuard
<1>4. ASSUME NEW type \in {"CREDIT", "DEBIT"}, At(r, "payReady"), CommitPayment(r, type),
             UNCHANGED <<active, period>>
      PROVE  TypeOK'
  <2> DEFINE q == req[r]
             settled == q.seen + q.amount + q.discount
             status == NewStatus(q.title, settled)
  <2>1. q \in [step: {"payReady"}, title: Titles, seen: Int, account: Accounts,
               period: Periods, amount: Int, discount: Int, extra: Int]
    BY <1>4, StepTypes
  <2>2. CASE CasMatches(q)
    <3>1. title' = [title EXCEPT ![q.title].settled = settled, ![q.title].status = status]
      BY <1>4, <2>2 DEF CommitPayment
    <3>2. settled \in Int
      BY <2>1
    <3>8. status \in WrittenStatuses
      BY WrittenStatusType, Zenon DEF NewStatus
    <3>3. DOMAIN title' = DOMAIN title /\ title' \in [DOMAIN title -> Row]
      <4> HIDE DEF settled, status
      <4> QED
        BY <3>1, <3>2, <3>8, ZenonT(40) DEF TypeOK, Row
    <3>4. payments' \subseteq Payment
      BY <1>4, <2>1, <2>2 DEF CommitPayment, Payment, TypeOK
    <3>5. ledger' \subseteq Transaction
      BY <1>4, <2>1, <2>2 DEF CommitPayment, CashAmount, Transaction, TypeOK
    <3>6. [step |-> "done"] \in RequestState
      BY DEF RequestState
    <3>7. req' \in [Requests -> RequestState]
      BY <1>4, <2>2, <3>6, GotoType DEF CommitPayment
    <3> QED
      BY <1>4, <3>3, <3>4, <3>5, <3>7 DEF TypeOK
  <2>3. CASE ~CasMatches(q)
    <3>1. Reject(r) /\ UNCHANGED <<title, payments, ledger>>
      BY <1>4, <2>3 DEF CommitPayment
    <3> QED
      BY <1>4, <3>1, RejectType DEF TypeOK
  <2> QED
    BY <2>2, <2>3
<1>5. CASE ReceivablePayment(r)
  BY <1>4, <1>5 DEF ReceivablePayment
<1>6. CASE PayablePayment(r)
  BY <1>4, <1>6 DEF PayablePayment
<1> QED
  BY <1>1, <1>2, <1>3, <1>5, <1>6 DEF Paying

\* A step of a cancellation keeps the types.
LEMMA TypeCancel ==
  ASSUME TypeOK, NEW r \in Requests, Cancelling(r)
  PROVE  TypeOK'
<1>1. CASE CancelRead(r)
  <2>1. PICK t \in DOMAIN title : Goto(r, [step |-> "cancelRead", title |-> t])
    BY <1>1 DEF CancelRead
  <2>2. [step |-> "cancelRead", title |-> t] \in RequestState
    BY DEF RequestState, TypeOK
  <2> QED
    BY <1>1, <2>1, <2>2, TypeMove DEF CancelRead
<1>2. CASE CancelGuard(r)
  <2>1. [req[r] EXCEPT !.step = "cancelReady"] \in RequestState
    BY <1>2, StepTypes DEF CancelGuard, RequestState
  <2> QED
    BY <1>2, <2>1, TypeMove DEF CancelGuard
<1>3. CASE CancelWrite(r)
  <2>1. title' \in [DOMAIN title -> Row] /\ DOMAIN title' = DOMAIN title
    BY <1>3, ZenonT(40) DEF CancelWrite, TypeOK, Row, WrittenStatuses
  <2>2. req' \in [Requests -> RequestState]
    BY <1>3, RejectType DEF CancelWrite
  <2> QED
    BY <1>3, <2>1, <2>2 DEF CancelWrite, TypeOK
<1> QED
  BY <1>1, <1>2, <1>3 DEF Cancelling

\* A step of a manual entry or a transfer keeps the types.
LEMMA TypeEnter ==
  ASSUME TypeOK, NEW r \in Requests, Entering(r)
  PROVE  TypeOK'
<1>1. CASE EntryCheckAccount(r)
  <2>1. PICK a \in Accounts, type \in {"CREDIT", "DEBIT"} :
          Goto(r, [step |-> "legsChecked", kind |-> "manual",
                   legs |-> {[account |-> a, type |-> type]}])
    BY <1>1 DEF EntryCheckAccount
  <2>2. [step |-> "legsChecked", kind |-> "manual",
         legs |-> {[account |-> a, type |-> type]}] \in RequestState
    BY DEF RequestState, Leg
  <2> QED
    BY <1>1, <2>1, <2>2, TypeMove DEF EntryCheckAccount
<1>2. CASE TransferCheckAccounts(r)
  <2>1. PICK source \in Accounts, destination \in Accounts :
          Goto(r, [step |-> "legsChecked", kind |-> "transfer",
                   legs |-> {[account |-> source, type |-> "DEBIT"],
                             [account |-> destination, type |-> "CREDIT"]}])
    BY <1>2 DEF TransferCheckAccounts
  <2>2. [step |-> "legsChecked", kind |-> "transfer",
         legs |-> {[account |-> source, type |-> "DEBIT"],
                   [account |-> destination, type |-> "CREDIT"]}] \in RequestState
    BY DEF RequestState, Leg
  <2> QED
    BY <1>2, <2>1, <2>2, TypeMove DEF TransferCheckAccounts
<1>3. CASE LegsGuard(r)
  <2>1. PICK p \in Periods, amount \in Amounts :
          \/ Goto(r, [step |-> "legsReady", kind |-> req[r].kind, legs |-> req[r].legs,
                      amount |-> amount, period |-> p])
          \/ Reject(r)
    BY <1>3 DEF LegsGuard
  <2>2. amount \in Int
    BY AmountsAssumption
  <2>3. [step |-> "legsReady", kind |-> req[r].kind, legs |-> req[r].legs,
         amount |-> amount, period |-> p] \in RequestState
    BY <1>3, <2>2, StepTypes DEF LegsGuard, RequestState
  <2> QED
    BY <1>3, <2>1, <2>3, TypeMove DEF LegsGuard
<1>4. CASE LegsInsert(r)
  <2>1. req[r] \in [step: {"legsReady"}, legs: SUBSET Leg, kind: {"manual", "transfer"},
                    amount: Int, period: Periods]
    BY <1>4, StepTypes DEF LegsInsert
  <2>2. ledger' \subseteq Transaction
    BY <1>4, <2>1 DEF LegsInsert, Inserted, Leg, Transaction, TypeOK
  <2>3. [step |-> "done"] \in RequestState
    BY DEF RequestState
  <2> QED
    BY <1>4, <2>2, <2>3, GotoType DEF LegsInsert, TypeOK
<1> QED
  BY <1>1, <1>2, <1>3, <1>4 DEF Entering

\* A step of the closing of a period keeps the types.
LEMMA TypeClose ==
  ASSUME TypeOK, NEW r \in Requests, Closing(r)
  PROVE  TypeOK'
<1>1. CASE CloseRead(r)
  <2>1. PICK p \in Periods :
          LET scope == {t \in DOMAIN title :
                          title[t].period = p /\ title[t].status # "CANCELLED"}
          IN  Goto(r, [step |-> "closeRead", period |-> p,
                       rows |-> {AsRead(t) : t \in scope}])
    BY <1>1 DEF CloseRead
  <2> DEFINE scope == {t \in DOMAIN title :
                         title[t].period = p /\ title[t].status # "CANCELLED"}
             rows == {AsRead(t) : t \in scope}
  <2>2. rows \in SUBSET [title: Titles, original: Int, settled: Int]
    BY DEF TypeOK, Row, AsRead
  <2>3. [step |-> "closeRead", period |-> p, rows |-> rows] \in RequestState
    <3> HIDE DEF rows
    <3> QED
      BY <2>2 DEF RequestState
  <2>4. Goto(r, [step |-> "closeRead", period |-> p, rows |-> rows])
    BY <2>1
  <2> QED
    BY <1>1, <2>3, <2>4, TypeMove DEF CloseRead
<1>2. CASE CloseReconcile(r)
  <2>1. [step |-> "closeReady", period |-> req[r].period] \in RequestState
    BY <1>2, StepTypes DEF CloseReconcile, RequestState
  <2> QED
    BY <1>2, <2>1, TypeMove DEF CloseReconcile
<1>3. CASE CloseWrite(r)
  <2>1. period' \in [Periods -> {"ABSENT", "OPEN", "CLOSED"}]
    BY <1>3 DEF CloseWrite, TypeOK
  <2> QED
    BY <1>3, <2>1, RejectType DEF CloseWrite, TypeOK
<1> QED
  BY <1>1, <1>2, <1>3 DEF Closing

\* The initial rows and handlers are well typed.
LEMMA TypeInit ==
  ASSUME Init
  PROVE  TypeOK
<1>1. PICK amount \in [InitialTitles -> TitleAmounts], p \in Periods :
        title = [t \in InitialTitles |-> NewTitle(Manual, amount[t], p)]
  BY DEF Init
<1>2. ASSUME NEW t \in InitialTitles PROVE NewTitle(Manual, amount[t], p) \in Row
  <2>1. amount[t] \in TitleAmounts
    OBVIOUS
  <2>2. TitleAmounts \subseteq Int
    BY AmountsAssumption
  <2>3. amount[t] \in Int
    BY <2>1, <2>2, Zenon
  <2>4. Manual \in Origins \cup {Manual}
    OBVIOUS
  <2> QED
    BY <2>3, <2>4, NewTitleType
<1>3. DOMAIN title \subseteq Titles /\ title \in [DOMAIN title -> Row]
  BY <1>1, <1>2, TitlesAssumption
<1>4. payments = {} /\ ledger = {} /\ active = [a \in Accounts |-> TRUE]
  BY DEF Init
<1>5. /\ period = [q \in Periods |-> "ABSENT"]
      /\ req = [r \in Requests |-> [step |-> "idle"]]
  BY DEF Init, Idle
<1>6. [step |-> "idle"] \in RequestState
  BY DEF RequestState
<1>7. payments \subseteq Payment /\ ledger \subseteq Transaction /\ active \in [Accounts -> BOOLEAN]
  BY <1>4
<1>8. /\ period \in [Periods -> {"ABSENT", "OPEN", "CLOSED"}]
      /\ req \in [Requests -> RequestState]
  BY <1>5, <1>6
<1> QED
  BY <1>3, <1>7, <1>8 DEF TypeOK

\* Every table and every handler stays well typed.
THEOREM TypeCorrect == Spec => []TypeOK
<1>1. Init => TypeOK
  BY TypeInit
<1>2. TypeOK /\ [Next]_vars => TypeOK'
  <2> SUFFICES ASSUME TypeOK, [Next]_vars PROVE TypeOK'
    OBVIOUS
  <2>1. CASE \E r \in Requests :
               Creating(r) \/ Paying(r) \/ Cancelling(r) \/ Entering(r) \/ Closing(r)
    BY <2>1, TypeCreate, TypePay, TypeCancel, TypeEnter, TypeClose
  <2>2. CASE \E a \in Accounts : SetActive(a)
    BY <2>2 DEF SetActive, TypeOK
  <2>3. CASE \E p \in Periods : CreatePeriod(p)
    BY <2>3 DEF CreatePeriod, TypeOK
  <2>4. CASE UNCHANGED vars
    BY <2>4 DEF vars, TypeOK
  <2> QED
    BY <2>1, <2>2, <2>3, <2>4 DEF Next, Steps
<1> QED
  BY <1>1, <1>2, PTL DEF Spec

----

(***************************************************************************)
(* What a step does to the rows and to the handler that takes it.           *)
(***************************************************************************)

\* The rows only grow: none disappears, none has less settled than before.
RowsKept(rows, more) ==
  \A t \in DOMAIN rows :
    /\ t \in DOMAIN more
    /\ more[t].original = rows[t].original
    /\ more[t].settled >= rows[t].settled
    /\ rows[t].cancelled => more[t].cancelled

\* What a handler holds stays good while other handlers settle more.
LEMMA HeldMonotone ==
  ASSUME NEW q \in RequestState, NEW rows, NEW more,
         rows \in [DOMAIN rows -> Row], more \in [DOMAIN more -> Row],
         RowsKept(rows, more), Held(q, rows)
  PROVE  Held(q, more)
<1>1. q.step \in {"payRead", "payAccount", "payReady"} =>
        q.title \in DOMAIN more /\ q.seen <= more[q.title].settled
  <2> SUFFICES ASSUME q.step \in {"payRead", "payAccount", "payReady"}
               PROVE  q.title \in DOMAIN more /\ q.seen <= more[q.title].settled
    OBVIOUS
  <2>1. q.title \in DOMAIN rows /\ q.seen <= rows[q.title].settled
    BY DEF Held
  <2>2. q.title \in DOMAIN more /\ more[q.title].settled >= rows[q.title].settled
    BY <2>1 DEF RowsKept
  <2>3. q.seen \in Int
    BY DEF RequestState
  <2>4. rows[q.title].settled \in Int /\ more[q.title].settled \in Int
    BY <2>1, <2>2 DEF Row
  <2> QED
    BY <2>1, <2>2, <2>3, <2>4
<1>2. q.step = "payReady" => rows[q.title].original = more[q.title].original
  BY DEF Held, RowsKept
<1>3. q.step \in {"cancelRead", "cancelReady"} => q.title \in DOMAIN more
  BY DEF Held, RowsKept
<1> QED
  BY <1>1, <1>2, <1>3 DEF Held

\* An idle or finished handler holds nothing.
LEMMA HoldsNothing ==
  ASSUME NEW rows
  PROVE  Held(Idle, rows) /\ Held([step |-> "done"], rows)
BY DEF Held, Idle

\* The invariant survives a step that keeps the rows and leaves one handler with
\* something good to hold.
LEMMA Preserved ==
  ASSUME FinanceInv, TypeOK', RowsKept(title, title'),
         \A t \in DOMAIN title' : RowSettled(title'[t]),
         NEW r \in Requests, NEW state, Goto(r, state), Held(state, title')
  PROVE  FinanceInv'
<1>1. ASSUME NEW x \in Requests PROVE Held(req'[x], title')
  <2>1. CASE x = r
    <3>1. req'[x] = state
      BY <2>1 DEF Goto, FinanceInv, TypeOK
    <3> QED
      BY <3>1
  <2>2. CASE x # r
    <3>1. req'[x] = req[x] /\ req[x] \in RequestState
      BY <2>2 DEF Goto, FinanceInv, TypeOK
    <3>2. Held(req[x], title)
      BY DEF FinanceInv
    <3>3. title \in [DOMAIN title -> Row] /\ title' \in [DOMAIN title' -> Row]
      BY DEF FinanceInv, TypeOK
    <3> QED
      BY <3>1, <3>2, <3>3, HeldMonotone
  <2> QED
    BY <2>1, <2>2
<1> QED
  BY <1>1 DEF FinanceInv

\* Rows that do not change are kept.
LEMMA SameRows ==
  ASSUME TypeOK, title' = title
  PROVE  RowsKept(title, title')
<1>1. \A t \in DOMAIN title : title[t].settled \in Int
  BY DEF TypeOK, Row
<1> QED
  BY <1>1 DEF RowsKept

\* A step that only moves a handler.
LEMMA Moved ==
  ASSUME FinanceInv, TypeOK', title' = title,
         NEW r \in Requests, NEW state, Goto(r, state), Held(state, title)
  PROVE  FinanceInv'
<1>1. RowsKept(title, title') /\ \A t \in DOMAIN title' : RowSettled(title'[t])
  BY SameRows DEF FinanceInv
<1> QED
  BY <1>1, Preserved

\* An error response.
LEMMA Rejected ==
  ASSUME FinanceInv, TypeOK', title' = title, NEW r \in Requests, Reject(r)
  PROVE  FinanceInv'
BY Moved, HoldsNothing DEF Reject

----
(***************************************************************************)
(* The inductive invariant.                                                 *)
(***************************************************************************)

\* Generating a title, or creating one by hand.
LEMMA SafeCreate ==
  ASSUME FinanceInv, NEW r \in Requests, Creating(r)
  PROVE  FinanceInv' /\ RowsKept(title, title')
<1>0. TypeOK /\ TypeOK'
  BY TypeCreate DEF FinanceInv
<1>1. CASE GenerateRead(r)
  <2>1. PICK table \in {Receivables, Payables}, origin \in Origins, amount \in TitleAmounts,
             p \in Periods :
          Goto(r, [step |-> "generateRead", table |-> table, origin |-> origin,
                   plan |-> <<amount>>, period |-> p])
    BY <1>1 DEF GenerateRead
  <2>2. DOMAIN <<amount>> = {1}
    OBVIOUS
  <2>3. Held([step |-> "generateRead", table |-> table, origin |-> origin,
              plan |-> <<amount>>, period |-> p], title)
    BY <2>2 DEF Held
  <2> QED
    BY <1>0, <1>1, <2>1, <2>3, Moved, SameRows DEF GenerateRead, tables
<1>2. ASSUME At(r, "generateRead") \/ At(r, "manualGuarded"), UNCHANGED tables,
             Goto(r, [req[r] EXCEPT !.step = "insert"]) \/ Reject(r)
      PROVE  FinanceInv' /\ RowsKept(title, title')
  <2>1. req[r] \in [step: {"generateRead", "manualGuarded", "insert"},
                    table: {Receivables, Payables},
                    origin: Origins \cup {Manual}, plan: Seq(Int), period: Periods]
    BY <1>0, <1>2, StepTypes
  <2>2. req[r].origin # Manual => DOMAIN req[r].plan = {1}
    BY <1>2 DEF FinanceInv, Held, At
  <2>3. Held([req[r] EXCEPT !.step = "insert"], title)
    BY <2>1, <2>2 DEF Held
  <2>4. title' = title
    BY <1>2 DEF tables
  <2> QED
    BY <1>0, <1>2, <2>3, <2>4, Moved, Rejected, SameRows
<1>3. CASE GenerateGuard(r)
  BY <1>2, <1>3 DEF GenerateGuard
<1>4. CASE ManualCheckDocument(r)
  BY <1>2, <1>4 DEF ManualCheckDocument
<1>5. CASE ManualGuard(r)
  <2>1. PICK table \in {Receivables, Payables}, origin \in Documents \cup {Manual}, p \in Periods,
             total \in TitleAmounts, n \in 1..MaxInstallments :
          /\ origin # Manual => n = 1
          /\ \E plan \in InstallmentPlans(total, n) :
               Goto(r, [step |-> IF origin = Manual THEN "insert" ELSE "manualGuarded",
                        table |-> table, origin |-> origin, plan |-> plan, period |-> p])
    BY <1>5 DEF ManualGuard
  <2>2. PICK plan \in InstallmentPlans(total, n) :
          Goto(r, [step |-> IF origin = Manual THEN "insert" ELSE "manualGuarded",
                   table |-> table, origin |-> origin, plan |-> plan, period |-> p])
    BY <2>1
  <2>3. origin # Manual => DOMAIN plan = {1}
    <3>1. DOMAIN plan = 1..n
      BY DEF InstallmentPlans
    <3> QED
      BY <2>1, <3>1
  <2>4. Held([step |-> IF origin = Manual THEN "insert" ELSE "manualGuarded",
              table |-> table, origin |-> origin, plan |-> plan, period |-> p], title)
    BY <2>3 DEF Held
  <2> QED
    BY <1>0, <1>5, <2>2, <2>4, Moved, SameRows DEF ManualGuard, tables
<1>6. CASE InsertTitles(r)
  <2> DEFINE q == req[r]
             free == q.table \ DOMAIN title
  <2>1. Goto(r, Idle)
    BY <1>6 DEF InsertTitles, Reject
  <2>2. CASE UniqueViolated(q)
    BY <1>0, <1>6, <2>2, Rejected, SameRows DEF InsertTitles
  <2>3. CASE ~UniqueViolated(q)
    <3>1. PICK ids \in [DOMAIN q.plan -> free] :
            title' = [t \in DOMAIN title \cup {ids[i] : i \in DOMAIN q.plan} |->
                        IF t \in DOMAIN title THEN title[t]
                        ELSE NewTitle(q.origin,
                                      q.plan[CHOOSE i \in DOMAIN q.plan : ids[i] = t],
                                      q.period)]
      BY <1>6, <2>3 DEF InsertTitles
    <3>2. \A t \in DOMAIN title : t \in DOMAIN title' /\ title'[t] = title[t]
      BY <3>1
    <3>3. \A t \in DOMAIN title' \ DOMAIN title : title'[t].settled = 0
      BY <3>1 DEF NewTitle
    <3>4. RowsKept(title, title')
      BY <1>0, <3>2 DEF RowsKept, TypeOK, Row
    <3>5. \A t \in DOMAIN title' : RowSettled(title'[t])
      BY <3>2, <3>3 DEF RowSettled, FinanceInv
    <3> QED
      BY <1>0, <2>1, <3>4, <3>5, HoldsNothing, Preserved
  <2> QED
    BY <2>2, <2>3
<1> QED
  BY <1>1, <1>3, <1>4, <1>5, <1>6 DEF Creating

\* What a payment that commits writes on its title.
LEMMA CommitEffect ==
  ASSUME FinanceInv, NEW r \in Requests, At(r, "payReady"), CasMatches(req[r]),
         NEW type, CommitPayment(r, type)
  PROVE  LET t == req[r].title
             settled == title[t].settled + req[r].amount + req[r].discount
         IN  /\ t \in DOMAIN title
             /\ title[t].settled < settled /\ settled <= title[t].original
             /\ title' = [title EXCEPT ![t].settled = settled,
                                       ![t].status = NewStatus(t, settled)]
<1> DEFINE q == req[r]
<1>1. q \in [step: {"payReady"}, title: Titles, seen: Int, account: Accounts,
             period: Periods, amount: Int, discount: Int, extra: Int]
  BY StepTypes DEF FinanceInv
<1>2. /\ q.title \in DOMAIN title /\ q.amount > 0 /\ q.discount >= 0
      /\ q.seen + q.amount + q.discount <= title[q.title].original
  BY DEF FinanceInv, Held, At
<1>3. title[q.title].settled = q.seen
  BY DEF CasMatches
<1>4. title' = [title EXCEPT ![q.title].settled = q.seen + q.amount + q.discount,
                             ![q.title].status =
                                NewStatus(q.title, q.seen + q.amount + q.discount)]
  BY DEF CommitPayment
<1>5. q.seen < q.seen + q.amount + q.discount
  BY <1>1, <1>2
<1> QED
  BY <1>2, <1>3, <1>4, <1>5

\* The compare-and-swap makes the balance that was checked the balance of now.
LEMMA SafePay ==
  ASSUME FinanceInv, NEW r \in Requests, Paying(r)
  PROVE  FinanceInv' /\ RowsKept(title, title')
<1>0. TypeOK /\ TypeOK'
  BY TypePay DEF FinanceInv
<1>1. CASE PaymentRead(r)
  <2>1. PICK t \in DOMAIN title :
          Goto(r, [step |-> "payRead", title |-> t, seen |-> title[t].settled])
    BY <1>1 DEF PaymentRead
  <2>2. title[t].settled \in Int
    BY <1>0 DEF TypeOK, Row
  <2>3. Held([step |-> "payRead", title |-> t, seen |-> title[t].settled], title)
    BY <2>2 DEF Held
  <2> QED
    BY <1>0, <1>1, <2>1, <2>3, Moved, SameRows DEF PaymentRead, tables
<1>2. CASE PaymentCheckAccount(r)
  <2>1. PICK a \in Accounts :
          \/ Goto(r, [step |-> "payAccount", title |-> req[r].title, seen |-> req[r].seen,
                      account |-> a])
          \/ Reject(r)
    BY <1>2 DEF PaymentCheckAccount
  <2>2. Held([step |-> "payAccount", title |-> req[r].title, seen |-> req[r].seen,
              account |-> a], title)
    BY <1>2 DEF PaymentCheckAccount, At, FinanceInv, Held
  <2> QED
    BY <1>0, <1>2, <2>1, <2>2, Moved, Rejected, SameRows DEF PaymentCheckAccount, tables
<1>3. CASE PaymentGuard(r)
  <2>1. PICK amount \in Amounts, discount \in Extras, extra \in Extras, p \in Periods :
          \/ /\ Fits(req[r], amount + discount)
             /\ Goto(r, [step |-> "payReady", title |-> req[r].title, seen |-> req[r].seen,
                         account |-> req[r].account, period |-> p, amount |-> amount,
                         discount |-> discount, extra |-> extra])
          \/ Reject(r)
    BY <1>3 DEF PaymentGuard
  <2>2. CASE Reject(r)
    BY <1>0, <1>3, <2>2, Rejected, SameRows DEF PaymentGuard, tables
  <2>3. CASE /\ Fits(req[r], amount + discount)
             /\ Goto(r, [step |-> "payReady", title |-> req[r].title, seen |-> req[r].seen,
                         account |-> req[r].account, period |-> p, amount |-> amount,
                         discount |-> discount, extra |-> extra])
    <3>1. req[r].title \in DOMAIN title /\ req[r].seen <= title[req[r].title].settled
      BY <1>3 DEF PaymentGuard, At, FinanceInv, Held
    <3>2. req[r].seen \in Int
      BY <1>0, <1>3, StepTypes DEF PaymentGuard
    <3>3. title[req[r].title].original \in Int
      BY <1>0, <3>1 DEF TypeOK, Row
    <3>4. amount \in Int /\ amount > 0 /\ discount \in Int /\ discount >= 0
      BY AmountsAssumption
    <3>5. req[r].seen + (amount + discount) <= title[req[r].title].original
      BY <2>3, <3>2, <3>3, <3>4, FitsWithinOriginal DEF Fits
    <3>6. req[r].seen + amount + discount <= title[req[r].title].original
      BY <3>2, <3>3, <3>4, <3>5
    <3>7. Held([step |-> "payReady", title |-> req[r].title, seen |-> req[r].seen,
                account |-> req[r].account, period |-> p, amount |-> amount,
                discount |-> discount, extra |-> extra], title)
      BY <3>1, <3>4, <3>6 DEF Held
    <3> QED
      BY <1>0, <1>3, <2>3, <3>7, Moved, SameRows DEF PaymentGuard, tables
  <2> QED
    BY <2>1, <2>2, <2>3
<1>4. ASSUME NEW type, At(r, "payReady"), CommitPayment(r, type)
      PROVE  FinanceInv' /\ RowsKept(title, title')
  <2>1. CASE CasMatches(req[r])
    <3> DEFINE t == req[r].title
               settled == title[t].settled + req[r].amount + req[r].discount
    <3>1. /\ t \in DOMAIN title
          /\ title[t].settled < settled /\ settled <= title[t].original
          /\ title' = [title EXCEPT ![t].settled = settled,
                                    ![t].status = NewStatus(t, settled)]
      BY <1>4, <2>1, CommitEffect
    <3>2. Goto(r, [step |-> "done"])
      BY <1>4, <2>1 DEF CommitPayment
    <3>3. \A u \in DOMAIN title : title[u] \in Row
      BY <1>0 DEF TypeOK
    <3>4. /\ DOMAIN title' = DOMAIN title
          /\ \A u \in DOMAIN title : u # t => title'[u] = title[u]
      BY <3>1
    <3>5. /\ title'[t].settled = settled /\ title'[t].original = title[t].original
          /\ title'[t].cancelled = title[t].cancelled
      BY <3>1, <3>3 DEF Row
    <3>6. title[t].settled \in Int /\ title[t].original \in Int /\ settled \in Int
      BY <1>0, <1>4, <3>1, <3>3, StepTypes DEF Row
    <3> HIDE DEF settled
    <3>7. RowsKept(title, title')
      BY <3>1, <3>3, <3>4, <3>5, <3>6 DEF RowsKept, Row
    <3>8. RowSettled(title'[t])
      BY <3>1, <3>5, <3>6 DEF RowSettled, FinanceInv
    <3>9. \A u \in DOMAIN title' : RowSettled(title'[u])
      BY <3>4, <3>8 DEF FinanceInv
    <3> QED
      BY <1>0, <3>2, <3>7, <3>9, HoldsNothing, Preserved
  <2>2. CASE ~CasMatches(req[r])
    BY <1>0, <1>4, <2>2, Rejected, SameRows DEF CommitPayment
  <2> QED
    BY <2>1, <2>2
<1>5. CASE ReceivablePayment(r)
  BY <1>4, <1>5 DEF ReceivablePayment
<1>6. CASE PayablePayment(r)
  BY <1>4, <1>6 DEF PayablePayment
<1> QED
  BY <1>1, <1>2, <1>3, <1>5, <1>6 DEF Paying

\* A cancellation writes no amount.
LEMMA SafeCancel ==
  ASSUME FinanceInv, NEW r \in Requests, Cancelling(r)
  PROVE  FinanceInv' /\ RowsKept(title, title')
<1>0. TypeOK /\ TypeOK'
  BY TypeCancel DEF FinanceInv
<1>1. CASE CancelRead(r)
  <2>1. PICK t \in DOMAIN title : Goto(r, [step |-> "cancelRead", title |-> t])
    BY <1>1 DEF CancelRead
  <2>2. Held([step |-> "cancelRead", title |-> t], title)
    BY DEF Held
  <2> QED
    BY <1>0, <1>1, <2>1, <2>2, Moved, SameRows DEF CancelRead, tables
<1>2. CASE CancelGuard(r)
  <2>1. req[r] \in [step: {"cancelRead", "cancelReady"}, title: Titles]
    BY <1>0, <1>2, StepTypes DEF CancelGuard
  <2>2. req[r].title \in DOMAIN title
    BY <1>2 DEF CancelGuard, At, FinanceInv, Held
  <2>3. Held([req[r] EXCEPT !.step = "cancelReady"], title)
    BY <2>1, <2>2 DEF Held
  <2> QED
    BY <1>0, <1>2, <2>3, Moved, Rejected, SameRows DEF CancelGuard, tables
<1>3. CASE CancelWrite(r)
  <2>1. req[r].title \in DOMAIN title
    BY <1>3 DEF CancelWrite, At, FinanceInv, Held
  <2>2. \A t \in DOMAIN title : title[t] \in Row
    BY <1>0 DEF TypeOK
  <2>3. /\ DOMAIN title' = DOMAIN title
        /\ \A t \in DOMAIN title : /\ title'[t].settled = title[t].settled
                                   /\ title'[t].original = title[t].original
                                   /\ title[t].cancelled => title'[t].cancelled
    BY <1>3, <2>1, <2>2 DEF CancelWrite, Row
  <2>4. RowsKept(title, title')
    BY <2>2, <2>3 DEF RowsKept, Row
  <2>5. \A t \in DOMAIN title' : RowSettled(title'[t])
    BY <2>3 DEF RowSettled, FinanceInv
  <2> QED
    BY <1>0, <1>3, <2>4, <2>5, HoldsNothing, Preserved DEF CancelWrite, Reject
<1> QED
  BY <1>1, <1>2, <1>3 DEF Cancelling

\* Manual entries and transfers write no title.
LEMMA SafeEnter ==
  ASSUME FinanceInv, NEW r \in Requests, Entering(r)
  PROVE  FinanceInv' /\ RowsKept(title, title')
<1>0. TypeOK /\ TypeOK'
  BY TypeEnter DEF FinanceInv
<1>1. CASE EntryCheckAccount(r)
  <2>1. PICK a \in Accounts, type \in {"CREDIT", "DEBIT"} :
          Goto(r, [step |-> "legsChecked", kind |-> "manual",
                   legs |-> {[account |-> a, type |-> type]}])
    BY <1>1 DEF EntryCheckAccount
  <2>2. Held([step |-> "legsChecked", kind |-> "manual",
              legs |-> {[account |-> a, type |-> type]}], title)
    BY DEF Held
  <2> QED
    BY <1>0, <1>1, <2>1, <2>2, Moved, SameRows DEF EntryCheckAccount, tables
<1>2. CASE TransferCheckAccounts(r)
  <2>1. PICK source \in Accounts, destination \in Accounts :
          /\ source # destination
          /\ Goto(r, [step |-> "legsChecked", kind |-> "transfer",
                      legs |-> {[account |-> source, type |-> "DEBIT"],
                                [account |-> destination, type |-> "CREDIT"]}])
    BY <1>2 DEF TransferCheckAccounts
  <2>2. Held([step |-> "legsChecked", kind |-> "transfer",
              legs |-> {[account |-> source, type |-> "DEBIT"],
                        [account |-> destination, type |-> "CREDIT"]}], title)
    BY <2>1 DEF Held
  <2> QED
    BY <1>0, <1>2, <2>1, <2>2, Moved, SameRows DEF TransferCheckAccounts, tables
<1>3. CASE LegsGuard(r)
  <2>1. PICK p \in Periods, amount \in Amounts :
          \/ Goto(r, [step |-> "legsReady", kind |-> req[r].kind, legs |-> req[r].legs,
                      amount |-> amount, period |-> p])
          \/ Reject(r)
    BY <1>3 DEF LegsGuard
  <2>2. Held([step |-> "legsReady", kind |-> req[r].kind, legs |-> req[r].legs,
              amount |-> amount, period |-> p], title)
    BY <1>3 DEF LegsGuard, At, FinanceInv, Held
  <2> QED
    BY <1>0, <1>3, <2>1, <2>2, Moved, Rejected, SameRows DEF LegsGuard, tables
<1>4. CASE LegsInsert(r)
  <2>1. Goto(r, [step |-> "done"]) /\ title' = title
    BY <1>4 DEF LegsInsert
  <2> QED
    BY <1>0, <2>1, HoldsNothing, Moved, SameRows
<1> QED
  BY <1>1, <1>2, <1>3, <1>4 DEF Entering

\* Closing a period writes no title.
LEMMA SafeClose ==
  ASSUME FinanceInv, NEW r \in Requests, Closing(r)
  PROVE  FinanceInv' /\ RowsKept(title, title')
<1>0. TypeOK /\ TypeOK'
  BY TypeClose DEF FinanceInv
<1>1. CASE CloseRead(r)
  <2>1. PICK p \in Periods :
          LET scope == {t \in DOMAIN title :
                          title[t].period = p /\ title[t].status # "CANCELLED"}
          IN  Goto(r, [step |-> "closeRead", period |-> p,
                       rows |-> {AsRead(t) : t \in scope}])
    BY <1>1 DEF CloseRead
  <2>2. ASSUME NEW rows PROVE Held([step |-> "closeRead", period |-> p, rows |-> rows], title)
    BY DEF Held
  <2> QED
    BY <1>0, <1>1, <2>1, <2>2, Moved, SameRows DEF CloseRead, tables
<1>2. CASE CloseReconcile(r)
  <2>1. Held([step |-> "closeReady", period |-> req[r].period], title)
    BY DEF Held
  <2> QED
    BY <1>0, <1>2, <2>1, Moved, Rejected, SameRows DEF CloseReconcile, tables
<1>3. CASE CloseWrite(r)
  BY <1>0, <1>3, Rejected, SameRows DEF CloseWrite
<1> QED
  BY <1>1, <1>2, <1>3 DEF Closing

\* Every step keeps the invariant and the rows.
LEMMA SafeStep ==
  ASSUME FinanceInv, [Next]_vars
  PROVE  FinanceInv' /\ RowsKept(title, title')
<1>0. TypeOK
  BY DEF FinanceInv
<1>1. CASE \E r \in Requests :
             Creating(r) \/ Paying(r) \/ Cancelling(r) \/ Entering(r) \/ Closing(r)
  BY <1>1, SafeCreate, SafePay, SafeCancel, SafeEnter, SafeClose
<1>2. CASE \E a \in Accounts : SetActive(a)
  <2>1. TypeOK' /\ title' = title /\ req' = req
    BY <1>0, <1>2 DEF SetActive, TypeOK
  <2> QED
    BY <1>0, <2>1, SameRows DEF FinanceInv
<1>3. CASE \E p \in Periods : CreatePeriod(p)
  <2>1. TypeOK' /\ title' = title /\ req' = req
    BY <1>0, <1>3 DEF CreatePeriod, TypeOK
  <2> QED
    BY <1>0, <2>1, SameRows DEF FinanceInv
<1>4. CASE UNCHANGED vars
  <2>1. TypeOK' /\ title' = title /\ req' = req
    BY <1>0, <1>4 DEF vars, TypeOK
  <2> QED
    BY <1>0, <2>1, SameRows DEF FinanceInv
<1> QED
  BY <1>1, <1>2, <1>3, <1>4 DEF Next, Steps

\* Every title keeps within its original amount, and what every handler holds is
\* still good, in every reachable state.
THEOREM Invariance == Spec => []FinanceInv
<1>1. Init => FinanceInv
  <2> SUFFICES ASSUME Init PROVE FinanceInv
    OBVIOUS
  <2>1. TypeOK
    BY TypeInit
  <2>2. \A t \in DOMAIN title : title[t].settled = 0
    BY DEF Init, NewTitle
  <2>3. \A t \in DOMAIN title : RowSettled(title[t])
    BY <2>2 DEF RowSettled
  <2>4. \A r \in Requests : req[r] = Idle
    BY DEF Init
  <2>5. \A r \in Requests : Held(req[r], title)
    BY <2>4, HoldsNothing
  <2> QED
    BY <2>1, <2>3, <2>5 DEF FinanceInv
<1>2. FinanceInv /\ [Next]_vars => FinanceInv'
  BY SafeStep
<1> QED
  BY <1>1, <1>2, PTL DEF Spec

\* No interleaving of payments settles a title beyond its original amount.
THEOREM NoOverSettlement == Spec => []NeverOverSettled
<1>1. FinanceInv => NeverOverSettled
  BY DEF FinanceInv, RowSettled, NeverOverSettled
<1> QED
  BY <1>1, Invariance, PTL

\* A lost compare-and-swap was lost to a payment that went through.
THEOREM ConflictsProgress == Spec => []ConflictMeansProgress
<1>1. FinanceInv => ConflictMeansProgress
  BY DEF FinanceInv, Held, ConflictMeansProgress
<1> QED
  BY <1>1, Invariance, PTL

----

\* A payment goes through: the transaction of registerPayment commits.
Commits(r) ==
  /\ At(r, "payReady") /\ CasMatches(req[r])
  /\ CommitPayment(r, IF req[r].title \in Receivables THEN "CREDIT" ELSE "DEBIT")

\* The four writes that touch titles, payments or the ledger; every other step
\* leaves the three tables alone.
LEMMA NextCases ==
  ASSUME FinanceInv, [Next]_vars
  PROVE  \/ UNCHANGED <<title, payments, ledger>>
         \/ \E r \in Requests : InsertTitles(r)
         \/ \E r \in Requests : CancelWrite(r)
         \/ \E r \in Requests : LegsInsert(r)
         \/ \E r \in Requests : Commits(r)
<1>1. CASE \E a \in Accounts : SetActive(a)
  BY <1>1 DEF SetActive
<1>2. CASE \E p \in Periods : CreatePeriod(p)
  BY <1>2 DEF CreatePeriod
<1>3. CASE UNCHANGED vars
  BY <1>3 DEF vars
<1>4. ASSUME NEW r \in Requests, Creating(r)
      PROVE  InsertTitles(r) \/ UNCHANGED <<title, payments, ledger>>
  BY <1>4 DEF Creating, GenerateRead, GenerateGuard, ManualGuard, ManualCheckDocument, tables
<1>5. ASSUME NEW r \in Requests, Paying(r)
      PROVE  Commits(r) \/ UNCHANGED <<title, payments, ledger>>
  <2>1. CASE PaymentRead(r) \/ PaymentCheckAccount(r) \/ PaymentGuard(r)
    BY <2>1 DEF PaymentRead, PaymentCheckAccount, PaymentGuard, tables
  <2>2. CASE ReceivablePayment(r)
    <3>1. CASE CasMatches(req[r])
      BY <2>2, <3>1 DEF ReceivablePayment, Commits
    <3>2. CASE ~CasMatches(req[r])
      BY <2>2, <3>2 DEF ReceivablePayment, CommitPayment
    <3> QED
      BY <3>1, <3>2
  <2>3. CASE PayablePayment(r)
    <3>1. req[r].title \notin Receivables
      BY <2>3, TitlesAssumption DEF PayablePayment
    <3>2. CASE CasMatches(req[r])
      BY <2>3, <3>1, <3>2 DEF PayablePayment, Commits
    <3>3. CASE ~CasMatches(req[r])
      BY <2>3, <3>3 DEF PayablePayment, CommitPayment
    <3> QED
      BY <3>2, <3>3
  <2> QED
    BY <1>5, <2>1, <2>2, <2>3 DEF Paying
<1>6. ASSUME NEW r \in Requests, Cancelling(r)
      PROVE  CancelWrite(r) \/ UNCHANGED <<title, payments, ledger>>
  BY <1>6 DEF Cancelling, CancelRead, CancelGuard, tables
<1>7. ASSUME NEW r \in Requests, Entering(r)
      PROVE  LegsInsert(r) \/ UNCHANGED <<title, payments, ledger>>
  BY <1>7 DEF Entering, EntryCheckAccount, TransferCheckAccounts, LegsGuard, tables
<1>8. ASSUME NEW r \in Requests, Closing(r)
      PROVE  UNCHANGED <<title, payments, ledger>>
  BY <1>8 DEF Closing, CloseRead, CloseReconcile, CloseWrite, tables
<1> QED
  BY <1>1, <1>2, <1>3, <1>4, <1>5, <1>6, <1>7, <1>8 DEF Next, Steps

----
(***************************************************************************)
(* History.                                                                 *)
(***************************************************************************)

\* Nothing recorded is removed or edited, whatever the requests do.
THEOREM HistoryKept == Spec => HistoryIsKept
<1>1. FinanceInv /\ [Next]_vars =>
        /\ payments \subseteq payments' /\ ledger \subseteq ledger'
        /\ RowsKept(title, title')
  <2> SUFFICES ASSUME FinanceInv, [Next]_vars
               PROVE  /\ payments \subseteq payments' /\ ledger \subseteq ledger'
                      /\ RowsKept(title, title')
    OBVIOUS
  <2>1. RowsKept(title, title')
    BY SafeStep
  <2>2. payments \subseteq payments' /\ ledger \subseteq ledger'
    BY NextCases DEF InsertTitles, CancelWrite, LegsInsert, Commits, CommitPayment
  <2> QED
    BY <2>1, <2>2
<1>2. FinanceInv /\ [Next]_vars =>
        [/\ payments \subseteq payments'
         /\ ledger \subseteq ledger'
         /\ \A t \in DOMAIN title :
              /\ t \in DOMAIN title'
              /\ title'[t].original = title[t].original
              /\ title'[t].settled >= title[t].settled
              /\ title[t].cancelled => title'[t].cancelled]_vars
  BY <1>1 DEF RowsKept
<1> QED
  BY <1>2, Invariance, PTL DEF Spec, HistoryIsKept

----
(***************************************************************************)
(* The ledger.                                                              *)
(***************************************************************************)

\* The ledger entry a payment must have.
Mirror(x) ==
  [ref |-> x.id, kind |-> "payment", account |-> x.account,
   type |-> IF x.title \in Receivables THEN "CREDIT" ELSE "DEBIT",
   amount |-> x.amount + x.extra, period |-> x.period]

\* Payments and their ledger entries go in and stay together.
THEOREM LedgerMirrors == Spec => []LedgerMirrorsPayments
<1>1. Init => LedgerMirrorsPayments
  BY DEF Init, LedgerMirrorsPayments
<1>2. FinanceInv /\ LedgerMirrorsPayments /\ [Next]_vars => LedgerMirrorsPayments'
  <2> SUFFICES ASSUME FinanceInv, LedgerMirrorsPayments, [Next]_vars
               PROVE  LedgerMirrorsPayments'
    OBVIOUS
  <2>1. {Mirror(x) : x \in payments} = {e \in ledger : e.kind = "payment"}
    BY DEF LedgerMirrorsPayments, Mirror
  <2>2. CASE payments' = payments /\ \A e \in (ledger' \ ledger) \cup (ledger \ ledger') :
                                       e.kind # "payment"
    <3>1. {e \in ledger' : e.kind = "payment"} = {e \in ledger : e.kind = "payment"}
      BY <2>2
    <3> QED
      BY <2>1, <2>2, <3>1 DEF LedgerMirrorsPayments, Mirror
  <2>3. CASE \E r \in Requests : LegsInsert(r)
    <3>1. PICK r \in Requests : LegsInsert(r)
      BY <2>3
    <3>2. req[r].kind \in {"manual", "transfer"}
      BY <3>1, StepTypes DEF LegsInsert, FinanceInv
    <3>3. payments' = payments /\ \A e \in (ledger' \ ledger) \cup (ledger \ ledger') :
                                    e.kind # "payment"
      BY <3>1, <3>2 DEF LegsInsert
    <3> QED
      BY <2>2, <3>3
  <2>4. CASE \E r \in Requests : Commits(r)
    <3>1. PICK r \in Requests : Commits(r)
      BY <2>4
    <3> DEFINE q == req[r]
               new == [id |-> r, title |-> q.title, amount |-> q.amount,
                       discount |-> q.discount, extra |-> q.extra,
                       account |-> q.account, period |-> q.period]
    <3>2. payments' = payments \cup {new} /\ ledger' = ledger \cup {Mirror(new)}
      BY <3>1 DEF Commits, CommitPayment, CashAmount, Mirror
    <3>3. Mirror(new).kind = "payment"
      BY DEF Mirror
    <3> HIDE DEF new
    <3>4. {Mirror(x) : x \in payments'} = {e \in ledger' : e.kind = "payment"}
      BY <2>1, <3>2, <3>3
    <3> QED
      BY <3>4 DEF LedgerMirrorsPayments, Mirror
  <2> QED
    BY <2>2, <2>3, <2>4, NextCases DEF InsertTitles, CancelWrite
<1> QED
  BY <1>1, <1>2, Invariance, PTL DEF Spec

\* A transfer always has both its legs.
THEOREM TransfersKeepBalance == Spec => []TransfersBalance
<1>1. Init => TransfersBalance
  BY DEF Init, TransfersBalance
<1>2. FinanceInv /\ TransfersBalance /\ [Next]_vars => TransfersBalance'
  <2> SUFFICES ASSUME FinanceInv, TransfersBalance, [Next]_vars,
                      NEW e \in ledger', e.kind = "transfer"
               PROVE  \E f \in ledger' :
                        /\ f.ref = e.ref /\ f.account # e.account /\ f.type # e.type
                        /\ f.amount = e.amount /\ f.period = e.period
    BY DEF TransfersBalance
  <2>1. CASE e \in ledger
    <3>1. ledger \subseteq ledger'
      BY NextCases DEF InsertTitles, CancelWrite, LegsInsert, Commits, CommitPayment
    <3> QED
      BY <2>1, <3>1 DEF TransfersBalance
  <2>2. CASE e \notin ledger
    <3>1. \E r \in Requests : LegsInsert(r)
      <4>1. ASSUME NEW r \in Requests, Commits(r) PROVE FALSE
        BY <2>2, <4>1 DEF Commits, CommitPayment
      <4> QED
        BY <2>2, <4>1, NextCases DEF InsertTitles, CancelWrite
    <3>2. PICK r \in Requests : LegsInsert(r)
      BY <3>1
    <3> DEFINE q == req[r]
               entry(leg) == [ref |-> r, kind |-> q.kind, account |-> leg.account,
                              type |-> leg.type, amount |-> q.amount, period |-> q.period]
    <3>3. ledger' = ledger \cup {entry(leg) : leg \in q.legs}
      BY <3>2 DEF LegsInsert, Inserted
    <3>4. PICK leg \in q.legs : e = entry(leg)
      BY <2>2, <3>3
    <3>5. q.kind = "transfer"
      BY <3>4
    <3>6. Held(q, title) /\ q.step = "legsReady"
      BY <3>2 DEF FinanceInv, LegsInsert, At
    <3>7. PICK a \in Accounts, b \in Accounts :
            a # b /\ q.legs = {[account |-> a, type |-> "DEBIT"],
                               [account |-> b, type |-> "CREDIT"]}
      BY <3>5, <3>6 DEF Held
    <3>8. PICK other \in q.legs : other.account # leg.account /\ other.type # leg.type
      BY <3>4, <3>7
    <3>9. entry(other) \in ledger'
      BY <3>3, <3>8
    <3> QED
      BY <3>4, <3>8, <3>9
  <2> QED
    BY <2>1, <2>2
<1> QED
  BY <1>1, <1>2, Invariance, PTL DEF Spec

----
(***************************************************************************)
(* The rows.                                                                *)
(***************************************************************************)

\* Inserting titles leaves the others alone; the new ones are in one table, come
\* from one origin, and have nothing settled.
LEMMA InsertEffect ==
  ASSUME FinanceInv, NEW r \in Requests, InsertTitles(r)
  PROVE  /\ \A t \in DOMAIN title : t \in DOMAIN title' /\ title'[t] = title[t]
         /\ \A t \in DOMAIN title' \ DOMAIN title :
              /\ t \in req[r].table /\ req[r].table \in {Receivables, Payables}
              /\ title'[t].origin = req[r].origin
              /\ title'[t].settled = 0
              /\ title'[t].status = WrittenStatus(title'[t].original, 0, FALSE)
              /\ ~UniqueViolated(req[r])
              /\ \E i \in DOMAIN req[r].plan : title'[t].original = req[r].plan[i]
         /\ req[r].origin # Manual =>
              \A t, u \in DOMAIN title' \ DOMAIN title : t = u
<1> DEFINE q == req[r]
           free == q.table \ DOMAIN title
<1>1. q.table \in {Receivables, Payables} /\ q.origin \in Origins \cup {Manual}
  BY StepTypes DEF InsertTitles, FinanceInv
<1>2. q.origin # Manual => DOMAIN q.plan = {1}
  BY DEF InsertTitles, FinanceInv, Held, At
<1>3. CASE UniqueViolated(q)
  <2>1. title' = title
    BY <1>3 DEF InsertTitles
  <2> QED
    BY <2>1
<1>4. CASE ~UniqueViolated(q)
  <2>1. PICK ids \in [DOMAIN q.plan -> free] :
          title' = [t \in DOMAIN title \cup {ids[i] : i \in DOMAIN q.plan} |->
                      IF t \in DOMAIN title THEN title[t]
                      ELSE NewTitle(q.origin,
                                    q.plan[CHOOSE i \in DOMAIN q.plan : ids[i] = t],
                                    q.period)]
    BY <1>4 DEF InsertTitles
  <2>2. DOMAIN title' = DOMAIN title \cup {ids[i] : i \in DOMAIN q.plan}
    BY <2>1
  <2>3. \A t \in DOMAIN title : t \in DOMAIN title' /\ title'[t] = title[t]
    BY <2>1
  <2>4. ASSUME NEW t \in DOMAIN title' \ DOMAIN title
        PROVE  /\ t \in q.table /\ title'[t].origin = q.origin /\ title'[t].settled = 0
               /\ title'[t].status = WrittenStatus(title'[t].original, 0, FALSE)
               /\ \E i \in DOMAIN q.plan : title'[t].original = q.plan[i]
    <3> DEFINE place == CHOOSE i \in DOMAIN q.plan : ids[i] = t
    <3>1. title'[t] = NewTitle(q.origin, q.plan[place], q.period)
      BY <2>1, <2>2
    <3>2. t \in q.table /\ place \in DOMAIN q.plan
      BY <2>1, <2>2
    <3> HIDE DEF place
    <3> QED
      BY <3>1, <3>2 DEF NewTitle
  <2>5. q.origin # Manual => \A t, u \in DOMAIN title' \ DOMAIN title : t = u
    BY <1>2, <2>2
  <2> QED
    BY <1>1, <1>4, <2>3, <2>4, <2>5
<1> QED
  BY <1>3, <1>4

\* The titles there are at first were made by hand and nothing is settled.
LEMMA InitialRow ==
  ASSUME Init, NEW t \in DOMAIN title
  PROVE  /\ title[t].origin = Manual /\ title[t].settled = 0
         /\ title[t].status = WrittenStatus(title[t].original, title[t].settled, FALSE)
<1>1. PICK amount \in [InitialTitles -> TitleAmounts], p \in Periods :
        title = [u \in InitialTitles |-> NewTitle(Manual, amount[u], p)]
  BY DEF Init
<1>2. title[t] = NewTitle(Manual, amount[t], p)
  BY <1>1
<1> QED
  BY <1>2 DEF NewTitle

\* The status of a title that was never cancelled follows its amounts.
THEOREM StatusFollows == Spec => []StatusFollowsAmounts
<1>1. Init => StatusFollowsAmounts
  <2> SUFFICES ASSUME Init, NEW t \in DOMAIN title
               PROVE  title[t].status = WrittenStatus(title[t].original, title[t].settled, FALSE)
    BY DEF StatusFollowsAmounts
  <2> QED
    BY InitialRow
<1>2. FinanceInv /\ StatusFollowsAmounts /\ [Next]_vars => StatusFollowsAmounts'
  <2> SUFFICES ASSUME FinanceInv, StatusFollowsAmounts, [Next]_vars
               PROVE  StatusFollowsAmounts'
    OBVIOUS
  <2>0. \A t \in DOMAIN title : title[t] \in Row
    BY DEF FinanceInv, TypeOK
  <2>1. CASE UNCHANGED <<title, payments, ledger>>
    BY <2>1 DEF StatusFollowsAmounts
  <2>2. CASE \E r \in Requests : InsertTitles(r)
    <3>1. PICK r \in Requests : InsertTitles(r)
      BY <2>2
    <3> QED
      BY <3>1, InsertEffect DEF StatusFollowsAmounts
  <2>3. CASE \E r \in Requests : CancelWrite(r)
    <3>1. PICK r \in Requests : CancelWrite(r)
      BY <2>3
    <3> DEFINE u == req[r].title
    <3>2. u \in DOMAIN title
      BY <3>1 DEF CancelWrite, FinanceInv, Held, At
    <3>3. /\ DOMAIN title' = DOMAIN title /\ title'[u].cancelled
          /\ \A t \in DOMAIN title : t # u => title'[t] = title[t]
      BY <2>0, <3>1, <3>2 DEF CancelWrite, Row
    <3> QED
      BY <3>3 DEF StatusFollowsAmounts
  <2>4. CASE \E r \in Requests : LegsInsert(r)
    BY <2>4 DEF LegsInsert, StatusFollowsAmounts
  <2>5. CASE \E r \in Requests : Commits(r)
    <3>1. PICK r \in Requests : Commits(r)
      BY <2>5
    <3> DEFINE u == req[r].title
               settled == title[u].settled + req[r].amount + req[r].discount
    <3>2. /\ u \in DOMAIN title
          /\ title' = [title EXCEPT ![u].settled = settled,
                                    ![u].status = NewStatus(u, settled)]
      BY <3>1, CommitEffect DEF Commits
    <3> HIDE DEF settled
    <3>3. /\ DOMAIN title' = DOMAIN title
          /\ title'[u].status = WrittenStatus(title'[u].original, title'[u].settled, FALSE)
          /\ \A t \in DOMAIN title : t # u => title'[t] = title[t]
      BY <2>0, <3>2 DEF NewStatus, Row
    <3> QED
      BY <3>3 DEF StatusFollowsAmounts
  <2> QED
    BY <2>1, <2>2, <2>3, <2>4, <2>5, NextCases
<1> QED
  BY <1>1, <1>2, Invariance, PTL DEF Spec

\* Two requests never make two titles of one billing, expense or fiscal document.
THEOREM OriginsUnique == Spec => []OneTitlePerOrigin
<1>1. Init => OneTitlePerOrigin
  BY InitialRow DEF OneTitlePerOrigin
<1>2. FinanceInv /\ OneTitlePerOrigin /\ [Next]_vars => OneTitlePerOrigin'
  <2> SUFFICES ASSUME FinanceInv, OneTitlePerOrigin, [Next]_vars,
                      NEW table \in {Receivables, Payables},
                      NEW t \in DOMAIN title' \cap table, NEW u \in DOMAIN title' \cap table,
                      t # u, title'[t].origin = title'[u].origin, title'[t].origin # Manual
               PROVE  FALSE
    BY DEF OneTitlePerOrigin
  <2>0. \A x \in DOMAIN title : title[x] \in Row
    BY DEF FinanceInv, TypeOK
  <2>1. CASE DOMAIN title' = DOMAIN title
               /\ \A x \in DOMAIN title : title'[x].origin = title[x].origin
    BY <2>1 DEF OneTitlePerOrigin
  <2>2. CASE \E r \in Requests : InsertTitles(r)
    <3>1. PICK r \in Requests : InsertTitles(r)
      BY <2>2
    <3> DEFINE q == req[r]
    <3>2. CASE t \in DOMAIN title /\ u \in DOMAIN title
      BY <3>1, <3>2, InsertEffect, ZenonT(40) DEF OneTitlePerOrigin
    <3>3. ASSUME NEW new \in {t, u}, NEW old \in {t, u}, new \notin DOMAIN title,
                 old \in DOMAIN title
          PROVE  FALSE
      <4>1. /\ new \in q.table /\ q.table \in {Receivables, Payables}
            /\ title'[new].origin = q.origin /\ ~UniqueViolated(q)
            /\ title'[old] = title[old]
        BY <3>1, <3>3, InsertEffect
      <4>2. q.table = table
        BY <4>1, TitlesAssumption
      <4>3. title[old].origin = q.origin /\ q.origin # Manual
        BY <4>1
      <4> QED
        BY <3>3, <4>1, <4>2, <4>3 DEF UniqueViolated, Linked
    <3>4. CASE t \notin DOMAIN title /\ u \notin DOMAIN title
      BY <3>1, <3>4, InsertEffect
    <3> QED
      BY <3>2, <3>3, <3>4
  <2>3. CASE \E r \in Requests : CancelWrite(r)
    <3>1. PICK r \in Requests : CancelWrite(r)
      BY <2>3
    <3>2. req[r].title \in DOMAIN title
      BY <3>1 DEF CancelWrite, FinanceInv, Held, At
    <3> QED
      BY <2>0, <2>1, <3>1, <3>2 DEF CancelWrite, Row
  <2>4. CASE \E r \in Requests : LegsInsert(r)
    BY <2>1, <2>4 DEF LegsInsert
  <2>5. CASE \E r \in Requests : Commits(r)
    <3>1. PICK r \in Requests : Commits(r)
      BY <2>5
    <3> DEFINE v == req[r].title
               settled == title[v].settled + req[r].amount + req[r].discount
               status == NewStatus(v, settled)
    <3>2. /\ v \in DOMAIN title
          /\ title' = [title EXCEPT ![v].settled = settled, ![v].status = status]
      BY <3>1, CommitEffect DEF Commits
    <3> HIDE DEF settled, status
    <3> QED
      BY <2>0, <2>1, <3>2 DEF Row
  <2> QED
    BY <2>1, <2>2, <2>3, <2>4, <2>5, NextCases
<1> QED
  BY <1>1, <1>2, Invariance, PTL DEF Spec

----
(***************************************************************************)
(* Refinement.                                                              *)
(***************************************************************************)

\* Read, check and compare-and-swap, interleaved in any way, settle titles the way
\* the book does it in single steps.
THEOREM Refinement == Spec => ImplementsBook
<1> DEFINE entry(row) == [limit |-> row.original, total |-> row.settled]
           bar == [t \in DOMAIN title |-> [limit |-> title[t].original,
                                           total |-> title[t].settled]]
<1>1. Init => Book!Init
  <2> SUFFICES ASSUME Init PROVE Book!Init
    OBVIOUS
  <2>1. TypeOK
    BY TypeInit
  <2>2. \A t \in DOMAIN title : title[t].settled = 0 /\ title[t].original \in Int
    BY <2>1, InitialRow DEF TypeOK, Row
  <2> QED
    BY <2>1, <2>2 DEF Book!Init, Book!TypeOK, Book!Entry, TypeOK
<1>2. FinanceInv /\ [Next]_vars => [Book!Next]_bar
  <2> SUFFICES ASSUME FinanceInv, [Next]_vars PROVE [Book!Next]_bar
    OBVIOUS
  <2>0. /\ \A t \in DOMAIN title : title[t] \in Row
        /\ FinanceInv'
    BY SafeStep DEF FinanceInv, TypeOK
  <2>1. CASE /\ DOMAIN title' = DOMAIN title
             /\ \A t \in DOMAIN title : /\ title'[t].original = title[t].original
                                        /\ title'[t].settled = title[t].settled
    <3>1. bar' = bar
      BY <2>1
    <3> QED
      BY <3>1
  <2>2. CASE \E r \in Requests : InsertTitles(r)
    <3>1. PICK r \in Requests : InsertTitles(r)
      BY <2>2
    <3>2. \A t \in DOMAIN title : t \in DOMAIN title' /\ title'[t] = title[t]
      BY <3>1, InsertEffect
    <3>3. \A t \in DOMAIN title' \ DOMAIN title : title'[t].settled = 0
      BY <3>1, InsertEffect
    <3>4. /\ DOMAIN title' \subseteq Titles
          /\ \A t \in DOMAIN title' : title'[t].original \in Int /\ title'[t].settled \in Int
      BY <2>0 DEF FinanceInv, TypeOK, Row
    <3>5. Book!Open
      BY <3>2, <3>3, <3>4 DEF Book!Open, Book!Entry
    <3> QED
      BY <3>5 DEF Book!Next
  <2>3. CASE \E r \in Requests : CancelWrite(r)
    <3>1. PICK r \in Requests : CancelWrite(r)
      BY <2>3
    <3>2. req[r].title \in DOMAIN title
      BY <3>1 DEF CancelWrite, FinanceInv, Held, At
    <3> QED
      BY <2>0, <2>1, <3>1, <3>2 DEF CancelWrite, Row
  <2>4. CASE \E r \in Requests : LegsInsert(r)
    BY <2>1, <2>4 DEF LegsInsert
  <2>5. CASE \E r \in Requests : Commits(r)
    <3>1. PICK r \in Requests : Commits(r)
      BY <2>5
    <3>0. PICK u \in DOMAIN title : u = req[r].title
      BY <3>1, CommitEffect DEF Commits
    <3> DEFINE settled == title[u].settled + req[r].amount + req[r].discount
               status == NewStatus(u, settled)
    <3>2. /\ u \in DOMAIN title
          /\ title[u].settled < settled /\ settled <= title[u].original
          /\ title' = [title EXCEPT ![u].settled = settled, ![u].status = status]
      BY <3>0, <3>1, CommitEffect DEF Commits
    <3> HIDE DEF settled, status
    <3>3. /\ DOMAIN title' = DOMAIN title
          /\ title'[u].original = title[u].original /\ title'[u].settled = settled
          /\ \A t \in DOMAIN title : t # u => title'[t] = title[t]
      BY <2>0, <3>2 DEF Row
    <3>4. bar' = [bar EXCEPT ![u].total = bar'[u].total]
      BY <3>2, <3>3
    <3>5. bar'[u].total > bar[u].total /\ bar'[u].total <= bar[u].limit
      BY <3>2, <3>3
    <3>6. Book!Settle(u)
      BY <3>4, <3>5 DEF Book!Settle
    <3>7. u \in DOMAIN bar
      BY <3>2
    <3>8. \E i \in DOMAIN bar : Book!Settle(i)
      BY <3>6, <3>7
    <3> QED
      BY <3>8 DEF Book!Next
  <2> QED
    BY <2>1, <2>2, <2>3, <2>4, <2>5, NextCases
<1> QED
  BY <1>1, <1>2, Invariance, PTL DEF Spec, ImplementsBook, Book!Spec

----
(***************************************************************************)
(* Sums.  A title's settled amount against its payments, one by one.        *)
(***************************************************************************)

\* A handler that is done takes no further step.
LEMMA DoneStays ==
  ASSUME TypeOK, [Next]_vars, NEW r \in Requests, At(r, "done")
  PROVE  At(r, "done")'
<1>1. req \in [Requests -> RequestState]
  BY DEF TypeOK
<1>2. ASSUME NEW u \in Requests, ~At(u, "done"), NEW state, Goto(u, state)
      PROVE  At(r, "done")'
  BY <1>1, <1>2 DEF Goto, At
<1>3. CASE UNCHANGED req
  BY <1>3 DEF At
<1>4. ASSUME NEW u \in Requests, Creating(u) PROVE At(r, "done")'
  <2>1. ~At(u, "done")
    BY <1>4 DEF Creating, GenerateRead, GenerateGuard, ManualGuard, ManualCheckDocument,
                InsertTitles, Starts, At
  <2>2. \E state : Goto(u, state)
    BY <1>4 DEF Creating, GenerateRead, GenerateGuard, ManualGuard, ManualCheckDocument,
                InsertTitles, Reject
  <2> QED
    BY <1>2, <2>1, <2>2
<1>5. ASSUME NEW u \in Requests, Paying(u) PROVE At(r, "done")'
  <2>1. ~At(u, "done")
    BY <1>5 DEF Paying, PaymentRead, PaymentCheckAccount, PaymentGuard, ReceivablePayment,
                PayablePayment, Starts, At
  <2>2. \E state : Goto(u, state)
    BY <1>5 DEF Paying, PaymentRead, PaymentCheckAccount, PaymentGuard, ReceivablePayment,
                PayablePayment, CommitPayment, Reject
  <2> QED
    BY <1>2, <2>1, <2>2
<1>6. ASSUME NEW u \in Requests, Cancelling(u) PROVE At(r, "done")'
  <2>1. ~At(u, "done") /\ \E state : Goto(u, state)
    BY <1>6 DEF Cancelling, CancelRead, CancelGuard, CancelWrite, Starts, At, Reject
  <2> QED
    BY <1>2, <2>1
<1>7. ASSUME NEW u \in Requests, Entering(u) PROVE At(r, "done")'
  <2>1. ~At(u, "done") /\ \E state : Goto(u, state)
    BY <1>7 DEF Entering, EntryCheckAccount, TransferCheckAccounts, LegsGuard, LegsInsert,
                Starts, At, Reject
  <2> QED
    BY <1>2, <2>1
<1>8. ASSUME NEW u \in Requests, Closing(u) PROVE At(r, "done")'
  <2>1. ~At(u, "done") /\ \E state : Goto(u, state)
    BY <1>8 DEF Closing, CloseRead, CloseReconcile, CloseWrite, Starts, At, Reject
  <2> QED
    BY <1>2, <2>1
<1> QED
  BY <1>3, <1>4, <1>5, <1>6, <1>7, <1>8 DEF Next, Steps, SetActive, CreatePeriod, vars

\* What a payment counts for: what it takes off the title, what it adds to the sum of
\* the reconciliation, and the discount that makes the difference.
SettledBy == [x \in Payment |-> x.amount + x.discount]
AddedBy == [x \in Payment |-> x.amount]
GrantedBy == [x \in Payment |-> x.discount]

\* The payments are finitely many, each of an existing title and of a request that is
\* done, with a discount that is not negative, and on every title they sum up to what
\* is settled.
SumInv ==
  /\ IsFiniteSet(payments)
  /\ \A x \in payments : x.title \in DOMAIN title /\ At(x.id, "done") /\ x.discount >= 0
  /\ SettledIsSumOfPayments

\* Whoever weighs payments by integers, one payment more of a title adds its weight to
\* the title's sum, and leaves the sums of the others.
LEMMA OnePaymentMore ==
  ASSUME NEW weight, weight \in [Payment -> Int], IsFiniteSet(payments),
         payments \subseteq Payment, NEW x \in Payment, x \notin payments,
         payments' = payments \cup {x}, NEW t
  PROVE  SumFunctionOnSet(weight, PaymentsOf(t))' =
           SumFunctionOnSet(weight, PaymentsOf(t)) + IF x.title = t THEN weight[x] ELSE 0
<1> DEFINE before == {y \in payments : y.title = t}
           after == {y \in payments' : y.title = t}
<1>1. IsFiniteSet(before) /\ before \subseteq Payment /\ x \notin before
  BY FS_Subset
<1>2. SumFunctionOnSet(weight, before) \in Int
  BY <1>1, SumType
<1>3. CASE x.title = t
  <2>1. after = before \cup {x}
    BY <1>3
  <2> HIDE DEF before, after
  <2>2. \A y \in before \cup {x} : weight[y] \in Int
    BY <1>1
  <2>3. SumFunctionOnSet(weight, before \cup {x}) = weight[x] + SumFunctionOnSet(weight, before)
    BY <1>1, <2>2, SumAdds
  <2>4. SumFunctionOnSet(weight, after) = SumFunctionOnSet(weight, before) + weight[x]
    BY <1>2, <2>1, <2>2, <2>3
  <2> QED
    BY <1>3, <2>4 DEF PaymentsOf, before, after
<1>4. CASE x.title # t
  <2>1. after = before
    BY <1>4
  <2> HIDE DEF before, after
  <2>2. SumFunctionOnSet(weight, after) = SumFunctionOnSet(weight, before) + 0
    BY <1>2, <2>1
  <2> QED
    BY <1>4, <2>2 DEF PaymentsOf, before, after
<1> QED
  BY <1>3, <1>4

\* The sums follow the payments, and new titles have none.
LEMMA SumStep ==
  ASSUME FinanceInv, SumInv, [Next]_vars
  PROVE  SumInv'
<1>0. TypeOK /\ TypeOK' /\ RowsKept(title, title')
  BY SafeStep DEF FinanceInv
<1>1. \A x \in payments : x.title \in DOMAIN title' /\ At(x.id, "done")' /\ x.discount >= 0
  <2> SUFFICES ASSUME NEW x \in payments
               PROVE  x.title \in DOMAIN title' /\ At(x.id, "done")' /\ x.discount >= 0
    OBVIOUS
  <2>1. x.id \in Requests
    BY <1>0 DEF TypeOK, Payment
  <2> QED
    BY <1>0, <2>1, DoneStays DEF SumInv, RowsKept
<1>2. SettledBy \in [Payment -> Int]
  BY DEF SettledBy, Payment
<1>3. ASSUME payments' = payments,
             \A t \in DOMAIN title : t \in DOMAIN title' /\ title'[t].settled = title[t].settled,
             \A t \in DOMAIN title' \ DOMAIN title : title'[t].settled = 0
      PROVE  SumInv'
  <2>1. ASSUME NEW t \in DOMAIN title' \ DOMAIN title
        PROVE  SumFunctionOnSet(SettledBy, PaymentsOf(t)) = 0
    <3>1. PaymentsOf(t) = {}
      BY DEF PaymentsOf, SumInv
    <3> QED
      BY <3>1, SumEmpty
  <2>2. \A t \in DOMAIN title' : title'[t].settled = SumFunctionOnSet(SettledBy, PaymentsOf(t))
    BY <1>3, <2>1 DEF SumInv, SettledIsSumOfPayments, SettledBy
  <2>3. SettledIsSumOfPayments'
    BY <1>3, <2>2 DEF SettledIsSumOfPayments, SettledBy, PaymentsOf
  <2> QED
    BY <1>1, <1>3, <2>3 DEF SumInv
<1>4. CASE UNCHANGED <<title, payments, ledger>>
  BY <1>3, <1>4
<1>5. CASE \E r \in Requests : InsertTitles(r)
  <2>1. PICK r \in Requests : InsertTitles(r)
    BY <1>5
  <2>2. payments' = payments
    BY <2>1 DEF InsertTitles
  <2> QED
    BY <1>3, <2>1, <2>2, InsertEffect
<1>6. CASE \E r \in Requests : CancelWrite(r)
  <2>1. PICK r \in Requests : CancelWrite(r)
    BY <1>6
  <2>2. req[r].title \in DOMAIN title
    BY <2>1 DEF CancelWrite, FinanceInv, Held, At
  <2>3. /\ payments' = payments /\ DOMAIN title' = DOMAIN title
        /\ \A t \in DOMAIN title : title'[t].settled = title[t].settled
    BY <1>0, <2>1, <2>2 DEF CancelWrite, TypeOK, Row
  <2> QED
    BY <1>3, <2>3
<1>7. CASE \E r \in Requests : LegsInsert(r)
  BY <1>3, <1>7 DEF LegsInsert
<1>8. CASE \E r \in Requests : Commits(r)
  <2>1. PICK r \in Requests : Commits(r)
    BY <1>8
  <2> DEFINE q == req[r]
             u == q.title
             new == [id |-> r, title |-> u, amount |-> q.amount, discount |-> q.discount,
                     extra |-> q.extra, account |-> q.account, period |-> q.period]
  <2>2. payments' = payments \cup {new} /\ At(r, "done")'
    BY <1>0, <2>1 DEF Commits, CommitPayment, Goto, At, TypeOK
  <2>3. /\ u \in DOMAIN title /\ DOMAIN title' = DOMAIN title
        /\ title'[u].settled = title[u].settled + q.amount + q.discount
        /\ \A t \in DOMAIN title : t # u => title'[t] = title[t]
    <3> DEFINE settled == title[u].settled + q.amount + q.discount
               status == NewStatus(u, settled)
    <3>1. /\ u \in DOMAIN title
          /\ title' = [title EXCEPT ![u].settled = settled, ![u].status = status]
      BY <2>1, CommitEffect DEF Commits
    <3> HIDE DEF settled, status
    <3>2. title'[u].settled = settled
      BY <1>0, <3>1 DEF TypeOK, Row
    <3> QED
      BY <3>1, <3>2 DEF settled
  <2>4. new \in Payment /\ new \notin payments
    <3>1. new \in payments'
      BY <2>2
    <3>2. ~At(r, "done") /\ new.id = r
      BY <2>1 DEF Commits, At
    <3> QED
      BY <1>0, <3>1, <3>2 DEF TypeOK, SumInv
  <2>5. /\ SettledBy[new] = q.amount + q.discount /\ new.title = u
        /\ q.amount \in Int /\ q.discount \in Int /\ new.discount >= 0
    <3>1. new.amount \in Int /\ new.discount \in Int
      BY <2>4 DEF Payment
    <3>2. q.discount >= 0
      BY <2>1 DEF Commits, FinanceInv, Held, At
    <3> QED
      BY <2>4, <3>1, <3>2 DEF SettledBy
  <2>6. /\ IsFiniteSet(payments')
        /\ \A x \in payments' : x.title \in DOMAIN title' /\ At(x.id, "done")' /\ x.discount >= 0
    <3>1. IsFiniteSet(payments')
      BY <2>2, FS_AddElement DEF SumInv
    <3>2. new.id = r
      OBVIOUS
    <3> HIDE DEF new
    <3> QED
      BY <1>1, <2>2, <2>3, <2>5, <3>1, <3>2
  <2> HIDE DEF new
  <2>7. ASSUME NEW t \in DOMAIN title'
        PROVE  title'[t].settled = SumFunctionOnSet(SettledBy, PaymentsOf(t))'
    <3>1. SumFunctionOnSet(SettledBy, PaymentsOf(t))' =
            SumFunctionOnSet(SettledBy, PaymentsOf(t)) + IF new.title = t THEN SettledBy[new] ELSE 0
      BY <1>0, <1>2, <2>2, <2>4, OnePaymentMore DEF TypeOK, SumInv
    <3>2. title[t].settled = SumFunctionOnSet(SettledBy, PaymentsOf(t))
      BY <2>3 DEF SumInv, SettledIsSumOfPayments, SettledBy
    <3>3. title[t].settled \in Int
      BY <1>0, <2>3 DEF TypeOK, Row
    <3>4. CASE t = u
      BY <2>3, <2>5, <3>1, <3>2, <3>3, <3>4
    <3>5. CASE t # u
      BY <2>3, <2>5, <3>1, <3>2, <3>3, <3>5
    <3> QED
      BY <3>4, <3>5
  <2>8. SettledIsSumOfPayments'
    BY <2>7 DEF SettledIsSumOfPayments, SettledBy
  <2> QED
    BY <2>6, <2>8 DEF SumInv
<1> QED
  BY <1>4, <1>5, <1>6, <1>7, <1>8, NextCases

LEMMA SumInvariance == Spec => []SumInv
<1>1. Init => SumInv
  <2> SUFFICES ASSUME Init PROVE SumInv
    OBVIOUS
  <2>1. payments = {} /\ \A t : PaymentsOf(t) = {}
    BY DEF Init, PaymentsOf
  <2>2. IsFiniteSet(payments)
    BY <2>1, FS_EmptySet
  <2>3. SettledIsSumOfPayments
    BY <2>1, InitialRow, SumEmpty DEF SettledIsSumOfPayments
  <2> QED
    BY <2>1, <2>2, <2>3 DEF SumInv
<1>2. FinanceInv /\ SumInv /\ [Next]_vars => SumInv'
  BY SumStep
<1> QED
  BY <1>1, <1>2, Invariance, PTL DEF Spec

\* The amount that a title keeps is the sum of what its payments settled, for any number
\* of payments and of requests that race for it.
THEOREM SettledIsSum == Spec => []SettledIsSumOfPayments
<1>1. SumInv => SettledIsSumOfPayments
  BY DEF SumInv
<1> QED
  BY <1>1, SumInvariance, PTL

\* The reconciliation misses exactly the discounts of a title.
LEMMA DiscountMissing ==
  ASSUME TypeOK, SumInv, NEW t \in DOMAIN title
  PROVE  /\ PaidSum(t) \in Int
         /\ SumFunctionOnSet(GrantedBy, PaymentsOf(t)) \in Nat
         /\ title[t].settled = PaidSum(t) + SumFunctionOnSet(GrantedBy, PaymentsOf(t))
<1>1. PaymentsOf(t) \subseteq payments /\ IsFiniteSet(PaymentsOf(t))
  BY FS_Subset DEF PaymentsOf, SumInv
<1>2. ASSUME NEW x \in PaymentsOf(t)
      PROVE  /\ AddedBy[x] \in Int /\ GrantedBy[x] \in Nat
             /\ SettledBy[x] = AddedBy[x] + GrantedBy[x]
  <2>1. x \in Payment /\ x.amount \in Int /\ x.discount \in Int /\ x.discount >= 0
    BY <1>1 DEF TypeOK, Payment, SumInv
  <2> QED
    BY <2>1 DEF AddedBy, GrantedBy, SettledBy
<1>3. /\ SumFunctionOnSet(AddedBy, PaymentsOf(t)) \in Int
      /\ SumFunctionOnSet(GrantedBy, PaymentsOf(t)) \in Nat
  BY <1>1, <1>2, SumType, SumNat
<1>4. SumFunctionOnSet(SettledBy, PaymentsOf(t)) =
        SumFunctionOnSet(AddedBy, PaymentsOf(t)) + SumFunctionOnSet(GrantedBy, PaymentsOf(t))
  BY <1>1, <1>2, SumSplits
<1>5. title[t].settled = SumFunctionOnSet(SettledBy, PaymentsOf(t))
  BY DEF SumInv, SettledIsSumOfPayments, SettledBy
<1> QED
  BY <1>3, <1>4, <1>5 DEF PaidSum, AddedBy

\* Whatever raced for it, a title blocks the closing of its period exactly when its
\* discounts exceed the tolerance of the reconciliation, or when it was never worth
\* paying: no race makes one CRITICAL, and no race hides one.
THEOREM CriticalExplained == Spec => []CriticalIsDiscount
<1>1. FinanceInv /\ SumInv /\ OneTitlePerOrigin => CriticalIsDiscount
  <2> SUFFICES ASSUME FinanceInv, SumInv, OneTitlePerOrigin
               PROVE  CriticalIsDiscount
    OBVIOUS
  <2>1. ~Duplicates
    BY TitlesAssumption DEF Duplicates, OneTitlePerOrigin
  <2>2. ASSUME NEW t \in DOMAIN title
        PROVE  CriticalRow(AsRead(t)) <=>
                 \/ SumFunctionOnSet(GrantedBy, PaymentsOf(t)) > AMOUNT_EPSILON
                 \/ title[t].original + AMOUNT_EPSILON < 0
    <3> DEFINE granted == SumFunctionOnSet(GrantedBy, PaymentsOf(t))
               paid == PaidSum(t)
    <3>1. paid \in Int /\ granted \in Nat /\ title[t].settled = paid + granted
      BY DiscountMissing DEF FinanceInv
    <3>2. /\ title[t].original \in Int /\ title[t].settled \in Int /\ title[t].settled >= 0
          /\ title[t].settled > 0 => title[t].settled <= title[t].original
      BY DEF FinanceInv, TypeOK, Row, RowSettled
    <3>3. CriticalRow(AsRead(t)) <=>
            \/ title[t].settled - paid > 1
            \/ paid - title[t].settled > 1
            \/ title[t].settled > title[t].original + 1
      BY DEF CriticalRow, Beyond, AsRead, AMOUNT_EPSILON
    <3> HIDE DEF granted, paid
    <3>4. CriticalRow(AsRead(t)) <=> granted > 1 \/ title[t].original + 1 < 0
      BY <3>1, <3>2, <3>3
    <3> QED
      BY <3>4 DEF granted, AMOUNT_EPSILON
  <2> QED
    BY <2>1, <2>2 DEF CriticalIsDiscount, GrantedBy
<1> QED
  BY <1>1, Invariance, SumInvariance, OriginsUnique, PTL

=============================================================================

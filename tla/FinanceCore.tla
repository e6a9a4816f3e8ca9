----------------------------- MODULE FinanceCore ------------------------------
(***************************************************************************)
(* The titles of one tenant (receivables and payables), their payments, the *)
(* ledger of financial transactions, the financial accounts and the         *)
(* financial periods, under concurrent requests.                            *)
(*                                                                          *)
(* A request is one HTTP handler running in some API process.  Between two  *)
(* awaits of a handler any other handler may run, and Postgres runs at Read *)
(* Committed, so every query outside a $transaction is a step of its own; a *)
(* $transaction whose only read is the row it locks is one step.  A handler *)
(* that answers with an error goes back to "idle": the client may call      *)
(* again.  One that is never scheduled again is a crashed process.          *)
(***************************************************************************)
EXTENDS MoneyRules, Sequences, FiniteSets, Functions

CONSTANTS
  Receivables, Payables,   \* ids of the title rows of each table
  Origins,                 \* ids of billings, expenses and fiscal documents
  Documents,               \* the fiscal documents among them
  Manual,                  \* billingId, expenseId and fiscalDocumentId all null
  Requests,                \* ids of the requests, and of what they create
  Accounts, Periods,
  TitleAmounts,            \* bound: original amounts of titles, in cents
  Amounts,                 \* bound: amounts of payments and entries
  Extras,                  \* bound: discounts, and interest plus fine
  MaxInstallments,         \* @Max on installments
  InitialTitles,           \* titles issued before the behaviour starts
  Workloads                \* bound: the ways to share the operations among requests

Titles == Receivables \cup Payables

Operations == {"create", "pay", "cancel", "account", "entry", "period"}

ASSUME TitlesAssumption ==
  /\ Receivables \cap Payables = {}
  /\ InitialTitles \subseteq Titles
  /\ Manual \notin Origins
  /\ Documents \subseteq Origins

ASSUME WorkloadsAssumption == Workloads \subseteq [Requests -> SUBSET Operations]

ASSUME AmountsAssumption ==
  /\ TitleAmounts \subseteq Nat \ {0}   \* @IsPositive on originalAmount
  /\ Amounts \subseteq Nat \ {0}        \* @IsPositive on amount
  /\ Extras \subseteq Nat               \* @Min(0) on the three extras
  /\ MaxInstallments \in Nat

VARIABLES
  title,      \* the rows of the two tables, by id
  payments,   \* ReceivablePayment and PayablePayment rows
  ledger,     \* FinancialTransaction rows
  active,     \* FinancialAccount.isActive
  period,     \* FinancialPeriod.status, "ABSENT" when there is no row
  req,        \* what each handler holds between two awaits
  workload    \* which operations each request may be, in this behaviour

vars == <<title, payments, ledger, active, period, req, workload>>
tables == <<title, payments, ledger, active, period>>

Row == [origin: Origins \cup {Manual}, original: Int, settled: Int,
        status: WrittenStatuses, cancelled: BOOLEAN, period: Periods]

Payment == [id: Requests, title: Titles, amount: Int, discount: Int, extra: Int,
            account: Accounts, period: Periods]

Transaction == [ref: Requests, kind: {"payment", "manual", "transfer"},
                account: Accounts, type: {"CREDIT", "DEBIT"}, amount: Int,
                period: Periods]

Leg == [account: Accounts, type: {"CREDIT", "DEBIT"}]

Idle == [step |-> "idle"]

RequestState ==
  [step: {"idle", "done"}]
    \cup [step: {"payRead"}, title: Titles, seen: Int]
    \cup [step: {"payAccount"}, title: Titles, seen: Int, account: Accounts]
    \cup [step: {"payReady"}, title: Titles, seen: Int, account: Accounts,
          period: Periods, amount: Int, discount: Int, extra: Int]
    \cup [step: {"cancelRead", "cancelReady"}, title: Titles]
    \cup [step: {"generateRead", "manualGuarded", "insert"}, table: {Receivables, Payables},
          origin: Origins \cup {Manual}, plan: Seq(Int), period: Periods]
    \cup [step: {"legsChecked"}, legs: SUBSET Leg, kind: {"manual", "transfer"}]
    \cup [step: {"legsReady"}, legs: SUBSET Leg, kind: {"manual", "transfer"},
          amount: Int, period: Periods]
    \cup [step: {"closeRead"}, period: Periods,
          rows: SUBSET [title: Titles, original: Int, settled: Int]]
    \cup [step: {"closeReady"}, period: Periods]

TypeOK ==
  /\ DOMAIN title \subseteq Titles
  /\ title \in [DOMAIN title -> Row]
  /\ payments \subseteq Payment
  /\ ledger \subseteq Transaction
  /\ active \in [Accounts -> BOOLEAN]
  /\ period \in [Periods -> {"ABSENT", "OPEN", "CLOSED"}]
  /\ req \in [Requests -> RequestState]

----
(* Handlers. *)

At(r, step) == req[r].step = step

Goto(r, state) == req' = [req EXCEPT ![r] = state]

\* An error response before any write.
Reject(r) == Goto(r, Idle)

\* assertPeriodOpenForDate: a period without a row does not block.
PeriodOpen(p) == period[p] # "CLOSED"

NewTitle(origin, original, p) ==
  [origin |-> origin, original |-> original, settled |-> 0,
   status |-> WrittenStatus(original, 0, FALSE), cancelled |-> FALSE, period |-> p]

Linked(table, origin) == \E t \in DOMAIN title \cap table : title[t].origin = origin

\* A request starts as one of the operations that the behaviour gives it.
Starts(r, op) == At(r, "idle") /\ op \in workload[r]

Offered(op) == \E r \in Requests : op \in workload[r]

----
(* Creating titles. *)

\* generateFromBilling, generateFromExpense: the source row and the lookup of a
\* title already made from it.  The amount invoiced or spent so far, and the
\* date that gives the period, are copied here.
GenerateRead(r) ==
  /\ Starts(r, "create")
  /\ \E table \in {Receivables, Payables}, origin \in Origins \ Documents,
        amount \in TitleAmounts, p \in Periods :
       /\ ~Linked(table, origin)
       /\ Goto(r, [step |-> "generateRead", table |-> table, origin |-> origin,
                   plan |-> <<amount>>, period |-> p])
  /\ UNCHANGED tables

GenerateGuard(r) ==
  /\ At(r, "generateRead")
  /\ IF PeriodOpen(req[r].period) THEN Goto(r, [req[r] EXCEPT !.step = "insert"])
     ELSE Reject(r)
  /\ UNCHANGED tables

\* create: the period first; a title of a fiscal document is never split.
ManualGuard(r) ==
  /\ Starts(r, "create")
  /\ \E table \in {Receivables, Payables}, origin \in Documents \cup {Manual}, p \in Periods,
        total \in TitleAmounts, n \in 1..MaxInstallments :
       /\ PeriodOpen(p)
       /\ origin # Manual => n = 1
       /\ n <= Cardinality(table \ DOMAIN title)      \* bound: the ids left
       /\ \E plan \in InstallmentPlans(total, n) :
            Goto(r, [step |-> IF origin = Manual THEN "insert" ELSE "manualGuarded",
                     table |-> table, origin |-> origin, plan |-> plan, period |-> p])
  /\ UNCHANGED tables

\* assertFiscalDocumentLinkable.
ManualCheckDocument(r) ==
  /\ At(r, "manualGuarded")
  /\ IF Linked(req[r].table, req[r].origin) THEN Reject(r)
     ELSE Goto(r, [req[r] EXCEPT !.step = "insert"])
  /\ UNCHANGED tables

\* Mutant of UniqueViolated: the columns are indexed but not unique.
NotUnique(q) == q.origin \notin Origins \cup {Manual}

UniqueViolated(q) == q.origin # Manual /\ Linked(q.table, q.origin)

\* One transaction inserts all the instalments.  billingId, expenseId and
\* fiscalDocumentId are unique columns, in which nulls do not collide.
InsertTitles(r) ==
  /\ At(r, "insert")
  /\ LET q == req[r]
         free == q.table \ DOMAIN title
     IN  IF UniqueViolated(q)
         THEN Reject(r) /\ UNCHANGED title
         ELSE \E ids \in [DOMAIN q.plan -> free] :
                /\ \A i, j \in DOMAIN q.plan : ids[i] = ids[j] => i = j
                /\ title' = [t \in DOMAIN title \cup {ids[i] : i \in DOMAIN q.plan} |->
                               IF t \in DOMAIN title THEN title[t]
                               ELSE NewTitle(q.origin,
                                             q.plan[CHOOSE i \in DOMAIN q.plan : ids[i] = t],
                                             q.period)]
                /\ Reject(r)
  /\ UNCHANGED <<payments, ledger, active, period>>

----
(* registerPayment. *)

\* findOrThrow: the row and its settled amount are kept for the rest of the call.
PaymentRead(r) ==
  /\ Starts(r, "pay")
  /\ \E t \in DOMAIN title :
       /\ ~title[t].cancelled
       /\ Goto(r, [step |-> "payRead", title |-> t, seen |-> title[t].settled])
  /\ UNCHANGED tables

\* assertActiveAndTenant.
PaymentCheckAccount(r) ==
  /\ At(r, "payRead")
  /\ \E a \in Accounts :
       IF active[a]
       THEN Goto(r, [step |-> "payAccount", title |-> req[r].title, seen |-> req[r].seen,
                     account |-> a])
       ELSE Reject(r)
  /\ UNCHANGED tables

\* Mutant of Fits: the new payment alone is compared with the original amount.
FitsOriginal(q, settled) == settled <= title[q.title].original

\* What the payment settles fits in the balance of the row that was read.
Fits(q, settled) ==
  LET open == Balance(title[q.title].original, q.seen)
  IN  open > 0 /\ settled <= open

PaymentGuard(r) ==
  /\ At(r, "payAccount")
  /\ \E amount \in Amounts, discount \in Extras, extra \in Extras, p \in Periods :
       IF Fits(req[r], amount + discount) /\ PeriodOpen(p)
       THEN Goto(r, [step |-> "payReady", title |-> req[r].title, seen |-> req[r].seen,
                     account |-> req[r].account, period |-> p, amount |-> amount,
                     discount |-> discount, extra |-> extra])
       ELSE Reject(r)
  /\ UNCHANGED tables

\* Mutant of CashAmount: the ledger entry takes what was settled.
CashSettled(q) == q.amount + q.discount

\* The money that moves: interest and fine do, a discount does not.
CashAmount(q) == q.amount + q.extra

\* Mutant of CasMatches: the update is by id alone.
NoCas(q) == q.title \in DOMAIN title

\* updateMany with the settled amount that was read in its WHERE.
CasMatches(q) == title[q.title].settled = q.seen

\* Mutant of NewStatus: the status is computed from the row still stored.
StaleStatus(t, settled) == WrittenStatus(title[t].original, title[t].settled, FALSE)

\* The status written with a payment never looks at cancelledAt.
NewStatus(t, settled) == WrittenStatus(title[t].original, settled, FALSE)

\* The transaction: compare-and-swap of the row, the payment, the ledger entry.
CommitPayment(r, type) ==
  LET q == req[r]
      settled == q.seen + q.amount + q.discount
  IN  IF CasMatches(q)
      THEN /\ title' = [title EXCEPT
                          ![q.title].settled = settled,
                          ![q.title].status = NewStatus(q.title, settled)]
           /\ payments' = payments \cup
                {[id |-> r, title |-> q.title, amount |-> q.amount, discount |-> q.discount,
                  extra |-> q.extra, account |-> q.account, period |-> q.period]}
           /\ ledger' = ledger \cup
                {[ref |-> r, kind |-> "payment", account |-> q.account, type |-> type,
                  amount |-> CashAmount(q), period |-> q.period]}
           /\ Goto(r, [step |-> "done"])
      ELSE Reject(r) /\ UNCHANGED <<title, payments, ledger>>

ReceivablePayment(r) ==
  /\ At(r, "payReady") /\ req[r].title \in Receivables
  /\ CommitPayment(r, "CREDIT")
  /\ UNCHANGED <<active, period>>

PayablePayment(r) ==
  /\ At(r, "payReady") /\ req[r].title \in Payables
  /\ CommitPayment(r, "DEBIT")
  /\ UNCHANGED <<active, period>>

----
(* cancel. *)

CancelRead(r) ==
  /\ Starts(r, "cancel")
  /\ \E t \in DOMAIN title :
       ~title[t].cancelled /\ Goto(r, [step |-> "cancelRead", title |-> t])
  /\ UNCHANGED tables

\* The period of the title's own issue date.
CancelGuard(r) ==
  /\ At(r, "cancelRead")
  /\ IF PeriodOpen(title[req[r].title].period)
     THEN Goto(r, [req[r] EXCEPT !.step = "cancelReady"])
     ELSE Reject(r)
  /\ UNCHANGED tables

\* Mutant of CancelWrite: cancelling also reverses what was received.
CancelWriteReversal(r) ==
  /\ At(r, "cancelReady")
  /\ title' = [title EXCEPT ![req[r].title].cancelled = TRUE,
                             ![req[r].title].status = "CANCELLED",
                             ![req[r].title].settled = 0]
  /\ Reject(r)
  /\ UNCHANGED <<payments, ledger, active, period>>

CancelWrite(r) ==
  /\ At(r, "cancelReady")
  /\ title' = [title EXCEPT ![req[r].title].cancelled = TRUE,
                             ![req[r].title].status = "CANCELLED"]
  /\ Reject(r)
  /\ UNCHANGED <<payments, ledger, active, period>>

----
(* Accounts, manual entries and transfers. *)

\* activate and deactivate: both write the flag by id.
SetActive(a) ==
  /\ Offered("account")
  /\ active' = [active EXCEPT ![a] = ~@]
  /\ UNCHANGED <<title, payments, ledger, period, req>>

\* FinancialTransactionsService.create on an active account.
EntryCheckAccount(r) ==
  /\ Starts(r, "entry")
  /\ \E a \in Accounts, type \in {"CREDIT", "DEBIT"} :
       /\ active[a]
       /\ Goto(r, [step |-> "legsChecked", kind |-> "manual",
                   legs |-> {[account |-> a, type |-> type]}])
  /\ UNCHANGED tables

\* FinancialTransfersService.create between two active accounts.
TransferCheckAccounts(r) ==
  /\ Starts(r, "entry")
  /\ \E source, destination \in Accounts :
       /\ source # destination /\ active[source] /\ active[destination]
       /\ Goto(r, [step |-> "legsChecked", kind |-> "transfer",
                   legs |-> {[account |-> source, type |-> "DEBIT"],
                             [account |-> destination, type |-> "CREDIT"]}])
  /\ UNCHANGED tables

LegsGuard(r) ==
  /\ At(r, "legsChecked")
  /\ \E p \in Periods, amount \in Amounts :
       IF PeriodOpen(p)
       THEN Goto(r, [step |-> "legsReady", kind |-> req[r].kind, legs |-> req[r].legs,
                     amount |-> amount, period |-> p])
       ELSE Reject(r)
  /\ UNCHANGED tables

\* Mutant of Inserted: the second insert of a transfer is lost.
InsertedFirst(q) == {leg \in q.legs : q.kind = "manual" \/ leg.type = "DEBIT"}

\* Both legs of a transfer, in one transaction.
Inserted(q) == q.legs

LegsInsert(r) ==
  /\ At(r, "legsReady")
  /\ ledger' = ledger \cup
       {[ref |-> r, kind |-> req[r].kind, account |-> leg.account, type |-> leg.type,
         amount |-> req[r].amount, period |-> req[r].period] : leg \in Inserted(req[r])}
  /\ Goto(r, [step |-> "done"])
  /\ UNCHANGED <<title, payments, active, period>>

----
(* Financial periods and the reconciliation that gates their closing. *)

CreatePeriod(p) ==
  /\ Offered("period")
  /\ period[p] = "ABSENT"
  /\ period' = [period EXCEPT ![p] = "OPEN"]
  /\ UNCHANGED <<title, payments, ledger, active, req>>

\* A title as the reconciliation reads it.
AsRead(t) == [title |-> t, original |-> title[t].original, settled |-> title[t].settled]

\* close: the period's row, then the reconciliation's first query, the titles
\* issued in that period whose status is not CANCELLED.
CloseRead(r) ==
  /\ Starts(r, "period")
  /\ \E p \in Periods :
       /\ period[p] = "OPEN"
       /\ LET scope == {t \in DOMAIN title :
                          title[t].period = p /\ title[t].status # "CANCELLED"}
          IN  Goto(r, [step |-> "closeRead", period |-> p,
                       rows |-> {AsRead(t) : t \in scope}])
  /\ UNCHANGED tables

PaymentsOf(t) == {x \in payments : x.title = t}

\* The reconciliation's second query adds up amount, and only amount.
PaidSum(t) == SumFunctionOnSet([x \in Payment |-> x.amount], PaymentsOf(t))

AMOUNT_EPSILON == 1   \* 0.01, in cents

Beyond(row, tolerance) ==
  \/ row.settled - PaidSum(row.title) > tolerance
  \/ PaidSum(row.title) - row.settled > tolerance
  \/ row.settled > row.original + tolerance

\* *_BALANCE_INCONSISTENT or *_PAYMENT_EXCEEDS_*: both CRITICAL.
CriticalRow(row) == Beyond(row, AMOUNT_EPSILON)

\* The amounts are binary fractions: a difference of exactly the tolerance may come
\* out on either side of it, and only a smaller one is never CRITICAL.
PerhapsCritical(row) == Beyond(row, AMOUNT_EPSILON - 1)

\* DUPLICATE_RECEIVABLE, DUPLICATE_PAYABLE: two titles of one billing or one expense,
\* over the whole tenant.  Fiscal documents are not looked at.
Duplicates ==
  \E table \in {Receivables, Payables} : \E t, u \in DOMAIN title \cap table :
    t # u /\ title[t].origin = title[u].origin /\ title[t].origin \in Origins \ Documents

CloseReconcile(r) ==
  /\ At(r, "closeRead")
  /\ \/ /\ Duplicates \/ \E row \in req[r].rows : PerhapsCritical(row)
        /\ Reject(r)
     \/ /\ ~Duplicates /\ \A row \in req[r].rows : ~CriticalRow(row)
        /\ Goto(r, [step |-> "closeReady", period |-> req[r].period])
  /\ UNCHANGED tables

CloseWrite(r) ==
  /\ At(r, "closeReady")
  /\ period' = [period EXCEPT ![req[r].period] = "CLOSED"]
  /\ Reject(r)
  /\ UNCHANGED <<title, payments, ledger, active>>

----
(* Specification. *)

Init ==
  /\ \E amount \in [InitialTitles -> TitleAmounts], p \in Periods :
       title = [t \in InitialTitles |-> NewTitle(Manual, amount[t], p)]
  /\ payments = {} /\ ledger = {}
  /\ active = [a \in Accounts |-> TRUE]
  /\ period = [p \in Periods |-> "ABSENT"]
  /\ req = [r \in Requests |-> Idle]
  /\ workload \in Workloads

Creating(r) ==
  GenerateRead(r) \/ GenerateGuard(r) \/ ManualGuard(r) \/ ManualCheckDocument(r)
    \/ InsertTitles(r)

Paying(r) ==
  PaymentRead(r) \/ PaymentCheckAccount(r) \/ PaymentGuard(r) \/ ReceivablePayment(r)
    \/ PayablePayment(r)

Cancelling(r) == CancelRead(r) \/ CancelGuard(r) \/ CancelWrite(r)

Entering(r) ==
  EntryCheckAccount(r) \/ TransferCheckAccounts(r) \/ LegsGuard(r) \/ LegsInsert(r)

Closing(r) == CloseRead(r) \/ CloseReconcile(r) \/ CloseWrite(r)

Steps ==
  \/ \E r \in Requests :
       Creating(r) \/ Paying(r) \/ Cancelling(r) \/ Entering(r) \/ Closing(r)
  \/ \E a \in Accounts : SetActive(a)
  \/ \E p \in Periods : CreatePeriod(p)

Next == Steps /\ UNCHANGED workload

Spec == Init /\ [][Next]_vars

----
(* Properties. *)

\* The settled amount kept on a title (receivedAmount, paidAmount) is the sum of
\* what its payments settled, whatever requests raced for it: no payment is lost
\* and none is counted twice.
SettledIsSumOfPayments ==
  \A t \in DOMAIN title :
    title[t].settled = SumFunctionOnSet([x \in Payment |-> x.amount + x.discount], PaymentsOf(t))

\* No interleaving of payments settles a title beyond its original amount.
NeverOverSettled ==
  \A t \in DOMAIN title : title[t].settled > 0 => title[t].settled <= title[t].original

\* A payment that fails its compare-and-swap fails because another payment went
\* through: a handler never holds more than what is settled now.
ConflictMeansProgress ==
  \A r \in Requests :
    req[r].step \in {"payRead", "payAccount", "payReady"} =>
      req[r].seen <= title[req[r].title].settled

\* Every payment moved its cash (amount, interest and fine, never the discount) in
\* the account, the period and the direction of its title, exactly once; and every
\* ledger entry that refers to a payment has that payment.
LedgerMirrorsPayments ==
  {[ref |-> x.id, kind |-> "payment", account |-> x.account,
    type |-> IF x.title \in Receivables THEN "CREDIT" ELSE "DEBIT",
    amount |-> x.amount + x.extra, period |-> x.period] : x \in payments}
  = {e \in ledger : e.kind = "payment"}

\* The status written on a title that was never cancelled is the one its amounts
\* call for, although each payment writes a status computed before its commit.
StatusFollowsAmounts ==
  \A t \in DOMAIN title : ~title[t].cancelled =>
    title[t].status = WrittenStatus(title[t].original, title[t].settled, FALSE)

\* A billing, an expense or a fiscal document has at most one title, although the
\* check and the insert of two requests may interleave.
OneTitlePerOrigin ==
  \A table \in {Receivables, Payables} : \A t, u \in DOMAIN title \cap table :
    title[t].origin = title[u].origin /\ title[t].origin # Manual => t = u

\* Payments and ledger entries are never removed or edited, the settled amount of
\* a title never goes down, a cancellation is never undone and the original amount
\* never changes.
HistoryIsKept ==
  [][/\ payments \subseteq payments'
     /\ ledger \subseteq ledger'
     /\ \A t \in DOMAIN title :
          /\ t \in DOMAIN title'
          /\ title'[t].original = title[t].original
          /\ title'[t].settled >= title[t].settled
          /\ title[t].cancelled => title'[t].cancelled]_vars

\* A transfer moves money and makes none: its debit and its credit are always both
\* there, with the same amount.
TransfersBalance ==
  \A e \in ledger : e.kind = "transfer" =>
    \E f \in ledger : /\ f.ref = e.ref /\ f.account # e.account /\ f.type # e.type
                      /\ f.amount = e.amount /\ f.period = e.period

\* Whatever raced for it, a title is CRITICAL to the reconciliation, and blocks the
\* closing of its period, exactly when its discounts exceed the tolerance (or when it
\* was never worth paying): a race of payments alone never makes one, and no billing
\* or expense is ever found twice.
CriticalIsDiscount ==
  /\ ~Duplicates
  /\ \A t \in DOMAIN title :
       CriticalRow(AsRead(t)) <=>
         \/ SumFunctionOnSet([x \in Payment |-> x.discount], PaymentsOf(t)) > AMOUNT_EPSILON
         \/ title[t].original + AMOUNT_EPSILON < 0

\* reconciliation-issue-type.util.ts: CRITICAL is a real mathematical error, an
\* impossible balance or payment; docs/finance-reconciliation.md: in normal operation
\* it should never happen.  So no sequence of legal calls should produce it.
NoCriticalIssue == \A t \in DOMAIN title : ~CriticalRow(AsRead(t))

\* docs/receivables.md, "Regras de recebimento": a cancelled title takes no payment.
CancelledTakesNoPayment ==
  [][\A x \in payments' \ payments : ~title[x.title].cancelled]_vars

\* The inductive invariant behind the theorems of FinanceProofs.  A handler that
\* holds a title holds one that exists, with no more settled than there is now; a
\* payment that passed its guard still fits in the original amount; a title with an
\* origin comes from a plan of one instalment; a transfer holds its two legs.
Held(q, rows) ==
  /\ q.step \in {"payRead", "payAccount", "payReady"} =>
       q.title \in DOMAIN rows /\ q.seen <= rows[q.title].settled
  /\ q.step = "payReady" =>
       /\ q.amount > 0 /\ q.discount >= 0
       /\ q.seen + q.amount + q.discount <= rows[q.title].original
  /\ q.step \in {"cancelRead", "cancelReady"} => q.title \in DOMAIN rows
  /\ (q.step \in {"generateRead", "manualGuarded", "insert"} /\ q.origin # Manual) =>
       DOMAIN q.plan = {1}
  /\ (q.step \in {"legsChecked", "legsReady"} /\ q.kind = "transfer") =>
         \E a, b \in Accounts :
           a # b /\ q.legs = {[account |-> a, type |-> "DEBIT"],
                             [account |-> b, type |-> "CREDIT"]}

RowSettled(row) == row.settled >= 0 /\ (row.settled > 0 => row.settled <= row.original)

\* Every row is settled within its original amount, and what the handlers hold
\* between two awaits is still good for the writes they are about to do.
FinanceInv ==
  /\ TypeOK
  /\ \A t \in DOMAIN title : RowSettled(title[t])
  /\ \A r \in Requests : Held(req[r], title)

\* The settlements of the titles, seen from outside, are those of the book.
Book == INSTANCE SettlementBook WITH
  Items <- Titles,
  book <- [t \in DOMAIN title |-> [limit |-> title[t].original, total |-> title[t].settled]]

ImplementsBook == Book!Spec

=============================================================================

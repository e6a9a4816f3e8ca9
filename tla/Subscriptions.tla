----------------------------- MODULE Subscriptions -----------------------------
(***************************************************************************)
(* The subscription a carrier pays the platform for: payments entered by    *)
(* the office, payments and authorizations notified by the payment service,  *)
(* the office's own changes and the daily check for overdue ones.            *)
(*                                                                           *)
(* Subscriptions share no row; this is one.  A request is one handler and    *)
(* every await is a step.  Due dates are months counted from the first one,  *)
(* and a payment moves them by one period.  The payment service repeats a    *)
(* notification until it is answered, may send it again after that, and      *)
(* keeps no order.                                                           *)
(***************************************************************************)
EXTENDS Integers, FiniteSets

CONSTANTS
  Preapprovals, Charges,   \* ids of the payment service
  Requests,
  NotLinked,               \* externalSubscriptionId null
  MaxMonths,               \* bound: months that pass, and dates set by hand
  MaxByHand,               \* bound: payments and changes the office enters
  MaxFailures              \* bound: handlers that fail and answers that are lost

ASSUME SubscriptionAssumption ==
  /\ Preapprovals \cap Charges = {} /\ NotLinked \notin Preapprovals
  /\ MaxMonths \in Nat /\ MaxByHand \in Nat /\ MaxFailures \in Nat

VARIABLES
  status, method, due, linked,   \* the TenantSubscription
  rows,        \* SubscriptionPayment rows with each externalPaymentId
  byHand,      \* what the office entered, payments and changes
  preapproval, \* external: status of each preapproval
  charge,      \* external: status of each payment
  unheard,     \* external: payments that must still be notified (a preapproval may always be)
  month,       \* the clock
  req,         \* what each handler holds
  failures,
  credit,      \* history: months given by hand or paid
  overtaken,   \* history: a due date was set by hand while a payment was written
  ignored      \* history: payments the webhook chose not to record

subVars == <<status, method, due, linked>>
payVars == <<rows, byHand, credit, overtaken>>
mpVars == <<preapproval, charge, month>>
vars == <<subVars, payVars, mpVars, unheard, req, failures, ignored>>

Statuses == {"ACTIVE", "PENDING", "OVERDUE", "SUSPENDED", "CANCELLED"}

\* "MANUAL" stands for PIX_SCHEDULED, DIRECT_DEBIT and STRIPE.
Methods == {"MERCADO_PAGO", "MANUAL"}

PreapprovalStatuses == {"pending", "authorized", "paused", "cancelled"}

\* An approved payment carries the carrier's id as its externalReference ("approved"), an id
\* of no carrier ("stranger"), or none ("unnamed").
ChargeStatuses == {"none", "in_process", "approved", "stranger", "unnamed"}

Mapped == [authorized |-> "ACTIVE", paused |-> "SUSPENDED", cancelled |-> "CANCELLED",
           pending |-> "PENDING"]

Idle == [at |-> "idle"]

RequestState ==
  [at: {"idle", "creating", "marking"}]
    \cup [at: {"notified"}, of: Preapprovals \cup Charges]
    \cup [at: {"fetched", "found"}, of: Preapprovals, status: PreapprovalStatuses]
    \cup [at: {"approved", "fresh"}, of: Charges]
    \cup [at: {"crediting"}, of: Charges, due: Nat]
    \cup [at: {"paying"}, due: Nat]
    \cup [at: {"asking", "linking"}, of: Preapprovals]

TypeOK ==
  /\ status \in Statuses /\ method \in Methods /\ due \in Nat
  /\ linked \in Preapprovals \cup {NotLinked}
  /\ rows \in [Charges -> Nat] /\ byHand \in Nat
  /\ preapproval \in [Preapprovals -> PreapprovalStatuses \cup {"none"}]
  /\ charge \in [Charges -> ChargeStatuses]
  /\ unheard \subseteq Charges
  /\ month \in Nat
  /\ req \in [Requests -> RequestState]
  /\ failures \in Nat /\ credit \in Nat
  /\ overtaken \in BOOLEAN /\ ignored \subseteq Charges

At(r, point) == req[r].at = point

Become(r, state) == req' = [req EXCEPT ![r] = state]

----
(* The webhook (MercadoPagoWebhookService). *)

Exists(x) == \/ x \in Preapprovals /\ preapproval[x] # "none"
             \/ x \in Charges /\ charge[x] # "none"

\* A notification arrives: one that is due, or one that is repeated though it was answered.
Notify(r, x) ==
  /\ At(r, "idle") /\ Exists(x)
  /\ unheard' = unheard \ {x}
  /\ Become(r, [at |-> "notified", of |-> x])
  /\ UNCHANGED <<subVars, payVars, mpVars, failures, ignored>>

\* Mutant of Unanswered: every error is answered as if the payment were recorded.
AlwaysAnswered(x) == {}

\* What is notified again after an error.
Unanswered(x) == {x} \cap Charges

\* The handler throws, its process dies, or its answer is lost.
Fail(r) ==
  /\ req[r].at \in {"notified", "fetched", "found", "approved", "fresh", "crediting"}
  /\ failures < MaxFailures /\ failures' = failures + 1
  /\ unheard' = unheard \cup Unanswered(req[r].of)
  /\ Become(r, Idle)
  /\ UNCHANGED <<subVars, payVars, mpVars, ignored>>

\* The handler ends; the answer may be lost.
Answer(r) ==
  /\ Become(r, Idle)
  /\ \/ UNCHANGED <<unheard, failures>>
     \/ /\ failures < MaxFailures /\ failures' = failures + 1
        /\ unheard' = unheard \cup Unanswered(req[r].of)

\* processPreapproval: the payment service's status, the subscription, the write by id.
PreapprovalFetch(r) ==
  /\ At(r, "notified") /\ req[r].of \in Preapprovals
  /\ Become(r, [at |-> "fetched", of |-> req[r].of, status |-> preapproval[req[r].of]])
  /\ UNCHANGED <<subVars, payVars, mpVars, unheard, failures, ignored>>

PreapprovalFind(r) ==
  /\ At(r, "fetched")
  /\ IF linked = req[r].of
     THEN /\ Become(r, [req[r] EXCEPT !.at = "found"])
          /\ UNCHANGED <<unheard, failures>>
     ELSE Answer(r)
  /\ UNCHANGED <<subVars, payVars, mpVars, ignored>>

PreapprovalWrite(r) ==
  /\ At(r, "found")
  /\ status' = Mapped[req[r].status]
  /\ Answer(r)
  /\ UNCHANGED <<method, due, linked, payVars, mpVars, ignored>>

\* processPayment: the payment, a row that may be there, and a transaction that reads the
\* subscription before it writes both rows.  What is not approved, or names nobody, is
\* dropped.
PaymentFetch(r) ==
  /\ At(r, "notified") /\ req[r].of \in Charges
  /\ IF charge[req[r].of] \in {"approved", "stranger"}
     THEN /\ Become(r, [at |-> "approved", of |-> req[r].of])
          /\ UNCHANGED <<unheard, failures>>
     ELSE Answer(r)
  /\ UNCHANGED <<subVars, payVars, mpVars, ignored>>

PaymentLookup(r) ==
  /\ At(r, "approved")
  /\ IF rows[req[r].of] > 0
     THEN Answer(r)
     ELSE /\ Become(r, [at |-> "fresh", of |-> req[r].of])
          /\ UNCHANGED <<unheard, failures>>
  /\ UNCHANGED <<subVars, payVars, mpVars, ignored>>

\* A stranger has no subscription, and one that is paid otherwise now, or that was ended,
\* takes no such payment.
Takes(x) ==
  charge[x] # "stranger" /\ method = "MERCADO_PAGO" /\ status \notin {"CANCELLED", "SUSPENDED"}

PaymentRead(r) ==
  /\ At(r, "fresh")
  /\ IF Takes(req[r].of)
     THEN /\ Become(r, [at |-> "crediting", of |-> req[r].of, due |-> due])
          /\ UNCHANGED <<unheard, failures, ignored>>
     ELSE Answer(r) /\ ignored' = ignored \cup {req[r].of}
  /\ UNCHANGED <<subVars, payVars, mpVars>>

\* Mutant of Advances: a row moves the due date whatever its status.
AdvancesAlways(paid) == TRUE

Advances(paid) == paid

\* recordPaymentInTransaction's write on the subscription it was given.
Advance(r, paid) ==
  IF Advances(paid)
  THEN status' = "ACTIVE" /\ due' = req[r].due + 1
  ELSE UNCHANGED <<status, due>>

Earned(paid) == credit' = IF paid THEN credit + 1 ELSE credit

\* Mutant of UniqueViolated: externalPaymentId is a plain column.
NotUnique(x) == rows[x] < 0

\* externalPaymentId is unique: the transaction fails, and the webhook answers as usual.
UniqueViolated(x) == rows[x] > 0

PaymentCommit(r) ==
  /\ At(r, "crediting")
  /\ LET x == req[r].of
     IN  IF UniqueViolated(x)
         THEN UNCHANGED <<status, due, rows, credit>>
         ELSE /\ rows' = [rows EXCEPT ![x] = @ + 1]
              /\ Advance(r, TRUE) /\ Earned(TRUE)
  /\ Answer(r)
  /\ UNCHANGED <<method, linked, byHand, overtaken, mpVars, ignored>>

----
(* The office (SubscriptionsService). *)

RegisterRead(r) ==
  /\ At(r, "idle") /\ byHand < MaxByHand /\ byHand' = byHand + 1
  /\ Become(r, [at |-> "paying", due |-> due])
  /\ UNCHANGED <<subVars, rows, credit, overtaken, mpVars, unheard, failures, ignored>>

\* registerPayment: a row of any status; only PAID moves the subscription.
RegisterCommit(r) ==
  /\ At(r, "paying")
  /\ \E paid \in BOOLEAN : Advance(r, paid) /\ Earned(paid)
  /\ Become(r, Idle)
  /\ UNCHANGED <<method, linked, rows, byHand, overtaken, mpVars, unheard, failures, ignored>>

Writing(r) == req[r].at \in {"crediting", "paying"}

\* update: any of the fields it was sent, each written as it came.
Update ==
  /\ byHand < MaxByHand /\ byHand' = byHand + 1
  /\ status' \in Statuses /\ method' \in Methods
  /\ \/ UNCHANGED <<due, credit, overtaken>>
     \/ /\ due' \in 0..MaxMonths /\ credit' = due'
        /\ overtaken' = (overtaken \/ \E q \in Requests : Writing(q))
  /\ UNCHANGED <<linked, rows, mpVars, unheard, req, failures, ignored>>

\* createMercadoPagoAuthorization: what is linked is asked after, a preapproval is made
\* at the payment service, and its id is written.
AuthorizeRead(r) ==
  /\ At(r, "idle") /\ method = "MERCADO_PAGO"
  /\ Become(r, IF linked = NotLinked THEN [at |-> "creating"] ELSE [at |-> "asking", of |-> linked])
  /\ UNCHANGED <<subVars, payVars, mpVars, unheard, failures, ignored>>

AuthorizeAsk(r) ==
  /\ At(r, "asking")
  /\ Become(r, IF preapproval[req[r].of] \in {"authorized", "pending"} THEN Idle
               ELSE [at |-> "creating"])
  /\ UNCHANGED <<subVars, payVars, mpVars, unheard, failures, ignored>>

AuthorizeCreate(r) ==
  /\ At(r, "creating")
  /\ \/ \E p \in Preapprovals :
          /\ preapproval[p] = "none"
          /\ preapproval' = [preapproval EXCEPT ![p] = "pending"]
          /\ Become(r, [at |-> "linking", of |-> p]) \/ Become(r, Idle)   \* no link, or no answer
     \/ Become(r, Idle) /\ UNCHANGED preapproval   \* it refuses
  /\ UNCHANGED <<subVars, payVars, charge, month, unheard, failures, ignored>>

AuthorizeLink(r) ==
  /\ At(r, "linking")
  /\ linked' = req[r].of
  /\ Become(r, Idle)
  /\ UNCHANGED <<status, method, due, payVars, mpVars, unheard, failures, ignored>>

----
(* The daily check (BillingLifecycleService). *)

Late == status \in {"ACTIVE", "PENDING"} /\ due < month /\ method # "MERCADO_PAGO"

MarkRead(r) ==
  /\ At(r, "idle") /\ Late
  /\ Become(r, [at |-> "marking"])
  /\ UNCHANGED <<subVars, payVars, mpVars, unheard, failures, ignored>>

MarkWrite(r) ==
  /\ At(r, "marking")
  /\ status' = "OVERDUE"
  /\ Become(r, Idle)
  /\ UNCHANGED <<method, due, linked, payVars, mpVars, unheard, failures, ignored>>

----
(* The payment service and the clock (external). *)

\* The payer authorizes, pauses and resumes; a preapproval that is cancelled stays so.
PayerMoves(p) ==
  /\ \E to \in PreapprovalStatuses \ {"pending", preapproval[p]} :
       /\ preapproval[p] \notin {"none", "cancelled"}
       /\ to = "paused" => preapproval[p] = "authorized"
       /\ preapproval' = [preapproval EXCEPT ![p] = to]
  /\ UNCHANGED <<subVars, payVars, charge, month, unheard, req, failures, ignored>>

\* A payment of any authorized preapproval, at first in process.
Charged(x) ==
  /\ \/ /\ charge[x] = "none" /\ \E p \in Preapprovals : preapproval[p] = "authorized"
        /\ charge' = [charge EXCEPT ![x] = "in_process"]
     \/ /\ charge[x] = "in_process"
        /\ \E as \in {"approved", "stranger", "unnamed"} : charge' = [charge EXCEPT ![x] = as]
  /\ unheard' = unheard \cup {x}
  /\ UNCHANGED <<subVars, payVars, preapproval, month, req, failures, ignored>>

MonthPasses ==
  /\ month < MaxMonths /\ month' = month + 1
  /\ UNCHANGED <<subVars, payVars, preapproval, charge, unheard, req, failures, ignored>>

----
(* Specification. *)

Init ==
  /\ status = "PENDING" /\ method \in Methods /\ due = 0 /\ linked = NotLinked
  /\ rows = [x \in Charges |-> 0] /\ byHand = 0 /\ credit = 0 /\ overtaken = FALSE
  /\ preapproval = [p \in Preapprovals |-> "none"] /\ charge = [x \in Charges |-> "none"]
  /\ unheard = {} /\ month = 0 /\ failures = 0 /\ ignored = {}
  /\ req = [r \in Requests |-> Idle]

\* A handler that was called.
Continue(r) ==
  \/ PreapprovalFetch(r) \/ PreapprovalFind(r) \/ PreapprovalWrite(r)
  \/ PaymentFetch(r) \/ PaymentLookup(r) \/ PaymentRead(r) \/ PaymentCommit(r)
  \/ RegisterCommit(r) \/ MarkWrite(r)
  \/ AuthorizeAsk(r) \/ AuthorizeCreate(r) \/ AuthorizeLink(r)

Next ==
  \/ \E r \in Requests :
       \/ Continue(r) \/ Fail(r)
       \/ RegisterRead(r) \/ AuthorizeRead(r) \/ MarkRead(r)
       \/ \E x \in Preapprovals \cup Charges : Notify(r, x)
  \/ \E p \in Preapprovals : PayerMoves(p)
  \/ \E x \in Charges : Charged(x)
  \/ Update \/ MonthPasses

Spec == Init /\ [][Next]_vars

\* The API finishes what it was called for, and the payment service repeats what was not
\* answered until some handler takes it: there are always more handlers than |Requests|.
Fairness ==
  /\ \A r \in Requests : WF_vars(Continue(r))
  /\ \A x \in Charges : SF_vars(x \in unheard /\ \E r \in Requests : Notify(r, x))

FairSpec == Spec /\ Fairness

----
(* Properties. *)

\* The due date is never ahead of what was paid or given by hand, however payments race:
\* an old due date may lose a month, never grant one (recordPaymentInTransaction).
DueNeverAhead == overtaken \/ due <= credit

\* A payment that was notified any number of times, to any number of handlers at once,
\* leaves one row, and only if it was approved and is this carrier's (externalPaymentId).
CreditedOnce == \A x \in Charges : rows[x] <= 1 /\ (rows[x] > 0 => charge[x] = "approved")

\* An approved payment of the carrier is recorded, or was ignored on purpose, or is being handled, or
\* will be notified again: no failure lets one slip between the retries (process).
NothingUnanswered ==
  \A x \in Charges :
    charge[x] = "approved" =>
      \/ rows[x] > 0 \/ x \in ignored \/ x \in unheard
      \/ \E r \in Requests :
           /\ req[r].at \in {"notified", "approved", "fresh", "crediting"}
           /\ req[r].of = x

\* In the end it is recorded or ignored, not handled for ever.
EventuallyAnswered ==
  \A x \in Charges : charge[x] = "approved" ~> (rows[x] > 0 \/ x \in ignored)

=============================================================================

----------------------------- MODULE TripBilling -----------------------------
(***************************************************************************)
(* What a trip is billed: its commercial amount, the billing that is         *)
(* invoiced in parts, the revenue that each part generates, and the          *)
(* receivable generated from the billing.                                    *)
(*                                                                           *)
(* A request is one handler; every await of a query is a step, and nothing   *)
(* but the last transaction of an invoice writes two rows at once.  Amounts  *)
(* are integers of cents.  The three amounts of a freight are one, the best  *)
(* of them; the periods are elsewhere, and a guard that asks for one may     *)
(* refuse.                                                                   *)
(***************************************************************************)
EXTENDS Integers, FiniteSets, Functions

CONSTANTS
  Trips, Revenues,     \* ids
  Requests,
  NoRevenue,           \* TripFreight.revenueId null
  NoBilling,           \* no row was found
  All,                 \* an invoice without an amount
  Prices,              \* bound: commercial amounts
  Amounts              \* bound: amounts of an invoice or a revenue

Statuses == {"PARTIALLY_INVOICED", "INVOICED", "PAID", "CANCELLED"}

Billing == [status: Statuses, billable: Int, invoiced: Int]

ASSUME BillingAssumption ==
  /\ Prices \subseteq Nat              \* @Min(0)
  /\ Amounts \subseteq Nat \ {0}       \* @Min(0.01)
  /\ All \notin Amounts
  /\ NoRevenue \notin Revenues
  /\ NoBilling \notin Billing

VARIABLES
  freight,     \* the rows of TripFreight
  billing,     \* the rows of TripBilling
  entry,       \* the TripBillingEntry rows, by their unique revenueId
  revenue,     \* the rows of TripRevenue
  title,       \* originalAmount of the receivable of a trip's billing
  req,         \* what each handler holds
  overtaken    \* history: trips whose billing was written from an old row

vars == <<freight, billing, entry, revenue, title, req, overtaken>>

Freight == [amount: Int, revenue: Revenues \cup {NoRevenue}]

Item == [trip: Trips, amount: Int]

Idle == [step |-> "idle"]

Seen == Billing \cup {NoBilling}

RequestState ==
  {Idle}
    \cup [step: {"price"}, trip: Trips, wish: Amounts \cup {All}]
    \cup [step: {"guard"}, trip: Trips, seen: Seen, billable: Int, amount: Int]
    \cup [step: {"entry"}, trip: Trips, seen: Seen, billable: Int, amount: Int,
          revenue: Revenues, status: Statuses]
    \cup [step: {"paid", "cancel"}, trip: Trips, seen: Billing]
    \cup [step: {"title"}, trip: Trips, amount: Int]
    \cup [step: {"unbilled", "apply"}, trip: Trips, amount: Int]
    \cup [step: {"link"}, trip: Trips, revenue: Revenues]

TypeOK ==
  /\ DOMAIN freight \subseteq Trips /\ freight \in [DOMAIN freight -> Freight]
  /\ DOMAIN billing \subseteq Trips /\ billing \in [DOMAIN billing -> Billing]
  /\ DOMAIN entry \subseteq Revenues /\ entry \in [DOMAIN entry -> Item]
  /\ DOMAIN revenue \subseteq Revenues /\ revenue \in [DOMAIN revenue -> Item]
  /\ DOMAIN title \subseteq Trips /\ title \in [DOMAIN title -> Int]
  /\ req \in [Requests -> RequestState]
  /\ overtaken \subseteq Trips

----
(* Rules. *)

At(r, step) == req[r].step = step

Become(r, state) == req' = [req EXCEPT ![r] = state]

With(f, x, y) == [u \in DOMAIN f \cup {x} |-> IF u = x THEN y ELSE f[u]]

\* computeBillingStatusFromAmounts, of the amounts that an invoice writes.  They are added
\* as floats: a sum that is the billable amount may fall short of it (0.7 + 0.1 < 0.8).
StatusesOf(billable, before, amount) ==
  IF billable <= 0 \/ before + amount < billable THEN {"PARTIALLY_INVOICED"}
  ELSE IF before = 0 \/ before + amount > billable THEN {"INVOICED"}
  ELSE {"INVOICED", "PARTIALLY_INVOICED"}

\* invoice refuses a billing that is cancelled or paid.
Invoiceable(row) == row.status \notin {"CANCELLED", "PAID"}

Balance(billable, invoiced) == IF billable > invoiced THEN billable - invoiced ELSE 0

\* Mutant of Resolved: a partial amount is not compared with the balance.
PartialUnchecked(wish, balance) ==
  IF balance = 0 THEN {} ELSE {IF wish = All THEN balance ELSE wish}

\* resolveInvoiceAmount: the amount to invoice, or none.
Resolved(wish, balance) ==
  {amount \in {IF wish = All THEN balance ELSE wish} : 0 < amount /\ amount <= balance}

\* An id that no row and no handler has.
Fresh(v) ==
  /\ v \notin DOMAIN revenue
  /\ \A q \in Requests : req[q].step \in {"entry", "link"} => req[q].revenue # v

\* TripRevenuesService.create, in a write of its own.
NewRevenue(v, t, amount) ==
  /\ Fresh(v)
  /\ revenue' = With(revenue, v, [trip |-> t, amount |-> amount])

\* A write by id of what was decided on an older row.
Overtake(t, seen) == overtaken' = IF billing[t] = seen THEN overtaken ELSE overtaken \cup {t}

----
(* Freight. *)

\* applyToTrip and updateTripFreight: the best amount may change at any time.
Price(t, amount) ==
  /\ freight' = With(freight, t,
                  [amount |-> amount,
                   revenue |-> IF t \in DOMAIN freight THEN freight[t].revenue ELSE NoRevenue])
  /\ UNCHANGED <<billing, entry, revenue, title, req, overtaken>>

\* applyRevenue: the freight's row.
ApplyRead(r, t) ==
  /\ At(r, "idle")
  /\ t \in DOMAIN freight
  /\ freight[t].revenue = NoRevenue
  /\ Become(r, [step |-> "unbilled", trip |-> t, amount |-> freight[t].amount])
  /\ UNCHANGED <<freight, billing, entry, revenue, title, overtaken>>

\* It is refused once the billing of the trip has begun.
ApplyGuard(r) ==
  /\ At(r, "unbilled")
  /\ Become(r, IF req[r].trip \in DOMAIN billing THEN Idle ELSE [req[r] EXCEPT !.step = "apply"])
  /\ UNCHANGED <<freight, billing, entry, revenue, title, overtaken>>

ApplyRevenue(r, v) ==
  /\ At(r, "apply")
  /\ NewRevenue(v, req[r].trip, req[r].amount)
  /\ Become(r, [step |-> "link", trip |-> req[r].trip, revenue |-> v])
  /\ UNCHANGED <<freight, billing, entry, title, overtaken>>

\* The foreign key refuses a revenue that is gone.
ApplyLink(r) ==
  /\ At(r, "link")
  /\ freight' = IF req[r].revenue \in DOMAIN revenue
                THEN [freight EXCEPT ![req[r].trip].revenue = req[r].revenue] ELSE freight
  /\ Become(r, Idle)
  /\ UNCHANGED <<billing, entry, revenue, title, overtaken>>

----
(* Invoices. *)

\* What was invoiced before, as the handler read it.
Before(seen) == IF seen = NoBilling THEN 0 ELSE seen.invoiced

\* The checks of an invoice, and the amount that it will generate.  The balance is a
\* difference of floats: the whole rest may seem to exceed it (0.3 - 0.1 < 0.2).
Resolve(r, t, seen, billable, wish) ==
  LET balance == Balance(billable, Before(seen))
      amounts == Resolved(wish, balance)
  IN  IF amounts = {} \/ (seen # NoBilling /\ ~Invoiceable(seen))
      THEN Become(r, Idle)
      ELSE \/ \E amount \in amounts :
                Become(r, [step |-> "guard", trip |-> t, seen |-> seen, billable |-> billable,
                           amount |-> amount])
           \/ Before(seen) > 0 /\ amounts = {balance} /\ Become(r, Idle)

\* Mutant of InvoiceRead: the billable amount is read again from the freight.
InvoiceReprice(r, t, wish) ==
  /\ At(r, "idle")
  /\ IF t \notin DOMAIN billing
     THEN Become(r, [step |-> "price", trip |-> t, wish |-> wish])
     ELSE Resolve(r, t, billing[t], freight[t].amount, wish)
  /\ UNCHANGED <<freight, billing, entry, revenue, title, overtaken>>

\* invoice: the billing's row, whose billable amount is frozen.
InvoiceRead(r, t, wish) ==
  /\ At(r, "idle")
  /\ IF t \notin DOMAIN billing
     THEN Become(r, [step |-> "price", trip |-> t, wish |-> wish])
     ELSE Resolve(r, t, billing[t], billing[t].billable, wish)
  /\ UNCHANGED <<freight, billing, entry, revenue, title, overtaken>>

\* The first invoice takes the freight's amount of that moment.
InvoicePrice(r) ==
  /\ At(r, "price")
  /\ LET t == req[r].trip
     IN  IF t \in DOMAIN freight
         THEN Resolve(r, t, NoBilling, freight[t].amount, req[r].wish)
         ELSE Become(r, Idle)
  /\ UNCHANGED <<freight, billing, entry, revenue, title, overtaken>>

\* The revenue is created and committed before the billing is written, and the status
\* computed from what the handler read.
InvoiceRevenue(r, v) ==
  /\ At(r, "guard")
  /\ NewRevenue(v, req[r].trip, req[r].amount)
  /\ LET q == req[r]
     IN  \E status \in StatusesOf(q.billable, Before(q.seen), q.amount) :
           Become(r, [step |-> "entry", trip |-> q.trip, seen |-> q.seen,
                      billable |-> q.billable, amount |-> q.amount, revenue |-> v,
                      status |-> status])
  /\ UNCHANGED <<freight, billing, entry, title, overtaken>>

\* The period of an invoice or of a title is closed.
PeriodClosed(r) ==
  /\ At(r, "guard") \/ At(r, "title")
  /\ Become(r, Idle)
  /\ UNCHANGED <<freight, billing, entry, revenue, title, overtaken>>

\* The row that an invoice writes, from the row it has read.
Invoiced(q) ==
  [status |-> q.status, billable |-> q.billable, invoiced |-> q.amount + Before(q.seen)]

\* The billing and its entry in one transaction.  The unique trip refuses a
\* second billing and the foreign key a revenue that is gone; the revenue stays.
InvoiceCommit(r) ==
  /\ At(r, "entry")
  /\ LET q == req[r]
         t == q.trip
     IN  IF (q.seen = NoBilling /\ t \in DOMAIN billing) \/ q.revenue \notin DOMAIN revenue
         THEN UNCHANGED <<billing, entry, overtaken>>
         ELSE /\ billing' = With(billing, t, Invoiced(q))
              /\ entry' = With(entry, q.revenue, [trip |-> t, amount |-> q.amount])
              /\ IF q.seen = NoBilling THEN UNCHANGED overtaken ELSE Overtake(t, q.seen)
  /\ Become(r, Idle)
  /\ UNCHANGED <<freight, revenue, title>>

----
(* The billing as a whole. *)

\* Mutant of Payable: whatever was invoiced once may be confirmed.
EverInvoiced(row) == row.invoiced > 0

\* updateStatus to PAID.
Payable(row) == row.status \in {"INVOICED", "PARTIALLY_INVOICED"}

PaidRead(r, t) ==
  /\ At(r, "idle")
  /\ t \in DOMAIN billing
  /\ Payable(billing[t])
  /\ Become(r, [step |-> "paid", trip |-> t, seen |-> billing[t]])
  /\ UNCHANGED <<freight, billing, entry, revenue, title, overtaken>>

PaidWrite(r) ==
  /\ At(r, "paid")
  /\ billing' = [billing EXCEPT ![req[r].trip].status = "PAID"]
  /\ Overtake(req[r].trip, req[r].seen)
  /\ Become(r, Idle)
  /\ UNCHANGED <<freight, entry, revenue, title>>

CancelRead(r, t) ==
  /\ At(r, "idle")
  /\ t \in DOMAIN billing
  /\ billing[t].status # "CANCELLED"
  /\ Become(r, [step |-> "cancel", trip |-> t, seen |-> billing[t]])
  /\ UNCHANGED <<freight, billing, entry, revenue, title, overtaken>>

CancelWrite(r) ==
  /\ At(r, "cancel")
  /\ billing' = [billing EXCEPT ![req[r].trip].status = "CANCELLED"]
  /\ Become(r, Idle)
  /\ UNCHANGED <<freight, entry, revenue, title, overtaken>>

\* generateFromBilling: the billing's row.
TitleRead(r, t) ==
  /\ At(r, "idle")
  /\ t \in DOMAIN billing
  /\ billing[t].status # "CANCELLED"
  /\ billing[t].invoiced > 0
  /\ Become(r, [step |-> "title", trip |-> t, amount |-> billing[t].invoiced])
  /\ UNCHANGED <<freight, billing, entry, revenue, title, overtaken>>

\* A title that exists, or the unique billingId, refuses a second one.
TitleInsert(r) ==
  /\ At(r, "title")
  /\ title' = IF req[r].trip \in DOMAIN title THEN title
              ELSE With(title, req[r].trip, req[r].amount)
  /\ Become(r, Idle)
  /\ UNCHANGED <<freight, billing, entry, revenue, overtaken>>

----
(* Revenues by hand. *)

CreateRevenue(v, t, amount) ==
  /\ NewRevenue(v, t, amount)
  /\ UNCHANGED <<freight, billing, entry, title, req, overtaken>>

\* update edits any revenue, a generated one too.
UpdateRevenue(v, amount) ==
  /\ v \in DOMAIN revenue
  /\ revenue' = [revenue EXCEPT ![v].amount = amount]
  /\ UNCHANGED <<freight, billing, entry, title, req, overtaken>>

\* Mutant of Removable: the entry goes with its revenue.
RemovableAlways(v) == TRUE

\* An entry restricts the removal of its revenue.
Removable(v) == v \notin DOMAIN entry

\* remove; a freight that names the revenue loses it.
RemoveRevenue(v) ==
  /\ v \in DOMAIN revenue
  /\ Removable(v)
  /\ revenue' = [u \in DOMAIN revenue \ {v} |-> revenue[u]]
  /\ freight' = [t \in DOMAIN freight |->
                   IF freight[t].revenue = v THEN [freight[t] EXCEPT !.revenue = NoRevenue]
                   ELSE freight[t]]
  /\ UNCHANGED <<billing, entry, title, req, overtaken>>

----
Init ==
  /\ freight = [t \in {} |-> NoRevenue]
  /\ billing = [t \in {} |-> NoBilling]
  /\ entry = [v \in {} |-> NoRevenue]
  /\ revenue = [v \in {} |-> NoRevenue]
  /\ title = [t \in {} |-> 0]
  /\ req = [r \in Requests |-> Idle]
  /\ overtaken = {}

Handle(r) ==
  \/ \E t \in Trips : ApplyRead(r, t)
  \/ ApplyGuard(r)
  \/ \E v \in Revenues : ApplyRevenue(r, v)
  \/ ApplyLink(r)
  \/ \E t \in Trips, wish \in Amounts \cup {All} : InvoiceRead(r, t, wish)
  \/ InvoicePrice(r)
  \/ \E v \in Revenues : InvoiceRevenue(r, v)
  \/ PeriodClosed(r)
  \/ InvoiceCommit(r)
  \/ \E t \in Trips : PaidRead(r, t)
  \/ PaidWrite(r)
  \/ \E t \in Trips : CancelRead(r, t)
  \/ CancelWrite(r)
  \/ \E t \in Trips : TitleRead(r, t)
  \/ TitleInsert(r)

Next ==
  \/ \E t \in Trips, amount \in Prices : Price(t, amount)
  \/ \E r \in Requests : Handle(r)
  \/ \E v \in Revenues, t \in Trips, amount \in Amounts : CreateRevenue(v, t, amount)
  \/ \E v \in Revenues, amount \in Amounts : UpdateRevenue(v, amount)
  \/ \E v \in Revenues : RemoveRevenue(v)

Spec == Init /\ [][Next]_vars

----
(* Properties. *)

\* However many invoices race, a billing never counts more than its billable
\* amount; and the customer is never charged more than that, nor, unless a row was
\* overtaken, more than what has been invoiced.
BilledWithinBillable ==
  /\ \A t \in DOMAIN billing : billing[t].invoiced \in 0..billing[t].billable
  /\ \A t \in DOMAIN title :
       /\ t \in DOMAIN billing
       /\ title[t] <= billing[t].billable
       /\ t \notin overtaken => title[t] <= billing[t].invoiced

\* What was billable at the first invoice is billable for good, though the
\* freight changes and any number of invoices write the row by id.
BillableFrozen ==
  [][\A t \in DOMAIN billing :
       t \in DOMAIN billing' /\ billing'[t].billable = billing[t].billable]_vars

\* Every part that was invoiced keeps the revenue that it generated.
EntriesHaveRevenues ==
  \A v \in DOMAIN entry : v \in DOMAIN revenue /\ revenue[v].trip = entry[v].trip

EntriesOf(t) == {v \in DOMAIN entry : entry[v].trip = t}

\* "invoicedAmount is the sum of the entries": the parts have their revenues and,
\* unless a row was overtaken, add up to what the billing counts.
EntriesExplainInvoiced ==
  /\ EntriesHaveRevenues
  /\ \A t \in DOMAIN billing \ overtaken :
       billing[t].invoiced =
         SumFunctionOnSet([v \in DOMAIN entry |-> entry[v].amount], EntriesOf(t))

\* A cancelled billing never changes again, and a paid one can only be
\* cancelled, unless a handler wrote what it had decided on an older row.
ClosedStaysClosed ==
  [][\A t \in DOMAIN billing :
       t \notin overtaken' =>
         /\ billing[t].status = "CANCELLED" => billing'[t] = billing[t]
         /\ billing[t].status = "PAID" =>
              billing'[t] \in {billing[t], [billing[t] EXCEPT !.status = "CANCELLED"]}]_vars

AppliedOf(t) ==
  IF t \in DOMAIN freight /\ freight[t].revenue # NoRevenue
  THEN revenue[freight[t].revenue].amount ELSE 0

\* docs/billing-operational.md: the guard of apply-revenue is there so that the
\* two ways to generate revenue never go beyond the billable amount of a trip.
RevenueWithinBillable ==
  \A t \in DOMAIN billing : billing[t].invoiced + AppliedOf(t) <= billing[t].billable

=============================================================================

-------------------------- MODULE TripBillingProofs --------------------------
(***************************************************************************)
(* Proofs about TripBilling, for any trips, revenues, requests, prices and   *)
(* amounts.                                                                  *)
(***************************************************************************)
EXTENDS TripBilling, SumTheorems, TLAPS

(***************************************************************************)
(* Tables and rules.                                                         *)
(***************************************************************************)

\* A table of rows of S stays one.
LEMMA WithType ==
  ASSUME NEW S, NEW K, NEW f, DOMAIN f \subseteq K, f \in [DOMAIN f -> S],
         NEW x \in K, NEW y \in S
  PROVE  /\ DOMAIN With(f, x, y) \subseteq K
         /\ With(f, x, y) \in [DOMAIN With(f, x, y) -> S]
BY DEF With

\* The tables with one more row.
LEMMA InsertTypes ==
  ASSUME TypeOK
  PROVE  /\ \A t \in Trips, row \in Billing :
              /\ DOMAIN With(billing, t, row) \subseteq Trips
              /\ With(billing, t, row) \in [DOMAIN With(billing, t, row) -> Billing]
         /\ \A v \in Revenues, item \in Item :
              /\ DOMAIN With(entry, v, item) \subseteq Revenues
              /\ With(entry, v, item) \in [DOMAIN With(entry, v, item) -> Item]
         /\ \A t \in Trips, amount \in Int :
              /\ DOMAIN With(title, t, amount) \subseteq Trips
              /\ With(title, t, amount) \in [DOMAIN With(title, t, amount) -> Int]
<1>1. /\ DOMAIN billing \subseteq Trips /\ billing \in [DOMAIN billing -> Billing]
      /\ DOMAIN entry \subseteq Revenues /\ entry \in [DOMAIN entry -> Item]
      /\ DOMAIN title \subseteq Trips /\ title \in [DOMAIN title -> Int]
  BY DEF TypeOK
<1> QED
  BY <1>1, WithType

\* resolveInvoiceAmount gives an amount that is positive and within the balance.
LEMMA ResolvedFits ==
  ASSUME NEW wish \in Amounts \cup {All}, NEW billable \in Int, NEW invoiced \in Int,
         NEW amount \in Resolved(wish, Balance(billable, invoiced))
  PROVE  amount \in Int /\ amount > 0 /\ invoiced + amount <= billable
<1>1. Balance(billable, invoiced) \in Int
      /\ (Balance(billable, invoiced) > 0 => Balance(billable, invoiced) = billable - invoiced)
  BY DEF Balance
<1>2. amount \in Int
  BY <1>1, BillingAssumption DEF Resolved
<1>3. amount > 0 /\ amount <= Balance(billable, invoiced)
  BY DEF Resolved
<1> QED
  BY <1>1, <1>2, <1>3

----
(***************************************************************************)
(* What the handlers hold.                                                   *)
(***************************************************************************)

GuardState == [step: {"guard"}, trip: Trips, seen: Seen, billable: Int, amount: Int]
EntryState == [step: {"entry"}, trip: Trips, seen: Seen, billable: Int, amount: Int,
               revenue: Revenues, status: Statuses]
PriceState == [step: {"price"}, trip: Trips, wish: Amounts \cup {All}]
PaidState == [step: {"paid", "cancel"}, trip: Trips, seen: Billing]
TitleState == [step: {"title"}, trip: Trips, amount: Int]
ApplyState == [step: {"unbilled", "apply"}, trip: Trips, amount: Int]
LinkState == [step: {"link"}, trip: Trips, revenue: Revenues]

\* Each step of a handler holds the values that the code keeps across its awaits.
LEMMA HeldTypes ==
  ASSUME TypeOK, NEW r \in Requests
  PROVE  /\ At(r, "guard") => req[r] \in GuardState
         /\ At(r, "entry") => req[r] \in EntryState
         /\ At(r, "price") => req[r] \in PriceState
         /\ At(r, "paid") \/ At(r, "cancel") => req[r] \in PaidState
         /\ At(r, "title") => req[r] \in TitleState
         /\ At(r, "unbilled") \/ At(r, "apply") => req[r] \in ApplyState
         /\ At(r, "link") => req[r] \in LinkState
BY DEF TypeOK, RequestState, GuardState, EntryState, PriceState, PaidState, TitleState,
       ApplyState, LinkState, Idle, At

\* A handler that moves on keeps the shape of all of them.
LEMMA BecomeType ==
  ASSUME TypeOK, NEW r \in Requests, NEW state \in RequestState, Become(r, state)
  PROVE  /\ req' \in [Requests -> RequestState]
         /\ req'[r] = state
         /\ \A q \in Requests \ {r} : req'[q] = req[q]
BY DEF TypeOK, Become

\* Nobody holds more than this after a step that ends the handler.
LEMMA EndType ==
  ASSUME TypeOK, NEW r \in Requests, Become(r, Idle)
  PROVE  req' \in [Requests -> RequestState]
BY DEF TypeOK, Become, RequestState

\* The invoice that passed its checks.
LEMMA ResolveType ==
  ASSUME TypeOK, NEW r \in Requests, NEW t \in Trips, NEW seen \in Seen, NEW billable \in Int,
         NEW wish \in Amounts \cup {All}, Resolve(r, t, seen, billable, wish)
  PROVE  req' \in [Requests -> RequestState]
<1> DEFINE invoiced == Before(seen)
<1>1. invoiced \in Int
  BY DEF Seen, Billing, Before
<1>2. CASE Become(r, Idle)
  BY <1>2, EndType
<1>3. ASSUME NEW amount \in Resolved(wish, Balance(billable, invoiced)),
             Become(r, [step |-> "guard", trip |-> t, seen |-> seen, billable |-> billable,
                        amount |-> amount])
      PROVE  req' \in [Requests -> RequestState]
  <2>1. amount \in Int
    BY <1>1, ResolvedFits
  <2> DEFINE state == [step |-> "guard", trip |-> t, seen |-> seen, billable |-> billable,
                       amount |-> amount]
  <2>2. state \in RequestState
    BY <2>1 DEF RequestState
  <2> HIDE DEF state
  <2> QED
    BY <1>3, <2>2, BecomeType DEF state
<1> QED
  BY <1>2, <1>3 DEF Resolve

----
(***************************************************************************)
(* Type correctness.                                                         *)
(***************************************************************************)

\* The row that an invoice writes.
LEMMA InvoicedType ==
  ASSUME NEW q \in EntryState
  PROVE  Invoiced(q) \in Billing
<1>1. q.billable \in Int /\ q.amount \in Int
  BY DEF EntryState
<1>2. Before(q.seen) \in Int
  BY DEF EntryState, Seen, Billing, Before
<1>3. q.status \in Statuses
  BY DEF EntryState
<1> QED
  BY <1>1, <1>2, <1>3 DEF Invoiced, Billing

\* A new revenue keeps the shape of the table.
LEMMA NewRevenueType ==
  ASSUME TypeOK, NEW v \in Revenues, NEW t, NEW amount,
         [trip |-> t, amount |-> amount] \in Item, NewRevenue(v, t, amount)
  PROVE  DOMAIN revenue' \subseteq Revenues /\ revenue' \in [DOMAIN revenue' -> Item]
<1> DEFINE row == [trip |-> t, amount |-> amount]
<1>1. revenue' = With(revenue, v, row) /\ row \in Item
  BY DEF NewRevenue
<1> HIDE DEF row
<1> QED
  BY <1>1, WithType DEF TypeOK

\* The tables of the freights and of the revenues by hand.
LEMMA TableTypes ==
  ASSUME TypeOK
  PROVE  /\ \A t \in Trips, amount \in Prices : Price(t, amount) => TypeOK'
         /\ \A v \in Revenues, t \in Trips, amount \in Amounts :
              CreateRevenue(v, t, amount) => TypeOK'
         /\ \A v \in Revenues, amount \in Amounts : UpdateRevenue(v, amount) => TypeOK'
         /\ \A v \in Revenues : RemoveRevenue(v) => TypeOK'
<1>1. ASSUME NEW t \in Trips, NEW amount \in Prices, Price(t, amount)
      PROVE  TypeOK'
  <2> DEFINE row == [amount |-> amount,
                     revenue |-> IF t \in DOMAIN freight THEN freight[t].revenue ELSE NoRevenue]
  <2>1. row \in Freight
    BY BillingAssumption DEF TypeOK, Freight
  <2>2. freight' = With(freight, t, row)
    BY <1>1 DEF Price
  <2> HIDE DEF row
  <2>3. DOMAIN freight' \subseteq Trips /\ freight' \in [DOMAIN freight' -> Freight]
    BY <2>1, <2>2, WithType DEF TypeOK
  <2> QED
    BY <1>1, <2>3 DEF TypeOK, Price
<1>2. ASSUME NEW v \in Revenues, NEW t \in Trips, NEW amount \in Amounts,
             CreateRevenue(v, t, amount)
      PROVE  TypeOK'
  <2>1. [trip |-> t, amount |-> amount] \in Item
    BY BillingAssumption DEF Item
  <2>2. DOMAIN revenue' \subseteq Revenues /\ revenue' \in [DOMAIN revenue' -> Item]
    BY <1>2, <2>1, NewRevenueType DEF CreateRevenue
  <2> QED
    BY <1>2, <2>2 DEF TypeOK, CreateRevenue
<1>3. ASSUME NEW v \in Revenues, NEW amount \in Amounts, UpdateRevenue(v, amount)
      PROVE  TypeOK'
  <2>1. amount \in Int
    BY BillingAssumption
  <2>2. DOMAIN revenue' \subseteq Revenues /\ revenue' \in [DOMAIN revenue' -> Item]
    BY <1>3, <2>1 DEF TypeOK, UpdateRevenue, Item
  <2> QED
    BY <1>3, <2>2 DEF TypeOK, UpdateRevenue
<1>4. ASSUME NEW v \in Revenues, RemoveRevenue(v)
      PROVE  TypeOK'
  <2>1. DOMAIN revenue' \subseteq Revenues /\ revenue' \in [DOMAIN revenue' -> Item]
    BY <1>4 DEF TypeOK, RemoveRevenue
  <2>2. DOMAIN freight' \subseteq Trips /\ freight' \in [DOMAIN freight' -> Freight]
    BY <1>4 DEF TypeOK, RemoveRevenue, Freight
  <2> QED
    BY <1>4, <2>1, <2>2 DEF TypeOK, RemoveRevenue
<1> QED
  BY <1>1, <1>2, <1>3, <1>4

\* The steps of a handler.
LEMMA HandleTypes ==
  ASSUME TypeOK, NEW r \in Requests, Handle(r)
  PROVE  TypeOK'
<1> USE DEF TypeOK
<1>1. ASSUME NEW t \in Trips, ApplyRead(r, t)
      PROVE  TypeOK'
  <2> DEFINE state == [step |-> "unbilled", trip |-> t, amount |-> freight[t].amount]
  <2>1. state \in RequestState
    BY <1>1 DEF ApplyRead, RequestState, Freight
  <2> HIDE DEF state
  <2>2. req' \in [Requests -> RequestState]
    BY <1>1, <2>1, BecomeType DEF ApplyRead, state
  <2> QED
    BY <1>1, <2>2 DEF ApplyRead
<1>2. CASE ApplyGuard(r)
  <2> DEFINE state == [req[r] EXCEPT !.step = "apply"]
  <2>1. req[r] \in ApplyState
    BY <1>2, HeldTypes DEF ApplyGuard
  <2>2. state \in RequestState
    BY <2>1 DEF ApplyState, RequestState
  <2>3. Idle \in RequestState
    BY DEF RequestState
  <2> HIDE DEF state
  <2>4. req' \in [Requests -> RequestState]
    BY <1>2, <2>2, <2>3, BecomeType DEF ApplyGuard, state
  <2> QED
    BY <1>2, <2>4 DEF ApplyGuard
<1>3. ASSUME NEW v \in Revenues, ApplyRevenue(r, v)
      PROVE  TypeOK'
  <2>1. req[r] \in ApplyState
    BY <1>3, HeldTypes DEF ApplyRevenue
  <2>2. [trip |-> req[r].trip, amount |-> req[r].amount] \in Item
    BY <2>1 DEF ApplyState, Item
  <2>3. DOMAIN revenue' \subseteq Revenues /\ revenue' \in [DOMAIN revenue' -> Item]
    BY <1>3, <2>2, NewRevenueType DEF ApplyRevenue
  <2> DEFINE state == [step |-> "link", trip |-> req[r].trip, revenue |-> v]
  <2>4. state \in RequestState
    BY <2>1 DEF ApplyState, RequestState
  <2> HIDE DEF state
  <2>5. req' \in [Requests -> RequestState]
    BY <1>3, <2>4, BecomeType DEF ApplyRevenue, state
  <2> QED
    BY <1>3, <2>3, <2>5 DEF ApplyRevenue
<1>4. CASE ApplyLink(r)
  <2>1. req[r] \in LinkState
    BY <1>4, HeldTypes DEF ApplyLink
  <2>2. DOMAIN freight' \subseteq Trips /\ freight' \in [DOMAIN freight' -> Freight]
    BY <1>4, <2>1 DEF ApplyLink, LinkState, Freight
  <2>3. req' \in [Requests -> RequestState]
    BY <1>4, EndType DEF ApplyLink
  <2> QED
    BY <1>4, <2>2, <2>3 DEF ApplyLink
<1>5. ASSUME NEW t \in Trips, NEW wish \in Amounts \cup {All}, InvoiceRead(r, t, wish)
      PROVE  TypeOK'
  <2>1. CASE t \notin DOMAIN billing
    <3> DEFINE state == [step |-> "price", trip |-> t, wish |-> wish]
    <3>1. state \in RequestState
      BY DEF RequestState
    <3> HIDE DEF state
    <3>2. req' \in [Requests -> RequestState]
      BY <1>5, <2>1, <3>1, BecomeType DEF InvoiceRead, state
    <3> QED
      BY <1>5, <3>2 DEF InvoiceRead
  <2>2. CASE t \in DOMAIN billing
    <3>1. billing[t] \in Seen /\ billing[t].billable \in Int
      BY <2>2 DEF Seen, Billing
    <3>2. Resolve(r, t, billing[t], billing[t].billable, wish)
      BY <1>5, <2>2 DEF InvoiceRead
    <3>3. req' \in [Requests -> RequestState]
      BY <3>1, <3>2, ResolveType
    <3> QED
      BY <1>5, <3>3 DEF InvoiceRead
  <2> QED
    BY <2>1, <2>2
<1>6. CASE InvoicePrice(r)
  <2>1. req[r] \in PriceState
    BY <1>6, HeldTypes DEF InvoicePrice
  <2>2. CASE req[r].trip \in DOMAIN freight
    <3>1. freight[req[r].trip].amount \in Int /\ NoBilling \in Seen
      BY <2>2 DEF Freight, Seen
    <3>2. Resolve(r, req[r].trip, NoBilling, freight[req[r].trip].amount, req[r].wish)
      BY <1>6, <2>2 DEF InvoicePrice
    <3>3. req[r].trip \in Trips /\ req[r].wish \in Amounts \cup {All}
      BY <2>1 DEF PriceState
    <3>4. req' \in [Requests -> RequestState]
      BY <3>1, <3>2, <3>3, ResolveType
    <3> QED
      BY <1>6, <3>4 DEF InvoicePrice
  <2>3. CASE req[r].trip \notin DOMAIN freight
    <3>1. req' \in [Requests -> RequestState]
      BY <1>6, <2>3, EndType DEF InvoicePrice
    <3> QED
      BY <1>6, <3>1 DEF InvoicePrice
  <2> QED
    BY <2>2, <2>3
<1>7. ASSUME NEW v \in Revenues, InvoiceRevenue(r, v)
      PROVE  TypeOK'
  <2>1. req[r] \in GuardState
    BY <1>7, HeldTypes DEF InvoiceRevenue
  <2>2. [trip |-> req[r].trip, amount |-> req[r].amount] \in Item
    BY <2>1 DEF GuardState, Item
  <2>3. DOMAIN revenue' \subseteq Revenues /\ revenue' \in [DOMAIN revenue' -> Item]
    BY <1>7, <2>2, NewRevenueType DEF InvoiceRevenue
  <2>4. PICK status \in StatusesOf(req[r].billable, Before(req[r].seen), req[r].amount) :
          Become(r, [step |-> "entry", trip |-> req[r].trip, seen |-> req[r].seen,
                     billable |-> req[r].billable, amount |-> req[r].amount, revenue |-> v,
                     status |-> status])
    BY <1>7 DEF InvoiceRevenue
  <2>s. status \in Statuses
    BY DEF StatusesOf, Statuses
  <2> DEFINE state == [step |-> "entry", trip |-> req[r].trip, seen |-> req[r].seen,
                       billable |-> req[r].billable, amount |-> req[r].amount, revenue |-> v,
                       status |-> status]
  <2>t. state \in RequestState
    BY <2>1, <2>s DEF GuardState, RequestState
  <2> HIDE DEF state
  <2>5. req' \in [Requests -> RequestState]
    BY <2>4, <2>t, BecomeType DEF state
  <2> QED
    BY <1>7, <2>3, <2>5 DEF InvoiceRevenue
<1>8. CASE PeriodClosed(r)
  BY <1>8, EndType DEF PeriodClosed
<1>9. CASE InvoiceCommit(r)
  <2>1. req[r] \in EntryState /\ req' \in [Requests -> RequestState]
    BY <1>9, HeldTypes, EndType DEF InvoiceCommit
  <2>2. CASE UNCHANGED <<billing, entry, overtaken>>
    BY <1>9, <2>1, <2>2 DEF InvoiceCommit
  <2>3. CASE ~UNCHANGED <<billing, entry, overtaken>>
    <3> DEFINE q == req[r]
    <3>1. /\ billing' = With(billing, q.trip, Invoiced(q))
          /\ entry' = With(entry, q.revenue, [trip |-> q.trip, amount |-> q.amount])
          /\ overtaken' \subseteq overtaken \cup {q.trip}
      BY <1>9, <2>3 DEF InvoiceCommit, Overtake
    <3>2. q.trip \in Trips /\ q.revenue \in Revenues /\ Invoiced(q) \in Billing
          /\ [trip |-> q.trip, amount |-> q.amount] \in Item
      BY <2>1, InvoicedType DEF EntryState, Item
    <3> HIDE DEF q
    <3> DEFINE row == Invoiced(q)
               item == [trip |-> q.trip, amount |-> q.amount]
    <3>3. billing' = With(billing, q.trip, row) /\ row \in Billing
          /\ entry' = With(entry, q.revenue, item) /\ item \in Item
      BY <3>1, <3>2
    <3> HIDE DEF row, item
    <3>4. DOMAIN billing' \subseteq Trips /\ billing' \in [DOMAIN billing' -> Billing]
      BY <3>2, <3>3, InsertTypes
    <3>5. DOMAIN entry' \subseteq Revenues /\ entry' \in [DOMAIN entry' -> Item]
      BY <3>2, <3>3, InsertTypes
    <3> QED
      BY <1>9, <2>1, <3>1, <3>2, <3>4, <3>5 DEF InvoiceCommit
  <2> QED
    BY <2>2, <2>3
<1>10. ASSUME NEW t \in Trips, PaidRead(r, t) \/ CancelRead(r, t)
       PROVE  TypeOK'
  <2>1. billing[t] \in Billing
    BY <1>10 DEF PaidRead, CancelRead
  <2>2. ASSUME NEW step \in {"paid", "cancel"},
               Become(r, [step |-> step, trip |-> t, seen |-> billing[t]])
        PROVE  req' \in [Requests -> RequestState]
    <3> DEFINE state == [step |-> step, trip |-> t, seen |-> billing[t]]
    <3>1. state \in RequestState
      BY <2>1 DEF RequestState
    <3> HIDE DEF state
    <3> QED
      BY <2>2, <3>1, BecomeType DEF state
  <2>3. req' \in [Requests -> RequestState]
    BY <1>10, <2>2 DEF PaidRead, CancelRead
  <2> QED
    BY <1>10, <2>3 DEF PaidRead, CancelRead
<1>11. CASE PaidWrite(r) \/ CancelWrite(r)
  <2>1. req[r] \in PaidState /\ req' \in [Requests -> RequestState]
    BY <1>11, HeldTypes, EndType DEF PaidWrite, CancelWrite
  <2>2. req[r].trip \in Trips
    BY <2>1 DEF PaidState
  <2>3. DOMAIN billing' \subseteq Trips /\ billing' \in [DOMAIN billing' -> Billing]
    BY <1>11 DEF PaidWrite, CancelWrite, Billing, Statuses
  <2>4. overtaken' \subseteq overtaken \cup {req[r].trip}
    BY <1>11 DEF PaidWrite, CancelWrite, Overtake
  <2> QED
    BY <1>11, <2>1, <2>2, <2>3, <2>4 DEF PaidWrite, CancelWrite
<1>12. ASSUME NEW t \in Trips, TitleRead(r, t)
       PROVE  TypeOK'
  <2> DEFINE state == [step |-> "title", trip |-> t, amount |-> billing[t].invoiced]
  <2>1. state \in RequestState
    BY <1>12 DEF TitleRead, RequestState, Billing
  <2> HIDE DEF state
  <2>2. req' \in [Requests -> RequestState]
    BY <1>12, <2>1, BecomeType DEF TitleRead, state
  <2> QED
    BY <1>12, <2>2 DEF TitleRead
<1>13. CASE TitleInsert(r)
  <2>1. req[r] \in TitleState /\ req' \in [Requests -> RequestState]
    BY <1>13, HeldTypes, EndType DEF TitleInsert
  <2>2. req[r].trip \in Trips /\ req[r].amount \in Int
    BY <2>1 DEF TitleState
  <2>3. title' = title \/ title' = With(title, req[r].trip, req[r].amount)
    BY <1>13 DEF TitleInsert
  <2>4. DOMAIN title' \subseteq Trips /\ title' \in [DOMAIN title' -> Int]
    BY <2>2, <2>3, InsertTypes
  <2> QED
    BY <1>13, <2>1, <2>4 DEF TitleInsert
<1> QED
  BY <1>1, <1>2, <1>3, <1>4, <1>5, <1>6, <1>7, <1>8, <1>9, <1>10, <1>11, <1>12, <1>13
  DEF Handle

LEMMA TypeStep ==
  ASSUME TypeOK, [Next]_vars
  PROVE  TypeOK'
<1>1. CASE UNCHANGED vars
  BY <1>1 DEF vars, TypeOK
<1>2. CASE Next
  BY <1>2, TableTypes, HandleTypes DEF Next
<1> QED
  BY <1>1, <1>2

LEMMA TypeInit ==
  ASSUME Init
  PROVE  TypeOK
BY DEF Init, TypeOK, RequestState

\* Every reachable state has rows and held values of the declared shape.
THEOREM BillingTypes == Spec => []TypeOK
<1>1. Init => TypeOK
  BY TypeInit
<1>2. TypeOK /\ [Next]_vars => TypeOK'
  BY TypeStep
<1> QED
  BY <1>1, <1>2, PTL DEF Spec

----
(***************************************************************************)
(* What carries the safety of a billing: whatever a handler has read, what   *)
(* it will write still fits the frozen amount of the trip's row, although     *)
(* the row may have been written since.                                       *)
(***************************************************************************)

\* An invoice under way: its amount fits what was left in the row it has seen.
InvoiceFits(q, rows) ==
  /\ q.amount > 0
  /\ q.seen = NoBilling => q.amount <= q.billable
  /\ q.seen # NoBilling =>
       /\ q.trip \in DOMAIN rows
       /\ q.billable = rows[q.trip].billable
       /\ Invoiceable(q.seen)
       /\ q.seen.invoiced >= 0
       /\ q.seen.invoiced + q.amount <= q.billable

\* A title of a trip: what it charges was invoiced.
TitleFits(t, amount, rows, over) ==
  /\ t \in DOMAIN rows
  /\ amount <= rows[t].billable
  /\ t \notin over => amount <= rows[t].invoiced

HeldFits(q, rows, over) ==
  /\ q.step \in {"guard", "entry"} => InvoiceFits(q, rows)
  /\ q.step \in {"paid", "cancel"} => q.trip \in DOMAIN rows
  /\ q.step = "paid" => Payable(q.seen)
  /\ q.step = "title" => TitleFits(q.trip, q.amount, rows, over)

HeldFit == \A r \in Requests : HeldFits(req[r], billing, overtaken)

\* The revenue of an invoice under way, while nobody removes it, is of its trip.
OwnRevenue(q, made) ==
  q.step = "entry" /\ q.revenue \in DOMAIN made => made[q.revenue].trip = q.trip

OwnRevenues == \A r \in Requests : OwnRevenue(req[r], revenue)

BillingInv ==
  /\ TypeOK
  /\ BilledWithinBillable
  /\ EntriesHaveRevenues
  /\ HeldFit
  /\ OwnRevenues

\* What a step may do to the rows: they stay, their billable amount is frozen,
\* and what was invoiced only grows unless a row is overtaken.
Grown(old, new, over, over2) ==
  /\ \A t \in DOMAIN old :
       /\ t \in DOMAIN new
       /\ new[t].billable = old[t].billable
       /\ t \notin over2 => old[t].invoiced <= new[t].invoiced
  /\ over \subseteq over2

\* What fits goes on fitting.
LEMMA FitsStays ==
  ASSUME NEW q \in RequestState, NEW old, NEW new, NEW over, NEW over2,
         old \in [DOMAIN old -> Billing], new \in [DOMAIN new -> Billing],
         Grown(old, new, over, over2), HeldFits(q, old, over)
  PROVE  HeldFits(q, new, over2)
<1>1. ASSUME q.step \in {"guard", "entry"}
      PROVE  InvoiceFits(q, new)
  BY <1>1 DEF HeldFits, InvoiceFits, Grown
<1>2. ASSUME q.step \in {"paid", "cancel"}
      PROVE  q.trip \in DOMAIN new
  BY <1>2 DEF HeldFits, Grown
<1>3. ASSUME q.step = "title"
      PROVE  TitleFits(q.trip, q.amount, new, over2)
  <2> DEFINE t == q.trip
  <2>1. q.amount \in Int
    BY <1>3 DEF RequestState, Idle
  <2>2. TitleFits(t, q.amount, old, over)
    BY <1>3 DEF HeldFits
  <2>3. t \in DOMAIN old /\ t \in DOMAIN new
        /\ new[t].billable = old[t].billable
        /\ (t \notin over2 => old[t].invoiced <= new[t].invoiced /\ t \notin over)
    BY <2>2 DEF TitleFits, Grown
  <2>4. old[t].invoiced \in Int /\ new[t].invoiced \in Int
    BY <2>3 DEF Billing
  <2> HIDE DEF t
  <2>5. TitleFits(t, q.amount, new, over2)
    BY <2>1, <2>2, <2>3, <2>4 DEF TitleFits
  <2> QED
    BY <2>5 DEF t
<1> QED
  BY <1>1, <1>2, <1>3 DEF HeldFits

----
(***************************************************************************)
(* The writes of a billing.                                                  *)
(***************************************************************************)

\* An invoice that commits.
Commits(r) == InvoiceCommit(r) /\ ~UNCHANGED <<billing, entry, overtaken>>

\* The row an invoice leaves: within the frozen amount, and above what was there
\* unless the row was overtaken.
LEMMA CommitFacts ==
  ASSUME BillingInv, NEW r \in Requests, Commits(r)
  PROVE  LET q == req[r]
             t == q.trip
         IN  /\ q \in EntryState /\ t \in Trips
             /\ q.revenue \in DOMAIN revenue /\ revenue[q.revenue].trip = t
             /\ billing' = With(billing, t, Invoiced(q))
             /\ entry' = With(entry, q.revenue, [trip |-> t, amount |-> q.amount])
             /\ Invoiced(q) \in Billing
             /\ Invoiced(q).invoiced \in 0..Invoiced(q).billable
             /\ t \in DOMAIN billing =>
                  /\ Invoiced(q).billable = billing[t].billable
                  /\ t \notin overtaken' =>
                       /\ billing[t].invoiced <= Invoiced(q).invoiced
                       /\ Invoiceable(billing[t])
             /\ overtaken \subseteq overtaken'
<1> DEFINE q == req[r]
           t == q.trip
           before == Before(q.seen)
<1>1. q \in EntryState
  BY HeldTypes DEF Commits, InvoiceCommit, BillingInv
<1>2. q.step = "entry" /\ InvoiceFits(q, billing) /\ OwnRevenue(q, revenue)
  BY DEF Commits, InvoiceCommit, At, BillingInv, HeldFit, HeldFits, OwnRevenues
<1>3. /\ ~(q.seen = NoBilling /\ t \in DOMAIN billing)
      /\ q.revenue \in DOMAIN revenue
      /\ billing' = With(billing, t, Invoiced(q))
      /\ entry' = With(entry, q.revenue, [trip |-> t, amount |-> q.amount])
      /\ IF q.seen = NoBilling THEN UNCHANGED overtaken ELSE Overtake(t, q.seen)
  BY DEF Commits, InvoiceCommit
<1>4. t \in Trips /\ q.amount \in Int /\ q.billable \in Int /\ q.seen \in Seen
  BY <1>1 DEF EntryState
<1>5. before \in Int
  BY <1>4 DEF Seen, Billing, Before
<1>6. before >= 0 /\ before + q.amount <= q.billable /\ q.amount > 0
  BY <1>2, <1>4 DEF InvoiceFits, Before
<1>7. Invoiced(q).invoiced = q.amount + before /\ Invoiced(q).billable = q.billable
      /\ Invoiced(q) \in Billing
  BY <1>1, InvoicedType DEF Invoiced
<1>8. Invoiced(q).invoiced \in 0..Invoiced(q).billable
  BY <1>4, <1>5, <1>6, <1>7
<1>9. overtaken \subseteq overtaken'
  BY <1>3 DEF Overtake
<1>10. ASSUME t \in DOMAIN billing
       PROVE  /\ Invoiced(q).billable = billing[t].billable
              /\ t \notin overtaken' =>
                   billing[t].invoiced <= Invoiced(q).invoiced /\ Invoiceable(billing[t])
  <2>1. q.seen # NoBilling /\ q.billable = billing[t].billable /\ Invoiceable(q.seen)
    BY <1>2, <1>3, <1>10 DEF InvoiceFits
  <2>2. ASSUME t \notin overtaken'
        PROVE  billing[t] = q.seen
    BY <1>3, <2>1, <2>2 DEF Overtake
  <2>3. before = q.seen.invoiced
    BY <2>1 DEF Before
  <2> HIDE DEF before
  <2> QED
    BY <1>4, <1>5, <1>6, <1>7, <2>1, <2>2, <2>3
<1>11. revenue[q.revenue].trip = t
  BY <1>2, <1>3 DEF OwnRevenue
<1> QED
  BY <1>1, <1>3, <1>4, <1>7, <1>8, <1>9, <1>10, <1>11

\* A confirmation or a cancellation changes a status, of a row that exists.
LEMMA StatusFacts ==
  ASSUME BillingInv, NEW r \in Requests, PaidWrite(r) \/ CancelWrite(r)
  PROVE  LET t == req[r].trip
         IN  /\ t \in DOMAIN billing
             /\ billing' \in [DOMAIN billing -> Billing]
             /\ \A u \in DOMAIN billing \ {t} : billing'[u] = billing[u]
             /\ \/ billing'[t] = [billing[t] EXCEPT !.status = "CANCELLED"]
                \/ /\ billing'[t] = [billing[t] EXCEPT !.status = "PAID"]
                   /\ t \notin overtaken' => Payable(billing[t])
             /\ overtaken \subseteq overtaken'
<1> DEFINE t == req[r].trip
<1>1. t \in DOMAIN billing
  BY DEF BillingInv, HeldFit, HeldFits, PaidWrite, CancelWrite, At
<1>2. billing \in [DOMAIN billing -> Billing]
  BY DEF BillingInv, TypeOK
<1>3. CASE PaidWrite(r)
  <2>1. billing' = [billing EXCEPT ![t].status = "PAID"] /\ Overtake(t, req[r].seen)
    BY <1>3 DEF PaidWrite
  <2>2. Payable(req[r].seen)
    BY <1>3 DEF BillingInv, HeldFit, HeldFits, PaidWrite, At
  <2>3. billing' \in [DOMAIN billing -> Billing] /\ overtaken \subseteq overtaken'
    BY <1>1, <1>2, <2>1 DEF Billing, Statuses, Overtake
  <2>4. t \notin overtaken' => Payable(billing[t])
    BY <2>1, <2>2 DEF Overtake
  <2> QED
    BY <1>1, <1>2, <2>1, <2>3, <2>4
<1>4. CASE CancelWrite(r)
  <2>1. billing' = [billing EXCEPT ![t].status = "CANCELLED"] /\ overtaken' = overtaken
    BY <1>4 DEF CancelWrite
  <2>2. billing' \in [DOMAIN billing -> Billing]
    BY <1>1, <1>2, <2>1 DEF Billing, Statuses
  <2> QED
    BY <1>1, <1>2, <2>1, <2>2
<1> QED
  BY <1>3, <1>4

\* No other step writes a billing.
LEMMA OtherSteps ==
  ASSUME [Next]_vars
  PROVE  \/ UNCHANGED <<billing, overtaken>>
         \/ \E r \in Requests : Commits(r) \/ PaidWrite(r) \/ CancelWrite(r)
BY DEF Next, vars, Handle, Commits, Price, CreateRevenue, UpdateRevenue, RemoveRevenue,
       ApplyRead, ApplyGuard, ApplyRevenue, ApplyLink, InvoiceRead, InvoicePrice,
       InvoiceRevenue, PeriodClosed, InvoiceCommit, PaidRead, CancelRead, TitleRead, TitleInsert

\* The rows only grow.
LEMMA RowsGrow ==
  ASSUME BillingInv, [Next]_vars
  PROVE  Grown(billing, billing', overtaken, overtaken')
<1>1. \A t \in DOMAIN billing : billing[t].invoiced \in Int /\ billing[t].billable \in Int
  BY DEF BillingInv, TypeOK, Billing
<1>2. CASE UNCHANGED <<billing, overtaken>>
  BY <1>1, <1>2 DEF Grown
<1>3. ASSUME NEW r \in Requests, Commits(r)
      PROVE  Grown(billing, billing', overtaken, overtaken')
  <2> DEFINE q == req[r]
             t == q.trip
             row == Invoiced(q)
  <2>1. /\ billing' = With(billing, t, row)
        /\ t \in DOMAIN billing =>
             /\ row.billable = billing[t].billable
             /\ t \notin overtaken' => billing[t].invoiced <= row.invoiced
        /\ overtaken \subseteq overtaken'
    BY <1>3, CommitFacts
  <2> HIDE DEF row, t
  <2>2. /\ DOMAIN billing' = DOMAIN billing \cup {t} /\ billing'[t] = row
        /\ \A u \in DOMAIN billing \ {t} : billing'[u] = billing[u]
    BY <2>1 DEF With
  <2> QED
    BY <1>1, <2>1, <2>2 DEF Grown
<1>4. ASSUME NEW r \in Requests, PaidWrite(r) \/ CancelWrite(r)
      PROVE  Grown(billing, billing', overtaken, overtaken')
  <2> DEFINE t == req[r].trip
  <2>1. /\ t \in DOMAIN billing
        /\ billing' \in [DOMAIN billing -> Billing]
        /\ \A u \in DOMAIN billing \ {t} : billing'[u] = billing[u]
        /\ \/ billing'[t] = [billing[t] EXCEPT !.status = "CANCELLED"]
           \/ billing'[t] = [billing[t] EXCEPT !.status = "PAID"]
        /\ overtaken \subseteq overtaken'
    BY <1>4, StatusFacts
  <2>2. billing[t] \in Billing
    BY <2>1 DEF BillingInv, TypeOK
  <2>3. billing'[t].invoiced = billing[t].invoiced /\ billing'[t].billable = billing[t].billable
    BY <2>1, <2>2 DEF Billing
  <2> HIDE DEF t
  <2> QED
    BY <1>1, <2>1, <2>3 DEF Grown
<1> QED
  BY <1>2, <1>3, <1>4, OtherSteps

----
(***************************************************************************)
(* What the handlers hold goes on fitting.                                   *)
(***************************************************************************)

\* A step of one handler leaves what the others hold.
LEMMA OthersKeep ==
  ASSUME TypeOK, NEW r \in Requests, Handle(r), NEW q \in Requests \ {r}
  PROVE  req'[q] = req[q]
BY DEF TypeOK, Handle, Become, Resolve, ApplyRead, ApplyGuard, ApplyRevenue, ApplyLink,
       InvoiceRead, InvoicePrice, InvoiceRevenue, PeriodClosed, InvoiceCommit, PaidRead,
       PaidWrite, CancelRead, CancelWrite, TitleRead, TitleInsert

\* An invoice that passes its checks fits the row it has seen.
LEMMA ResolveFits ==
  ASSUME BillingInv, NEW r \in Requests, NEW t \in Trips, NEW seen \in Seen,
         NEW billable \in Int, NEW wish \in Amounts \cup {All},
         seen # NoBilling =>
           t \in DOMAIN billing /\ seen = billing[t] /\ billable = billing[t].billable,
         Resolve(r, t, seen, billable, wish)
  PROVE  HeldFits(req'[r], billing, overtaken)
<1> DEFINE invoiced == Before(seen)
<1>1. invoiced \in Int
  BY DEF Seen, Billing, Before
<1>2. CASE Become(r, Idle)
  <2>1. req'[r] = Idle
    BY <1>2 DEF Become, BillingInv, TypeOK
  <2> QED
    BY <2>1 DEF HeldFits, Idle
<1>3. ASSUME NEW amount \in Resolved(wish, Balance(billable, invoiced)),
             ~(seen # NoBilling /\ ~Invoiceable(seen)),
             Become(r, [step |-> "guard", trip |-> t, seen |-> seen, billable |-> billable,
                        amount |-> amount])
      PROVE  HeldFits(req'[r], billing, overtaken)
  <2>1. amount \in Int /\ amount > 0 /\ invoiced + amount <= billable
    BY <1>1, ResolvedFits
  <2>2. req'[r] = [step |-> "guard", trip |-> t, seen |-> seen, billable |-> billable,
                   amount |-> amount]
    BY <1>3 DEF Become, BillingInv, TypeOK
  <2>3. seen # NoBilling => seen.invoiced >= 0 /\ invoiced = seen.invoiced
    BY DEF BillingInv, BilledWithinBillable, TypeOK, Billing, Before
  <2>4. seen = NoBilling => amount <= billable
    BY <2>1 DEF Before
  <2> HIDE DEF invoiced
  <2>5. InvoiceFits(req'[r], billing)
    BY <1>3, <2>1, <2>2, <2>3, <2>4 DEF InvoiceFits
  <2> QED
    BY <2>2, <2>5 DEF HeldFits
<1> QED
  BY <1>2, <1>3 DEF Resolve

\* What the handler that moves holds then.
LEMMA MoverFits ==
  ASSUME BillingInv, NEW r \in Requests, Handle(r)
  PROVE  HeldFits(req'[r], billing, overtaken)
<1>1. TypeOK /\ req \in [Requests -> RequestState]
  BY DEF BillingInv, TypeOK
<1>2. HeldFits(req[r], billing, overtaken)
  BY DEF BillingInv, HeldFit
<1>3. CASE Become(r, Idle)
  <2>1. req'[r] = Idle
    BY <1>1, <1>3 DEF Become
  <2> QED
    BY <2>1 DEF HeldFits, Idle
<1>4. CASE (\E t \in Trips : ApplyRead(r, t)) \/ ApplyGuard(r)
           \/ (\E v \in Revenues : ApplyRevenue(r, v))
  <2>1. req'[r].step \notin {"guard", "entry", "paid", "cancel", "title"}
    <3>1. ASSUME NEW t \in Trips, ApplyRead(r, t)
          PROVE  req'[r].step = "unbilled"
      BY <1>1, <3>1 DEF ApplyRead, Become
    <3>2. CASE ApplyGuard(r)
      <4>1. req[r] \in ApplyState
        BY <1>1, <3>2, HeldTypes DEF ApplyGuard
      <4>2. req'[r] = Idle \/ req'[r] = [req[r] EXCEPT !.step = "apply"]
        BY <1>1, <3>2 DEF ApplyGuard, Become
      <4> QED
        BY <4>1, <4>2 DEF ApplyState, Idle
    <3>3. ASSUME NEW v \in Revenues, ApplyRevenue(r, v)
          PROVE  req'[r].step = "link"
      BY <1>1, <3>3 DEF ApplyRevenue, Become
    <3> QED
      BY <1>4, <3>1, <3>2, <3>3
  <2> QED
    BY <2>1 DEF HeldFits
<1>5. ASSUME NEW t \in Trips, NEW wish \in Amounts \cup {All}, InvoiceRead(r, t, wish)
      PROVE  HeldFits(req'[r], billing, overtaken)
  <2>1. CASE t \notin DOMAIN billing
    <3>1. req'[r].step = "price"
      BY <1>1, <1>5, <2>1 DEF InvoiceRead, Become
    <3> QED
      BY <3>1 DEF HeldFits
  <2>2. CASE t \in DOMAIN billing
    <3>1. billing[t] \in Seen /\ billing[t].billable \in Int
      BY <1>1, <2>2 DEF TypeOK, Seen, Billing
    <3>2. Resolve(r, t, billing[t], billing[t].billable, wish)
      BY <1>5, <2>2 DEF InvoiceRead
    <3> QED
      BY <2>2, <3>1, <3>2, ResolveFits
  <2> QED
    BY <2>1, <2>2
<1>6. CASE InvoicePrice(r) /\ req[r].trip \in DOMAIN freight
  <2>1. req[r] \in PriceState
    BY <1>1, <1>6, HeldTypes DEF InvoicePrice
  <2>2. req[r].trip \in Trips /\ req[r].wish \in Amounts \cup {All}
    BY <2>1 DEF PriceState
  <2>3. freight[req[r].trip].amount \in Int /\ NoBilling \in Seen
    BY <1>1, <1>6 DEF TypeOK, Freight, Seen
  <2>4. Resolve(r, req[r].trip, NoBilling, freight[req[r].trip].amount, req[r].wish)
    BY <1>6 DEF InvoicePrice
  <2> QED
    BY <2>2, <2>3, <2>4, ResolveFits
<1>7. ASSUME NEW v \in Revenues, InvoiceRevenue(r, v)
      PROVE  HeldFits(req'[r], billing, overtaken)
  <2>1. PICK status :
          req'[r] = [step |-> "entry", trip |-> req[r].trip, seen |-> req[r].seen,
                     billable |-> req[r].billable, amount |-> req[r].amount, revenue |-> v,
                     status |-> status]
    BY <1>1, <1>7 DEF InvoiceRevenue, Become
  <2>2. InvoiceFits(req[r], billing)
    BY <1>2, <1>7 DEF HeldFits, InvoiceRevenue, At
  <2>3. InvoiceFits(req'[r], billing)
    BY <2>1, <2>2 DEF InvoiceFits
  <2> QED
    BY <2>1, <2>3 DEF HeldFits
<1>8. ASSUME NEW t \in Trips, PaidRead(r, t) \/ CancelRead(r, t)
      PROVE  HeldFits(req'[r], billing, overtaken)
  <2>1. t \in DOMAIN billing
        /\ \/ Payable(billing[t]) /\ req'[r] = [step |-> "paid", trip |-> t, seen |-> billing[t]]
           \/ req'[r] = [step |-> "cancel", trip |-> t, seen |-> billing[t]]
    BY <1>1, <1>8 DEF PaidRead, CancelRead, Become
  <2> QED
    BY <2>1 DEF HeldFits
<1>9. ASSUME NEW t \in Trips, TitleRead(r, t)
      PROVE  HeldFits(req'[r], billing, overtaken)
  <2>1. t \in DOMAIN billing
        /\ req'[r] = [step |-> "title", trip |-> t, amount |-> billing[t].invoiced]
    BY <1>1, <1>9 DEF TitleRead, Become
  <2>2. billing[t].invoiced <= billing[t].billable /\ billing[t].invoiced <= billing[t].invoiced
    BY <1>1, <2>1 DEF BillingInv, BilledWithinBillable, TypeOK, Billing
  <2>3. TitleFits(t, billing[t].invoiced, billing, overtaken)
    BY <2>1, <2>2 DEF TitleFits
  <2> QED
    BY <2>1, <2>3 DEF HeldFits
<1> QED
  BY <1>3, <1>4, <1>5, <1>6, <1>7, <1>8, <1>9
  DEF Handle, ApplyLink, InvoicePrice, PeriodClosed, InvoiceCommit, PaidWrite, CancelWrite,
      TitleInsert

\* Nobody holds what no longer fits.
LEMMA HeldStep ==
  ASSUME BillingInv, [Next]_vars
  PROVE  HeldFit'
<1>1. TypeOK' /\ Grown(billing, billing', overtaken, overtaken')
  BY TypeStep, RowsGrow DEF BillingInv
<1>2. /\ billing \in [DOMAIN billing -> Billing] /\ billing' \in [DOMAIN billing' -> Billing]
      /\ req \in [Requests -> RequestState] /\ req' \in [Requests -> RequestState]
  BY <1>1 DEF BillingInv, TypeOK
<1>3. ASSUME NEW q \in Requests
      PROVE  HeldFits(req'[q], billing, overtaken)
  <2>1. CASE UNCHANGED req
    BY <2>1 DEF BillingInv, HeldFit
  <2>2. ASSUME NEW r \in Requests, Handle(r)
        PROVE  HeldFits(req'[q], billing, overtaken)
    <3>1. CASE q = r
      BY <2>2, <3>1, MoverFits
    <3>2. CASE q # r
      <4>1. req'[q] = req[q]
        BY <2>2, <3>2, OthersKeep DEF BillingInv
      <4> QED
        BY <4>1 DEF BillingInv, HeldFit
    <3> QED
      BY <3>1, <3>2
  <2> QED
    BY <2>1, <2>2 DEF Next, vars, Price, CreateRevenue, UpdateRevenue, RemoveRevenue
<1>4. ASSUME NEW q \in Requests
      PROVE  HeldFits(req'[q], billing', overtaken')
  BY <1>1, <1>2, <1>3, FitsStays
<1> QED
  BY <1>4 DEF HeldFit

----
(***************************************************************************)
(* Revenues and entries.                                                     *)
(***************************************************************************)

\* A new revenue has an id that no revenue has, nor any handler holds.
LEMMA NewRevenueFacts ==
  ASSUME NEW v, NEW t, NEW amount, NewRevenue(v, t, amount)
  PROVE  /\ v \notin DOMAIN revenue
         /\ \A q \in Requests : req[q].step = "entry" => req[q].revenue # v
         /\ DOMAIN revenue' = DOMAIN revenue \cup {v}
         /\ revenue'[v].trip = t
         /\ \A u \in DOMAIN revenue : revenue'[u] = revenue[u]
BY DEF NewRevenue, Fresh, With

\* What a step does to the revenues: it makes one, or each that remains keeps its
\* trip and only one that no entry names goes.
LEMMA RevenueSteps ==
  ASSUME TypeOK, [Next]_vars
  PROVE  \/ \E v \in Revenues, t \in Trips, amount \in Int : NewRevenue(v, t, amount)
         \/ /\ DOMAIN revenue' \subseteq DOMAIN revenue
            /\ \A u \in DOMAIN revenue' : revenue'[u].trip = revenue[u].trip
            /\ DOMAIN revenue \cap DOMAIN entry \subseteq DOMAIN revenue'
<1>1. CASE UNCHANGED revenue
  BY <1>1
<1>2. ASSUME NEW v \in Revenues, NEW t \in Trips, NEW amount \in Amounts,
             CreateRevenue(v, t, amount)
      PROVE  NewRevenue(v, t, amount) /\ amount \in Int
  BY <1>2, BillingAssumption DEF CreateRevenue
<1>3. ASSUME NEW v \in Revenues, NEW amount \in Amounts, UpdateRevenue(v, amount)
      PROVE  /\ DOMAIN revenue' = DOMAIN revenue
             /\ \A u \in DOMAIN revenue : revenue'[u].trip = revenue[u].trip
  BY <1>3 DEF TypeOK, UpdateRevenue, Item
<1>4. ASSUME NEW v \in Revenues, RemoveRevenue(v)
      PROVE  /\ DOMAIN revenue' = DOMAIN revenue \ {v}
             /\ \A u \in DOMAIN revenue' : revenue'[u] = revenue[u]
             /\ v \notin DOMAIN entry
  BY <1>4 DEF RemoveRevenue, Removable
<1>5. ASSUME NEW r \in Requests, NEW v \in Revenues, ApplyRevenue(r, v) \/ InvoiceRevenue(r, v)
      PROVE  \E t \in Trips, amount \in Int : NewRevenue(v, t, amount)
  <2>1. req[r] \in ApplyState \/ req[r] \in GuardState
    BY <1>5, HeldTypes DEF ApplyRevenue, InvoiceRevenue
  <2>2. req[r].trip \in Trips /\ req[r].amount \in Int
    BY <2>1 DEF ApplyState, GuardState
  <2> QED
    BY <1>5, <2>2 DEF ApplyRevenue, InvoiceRevenue
<1>6. CASE Next /\ ~UNCHANGED revenue
  <2>1. \/ \E v \in Revenues, t \in Trips, amount \in Amounts : CreateRevenue(v, t, amount)
        \/ \E v \in Revenues, amount \in Amounts : UpdateRevenue(v, amount)
        \/ \E v \in Revenues : RemoveRevenue(v)
        \/ \E r \in Requests, v \in Revenues : ApplyRevenue(r, v) \/ InvoiceRevenue(r, v)
    BY <1>6 DEF Next, Handle, Price, ApplyRead, ApplyGuard, ApplyLink, InvoiceRead,
                InvoicePrice, PeriodClosed, InvoiceCommit, PaidRead, PaidWrite, CancelRead,
                CancelWrite, TitleRead, TitleInsert
  <2> QED
    BY <1>2, <1>3, <1>4, <1>5, <2>1
<1> QED
  BY <1>1, <1>6 DEF vars

\* A revenue that survives a step keeps its trip.
LEMMA TripsKept ==
  ASSUME TypeOK, [Next]_vars, NEW u \in DOMAIN revenue', u \in DOMAIN revenue
  PROVE  revenue'[u].trip = revenue[u].trip
BY RevenueSteps, NewRevenueFacts

\* A handler comes to hold a revenue for its entry only by making it.
LEMMA EntryMakers ==
  ASSUME TypeOK, [Next]_vars, NEW q \in Requests, req'[q].step = "entry"
  PROVE  \/ req'[q] = req[q]
         \/ \E v \in Revenues : /\ InvoiceRevenue(q, v) /\ req'[q].revenue = v
                                /\ v \notin DOMAIN revenue
                                /\ \A r \in Requests : req[r].step = "entry" => req[r].revenue # v
<1> SUFFICES ASSUME req'[q] # req[q]
             PROVE  \E v \in Revenues :
                      /\ InvoiceRevenue(q, v) /\ req'[q].revenue = v /\ v \notin DOMAIN revenue
                      /\ \A r \in Requests : req[r].step = "entry" => req[r].revenue # v
  OBVIOUS
<1>0. req \in [Requests -> RequestState]
  BY DEF TypeOK
<1>1. PICK r \in Requests : Handle(r)
  BY DEF Next, vars, Price, CreateRevenue, UpdateRevenue, RemoveRevenue
<1>2. q = r
  BY <1>1, OthersKeep
<1>3. PICK v \in Revenues : InvoiceRevenue(q, v)
  <2>1. ASSUME ApplyGuard(q)
        PROVE  FALSE
    <3>1. req[q] \in ApplyState
      BY <2>1, HeldTypes DEF ApplyGuard
    <3>2. req'[q] = Idle \/ req'[q] = [req[q] EXCEPT !.step = "apply"]
      BY <1>0, <2>1 DEF ApplyGuard, Become
    <3> QED
      BY <3>1, <3>2 DEF ApplyState, Idle
  <2>2. ~Become(q, Idle)
    BY <1>0 DEF Become, Idle
  <2>3. ASSUME NEW t \in Trips, NEW seen, NEW billable, NEW wish,
               Resolve(q, t, seen, billable, wish)
        PROVE  FALSE
    BY <1>0, <2>2, <2>3 DEF Resolve, Become
  <2>4. ASSUME InvoicePrice(q)
        PROVE  FALSE
    <3>1. req[q].trip \in Trips
      BY <2>4, HeldTypes DEF InvoicePrice, PriceState
    <3> QED
      BY <2>2, <2>3, <2>4, <3>1 DEF InvoicePrice
  <2>5. ASSUME NEW t \in Trips, NEW wish \in Amounts \cup {All}, InvoiceRead(q, t, wish)
        PROVE  FALSE
    <3>1. Become(q, [step |-> "price", trip |-> t, wish |-> wish])
      BY <2>3, <2>5 DEF InvoiceRead
    <3> QED
      BY <1>0, <3>1 DEF Become
  <2>6. ASSUME NEW t \in Trips,
               ApplyRead(q, t) \/ PaidRead(q, t) \/ CancelRead(q, t) \/ TitleRead(q, t)
        PROVE  FALSE
    BY <1>0, <2>6 DEF ApplyRead, PaidRead, CancelRead, TitleRead, Become
  <2>7. ASSUME NEW v \in Revenues, ApplyRevenue(q, v)
        PROVE  FALSE
    BY <1>0, <2>7 DEF ApplyRevenue, Become
  <2> QED
    BY <1>1, <1>2, <2>1, <2>2, <2>4, <2>5, <2>6, <2>7
    DEF Handle, ApplyLink, PeriodClosed, InvoiceCommit, PaidWrite, CancelWrite, TitleInsert
<1>4. req'[q].revenue = v
  BY <1>0, <1>3 DEF InvoiceRevenue, Become
<1>5. v \notin DOMAIN revenue /\ \A u \in Requests : req[u].step = "entry" => req[u].revenue # v
  BY <1>3, NewRevenueFacts DEF InvoiceRevenue
<1> QED
  BY <1>3, <1>4, <1>5

\* An invoice under way names a revenue of its trip.
LEMMA OwnStep ==
  ASSUME BillingInv, [Next]_vars
  PROVE  OwnRevenues'
<1> SUFFICES ASSUME NEW q \in Requests, req'[q].step = "entry", req'[q].revenue \in DOMAIN revenue'
             PROVE  revenue'[req'[q].revenue].trip = req'[q].trip
  BY DEF OwnRevenues, OwnRevenue
<1> DEFINE u == req'[q].revenue
<1>1. TypeOK /\ OwnRevenue(req[q], revenue)
  BY DEF BillingInv, OwnRevenues
<1>2. CASE req'[q] = req[q]
  <2>1. u \in DOMAIN revenue
    <3>1. ASSUME NEW v \in Revenues, NEW t \in Trips, NEW amount \in Int,
                 NewRevenue(v, t, amount)
          PROVE  u \in DOMAIN revenue
      <4>1. DOMAIN revenue' = DOMAIN revenue \cup {v}
        BY <3>1, NewRevenueFacts
      <4>2. u # v
        BY <1>2, <3>1, NewRevenueFacts
      <4> QED
        BY <4>1, <4>2
    <3> QED
      BY <1>1, <3>1, RevenueSteps
  <2>2. revenue[u].trip = req[q].trip
    BY <1>1, <1>2, <2>1 DEF OwnRevenue
  <2>3. revenue'[u].trip = revenue[u].trip
    BY <1>1, <2>1, TripsKept
  <2> QED
    BY <1>2, <2>2, <2>3
<1>3. CASE req'[q] # req[q]
  <2>1. PICK v \in Revenues : InvoiceRevenue(q, v)
    BY <1>1, <1>3, EntryMakers
  <2>2. req'[q].revenue = v /\ req'[q].trip = req[q].trip
        /\ NewRevenue(v, req[q].trip, req[q].amount)
    BY <1>1, <2>1 DEF InvoiceRevenue, Become, TypeOK
  <2>3. revenue'[v].trip = req[q].trip
    BY <2>2, NewRevenueFacts
  <2> QED
    BY <2>2, <2>3
<1> QED
  BY <1>2, <1>3

\* Only an invoice that commits writes an entry.
LEMMA EntrySteps ==
  ASSUME [Next]_vars
  PROVE  UNCHANGED entry \/ \E r \in Requests : Commits(r)
BY DEF Next, vars, Handle, Commits, Price, CreateRevenue, UpdateRevenue, RemoveRevenue,
       ApplyRead, ApplyGuard, ApplyRevenue, ApplyLink, InvoiceRead, InvoicePrice,
       InvoiceRevenue, PeriodClosed, InvoiceCommit, PaidRead, PaidWrite, CancelRead,
       CancelWrite, TitleRead, TitleInsert

\* Every entry keeps its revenue.
LEMMA EntriesStep ==
  ASSUME BillingInv, [Next]_vars
  PROVE  EntriesHaveRevenues'
<1>1. TypeOK /\ EntriesHaveRevenues
  BY DEF BillingInv
<1>2. \A v \in DOMAIN entry : v \in DOMAIN revenue' /\ revenue'[v].trip = entry[v].trip
  <2> SUFFICES ASSUME NEW v \in DOMAIN entry
               PROVE  v \in DOMAIN revenue' /\ revenue'[v].trip = entry[v].trip
    OBVIOUS
  <2>1. v \in DOMAIN revenue /\ revenue[v].trip = entry[v].trip
    BY <1>1 DEF EntriesHaveRevenues
  <2>2. v \in DOMAIN revenue'
    BY <1>1, <2>1, RevenueSteps, NewRevenueFacts
  <2> QED
    BY <1>1, <2>1, <2>2, TripsKept
<1>3. CASE UNCHANGED entry
  BY <1>2, <1>3 DEF EntriesHaveRevenues
<1>4. ASSUME NEW r \in Requests, Commits(r)
      PROVE  EntriesHaveRevenues'
  <2> DEFINE q == req[r]
             item == [trip |-> q.trip, amount |-> q.amount]
  <2>1. q.revenue \in DOMAIN revenue /\ revenue[q.revenue].trip = item.trip
        /\ entry' = With(entry, q.revenue, item)
    BY <1>4, CommitFacts
  <2>2. revenue' = revenue
    BY <1>4 DEF Commits, InvoiceCommit
  <2> HIDE DEF q, item
  <2> QED
    BY <1>1, <2>1, <2>2 DEF EntriesHaveRevenues, With
<1> QED
  BY <1>3, <1>4, EntrySteps

----
(***************************************************************************)
(* Amounts.                                                                  *)
(***************************************************************************)

\* A billing stays within its billable amount.
LEMMA BilledStep ==
  ASSUME BillingInv, [Next]_vars
  PROVE  \A t \in DOMAIN billing' : billing'[t].invoiced \in 0..billing'[t].billable
<1>1. \A t \in DOMAIN billing :
        billing[t] \in Billing /\ billing[t].invoiced \in 0..billing[t].billable
  BY DEF BillingInv, BilledWithinBillable, TypeOK
<1>2. CASE UNCHANGED <<billing, overtaken>>
  BY <1>1, <1>2
<1>3. ASSUME NEW r \in Requests, Commits(r)
      PROVE  \A t \in DOMAIN billing' : billing'[t].invoiced \in 0..billing'[t].billable
  <2> DEFINE row == Invoiced(req[r])
  <2>1. billing' = With(billing, req[r].trip, row) /\ row.invoiced \in 0..row.billable
    BY <1>3, CommitFacts
  <2> HIDE DEF row
  <2> QED
    BY <1>1, <2>1 DEF With
<1>4. ASSUME NEW r \in Requests, PaidWrite(r) \/ CancelWrite(r)
      PROVE  \A t \in DOMAIN billing' : billing'[t].invoiced \in 0..billing'[t].billable
  <2> DEFINE t == req[r].trip
  <2>1. /\ t \in DOMAIN billing
        /\ billing' \in [DOMAIN billing -> Billing]
        /\ \A u \in DOMAIN billing \ {t} : billing'[u] = billing[u]
        /\ \/ billing'[t] = [billing[t] EXCEPT !.status = "CANCELLED"]
           \/ billing'[t] = [billing[t] EXCEPT !.status = "PAID"]
    BY <1>4, StatusFacts
  <2>2. billing'[t].invoiced = billing[t].invoiced /\ billing'[t].billable = billing[t].billable
    BY <1>1, <2>1 DEF Billing
  <2> HIDE DEF t
  <2> QED
    BY <1>1, <2>1, <2>2
<1> QED
  BY <1>2, <1>3, <1>4, OtherSteps

\* A title stays within what was invoiced.
LEMMA TitlesStep ==
  ASSUME BillingInv, [Next]_vars
  PROVE  \A t \in DOMAIN title' : TitleFits(t, title'[t], billing', overtaken')
<1>1. Grown(billing, billing', overtaken, overtaken')
  BY RowsGrow
<1>2. \A t \in DOMAIN title : TitleFits(t, title[t], billing, overtaken) /\ title[t] \in Int
  BY DEF BillingInv, BilledWithinBillable, TitleFits, TypeOK
<1>3. TypeOK'
  BY TypeStep DEF BillingInv
<1>4. ASSUME NEW t, NEW amount \in Int, TitleFits(t, amount, billing, overtaken)
      PROVE  TitleFits(t, amount, billing', overtaken')
  <2>1. t \in DOMAIN billing /\ t \in DOMAIN billing'
        /\ billing'[t].billable = billing[t].billable
        /\ (t \notin overtaken' => billing[t].invoiced <= billing'[t].invoiced)
        /\ (t \notin overtaken' => t \notin overtaken)
    BY <1>1, <1>4 DEF TitleFits, Grown
  <2>2. billing[t].invoiced \in Int /\ billing'[t].invoiced \in Int
    BY <1>3, <2>1 DEF BillingInv, TypeOK, Billing
  <2> QED
    BY <1>4, <2>1, <2>2 DEF TitleFits
<1>5. CASE UNCHANGED title
  BY <1>2, <1>4, <1>5
<1>6. ASSUME NEW r \in Requests, TitleInsert(r)
      PROVE  \A t \in DOMAIN title' : TitleFits(t, title'[t], billing', overtaken')
  <2> DEFINE q == req[r]
  <2>1. q \in TitleState /\ TitleFits(q.trip, q.amount, billing, overtaken)
    BY <1>6, HeldTypes DEF BillingInv, HeldFit, HeldFits, TitleInsert, At
  <2>2. q.amount \in Int
    BY <2>1 DEF TitleState
  <2>3. TitleFits(q.trip, q.amount, billing', overtaken')
    BY <1>4, <2>1, <2>2
  <2>4. title' = title \/ title' = With(title, q.trip, q.amount)
    BY <1>6 DEF TitleInsert
  <2> HIDE DEF q
  <2> QED
    BY <1>2, <1>4, <2>3, <2>4 DEF With
<1>7. UNCHANGED title \/ \E r \in Requests : TitleInsert(r)
  BY DEF Next, vars, Handle, Price, CreateRevenue, UpdateRevenue, RemoveRevenue, ApplyRead,
         ApplyGuard, ApplyRevenue, ApplyLink, InvoiceRead, InvoicePrice, InvoiceRevenue,
         PeriodClosed, InvoiceCommit, PaidRead, PaidWrite, CancelRead, CancelWrite, TitleRead
<1> QED
  BY <1>5, <1>6, <1>7

----
(***************************************************************************)
(* Sums.  What a billing counts, against its entries one by one.             *)
(***************************************************************************)

EntryAmounts == [v \in DOMAIN entry |-> entry[v].amount]

\* An invoice under way has a revenue of its own, which no entry names yet.
Unentered(q) == q.step = "entry" => q.revenue \notin DOMAIN entry

Apart == \A q, r \in Requests :
           q # r /\ req[q].step = "entry" /\ req[r].step = "entry" => req[q].revenue # req[r].revenue

\* The entries are finitely many and each belongs to a billing that exists; and they
\* add up, on every trip whose billing was never written from an old row.
SumInv ==
  /\ IsFiniteSet(DOMAIN entry)
  /\ \A v \in DOMAIN entry : entry[v].trip \in DOMAIN billing
  /\ \A r \in Requests : Unentered(req[r])
  /\ Apart
  /\ EntriesExplainInvoiced

\* The revenues that the handlers hold stay apart, and apart from the entries.
LEMMA ApartStep ==
  ASSUME BillingInv, SumInv, [Next]_vars
  PROVE  Apart' /\ \A r \in Requests : Unentered(req[r])'
<1>0. TypeOK /\ \A v \in DOMAIN entry : v \in DOMAIN revenue
  BY DEF BillingInv, EntriesHaveRevenues
<1>1. Apart'
  <2> SUFFICES ASSUME NEW q \in Requests, NEW r \in Requests, q # r,
                      req'[q].step = "entry", req'[r].step = "entry"
               PROVE  req'[q].revenue # req'[r].revenue
    BY DEF Apart
  <2>1. req'[q] = req[q] \/ req'[r] = req[r]
    <3> SUFFICES ASSUME req'[q] # req[q], req'[r] # req[r] PROVE FALSE
      OBVIOUS
    <3>1. PICK u \in Requests : Handle(u)
      BY DEF Next, vars, Price, CreateRevenue, UpdateRevenue, RemoveRevenue
    <3> QED
      BY <1>0, <3>1, OthersKeep
  <2> QED
    BY <1>0, <2>1, EntryMakers DEF SumInv, Apart
<1>2. ASSUME NEW q \in Requests, req'[q].step = "entry"
      PROVE  req'[q].revenue \notin DOMAIN entry'
  <2>1. req'[q].revenue \notin DOMAIN entry
    BY <1>0, <1>2, EntryMakers DEF SumInv, Unentered
  <2>2. CASE UNCHANGED entry
    BY <2>1, <2>2
  <2>3. ASSUME NEW r \in Requests, Commits(r)
        PROVE  req'[q].revenue \notin DOMAIN entry'
    <3>1. DOMAIN entry' = DOMAIN entry \cup {req[r].revenue}
      BY <2>3, CommitFacts DEF With
    <3>2. At(r, "entry") /\ req' = [req EXCEPT ![r] = Idle]
      BY <2>3 DEF Commits, InvoiceCommit, Become
    <3>3. q # r /\ req'[q] = req[q]
      BY <1>0, <1>2, <3>2 DEF TypeOK, Idle
    <3>4. req[q].revenue # req[r].revenue
      BY <1>2, <3>2, <3>3 DEF SumInv, Apart, At
    <3> QED
      BY <2>1, <3>1, <3>3, <3>4
  <2> QED
    BY <2>2, <2>3, EntrySteps
<1> QED
  BY <1>1, <1>2 DEF Unentered

\* One entry more, of a trip.
LEMMA OneEntryMore ==
  ASSUME TypeOK, IsFiniteSet(DOMAIN entry), NEW u \in Revenues, u \notin DOMAIN entry,
         NEW t \in Trips, NEW amount \in Int,
         entry' = With(entry, u, [trip |-> t, amount |-> amount]), NEW w
  PROVE  SumFunctionOnSet(EntryAmounts, EntriesOf(w))' =
           SumFunctionOnSet(EntryAmounts, EntriesOf(w)) + IF w = t THEN amount ELSE 0
<1> DEFINE before == {v \in DOMAIN entry : entry[v].trip = w}
           after == {v \in DOMAIN entry' : entry'[v].trip = w}
           old == [v \in DOMAIN entry |-> entry[v].amount]
           new == [v \in DOMAIN entry' |-> entry'[v].amount]
<1>1. /\ DOMAIN entry' = DOMAIN entry \cup {u}
      /\ entry'[u].trip = t /\ entry'[u].amount = amount
      /\ \A v \in DOMAIN entry : entry'[v] = entry[v]
  BY DEF With
<1>2. \A v \in DOMAIN entry : entry[v].amount \in Int
  BY DEF TypeOK, Item
<1>3. IsFiniteSet(before) /\ u \notin before /\ before \subseteq DOMAIN entry
  BY FS_Subset
<1>4. \A v \in before : new[v] = old[v] /\ new[v] \in Int
  BY <1>1, <1>2
<1>5. new[u] = amount
  BY <1>1
<1>6. after = IF w = t THEN before \cup {u} ELSE before
  BY <1>1
<1> HIDE DEF before, after, old, new
<1>7. SumFunctionOnSet(new, before) = SumFunctionOnSet(old, before)
      /\ SumFunctionOnSet(new, before) \in Int
  BY <1>3, <1>4, SumAgrees, SumType
<1>8. SumFunctionOnSet(new, after) = SumFunctionOnSet(old, before) + IF w = t THEN amount ELSE 0
  <2>1. CASE w = t
    <3>1. SumFunctionOnSet(new, before \cup {u}) = new[u] + SumFunctionOnSet(new, before)
      BY <1>3, <1>4, <1>5, SumAdds
    <3> QED
      BY <1>5, <1>6, <1>7, <2>1, <3>1
  <2>2. CASE w # t
    BY <1>6, <1>7, <2>2
  <2> QED
    BY <2>1, <2>2
<1> QED
  BY <1>8 DEF before, after, old, new, EntryAmounts, EntriesOf

\* What the billings count follows the entries.
LEMMA SumStep ==
  ASSUME BillingInv, SumInv, [Next]_vars
  PROVE  SumInv'
<1> DEFINE Sum(t) == SumFunctionOnSet(EntryAmounts, EntriesOf(t))
<1>0. /\ TypeOK /\ EntriesHaveRevenues'
      /\ Apart' /\ \A r \in Requests : Unentered(req[r])'
      /\ Grown(billing, billing', overtaken, overtaken')
  BY EntriesStep, ApartStep, RowsGrow DEF BillingInv
<1>1. \A t \in DOMAIN billing \ overtaken : billing[t].invoiced = Sum(t)
  BY DEF SumInv, EntriesExplainInvoiced, EntryAmounts
<1>2. SUFFICES /\ IsFiniteSet(DOMAIN entry')
               /\ \A v \in DOMAIN entry' : entry'[v].trip \in DOMAIN billing'
               /\ \A t \in DOMAIN billing' \ overtaken' : billing'[t].invoiced = Sum(t)'
  BY <1>0, <1>2 DEF SumInv, EntriesExplainInvoiced, EntryAmounts
<1>3. ASSUME UNCHANGED entry, DOMAIN billing' = DOMAIN billing, overtaken \subseteq overtaken',
             \A t \in DOMAIN billing : billing'[t].invoiced = billing[t].invoiced
      PROVE  /\ IsFiniteSet(DOMAIN entry')
             /\ \A v \in DOMAIN entry' : entry'[v].trip \in DOMAIN billing'
             /\ \A t \in DOMAIN billing' \ overtaken' : billing'[t].invoiced = Sum(t)'
  <2>1. \A t : Sum(t)' = Sum(t)
    BY <1>3 DEF EntryAmounts, EntriesOf
  <2> QED
    BY <1>1, <1>3, <2>1 DEF SumInv
<1>4. CASE UNCHANGED <<billing, overtaken, entry>>
  BY <1>3, <1>4
<1>5. ASSUME NEW r \in Requests, PaidWrite(r) \/ CancelWrite(r)
      PROVE  /\ IsFiniteSet(DOMAIN entry')
             /\ \A v \in DOMAIN entry' : entry'[v].trip \in DOMAIN billing'
             /\ \A t \in DOMAIN billing' \ overtaken' : billing'[t].invoiced = Sum(t)'
  <2> DEFINE t == req[r].trip
  <2>1. /\ t \in DOMAIN billing
        /\ billing' \in [DOMAIN billing -> Billing]
        /\ \A u \in DOMAIN billing \ {t} : billing'[u] = billing[u]
        /\ \/ billing'[t] = [billing[t] EXCEPT !.status = "CANCELLED"]
           \/ billing'[t] = [billing[t] EXCEPT !.status = "PAID"]
        /\ overtaken \subseteq overtaken'
    BY <1>5, StatusFacts
  <2>2. billing[t] \in Billing /\ entry' = entry
    BY <1>0, <1>5, <2>1 DEF TypeOK, PaidWrite, CancelWrite
  <2>3. billing'[t].invoiced = billing[t].invoiced
    BY <2>1, <2>2 DEF Billing
  <2> HIDE DEF t
  <2> QED
    BY <1>3, <2>1, <2>2, <2>3
<1>6. ASSUME NEW r \in Requests, Commits(r)
      PROVE  /\ IsFiniteSet(DOMAIN entry')
             /\ \A v \in DOMAIN entry' : entry'[v].trip \in DOMAIN billing'
             /\ \A t \in DOMAIN billing' \ overtaken' : billing'[t].invoiced = Sum(t)'
  <2> DEFINE q == req[r]
  <2>0. /\ q \in EntryState /\ q.trip \in Trips
        /\ billing' = With(billing, q.trip, Invoiced(q))
        /\ entry' = With(entry, q.revenue, [trip |-> q.trip, amount |-> q.amount])
        /\ overtaken \subseteq overtaken'
    BY <1>6, CommitFacts
  <2>1. PICK t \in Trips, u \in Revenues, amount \in Int :
          t = q.trip /\ u = q.revenue /\ amount = q.amount
    BY <2>0 DEF EntryState
  <2>2. PICK row : row = Invoiced(q)
    OBVIOUS
  <2>3. u \notin DOMAIN entry
    BY <1>6, <2>1 DEF Commits, InvoiceCommit, SumInv, Unentered, At
  <2>4. \A w : Sum(w)' = Sum(w) + IF w = t THEN amount ELSE 0
    BY <1>0, <2>0, <2>1, <2>3, OneEntryMore DEF SumInv
  <2>5. /\ DOMAIN billing' = DOMAIN billing \cup {t} /\ billing'[t] = row
        /\ \A w \in DOMAIN billing \ {t} : billing'[w] = billing[w]
        /\ DOMAIN entry' = DOMAIN entry \cup {u}
        /\ entry'[u].trip = t /\ \A v \in DOMAIN entry \ {u} : entry'[v] = entry[v]
    BY <2>0, <2>1, <2>2 DEF With
  <2>6. IsFiniteSet(DOMAIN entry') /\ \A v \in DOMAIN entry' : entry'[v].trip \in DOMAIN billing'
    BY <2>5, FS_AddElement DEF SumInv
  <2>7. ASSUME t \notin overtaken'
        PROVE  row.invoiced = Sum(t)'
    <3>1. CASE t \notin DOMAIN billing
      <4>1. EntriesOf(t) = {}
        BY <3>1 DEF EntriesOf, SumInv
      <4>2. Sum(t) = 0
        BY <4>1, SumEmpty
      <4>3. q.seen = NoBilling
        BY <1>6, <2>1, <3>1
        DEF BillingInv, HeldFit, HeldFits, InvoiceFits, Commits, InvoiceCommit, At
      <4>4. row.invoiced = amount + 0
        BY <2>1, <2>2, <4>3 DEF Invoiced, Before
      <4>5. Sum(t)' = 0 + amount
        BY <2>4, <4>2
      <4> QED
        BY <4>4, <4>5
    <3>2. CASE t \in DOMAIN billing
      <4>1. q.seen # NoBilling /\ billing[t] = q.seen
        BY <1>6, <2>1, <2>7, <3>2 DEF Commits, InvoiceCommit, Overtake
      <4>2. row.invoiced = amount + billing[t].invoiced
        BY <2>1, <2>2, <4>1 DEF Invoiced, Before
      <4>3. billing[t].invoiced = Sum(t)
        BY <1>1, <2>0, <2>7, <3>2
      <4>4. billing[t].invoiced \in Int
        BY <1>0, <3>2 DEF TypeOK, Billing
      <4>5. Sum(t)' = Sum(t) + amount
        BY <2>4
      <4> HIDE DEF Sum
      <4> QED
        BY <4>2, <4>3, <4>4, <4>5
    <3> QED
      BY <3>1, <3>2
  <2>8. ASSUME NEW w \in DOMAIN billing' \ overtaken', w # t
        PROVE  billing'[w].invoiced = Sum(w)'
    <3>1. w \in DOMAIN billing \ overtaken /\ billing'[w] = billing[w]
      BY <2>0, <2>5, <2>8
    <3>2. billing[w].invoiced = Sum(w) /\ billing[w].invoiced \in Int
      BY <1>0, <1>1, <3>1 DEF TypeOK, Billing
    <3>3. Sum(w)' = Sum(w) + 0
      BY <2>4, <2>8
    <3> HIDE DEF Sum
    <3> QED
      BY <3>1, <3>2, <3>3
  <2>9. \A w \in DOMAIN billing' \ overtaken' : billing'[w].invoiced = Sum(w)'
    BY <2>5, <2>7, <2>8
  <2> QED
    BY <2>6, <2>9
<1>7. UNCHANGED <<billing, overtaken, entry>>
      \/ \E r \in Requests : Commits(r) \/ PaidWrite(r) \/ CancelWrite(r)
  BY OtherSteps, EntrySteps
<1> QED
  BY <1>4, <1>5, <1>6, <1>7

LEMMA SumInit ==
  ASSUME Init
  PROVE  SumInv
<1>1. DOMAIN entry = {} /\ DOMAIN billing = {}
  BY DEF Init
<1>2. IsFiniteSet(DOMAIN entry)
  BY <1>1, FS_EmptySet
<1>3. Apart /\ \A r \in Requests : Unentered(req[r])
  BY DEF Init, Apart, Unentered, Idle
<1>4. EntriesExplainInvoiced
  BY <1>1 DEF EntriesExplainInvoiced, EntriesHaveRevenues
<1> QED
  BY <1>1, <1>2, <1>3, <1>4 DEF SumInv

----
(***************************************************************************)
(* The theorems.                                                             *)
(***************************************************************************)

LEMMA InvInit ==
  ASSUME Init
  PROVE  BillingInv
<1>1. TypeOK
  BY TypeInit
<1>2. BilledWithinBillable /\ EntriesHaveRevenues
  BY DEF Init, BilledWithinBillable, EntriesHaveRevenues
<1>3. HeldFit /\ OwnRevenues
  BY DEF Init, HeldFit, HeldFits, OwnRevenues, OwnRevenue, Idle
<1> QED
  BY <1>1, <1>2, <1>3 DEF BillingInv

LEMMA InvStep ==
  ASSUME BillingInv, [Next]_vars
  PROVE  BillingInv'
<1>1. TypeOK'
  BY TypeStep DEF BillingInv
<1>2. BilledWithinBillable'
  BY BilledStep, TitlesStep DEF BilledWithinBillable, TitleFits
<1> QED
  BY <1>1, <1>2, EntriesStep, HeldStep, OwnStep DEF BillingInv

\* The inductive invariant: whatever a handler holds between two awaits still
\* fits the frozen billable amount of its trip.
THEOREM BillingInvariance == Spec => []BillingInv
<1>1. Init => BillingInv
  BY InvInit
<1>2. BillingInv /\ [Next]_vars => BillingInv'
  BY InvStep
<1> QED
  BY <1>1, <1>2, PTL DEF Spec

\* However many invoices of a trip race, its billing counts, and its receivable
\* charges, no more than the billable amount.
THEOREM NeverOverbilled == Spec => []BilledWithinBillable
<1>1. BillingInv => BilledWithinBillable
  BY DEF BillingInv
<1> QED
  BY <1>1, BillingInvariance, PTL

\* Every part that was invoiced keeps the revenue it generated.
THEOREM EntriesBacked == Spec => []EntriesHaveRevenues
<1>1. BillingInv => EntriesHaveRevenues
  BY DEF BillingInv
<1> QED
  BY <1>1, BillingInvariance, PTL

\* Unless a row was overtaken, the invoiced amount is the sum of the entries, for any
\* number of them and of invoices that race.
THEOREM EntriesAddUp == Spec => []EntriesExplainInvoiced
<1>1. Init => SumInv
  BY SumInit
<1>2. BillingInv /\ SumInv /\ [Next]_vars => SumInv'
  BY SumStep
<1>3. SumInv => EntriesExplainInvoiced
  BY DEF SumInv
<1> QED
  BY <1>1, <1>2, <1>3, BillingInvariance, PTL DEF Spec

\* The billable amount of a billing is the one of its first invoice, for good.
THEOREM BillableIsFrozen == Spec => BillableFrozen
<1>1. BillingInv /\ [Next]_vars =>
        [\A t \in DOMAIN billing :
           t \in DOMAIN billing' /\ billing'[t].billable = billing[t].billable]_vars
  BY RowsGrow DEF Grown
<1> QED
  BY <1>1, BillingInvariance, PTL DEF Spec, BillableFrozen

\* A cancelled billing never changes again and a paid one can only be cancelled,
\* unless a handler wrote what it had decided on an older row.
THEOREM ClosedIsFinal == Spec => ClosedStaysClosed
<1> DEFINE Final(t) ==
      t \notin overtaken' =>
        /\ billing[t].status = "CANCELLED" => billing'[t] = billing[t]
        /\ billing[t].status = "PAID" =>
             billing'[t] \in {billing[t], [billing[t] EXCEPT !.status = "CANCELLED"]}
<1>1. ASSUME BillingInv, [Next]_vars, NEW t \in DOMAIN billing
      PROVE  Final(t)
  <2>1. billing[t] \in Billing
    BY <1>1 DEF BillingInv, TypeOK
  <2>2. CASE UNCHANGED <<billing, overtaken>>
    BY <2>2
  <2>3. ASSUME NEW r \in Requests, Commits(r)
        PROVE  Final(t)
    <3> DEFINE row == Invoiced(req[r])
               u == req[r].trip
    <3>1. billing' = With(billing, u, row)
          /\ (u \in DOMAIN billing => (u \notin overtaken' => Invoiceable(billing[u])))
      BY <1>1, <2>3, CommitFacts
    <3> HIDE DEF row, u
    <3> QED
      BY <3>1 DEF With, Invoiceable
  <2>4. ASSUME NEW r \in Requests, PaidWrite(r) \/ CancelWrite(r)
        PROVE  Final(t)
    <3> DEFINE u == req[r].trip
    <3>1. /\ \A w \in DOMAIN billing \ {u} : billing'[w] = billing[w]
          /\ \/ billing'[u] = [billing[u] EXCEPT !.status = "CANCELLED"]
             \/ /\ billing'[u] = [billing[u] EXCEPT !.status = "PAID"]
                /\ u \notin overtaken' => Payable(billing[u])
      BY <1>1, <2>4, StatusFacts
    <3> HIDE DEF u
    <3>2. CASE t # u
      BY <3>1, <3>2
    <3>3. CASE t = u
      BY <2>1, <3>1, <3>3 DEF Payable, Billing
    <3> QED
      BY <3>2, <3>3
  <2> QED
    BY <1>1, <2>2, <2>3, <2>4, OtherSteps
<1>2. BillingInv /\ [Next]_vars => [\A t \in DOMAIN billing : Final(t)]_vars
  BY <1>1
<1> QED
  BY <1>2, BillingInvariance, PTL DEF Spec, ClosedStaysClosed

=============================================================================

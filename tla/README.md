# Formal models of transportadoras-saas

TLA+ models of the parts of this system where several actors share state: the money of a
carrier (titles, payments, ledger, periods), the billing of trips, the offline queue of the
driver app, the dispatching of trips, the fuel tanks, the workshop with its parts, and the
subscriptions that carriers pay. TLC
checks them on small instances; TLAPS proves the main safety results for every value of the
constants.

    tlc -workers 2 -config MCFinance_money.cfg MCFinance   # a run
    tlapm FinanceProofs.tla                                # a proof

`PROJECT.json` lists the components, runs, mutants, hazards, theorems, and the source
lines behind every definition.

## 1. The system

A pnpm monorepo: `apps/api` (NestJS, Prisma, Postgres at its default Read Committed),
`apps/driver-app` (React Native, offline first), `apps/admin-web` (the office's browser
interface), and `packages/` (the Prisma schema, shared types). The three programs share no
memory: the app and the browser call the API over HTTP, and the API's handlers share only
the database. Several API processes may run; nothing in the code relies on there being one.

| Part | State | Operations | Interacts with | Hard behaviour |
|---|---|---|---|---|
| receivables, payables | title rows (original, settled, status, cancelledAt), payment rows | generate from a billing or expense, create by hand (instalments, fiscal document), register a payment, cancel | period guard, accounts, ledger | read, check, then a compare-and-swap; cancel without one |
| finance-accounts | accounts (isActive), ledger entries | switch, manual entry, transfer | period guard | checks outside the transaction |
| financial-periods | one row per month, OPEN or CLOSED | create, guard, close | reconciliation | guard outside the transaction, several queries |
| finance-reconciliation | none, computed | list issues | reads titles and payments | two queries at Read Committed |
| trips | status, driver, composition, actualDeparture, deletedAt | create, edit, updateStatus, cancel, delete | vehicles (odometer), idle periods, checklists, metrics | check-then-write by id, no lock |
| driver-trips | the same trips | start, pause, resume, complete | trips, tracking points | early returns instead of idempotency keys |
| vehicle-idle-periods | periods of a vehicle between trips | opened and ended by trips, entered and ended by the office | trips | a partial unique index, conditional updates |
| trip-operations | stops, tracking points, axle events, occurrences, shifts, deliveries | created by the app with a deviceEventId | trips | resends, duplicates |
| fuel-tanks, fuel-supplies | balance and status of a tank, its movements, its physical checks, supplies with a deviceEventId | create, receive, supply (office and app), remove a supply, check | vehicles, trips, driver app | Serializable transactions retried once; rows read before the transaction |
| maintenance work orders | status, lines of parts, vehicle's status, audit rows | create, edit, six actions, remove | parts, vehicles, audit | completion is Serializable, other changes Read Committed; audit rows decide a removal |
| parts | stock and its movements | in, out, adjustment, consumption of a completion | work orders | Serializable transactions retried once |
| driver app: sync queue | one AsyncStorage key, a JSON array | submitOrQueue, flushQueue | all screens, the tracker, the API | async functions without a lock, lost answers, crashes |
| driver app: screens and tracker | shown trip, stop pointer, automatic stop | buttons, GPS positions | sync queue | fire-and-forget calls |
| driver app: http client, session | tokens | request, shared refresh | auth | concurrent refresh |
| billing-operational, trip-revenues, freight | billing of a trip, its entries, revenues, commercial amount | invoice, confirm, cancel, apply revenue, revenues by hand | receivables, periods | three transactions per invoice, written by id after a read |
| bank-reconciliation | imported movements and their link to the ledger | import, reconcile, unreconcile | ledger, period guard | check-then-write, a unique link |
| billing, mercado-pago | a subscription (status, method, due date, preapproval), its payments | update, payment by hand, authorization, webhook, daily check | external payment service | repeated, late and lost notifications; rows read before the write |
| everything else in `apps/api/src` | registers and read-only aggregations | create, edit, list | | little of its own |

What makes each modelled part correct:

* **money**: no payment is lost, counted twice, or beyond its title; each moved its cash in
  the ledger once; statuses follow amounts; a source document has one title; transfers
  balance; no race looks like a mathematical error to the reconciliation;
* **queue**: what the driver was told is safe is on disk or handled; order is kept; resends
  create nothing twice; what is queued is handled in the end;
* **billing**: nothing is billed or charged beyond the amount frozen at the first invoice; the
  parts add up and keep their revenues; a closed billing stays closed;
* **stocks** (tanks and parts): each movement starts where the one before ended, within the
  limits; a supply draws once and is given back once; a work order consumes its parts once;
* **workshop**: a vehicle is in maintenance exactly while one of its orders is in progress;
* **subscriptions**: a payment is recorded once however often it is notified, none slips between
  the retries, and the due date never runs ahead of what was paid;
* **trips**: one driver and one vehicle per trip on the road; final states are final; the
  odometer only grows; idle periods are unique, ended once, and never open under a trip on
  the road.

## 2. Modules

| Module | What it is |
|---|---|
| `MoneyRules` | the pure rules: written status, balance, instalment amounts |
| `SettlementBook` | abstract specification: items with a limit, settled in parts in one step each |
| `FinanceCore` | titles, payments, ledger, accounts and periods under concurrent handlers; refines `SettlementBook` |
| `FinanceProofs` | its theorems |
| `SumTheorems` | what a sum over a finite set of rows is, for the theorems that compare a kept total with its rows |
| `DriverApi` | the API's handlers for what the app sends during one trip |
| `DriverApp` | the app's queue, screens and network over `DriverApi` (EXTENDS it; the requests in `http` are shared) |
| `DriverProofs` | their theorems |
| `TripLifecycle` | trips, drivers, vehicles, odometers and idle periods under concurrent handlers |
| `TripProofs` | its theorems |
| `StockBook` | abstract specification: stocks moved one movement at a time, within a limit |
| `SerialTx` | a Serializable transaction, its conflicts and its one retry (`runSerializable`), shared by the two modules below |
| `FuelTank` | tanks, movements, checks and supplies under concurrent handlers; refines `StockBook` |
| `FuelTankProofs` | its theorems |
| `Workshop` | work orders, vehicles' status and parts under concurrent handlers; refines `StockBook` |
| `WorkshopProofs` | its theorems |
| `TripBilling` | commercial amount, billing, revenues and receivable of trips under concurrent handlers |
| `TripBillingProofs` | its theorems |
| `Subscriptions` | a subscription under the webhook, the office and the daily check, with the payment service outside |
| `SubscriptionProofs` | its theorems |
| `MCFinance`, `MCDriver`, `MCTrips`, `MCTank`, `MCWorkshop`, `MCBilling`, `MCSubscriptions` | instances for TLC |

### How state and actions correspond to the code

In all models a handler is a small program: `req[r]` (or `http[s]`, `call[c]`) holds
the step it has reached and the values it keeps across its awaits. **Every await of a
query is a step**; anything else may run between two of them. A `$transaction` that reads
nothing but what it locks is one step. An error answer returns the request to idle and
writes nothing. A handler that is never scheduled again is a crashed process, so crashes of
the API between two steps need no action of their own. Audit logs, written after the commit
and ignored when they fail, are left out.

**FinanceCore.** `title` is both tables, keyed by id; `settled` is receivedAmount or
paidAmount. Amounts are integers of cents: the columns are Decimal(_, 2) and round2 of sums
of two-decimal numbers is exact there. The one rounding that matters, the share of an
instalment, is modelled as the *set* of results of Math.round at a half cent (`Shares`).
registerPayment is `PaymentRead` (findOrThrow) -> `PaymentCheckAccount` -> `PaymentGuard`
(balance and period) -> `ReceivablePayment` or `PayablePayment` (the transaction). cancel is
`CancelRead` -> `CancelGuard` -> `CancelWrite`. Titles come from `GenerateRead` ->
`GenerateGuard` -> `InsertTitles` (a billing or an expense) or `ManualGuard`
[-> `ManualCheckDocument`] -> `InsertTitles`; unique columns refuse the second insert.
Entries and transfers share `LegsGuard` and `LegsInsert`. close is `CloseRead` ->
`CloseReconcile` -> `CloseWrite`. The reconciliation has its tolerance of one cent
(`AMOUNT_EPSILON`): a difference beyond it is CRITICAL, a smaller one never is, and one of exactly
a cent may come out either way, because the code subtracts binary fractions (`PerhapsCritical`). Statuses are named once for both tables (PARTIAL stands
for PARTIALLY_RECEIVED and PARTIALLY_PAID).

**DriverApi and DriverApp.** The queue's kinds of actions fall into five shapes the API can
tell apart: `event` (a creation with a deviceEventId), `stop-open`, `stop-close`, and the
commands pause, resume, complete. Not among them yet: checklists, evidence, deliveries and
shifts, which have no deviceEventId of their own or depend on rows outside the trip. Each
handler is `Lookup` (the early return), `Guard` (the 404 and 409 conditions), and a write.
`Refusable` are kinds that validations outside the model may refuse. In the app, `Submit`
.. `QueueWrite` is submitOrQueue, `Flush` .. `FlushWrite` is flushQueue, `Refresh` the rest
of TripProvider.refresh. `Offers` says what the screens let the driver do, and waits where
a screen waits. `Lose` and `Crash` are the network and the operating system (external). Any number
of calls may be at work at once, as the tracker and the screens are. The history variables are
`missed` (what was stored since a call read the queue), `overwritten` (what such a call then wrote
off the disk) and `turn` (when an action entered the queue).

**TripLifecycle.** `Receive` is the read of the row with the first checks, `CheckDriver` ..
`CheckVehicleFree` are the queries of assertCanStart in their order, `CommitStatus` the
transaction of updateStatus with its three effects (status and departure, odometer, idle
periods). The driver's start writes its details first (`ApplyStartDetails`, `Reread`).
`update`, `softDelete` and the fuel supply of the app are `Receive` and a commit. The office switches
drivers and vehicles, enters and ends idle periods, and writes a vehicle's odometer as it likes
(`UpdateVehicle`). Three history variables say which requests lost a race: `overtaken` (another step
moved the trip, or put its driver or vehicle on the road, after the request read them), `outrun`
(the vehicle got another reading after the request read its odometer), and `loose` (the trips that
an overtaken request wrote). Schedule
overlaps and the pre-trip checklist, whose data are elsewhere, are a nondeterministic
refusal at the place where the code asks.

**SerialTx, FuelTank.** `runSerializable` opens a Serializable transaction and, when the
database reports a conflict, runs it once more. The transaction is two steps: `Begin` takes
the snapshot (the balance it will write from), `Commit` writes. `Doom` marks, at a commit, the
open transactions whose snapshot the commit has made old and which write the same row; a
doomed transaction can only `Abort`, which starts it over once (`Retry`). The database
(external) is thus assumed to give snapshots and to refuse the second writer of a row, and
nothing stronger. What the code reads *before* the transaction (the supply to remove, the
deviceEventId of a resend) is a step of its own and may be old. Litres are integers: the
columns are Decimal and the code compares floating-point sums of them, which may refuse a
movement that fits exactly (`fuel-tank-stock.util.ts:53`); no property rests on it.

**Workshop.** A handler reads the order and applies the guards of the transition (`AskChange`),
the start looks for other orders in progress (`CheckStart`), and the change is written in two
steps: `WriteStatus` locks the order's row, `CommitStatus` writes the vehicle's status from the
orders it can see at Read Committed. A completion is Serializable and draws the parts
(`BeginCompletion`, `CommitCompletion`). The audit row is written after the commit, on another
connection, and may be lost (`Audit`); a removal counts these rows (`CountAudit`). The history
variable `loose` holds the vehicles on which changes overlapped, or whose order in progress was
removed: there the code itself loses touch (section 6), and `VehicleFollowsOrders` excludes them.

**TripBilling.** `invoice` is `InvoiceRead` -> [`InvoicePrice`] -> `InvoiceRevenue` ->
`InvoiceCommit`, the revenue committed on its own before the billing and its entry.
`applyRevenue` is `ApplyRead` -> `ApplyGuard` -> `ApplyRevenue` -> `ApplyLink`. Confirmation,
cancellation and the receivable (`generateFromBilling`, here from the billing's side) are a read
and a write each. Sums of amounts are binary fractions that the code does not round
(`trip-billing.service.ts:112,151`), so a sum that reaches the billable amount exactly may fall short
of it: the status may stay PARTIALLY_INVOICED (`StatusesOf`), and the exact rest may be refused
(`Resolve`). The three amounts of a freight are one, and it may change at any moment. The
history variable `overtaken` holds the trips whose row was written from an older copy of it, the
lost update that docs/billing-operational.md:362 accepts.

**Subscriptions.** One subscription, because they share no row. processPreapproval is
`PreapprovalFetch` -> `PreapprovalFind` -> `PreapprovalWrite`; processPayment is `PaymentFetch` (which
drops what is not approved or names nobody) -> `PaymentLookup` -> `PaymentRead` (inside the transaction, with its refusals) -> `PaymentCommit`,
where the unique externalPaymentId may fail it. registerPayment reads the subscription before its
transaction (`RegisterRead`, `RegisterCommit`); update is one write; the authorization reads, asks
the payment service, creates a preapproval and writes its id (`AuthorizeRead` .. `AuthorizeLink`);
the daily check reads and writes (`MarkRead`, `MarkWrite`). Due dates are periods counted from
the first (computeNextDueDate adds one period to the date it was given; the day of the month is left
out). The payment service and the clock (external) are `PayerMoves`, `Charged` and
`MonthPasses`; `unheard` holds the payments it must still notify: one is taken off when it is
delivered and put back when the handler fails or its answer is lost (`Fail`, `Answer`). The
history variables are `credit` (months paid or given by hand), `overtaken` (the office set a due
date while a payment was being written) and `ignored` (payments the webhook declined).

## 3. Runs

| Run | Instance and bounds | Shows |
|---|---|---|
| `money` | 3 requests, up to 3 receivables and 1 payable, one billing and one document, 2 accounts, 1 period, titles of 4, amounts 1..2, discounts and extras 0..1 (about 1.17 million states) | every property of titles, payments, transfers and closings; refinement of the book |
| `sync` | 2 calls, 2 actions of all kinds, 1 loss, 1 crash, fairness (about 980,000) | what a race of two calls can and cannot do to the queue, and that what waits is handled in the end |
| `trips` | 2 requests, 2 trips, 2 drivers, 1 vehicle, odometer up to 1, 2 periods (about 3.1 million) | the rules of the code in every interleaving, and which requests alone can break them |
| `tank` | 1 tank of capacity 2, 2 requests, 2 supplies, 1 deviceEventId, 1 litre at a time, 4 movements, 1 check (about 718,000) | the ledger is a chain, checks are exact, supplies draw once; refinement of the stock book |
| `workshop` | 2 orders of 1 vehicle, 1 part, 2 requests, 4 calls, lines of 0 or 1, 3 movements, vehicle switched by hand (about 1.16 million) | parts consumed once, vehicle follows its orders; refinement of the stock book |
| `billing` | 1 trip, 2 requests, 3 revenues, prices 1 and 3, amounts 1..2 (about 461,000) | nothing billed beyond the frozen amount, parts that add up, closed billings |
| `subscriptions` | 1 subscription, 1 preapproval, 1 payment of it, 2 handlers, 1 payment or change by the office, 1 month, 1 failure, fairness (about 1.56 million) | payments recorded once, never lost, answered in the end, and no date ahead of them |
| `cancelled`, `twice`, `discount`, `overwritten`, `two_starts` | smallest instances that show it | disagreements of the code with its own words, section 6 |

Why the bounds are enough. A race of payments needs two requests; the third lets a
cancellation or a closing meet them. Titles interact only through their origin, so
two of one table and one of the other cover both unique columns. Amounts 1..2, with discounts, against
titles of 4 and their instalments make payments that fit, that exactly settle and that exceed.
The queue loses an action, or would lose their order, with two actions and two calls, and a loss
and a crash put a call between any two of its steps. Two trips are what a driver
can be on at once, and two requests what it takes to overtake one. An odometer of two
readings has a lower, an equal and a higher one.

`money` and `trips` have too many operations for every request to be any of them at once. Their
`Workloads` share the operations out: a workload gives each request the operations it may be,
and TLC takes every workload of the cfg. In `money` they are two payments against a
cancellation or a closing (`MCRaces`), titles that are made by two requests while one pays and
the other cancels, closes and changes accounts (`MCTitles`), and money moved by hand and between
accounts while titles are made and paid (`MCEntries`). In `trips` they are trips that start, are
edited, cancelled and deleted while another request moves them (`MCMoves`), readings of the odometer
against completions, the driver's start and the office's correction (`MCReadings`), idle periods
(`MCPeriods`), and drivers and vehicles switched off (`MCSwitches`). A request may be repeated any
number of times, so each of its calls meets the other request at every step. The theorems know
nothing of workloads.

A tank of 2
filled and emptied by 1 has movements that fit, fill, empty and overflow; two requests suffice
for a transaction to lose a conflict and to be retried, and four movements for a supply to be
drawn, given back and drawn again by a resend if the code let it. Two orders of one vehicle are what the
vehicle's status has to follow. An amount frozen at 3 takes three invoices of 1, or two, or one,
and a price that drops to 1 meanwhile; trips share no row, so one is enough. A payment's races
are of two: two deliveries of it, or a delivery and the office. All named bounds are
CONSTANTs (`Amounts`, `MaxActions`, `MaxLosses`, `MaxKm`, `Workloads`, ...) or are marked
"bound" where they stand in a guard. Symmetry is used only over ids that a cfg treats
alike (the accounts and the receivables not issued yet, trips and drivers, tanks' requests and supplies,
orders, revenues), and never in a run with a liveness property. Runs that say CHECK_DEADLOCK FALSE are of systems that may stop: requests that have
done their work, trips and orders that are final, an id space that is used up.

**Fairness** (`FairSpec`). In `sync`: weak fairness of each step of a running call and of the
API's handlers, because the JavaScript event loop and the API run what can go on; and weak
fairness of `Flush`, because TripProvider flushes at each refresh and the tracker at each position
that was sent. The network is not assumed to be fair: it may lose `MaxLosses` messages and then
stops losing. `ServedOrRefused` asks for nothing where the API refuses infinitely often, because
an action that is refused for good holds up the queue by design. In `subscriptions`: weak fairness
of each handler that was called, and strong fairness of the delivery of a payment that is due: the
payment service repeats it until it is answered, and a handler is free again and again. A handler
may fail or its answer be lost `MaxFailures` times.

**Mutants.** Each property of each passing run has a mutated definition beside the original
(named in its comment as a mutant) that breaks it under that run's own configuration.

## 4. What is proved

| Theorem | Statement |
|---|---|
| `FinanceProofs!TypeCorrect` | `Spec => []TypeOK` |
| `FinanceProofs!Invariance` | `Spec => []FinanceInv` |
| `FinanceProofs!NoOverSettlement`, `ConflictsProgress` | `[]NeverOverSettled`, `[]ConflictMeansProgress` |
| `FinanceProofs!HistoryKept` | the action property `HistoryIsKept` |
| `FinanceProofs!LedgerMirrors`, `TransfersKeepBalance`, `StatusFollows`, `OriginsUnique` | the four invariants of section 3 |
| `FinanceProofs!SettledIsSum` | `[]SettledIsSumOfPayments` |
| `FinanceProofs!CriticalExplained` | `[]CriticalIsDiscount`: a title is CRITICAL exactly when its discounts exceed the tolerance (or it was worth less than nothing), and nothing is duplicated |
| `FinanceProofs!PlanAddsUp`, `InstallmentsPayable` | instalments add up to the total, and each is positive when `2 * total > n * (n - 1)` |
| `FinanceProofs!Refinement` | `Spec => ImplementsBook` |
| `TripProofs!TripInvariance`, `TripTypeCorrect` | the inductive invariant `TripInv`; `Spec => []TypeOK` |
| `TripProofs!DeparturesRecorded`, `PeriodsUnique`, `PeriodsEndOnce` | `[]RoadHasDeparture`, `[]OneOpenPeriod`, `EndedByOneTrip` |
| `TripProofs!FreshInvariance` | the inductive invariant `FreshInv`: what a request that nobody overtook has read and checked still holds |
| `TripProofs!TripsApart`, `RoadNotIdle`, `DeletedTripsNeverRan`, `TerminalStays`, `OdometerOnlyGrows` | `[]ApartUnlessOvertaken`, `[]RoadIsNotIdle`, `[]DeletedNeverRan`, `TerminalIsFinal`, `OdometerNeverGoesBack`, for any number of requests |
| `FuelTankProofs!TankTypes`, `TankInvariance` | the shape of the state; the inductive invariant `TankInv` |
| `FuelTankProofs!LedgersAreChains`, `ChecksAreExact`, `SuppliesDrawnOnce` | the three properties of `tank` |
| `FuelTankProofs!TankRefinement` | `Spec => ImplementsStockBook` |
| `TripBillingProofs!BillingTypes`, `BillingInvariance` | the shape of the state; the inductive invariant `BillingInv` |
| `TripBillingProofs!NeverOverbilled`, `BillableIsFrozen`, `ClosedIsFinal` | `[]BilledWithinBillable`, `BillableFrozen`, `ClosedStaysClosed` |
| `TripBillingProofs!EntriesBacked`, `EntriesAddUp` | every entry keeps its revenue, whatever is overtaken; `[]EntriesExplainInvoiced`, with the sum |
| `WorkshopProofs!WorkshopInvariance`, `WorkshopTypes` | the inductive invariant `WorkshopInv`; `[]TypeOK` |
| `WorkshopProofs!PartsConsumedOnce`, `VehiclesFollow` | `[]ConsumedOnce`, `[]VehicleFollowsOrders` |
| `WorkshopProofs!WorkshopRefinement` | `Spec => ImplementsStockBook` |
| `DriverProofs!DriverTypes` | `Spec => []TypeOK` |
| `DriverProofs!DropsOnlyServed`, `OneRow` | `DroppedOnlyWhenServed` and `[]CreatedOnce`, for any number of calls at once |
| `DriverProofs!LostOnlyByOverwriting`, `OrderKept` | `[]LostOnlyOverwritten` and `[]QueueInOrder`, for any number of calls at once |
| `SubscriptionProofs!SubscriptionInvariance` | the inductive invariant `SubscriptionInv` |
| `SubscriptionProofs!NeverAhead`, `RecordedOnce`, `NoneSlips` | the three invariants of `subscriptions` |

Assumptions: `TitlesAssumption` and `AmountsAssumption` (disjoint tables, positive amounts
as the DTOs demand, extras not negative), `NoneAssumption` (the null of a trip's vehicle is
not a vehicle), `TankAssumption` (capacities and quantities are natural numbers),
`WorkshopAssumption` (quantities are positive, as the DTOs demand, and a movement is not of nothing),
`BillingAssumption` (prices are not negative, amounts positive, as the DTOs demand; nulls are
not rows), `MaxActionsAssumption` and `BoundsAssumption` (the bounds of the driver app are
natural numbers), `SubscriptionAssumption` (ids of preapprovals and of payments are told apart,
bounds are natural numbers). No bound on the number of titles, requests, accounts, trips, tanks,
orders, parts or amounts.

No theorem has a hypothesis of its own about how requests or calls follow one another. Where the code
lets a race break a rule, a history variable of the module records the race where it happens
(`overtaken`, `outrun` and `loose` of `TripLifecycle`, `overwritten` of `DriverApp`, `overtaken` of
`TripBilling` and `Subscriptions`, `loose` of `Workshop`), and the theorem says that the rule holds
wherever that did not happen. The races themselves are in section 6.

**The argument for money.** `NeverOverSettled` is not inductive: a request may already hold a
payment computed from an old row. `FinanceInv` adds what each handler knows: a payment in
progress saw at most what is settled now (`seen <= settled`, because settled only grows),
and one that passed its guard fits in the original amount counting from what it saw. At
the commit the compare-and-swap makes `seen = settled`, and the two together bound the new
total. The same fact makes every commit a `Settle` of the book; every other step is a
stutter or, for `InsertTitles`, an `Open`.

That a settled amount is the sum of its payments needs one more fact: ids of payments are not
used twice and each payment belongs to a title that exists, so a commit adds one element to one
set. `SumTheorems` says what a sum becomes then. `SumFunctionOnSet` is a recursive
function that takes elements in an order of its own, so its laws (a sum over a set less an
element, over a set with a new one, over functions that agree) are proved for every subset of a
finite set at once, from a counterexample with the fewest elements. `CriticalExplained`
follows: what the reconciliation counts and what is settled differ by the discounts alone
(`SumSplits`), so a title is CRITICAL when they exceed the tolerance and never otherwise, unless its
original amount was below minus one cent. `InstallmentsPayable` says when that cannot be: rounding
errs by at most half a cent on each of the n - 1 other instalments, and the last one takes the rest.

**The argument for trips.** That a trip on the road has its departure is not inductive
either: a completion commits by id what it decided on a row read before. `HeldTrip` adds
that a handler that read a departed trip still knows a departed one (departures are never
erased) and that a pending transition was allowed from the status that was read, so a
completion or a pause was read from a trip that had left. The uniqueness of the open period
rests on the partial unique index alone, as in the code.

The rules that the code checks before it writes need one more fact, of every request that nobody
overtook: what it has read is what the tables hold (`FreshRow`), since a step of another that
changed the trip would have overtaken it, and its own early writes (the details of a start) are read
again. Then each check that a start has behind it is still true when it commits (`Checked`): no other
trip on the road has its driver, nor its vehicle, because putting one there overtakes the request
too. An edit still finds its trip planned, and a deletion finds one that may be deleted. A request that
was overtaken proves nothing about the trip it writes: that trip is `loose` from then on, and
the invariants and the checks of the others leave it out (`exempt`). So a race damages the trip that
was written in it and no other, which is what `FreshInv` says of the tables. For odometers the same
argument has its own history: a request that was not `outrun` holds the reading that is stored
(`KmHeld`), and the two helpers of `odometer.util.ts` then never lower it.

**The argument for tanks.** A transaction writes the balance it read when it began plus its
movement, so the ledger is a chain only if that balance is still the one that is stored.
`SnapshotIsCurrent` says so of every open transaction that is not doomed and writes: a commit
dooms the others that write the same tank, and only commits change a balance. From it each
commit appends a movement that starts where the last one ended and stays within the capacity,
which is also the step of the stock book. `SuppliesDrawnOnce` adds who may still draw or give
back a supply: the unique deviceEventId and the deletion of the supply's row decide at the
commit, however old the row was that the handler had read.

**The argument for the workshop.** A completion writes what it computed from the order, the stock
and the vehicle's other orders when it began; a status change computes the vehicle's status after
it has locked its order. `WorkshopInv` says of every transaction that may still commit that it
would read the same again. `Locked`: the order whose row it writes is there, since a removal waits for
the row. `Current`: the stock it saw is the stock of now, since a commit dooms every other
Serializable transaction that writes one of the same parts, and the order it draws for has consumed
nothing, since two completions of one order write the same row. `VehicleCurrent`: what it will write
on the vehicle is what the orders of now call for. Two completions of different orders of one vehicle
may share no row they write, but each counts the orders that the other changes, which a Serializable
database reports; `<<"count", v>>` stands for that. Where Read Committed changes overlap on
a vehicle the fact is lost, and `loose` records it at that step. `PartsConsumedOnce` and the
steps of the stock book then follow as for tanks; `VehiclesFollow` needs besides that a removal and
a status by hand either leave the count of orders in progress alone or are recorded in `loose`.

**The argument for billing.** `BilledWithinBillable` is not inductive: an invoice commits a total
computed from a row read three transactions before. `BillingInv` adds that what an invoice holds
still fits (`InvoiceFits`): its billable amount is the one that is stored, because no step
changes it (`RowsGrow`), and what it saw as invoiced plus its amount is within it. A lost update
can therefore only lower what is counted, never push it beyond the limit. A title that is
about to be inserted fits for the same reason, because counted amounts only grow where no row
is overtaken. An entry keeps its revenue because the foreign key restricts the removal and a new
revenue takes an id that no handler holds. `EntriesAddUp` adds the sum, by the same laws as for
money: unless its row was overtaken, an invoice adds its amount to the total that its entries have now.

**The argument for the queue.** What a flush or a submission concludes from an answer rests on
whose answer it is. `Owned` says that each call that awaits has a request of its own, for the
action it means, and that an answer is "ok" only for an action that was served; a lost request
leaves its call first, so a late answer finds nobody. `KnownActions` adds that every action on
the way is one the driver recorded, so recording another changes nothing about those that were
served, and the unique deviceEventId does the rest for `CreatedOnce`. Both hold for any number of calls.
For what is lost, `Covers` says of each call between its read and its write of the disk: every action on
disk was handled, is in the call's copy, or is one that the call has missed (`missed`). A write can
then take off the disk only what was handled and what the writer had missed, and that is
`overwritten`: no lost answer, crash, refusal or resend comes into it. For the order, `Ordered` says
that the disk and every copy are in line with the turns in which the actions entered the queue, that
an action on its way in has had no turn, and that no two calls bring in the same one. An older copy
that is written back misses actions, but those it has are still in line.

**The argument for subscriptions.** A due date is written from the one that was read before, so
`DueNeverAhead` needs that what a handler read was not ahead of the months given by now, which
only grow, unless the office set a date meanwhile (`Knows`). `CreditedOnce` rests on the unique
column alone for the count, and on `Knows` for the rest: a payment that was seen approved stays
approved. `NothingUnanswered` is inductive: a payment leaves `unheard` only into a handler's
hands, and a handler leaves it recorded, ignored on purpose, or to be notified again.

**Model-checked only.** Liveness under fairness (`ServedOrRefused`, `EventuallyAnswered`), which is
out of the prover's reach, and the five runs whose property the code violates. Every other property of
the runs is proved.

## 5. Not modelled, and why

* Registers and read-only aggregations (most directories of `apps/api/src`): no state that
  two actors can put in disagreement.
* Authentication and sessions, external services (routing; the payment service is an environment
  of `Subscriptions`), files: I/O.
* In the modelled parts: due dates, descriptions, pagination, metrics, notifications and
  audit rows, none of which is read back to decide anything here.
* Creation of trips and their schedule: a trip starts PLANNED; the overlap of schedules is
  an arbitrary refusal.

Bounds that leave something out: a trip always names a driver (the column is nullable, and
a trip without one skips the driver's checks); an idle period entered by the office does not
name a trip after it; a trip's queue is for one trip of one driver.

## 6. Where the code and its words disagree

1. `cancelled`: a payment can commit on a title cancelled after it was read, and then
   overwrites the CANCELLED status (`receivables.service.ts:327`, `docs/receivables.md:98`).
2. `twice`: apply-revenue followed by an invoice generates the whole amount of a trip twice, one
   request at a time: `applyRevenue` asks for a billing (`freight-pricing.service.ts:221`), but
   `invoice` never looks at `TripFreight.revenueId` (`trip-billing.service.ts:84`), though the
   guard is there so that the two ways never exceed the billable amount
   (`docs/billing-operational.md:120`).
3. `discount`: one payment with a discount is a CRITICAL inconsistency for the reconciliation, which
   adds up the amounts without it, and blocks the closing of its period
   (`finance-reconciliation.service.ts:116`), though CRITICAL is said to be a mathematical error that
   never happens in normal operation (`docs/finance-reconciliation.md:46`).
4. `overwritten`: a flush writes back the copy of the queue that it read before it sent anything, over an
   action that was stored meanwhile (`syncQueue.ts:359`); two submissions do the same to each other (line
   338). The driver was told that it would be sent, and what is queued is said to stay until the next
   flush (`syncQueue.ts:19`).
5. `two_starts`: two starts at once put a driver and a vehicle on two trips
   (`trips.service.ts:1209`), against the comment at line 1195.

Disagreements with no run of their own:

* The guard of a closed period is read before the transaction of a payment, a title, a cancellation or
  an entry, without a lock: the period may be closed before the write lands in it
  (`financial-period-guard.service.ts:26`), though `docs/financial-periods.md:89-95` says that it
  is blocked.
* A vehicle's odometer is written unchecked from the form of `PATCH /vehicles`
  (`vehicles.service.ts:345`), so the office can take it back with one request, though
  `odometer.util.ts:3` calls its check the one rule of "quilometragem so anda para frente". It may be
  meant as a correction: `UpdateVehicle` allows it, and `OdometerNeverGoesBack` speaks of the handlers.
* With two requests at once a pause read before a completion reopens a finished trip
  (`trips.service.ts:993`), a reading overwrites a higher one that another request wrote
  (`odometer.util.ts:21`), and a trip that was just started is deleted, or a deleted one started
  (`trips.service.ts:1167`). The run `trips` has these interleavings; its properties say that only
  overtaken (or outrun) requests do so.
* Sums of amounts are not rounded in `invoice`: 0.7 and 0.1 leave a billing of 0.8 PARTIALLY_INVOICED
  (`trip-billing.service.ts:151`), and the rest of 0.3 after 0.1 cannot be billed as 0.2 (line 112).
* A total of few cents in many instalments can leave a last instalment of zero or less
  (`installment-plan.util.ts:28`): 3 cents in 5 may be 1, 1, 1, 1 and -1. Such a title can never be paid,
  and below minus one cent (4 cents in 7) it is CRITICAL for the reconciliation too;
  `InstallmentsPayable` says from which total on it cannot happen.
* Ending a paused trip is queued and refused forever, and blocks everything behind it
  (`HomeScreen.tsx:277`, `trips.service.ts:122`, `syncQueue.ts:356`): `sync` offers pause and complete, and
  `EventuallyServed` alone fails there; `ServedOrRefused` holds.
* COMPLETED and CANCELLED of a work order are called terminal
  (`maintenance-status-transition.util.ts:5`), but a cancellation read before a completion is
  written by id after it, and the parts it consumed stay consumed (`maintenances.service.ts:274`).
* Two starts of orders of one vehicle both find no other in progress
  (`maintenances.service.ts:477`).
* applyStatusChange promises no intermediate state, but at Read Committed two changes on orders
  of one vehicle each see the other's order as it was: the vehicle may stay in the workshop, or
  leave it, for good (`maintenances.service.ts:594`).
* A removal takes the absence of audit rows for the absence of history
  (`maintenances.service.ts:651`), and those rows may be lost.
* A manual output that names a work order makes its completion consume nothing
  (`parts.service.ts:383`).
* Two invoices at once lose one amount of the billing's total while both entries and revenues
  stay (admitted in `docs/billing-operational.md:362`), and a late write may revive a cancelled
  billing; parts invoiced after the receivable was generated never reach a title.
* A payment read by the webhook before a cancellation or a suspension reactivates the subscription,
  which a comment says must never happen (`mercado-pago-webhook.service.ts:125`).
* Two notifications of one preapproval may write their statuses in the other order
  (`mercado-pago-webhook.service.ts:72`, against the comment at line 15 that calls it tolerant of
  reordering), and an approved payment that arrives while the subscription is suspended is answered
  and never looked at again (line 131).
* The daily check writes OVERDUE by id over a subscription that was paid, or moved to the payment
  service, since it was read (`billing-lifecycle.service.ts:40`), against the comment at line 16.
* Two payments that read one due date advance it by one period together
  (`subscriptions.service.ts:298`): `due` may stay behind `credit`, never ahead.
* Two authorizations at once, or one whose answer times out, leave a preapproval that can charge and
  that no subscription names (`subscriptions.service.ts:376`).

Seen while modelling: the details of a start that is refused stay written; an action sent online
overtakes those that wait in the queue.

## 7. Plan

Done: money, the queue, trips, tanks, the workshop, billing, subscriptions. Left, in this order:

1. `BankReconciliation`: import, reconcile and unreconcile
   (`bank-transactions.service.ts:119-220`, `bank-transactions-import.service.ts:35-179`), over the
   two unique columns of `BankTransaction`. Property: a movement and an entry are linked one to
   one, and a link agrees in account, type and amount.
2. The driver app again: automatic stops of the tracker, the kinds without a deviceEventId
   (deliveries, checklists, shifts), the shared refresh of the session.
3. Proofs of the modules above.

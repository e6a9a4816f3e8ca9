------------------------------- MODULE Workshop -------------------------------
(***************************************************************************)
(* Work orders, the vehicles they occupy and the parts they take from stock. *)
(*                                                                           *)
(* A request reads an order, checks it, and changes its status in a          *)
(* transaction that also brings the vehicle's status in line.  A completion  *)
(* is Serializable and takes the order's parts; any other change is Read     *)
(* Committed: it locks the order's row, reads what is committed, and commits *)
(* later.  The audit entry, which a removal looks at, is written afterwards  *)
(* and may be lost.  Costs, dates, people and providers are left out: an     *)
(* order that is completed has its cost and its date.  An order has at most  *)
(* one line of each part, and quantities are integers.                       *)
(***************************************************************************)
EXTENDS SerialTx, Integers, Sequences, FiniteSets

CONSTANTS
  Orders, Vehicles, Parts, Requests,
  NoOrder,             \* maintenanceId null
  Quantities,          \* bound: quantities of the lines of an order
  Deltas,              \* bound: quantities moved by hand, in or out
  MaxMovements,        \* bound: movements of a part
  MaxCalls,            \* bound: requests made in a behaviour
  Offered,             \* bound: the status changes that users ask for
  ByHand               \* bound: the statuses that users give a vehicle

VARIABLES
  order,       \* the rows of VehicleMaintenance, with their lines
  vehicle,     \* Vehicle.status
  stock,       \* Part.currentStock
  moves,       \* the PartStockMovement rows of each part, oldest first
  req,         \* what each handler holds
  calls,       \* bound: the requests made so far
  loose        \* history: vehicles whose status lost touch with their orders

vars == <<order, vehicle, stock, moves, req, calls, loose>>

VehicleStatuses == {"ACTIVE", "INACTIVE", "SUSPENDED", "MAINTENANCE", "SOLD"}

OpenStatuses ==
  {"OPEN", "DIAGNOSING", "AWAITING_APPROVAL", "APPROVED", "IN_PROGRESS", "WAITING_PARTS"}

Terminal == {"COMPLETED", "CANCELLED"}

Lines == [Parts -> Quantities \cup {0}]

Order == [status: OpenStatuses \cup Terminal, vehicle: Vehicles, lines: Lines,
          audited: BOOLEAN]

\* Only an OUT names an order.
Movement == [delta: Int, order: Orders \cup {NoOrder}, consumption: BOOLEAN]

\* A status change, with the action or the PATCH that asks for it.
Changes ==
  {[action |-> "diagnose", to |-> "DIAGNOSING"],
   [action |-> "submitForApproval", to |-> "AWAITING_APPROVAL"],
   [action |-> "approve", to |-> "APPROVED"],
   [action |-> "start", to |-> "IN_PROGRESS"],
   [action |-> "complete", to |-> "COMPLETED"],
   [action |-> "cancel", to |-> "CANCELLED"]}
    \cup [action: {"patch"}, to: OpenStatuses \cup Terminal]

ASSUME WorkshopAssumption ==
  /\ Quantities \subseteq Nat \ {0}        \* @Min(0.01) on every quantity
  /\ Deltas \subseteq Int \ {0}
  /\ MaxCalls \in Nat
  /\ Offered \subseteq Changes
  /\ ByHand \subseteq VehicleStatuses
  /\ NoOrder \notin Orders

Idle == [step |-> "idle"]

\* The calls that a handler may be answering.
StatusCall == [op: {"status"}, order: Orders, to: OpenStatuses \cup Terminal]

UpdateCall == [op: {"update"}, order: Orders]

RemoveCall == [op: {"remove"}, order: Orders]

StockCall == [op: {"stock"}, part: Parts, delta: Deltas, order: Orders \cup {NoOrder}]

\* What a transaction may write, and what two completions of a vehicle both count.
Rows == Orders \cup Parts \cup Vehicles \cup ({"count"} \X Vehicles)

RequestState ==
  {Idle}
    \cup [step: {"checking", "ready"}, call: StatusCall, second: BOOLEAN]
    \cup [step: {"ready"}, call: StockCall, second: BOOLEAN]
    \cup [step: {"writing"}, call: StatusCall, vehicle: SUBSET VehicleStatuses]
    \cup [step: {"audit"}, call: StatusCall \cup UpdateCall]
    \cup [step: {"updating"}, call: UpdateCall, vehicle: Vehicles, parts: SUBSET Lines]
    \cup [step: {"counting", "removing"}, call: RemoveCall]
    \cup [step: {"open"}, call: StatusCall, second: BOOLEAN, doomed: BOOLEAN,
          writes: SUBSET Rows, draw: [Parts -> Nat], seen: [Parts -> Nat],
          vehicle: SUBSET VehicleStatuses]
    \cup [step: {"open"}, call: StockCall, second: BOOLEAN, doomed: BOOLEAN,
          writes: SUBSET Rows, seen: [Parts -> Nat]]

TypeOK ==
  /\ DOMAIN order \subseteq Orders
  /\ order \in [DOMAIN order -> Order]
  /\ vehicle \in [Vehicles -> VehicleStatuses]
  /\ stock \in [Parts -> Nat]
  /\ moves \in [Parts -> Seq(Movement)]
  /\ req \in [Requests -> RequestState]
  /\ calls \in 0 .. MaxCalls
  /\ loose \subseteq Vehicles

----
(* Rules. *)

At(r, step) == req[r].step = step

Become(r, state) == req' = [req EXCEPT ![r] = state]

\* A request that reaches its handler and passes the first guard.
Accept(r, state) ==
  /\ At(r, "idle")
  /\ calls < MaxCalls
  /\ calls' = calls + 1
  /\ Become(r, state)

\* WORK_ORDER_ACTION_ALLOWED_FROM.
AllowedFrom ==
  [diagnose |-> {"OPEN"},
   submitForApproval |-> {"OPEN", "DIAGNOSING"},
   approve |-> {"AWAITING_APPROVAL"},
   start |-> {"OPEN", "DIAGNOSING", "APPROVED", "WAITING_PARTS"},
   complete |-> OpenStatuses,
   cancel |-> OpenStatuses]

\* assertWorkOrderActionAllowed, or assertValidMaintenanceStatusTransition.
Permitted(change, status) ==
  IF change.action = "patch"
  THEN status = change.to \/ status \notin Terminal
  ELSE status \in AllowedFrom[change.action]

InProgress(v, but) ==
  \E o \in DOMAIN order \ {but} : order[o].vehicle = v /\ order[o].status = "IN_PROGRESS"

\* Mutant of Synced: a vehicle is taken into the workshop and never given back.
NeverRestored(status, busy) ==
  IF busy /\ status = "ACTIVE" THEN "MAINTENANCE" ELSE status

\* The status that syncStatusForMaintenance leaves a vehicle with.
Synced(status, busy) ==
  CASE busy /\ status = "ACTIVE" -> "MAINTENANCE"
    [] ~busy /\ status = "MAINTENANCE" -> "ACTIVE"
    [] OTHER -> status

\* What a transaction that moves an order to a status writes on the vehicle,
\* from its own write and what others have committed: a status, or nothing when
\* the vehicle keeps its own.
VehicleWrite(o, to) ==
  LET v == order[o].vehicle
  IN  {Synced(vehicle[v], to = "IN_PROGRESS" \/ InProgress(v, o))} \ {vehicle[v]}

Written(v, write) ==
  [u \in Vehicles |-> IF u = v /\ write # {} THEN CHOOSE status \in write : TRUE ELSE vehicle[u]]

\* Mutant of AlreadyConsumed: the defensive check is left out.
NotChecked(o) == FALSE

\* Some OUT movement of the order exists, automatic or not.
AlreadyConsumed(o) ==
  \E p \in Parts : \E i \in DOMAIN moves[p] :
    moves[p][i].order = o

\* consumePartsForMaintenance: what a completion takes of each part.
Draw(o) ==
  IF AlreadyConsumed(o) THEN [p \in Parts |-> 0] ELSE order[o].lines

\* Mutant of Enough: a completion takes parts that are not there.
OnCredit(draw) == TRUE

\* assertStockNotNegative of every line.
Enough(draw) == \A p \in Parts : draw[p] <= stock[p]

Holds(q, o) == At(q, "writing") /\ req[q].call.order = o

Unlocked(r, o) ==
  \A q \in Requests \ {r} :
    ~Holds(q, o) /\ ~(Open(req[q]) /\ o \in req[q].writes)

\* A status transaction in progress on the vehicle.
OnVehicle(q, v) ==
  /\ At(q, "writing") \/ (Open(req[q]) /\ req[q].call.op = "status")
  /\ order[req[q].call.order].vehicle = v

\* Another transaction is under way on the vehicle, and one of the two is Read
\* Committed.
Overlaps(r, v) ==
  \E q \in Requests \ {r} : OnVehicle(q, v) /\ (At(q, "writing") \/ At(r, "writing"))

Room(p) == Len(moves[p]) < MaxMovements

----
(* Orders. *)

\* create.
Create(o, v, lines) ==
  /\ o \notin DOMAIN order
  /\ \A p \in Parts : \A i \in DOMAIN moves[p] : moves[p][i].order # o
  /\ \A r \in Requests : ~At(r, "idle") => req[r].call.order # o
  /\ order' = [u \in DOMAIN order \cup {o} |->
                 IF u = o
                 THEN [status |-> "OPEN", vehicle |-> v, lines |-> lines, audited |-> FALSE]
                 ELSE order[u]]
  /\ UNCHANGED <<vehicle, stock, moves, req, calls, loose>>

\* The first read of updateStatus and of the six actions, with their guard.
AskChange(r, o, change) ==
  /\ o \in DOMAIN order
  /\ Permitted(change, order[o].status)
  /\ Accept(r, [step |-> IF change.action = "start" THEN "checking" ELSE "ready",
                call |-> [op |-> "status", order |-> o, to |-> change.to], second |-> FALSE])
  /\ UNCHANGED <<order, vehicle, stock, moves, loose>>

\* start looks for a trip of the vehicle and for another order in progress.
CheckStart(r, onTrip) ==
  /\ At(r, "checking")
  /\ LET o == req[r].call.order
     IN  Become(r, IF onTrip \/ o \notin DOMAIN order \/ InProgress(order[o].vehicle, o)
                   THEN Idle
                   ELSE [req[r] EXCEPT !.step = "ready"])
  /\ UNCHANGED <<order, vehicle, stock, moves, calls, loose>>

\* The Read Committed transaction of applyStatusChange up to its writes: the
\* order's row is locked, and the vehicle and the count are read.
WriteStatus(r) ==
  /\ At(r, "ready")
  /\ req[r].call.op = "status"
  /\ req[r].call.to # "COMPLETED"
  /\ LET o == req[r].call.order
     IN  IF o \notin DOMAIN order
         THEN Become(r, Idle)
         ELSE /\ Unlocked(r, o)
              /\ Become(r, [step |-> "writing", call |-> req[r].call,
                            vehicle |-> VehicleWrite(o, req[r].call.to)])
  /\ UNCHANGED <<order, vehicle, stock, moves, calls, loose>>

\* Its commit.
CommitStatus(r) ==
  /\ At(r, "writing")
  /\ LET o == req[r].call.order
         v == order[o].vehicle
     IN  /\ order' = [order EXCEPT ![o].status = req[r].call.to]
         /\ vehicle' = Written(v, req[r].vehicle)
         /\ req' = Doom([req EXCEPT ![r] = [step |-> "audit", call |-> req[r].call]],
                        {o} \cup IF req[r].vehicle # {} THEN {v} ELSE {})
         /\ loose' = IF Overlaps(r, v) THEN loose \cup {v} ELSE loose
  /\ UNCHANGED <<stock, moves, calls>>

\* The rows that a completion writes.  Two completions on one vehicle count each
\* other's orders, which the database takes for a conflict as well.
CompletionRows(o) ==
  LET v == order[o].vehicle
  IN  {o, <<"count", v>>}
        \cup {p \in Parts : Draw(o)[p] > 0}
        \cup IF VehicleWrite(o, "COMPLETED") # {} THEN {v} ELSE {}

\* The Serializable transaction of a completion: its snapshot.
BeginCompletion(r) ==
  /\ At(r, "ready")
  /\ req[r].call.op = "status"
  /\ req[r].call.to = "COMPLETED"
  /\ LET o == req[r].call.order
     IN  Become(r, IF o \in DOMAIN order /\ Enough(Draw(o))
                   THEN [step |-> "open", call |-> req[r].call, second |-> req[r].second,
                         doomed |-> FALSE,
                         writes |-> CompletionRows(o),
                         draw |-> Draw(o), seen |-> stock,
                         vehicle |-> VehicleWrite(o, "COMPLETED")]
                   ELSE Idle)
  /\ UNCHANGED <<order, vehicle, stock, moves, calls, loose>>

\* Its commit: the order, the vehicle and the parts at once.
CommitCompletion(r) ==
  /\ MayCommit(req[r])
  /\ req[r].call.op = "status"
  /\ LET o == req[r].call.order
         v == order[o].vehicle
         draw == req[r].draw
         taken == {p \in Parts : draw[p] > 0}
     IN  /\ \A q \in Requests \ {r} : ~Holds(q, o)
         /\ \A p \in taken : Room(p)
         /\ order' = [order EXCEPT ![o].status = "COMPLETED"]
         /\ vehicle' = Written(v, req[r].vehicle)
         /\ stock' = [p \in Parts |->
                        IF p \in taken THEN req[r].seen[p] - draw[p] ELSE stock[p]]
         /\ moves' = [p \in Parts |->
                        IF p \in taken
                        THEN Append(moves[p], [delta |-> -draw[p], order |-> o,
                                               consumption |-> TRUE])
                        ELSE moves[p]]
         /\ req' = Doom([req EXCEPT ![r] = [step |-> "audit", call |-> req[r].call]],
                        req[r].writes)
         /\ loose' = IF Overlaps(r, v) THEN loose \cup {v} ELSE loose
  /\ UNCHANGED calls

\* The audit entry of a change, written after it; the service survives its loss.
Audit(r, written) ==
  /\ At(r, "audit")
  /\ LET o == req[r].call.order
     IN  order' = IF written /\ o \in DOMAIN order
                  THEN [order EXCEPT ![o].audited = TRUE] ELSE order
  /\ Become(r, Idle)
  /\ UNCHANGED <<vehicle, stock, moves, calls, loose>>

\* update: the row that it read decides whether new lines may be sent ("parts" is
\* a set of at most one list of them); the order may move to another vehicle, and
\* neither vehicle is brought in line.
AskUpdate(r, o, v, parts) ==
  /\ o \in DOMAIN order
  /\ parts # {} => order[o].status \notin Terminal
  /\ Accept(r, [step |-> "updating", call |-> [op |-> "update", order |-> o], vehicle |-> v,
                parts |-> parts])
  /\ UNCHANGED <<order, vehicle, stock, moves, loose>>

Update(r) ==
  /\ At(r, "updating")
  /\ LET o == req[r].call.order
     IN  IF o \notin DOMAIN order
         THEN Become(r, Idle) /\ UNCHANGED <<order, loose>>
         ELSE /\ Unlocked(r, o)
              /\ \E lines \in IF req[r].parts = {} THEN {order[o].lines} ELSE req[r].parts :
                   order' = [order EXCEPT ![o].vehicle = req[r].vehicle, ![o].lines = lines]
              /\ Become(r, [step |-> "audit", call |-> req[r].call])
              /\ loose' = loose \cup IF order[o].vehicle = req[r].vehicle THEN {}
                                     ELSE {order[o].vehicle, req[r].vehicle}
  /\ UNCHANGED <<vehicle, stock, moves, calls>>

\* remove: the row, then the audit entries, then the delete.
AskRemoval(r, o) ==
  /\ o \in DOMAIN order
  /\ order[o].status # "COMPLETED"
  /\ Accept(r, [step |-> "counting", call |-> [op |-> "remove", order |-> o]])
  /\ UNCHANGED <<order, vehicle, stock, moves, loose>>

CountAudit(r) ==
  /\ At(r, "counting")
  /\ LET o == req[r].call.order
     IN  Become(r, IF o \in DOMAIN order /\ ~order[o].audited
                   THEN [req[r] EXCEPT !.step = "removing"] ELSE Idle)
  /\ UNCHANGED <<order, vehicle, stock, moves, calls, loose>>

\* The movements of a removed order stay, without it.
Unlinked(m, o) == IF m.order = o THEN [m EXCEPT !.order = NoOrder] ELSE m

Remove(r) ==
  /\ At(r, "removing")
  /\ LET o == req[r].call.order
     IN  IF o \notin DOMAIN order
         THEN UNCHANGED <<order, moves, loose>>
         ELSE /\ Unlocked(r, o)
              /\ order' = [u \in DOMAIN order \ {o} |-> order[u]]
              /\ moves' = [p \in Parts |->
                             [i \in DOMAIN moves[p] |-> Unlinked(moves[p][i], o)]]
              /\ loose' = IF order[o].status = "IN_PROGRESS"
                          THEN loose \cup {order[o].vehicle} ELSE loose
  /\ Become(r, Idle)
  /\ UNCHANGED <<vehicle, stock, calls>>

\* PATCH of a vehicle's status, by hand.
UpdateVehicleStatus(v, status) ==
  /\ vehicle' = [vehicle EXCEPT ![v] = status]
  /\ loose' = loose \cup {v}
  /\ req' = Doom(req, {v})
  /\ UNCHANGED <<order, stock, moves, calls>>

----
(* Stock. *)

\* registerIn, registerOut and registerAdjustment up to their transaction; only
\* an OUT names an order, which is looked up first.
AskMovement(r, p, delta, o) ==
  /\ o # NoOrder => delta < 0 /\ o \in DOMAIN order
  /\ Accept(r, [step |-> "ready", second |-> FALSE,
                call |-> [op |-> "stock", part |-> p, delta |-> delta, order |-> o]])
  /\ UNCHANGED <<order, vehicle, stock, moves, loose>>

\* applyMovement: assertStockNotNegative on the snapshot.
BeginMovement(r) ==
  /\ At(r, "ready")
  /\ req[r].call.op = "stock"
  /\ LET p == req[r].call.part
     IN  Become(r, IF stock[p] + req[r].call.delta >= 0
                   THEN [step |-> "open", call |-> req[r].call, second |-> req[r].second,
                         doomed |-> FALSE, writes |-> {p}, seen |-> stock]
                   ELSE Idle)
  /\ UNCHANGED <<order, vehicle, stock, moves, calls, loose>>

CommitMovement(r) ==
  /\ MayCommit(req[r])
  /\ req[r].call.op = "stock"
  /\ LET call == req[r].call
         p == call.part
     IN  /\ call.order = NoOrder \/ call.order \in DOMAIN order    \* the foreign key
         /\ Room(p)
         /\ stock' = [stock EXCEPT ![p] = req[r].seen[p] + call.delta]
         /\ moves' = [moves EXCEPT ![p] =
                        Append(@, [delta |-> call.delta, order |-> call.order,
                                   consumption |-> FALSE])]
         /\ req' = Doom([req EXCEPT ![r] = Idle], {p})
  /\ UNCHANGED <<order, vehicle, calls, loose>>

\* The database aborts a transaction that it has doomed; an order that is gone
\* ends one without a retry.
Abort(r) ==
  /\ Open(req[r])
  /\ \/ req[r].doomed /\ Become(r, Retry(req[r]))
     \/ /\ req[r].call.order \notin DOMAIN order \cup {NoOrder}
        /\ Become(r, Idle)
  /\ UNCHANGED <<order, vehicle, stock, moves, calls, loose>>

----
Init ==
  /\ order = [o \in {} |-> NoOrder]
  /\ vehicle = [v \in Vehicles |-> "ACTIVE"]
  /\ stock = [p \in Parts |-> 0]
  /\ moves = [p \in Parts |-> <<>>]
  /\ req = [r \in Requests |-> Idle]
  /\ calls = 0
  /\ loose = {}

Handle(r) ==
  \/ \E o \in Orders, change \in Offered : AskChange(r, o, change)
  \/ \E onTrip \in BOOLEAN : CheckStart(r, onTrip)
  \/ WriteStatus(r)
  \/ CommitStatus(r)
  \/ BeginCompletion(r)
  \/ CommitCompletion(r)
  \/ \E written \in BOOLEAN : Audit(r, written)
  \/ \E o \in Orders, v \in Vehicles, parts \in {{}} \cup {{lines} : lines \in Lines} :
       AskUpdate(r, o, v, parts)
  \/ Update(r)
  \/ \E o \in Orders : AskRemoval(r, o)
  \/ CountAudit(r)
  \/ Remove(r)
  \/ \E p \in Parts, delta \in Deltas, o \in Orders \cup {NoOrder} : AskMovement(r, p, delta, o)
  \/ BeginMovement(r)
  \/ CommitMovement(r)
  \/ Abort(r)

Next ==
  \/ \E o \in Orders, v \in Vehicles, lines \in Lines : Create(o, v, lines)
  \/ \E v \in Vehicles, status \in ByHand : UpdateVehicleStatus(v, status)
  \/ \E r \in Requests : Handle(r)

Spec == Init /\ [][Next]_vars

----
(* Properties. *)

\* However often a completion is asked for, retried or repeated, the parts of an
\* order are taken from stock once.
ConsumedOnce ==
  \A o \in Orders, p \in Parts :
    \A i, j \in DOMAIN moves[p] :
      /\ moves[p][i].order = o /\ moves[p][i].consumption
      /\ moves[p][j].order = o /\ moves[p][j].consumption
      => i = j

\* A vehicle is in the workshop exactly while one of its orders is in progress,
\* unless its status was written by hand, an order was moved or removed under it,
\* or a Read Committed change of status overlapped another on it.
VehicleFollowsOrders ==
  \A v \in Vehicles \ loose :
    /\ vehicle[v] \in {"ACTIVE", "MAINTENANCE"}
    /\ vehicle[v] = "MAINTENANCE" <=> InProgress(v, NoOrder)

\* The parts store keeps the promise of the stock book.
Book == INSTANCE StockBook WITH
  Items <- Parts,
  Allowed <- [p \in Parts |-> Nat],
  stock <- stock,
  entries <- [p \in Parts |-> [i \in DOMAIN moves[p] |-> moves[p][i].delta]]

ImplementsStockBook == Book!Spec

=============================================================================

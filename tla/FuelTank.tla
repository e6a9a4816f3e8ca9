------------------------------- MODULE FuelTank -------------------------------
(***************************************************************************)
(* The fuel tanks of one tenant, the ledger of their movements, the         *)
(* internal fuel supplies that draw from them and the physical checks.      *)
(*                                                                          *)
(* A request is one handler.  What it reads before its transaction, and the *)
(* transaction itself, are steps of their own; the transaction reads its    *)
(* snapshot in one step and commits in another.  Litres are integers (the   *)
(* columns have three decimals).  Names, costs and the low-stock flag of a   *)
(* tank, and the supplies that come from a station, are left out.           *)
(***************************************************************************)
EXTENDS SerialTx, Integers, Sequences, FiniteSets

CONSTANTS
  Tanks, Supplies,     \* ids
  Capacity,            \* capacityLiters of each tank, fixed when it is created
  Events, NoEvent,     \* deviceEventId of a supply sent by the driver app
  NoSupply,            \* fuelSupplyId null
  Requests,
  Litres,              \* bound: quantities
  MaxMovements,        \* bound: movements of a tank
  MaxChecks            \* bound: distinct checks

ASSUME TankAssumption ==
  /\ Capacity \in [Tanks -> Nat \ {0}]     \* @Min on capacityLiters
  /\ Litres \subseteq Nat \ {0}            \* @Min on liters and quantityLiters
  /\ NoEvent \notin Events
  /\ NoSupply \notin Supplies

VARIABLES
  tank,      \* the rows of FuelTank
  log,       \* the FuelTankMovement rows of each tank, oldest first
  supply,    \* the internal FuelSupply rows
  checks,    \* the FuelTankInventoryCheck rows
  req        \* what each handler holds

vars == <<tank, log, supply, checks, req>>

Tank == [balance: Int, active: BOOLEAN]

Types == {"INITIAL_BALANCE", "RECEIPT", "INTERNAL_FUELING", "ADJUSTMENT"}

\* A movement keeps the supply it was made for: the key of a fueling, and the
\* notes of the adjustment that reverses it.
Movement == [type: Types, from: Int, to: Int, supply: Supplies \cup {NoSupply}]

Supply == [tank: Tanks, litres: Int, event: Events \cup {NoEvent}]

Check == [tank: Tanks, theoretical: Int, measured: Int, movement: Nat]

Call ==
  [op: {"receipt"}, tank: Tanks, litres: Int]
    \cup [op: {"fuel", "remove"}, tank: Tanks, litres: Int, supply: Supplies,
          event: Events \cup {NoEvent}]
    \cup [op: {"check"}, tank: Tanks, measured: Int, adjust: BOOLEAN]

Idle == [step |-> "idle"]

RequestState ==
  {Idle}
    \cup [step: {"ready"}, call: Call, second: BOOLEAN]
    \cup [step: {"open"}, call: Call, second: BOOLEAN, balance: Int,
          writes: SUBSET Tanks, doomed: BOOLEAN]

TypeOK ==
  /\ DOMAIN tank \subseteq Tanks
  /\ tank \in [DOMAIN tank -> Tank]
  /\ log \in [Tanks -> Seq(Movement)]
  /\ DOMAIN supply \subseteq Supplies
  /\ supply \in [DOMAIN supply -> Supply]
  /\ checks \subseteq Check
  /\ req \in [Requests -> RequestState]

----
(* Rules. *)

At(r, step) == req[r].step = step

Become(r, state) == req' = [req EXCEPT ![r] = state]

Ready(call) == [step |-> "ready", call |-> call, second |-> FALSE]

\* The type of the movement that each operation makes.
TypeOf(call) ==
  CASE call.op = "receipt" -> "RECEIPT"
    [] call.op = "fuel" -> "INTERNAL_FUELING"
    [] call.op \in {"remove", "check"} -> "ADJUSTMENT"

\* Mutant of NextBalance: the divergence is taken the wrong way round.
OppositeDivergence(call, balance) ==
  CASE call.op \in {"receipt", "remove"} -> balance + call.litres
    [] call.op = "fuel" -> balance - call.litres
    [] call.op = "check" -> balance + (balance - call.measured)

\* applyTankMovementDelta on the balance of the snapshot: the quantity's sign
\* comes from the type, and a check adjusts by its divergence.
NextBalance(call, balance) ==
  CASE call.op \in {"receipt", "remove"} -> balance + call.litres
    [] call.op = "fuel" -> balance - call.litres
    [] call.op = "check" -> balance + (call.measured - balance)

\* A check makes a movement when it diverges and the user confirms it.
Moves(call, balance) == call.op = "check" => call.measured # balance /\ call.adjust

\* Mutant of Fits: what a full tank would overflow is accepted.
NotNegative(t, balance) == balance >= 0

\* assertTankBalanceNotNegative and assertTankBalanceWithinCapacity.
Fits(t, balance) == balance >= 0 /\ balance <= Capacity[t]

\* A check is refused before anything else when the measure exceeds the capacity.
Accepted(call) ==
  LET t == call.tank
  IN  /\ call.op = "check" => call.measured <= Capacity[t]
      /\ Moves(call, tank[t].balance) =>
           tank[t].active /\ Fits(t, NextBalance(call, tank[t].balance))

LinkOf(call) == IF call.op \in {"fuel", "remove"} THEN call.supply ELSE NoSupply

NewMovement(call, from) ==
  [type |-> TypeOf(call), from |-> from, to |-> NextBalance(call, from), supply |-> LinkOf(call)]

\* An id that was never given to a supply.
Fresh(s) == \A t \in Tanks : \A i \in DOMAIN log[t] : log[t][i].supply # s

\* The reads of a transaction; an exception inside it answers with an error.
BeginWith(r, call, second) ==
  LET t == call.tank
  IN  Become(r, IF Accepted(call)
                THEN [step |-> "open", call |-> call, second |-> second,
                      balance |-> tank[t].balance, doomed |-> FALSE,
                      writes |-> IF Moves(call, tank[t].balance) THEN {t} ELSE {}]
                ELSE Idle)

EventTaken(e) == e # NoEvent /\ \E s \in DOMAIN supply : supply[s].event = e

----
(* Tanks. *)

\* create: the tank and its initial movement in one transaction; nobody else
\* can see the row before it commits.
CreateTank(t, initial) ==
  /\ t \notin DOMAIN tank
  /\ initial <= Capacity[t]
  /\ tank' = [u \in DOMAIN tank \cup {t} |->
                IF u = t THEN [balance |-> initial, active |-> TRUE] ELSE tank[u]]
  /\ log' = [log EXCEPT ![t] = <<[type |-> "INITIAL_BALANCE", from |-> 0, to |-> initial,
                                   supply |-> NoSupply]>>]
  /\ UNCHANGED <<supply, checks, req>>

\* updateStatus: a plain update of the row, at Read Committed.
UpdateTankStatus(t, active) ==
  /\ t \in DOMAIN tank
  /\ tank[t].active # active
  /\ tank' = [tank EXCEPT ![t].active = active]
  /\ req' = Doom(req, {t})
  /\ UNCHANGED <<log, supply, checks>>

\* registerReceipt.
RegisterReceipt(r, t, litres) ==
  /\ At(r, "idle")
  /\ t \in DOMAIN tank
  /\ BeginWith(r, [op |-> "receipt", tank |-> t, litres |-> litres], FALSE)
  /\ UNCHANGED <<tank, log, supply, checks>>

\* registerInventoryCheck: measured against the balance that the transaction reads.
RegisterCheck(r, t, measured, adjust) ==
  /\ At(r, "idle")
  /\ t \in DOMAIN tank
  /\ Cardinality(checks) < MaxChecks
  /\ BeginWith(r, [op |-> "check", tank |-> t, measured |-> measured, adjust |-> adjust], FALSE)
  /\ UNCHANGED <<tank, log, supply, checks>>

----
(* Supplies. *)

\* createFromDriverApp returns the row of an event it finds.
Resent(e) == EventTaken(e)

\* create and createFromDriverApp up to their transaction.
RequestFueling(r, s, t, litres, e) ==
  /\ At(r, "idle")
  /\ t \in DOMAIN tank
  /\ ~Resent(e)
  /\ Become(r, Ready([op |-> "fuel", tank |-> t, litres |-> litres, supply |-> s, event |-> e]))
  /\ UNCHANGED <<tank, log, supply, checks>>

\* remove: the row is read before the transaction.
RequestRemoval(r, s) ==
  /\ At(r, "idle")
  /\ s \in DOMAIN supply
  /\ Become(r, Ready([op |-> "remove", tank |-> supply[s].tank, litres |-> supply[s].litres,
                      supply |-> s, event |-> supply[s].event]))
  /\ UNCHANGED <<tank, log, supply, checks>>

----
(* Transactions. *)

\* The transaction of a handler that read something before it, or its retry.
Begin(r) ==
  /\ At(r, "ready")
  /\ BeginWith(r, req[r].call, req[r].second)
  /\ UNCHANGED <<tank, log, supply, checks>>

\* Mutant of SupplyWrite: a removal is content with a row that is already gone.
DeleteMany(call) ==
  CASE call.op = "fuel" ->
         /\ Fresh(call.supply)
         /\ ~EventTaken(call.event)
         /\ supply' = [s \in DOMAIN supply \cup {call.supply} |->
                         IF s = call.supply
                         THEN [tank |-> call.tank, litres |-> call.litres, event |-> call.event]
                         ELSE supply[s]]
    [] call.op = "remove" -> supply' = [s \in DOMAIN supply \ {call.supply} |-> supply[s]]
    [] call.op \in {"receipt", "check"} -> UNCHANGED supply

\* The row of a supply is created, with its unique event, or deleted.
SupplyWrite(call) ==
  CASE call.op = "fuel" ->
         /\ Fresh(call.supply)
         /\ ~EventTaken(call.event)
         /\ supply' = [s \in DOMAIN supply \cup {call.supply} |->
                         IF s = call.supply
                         THEN [tank |-> call.tank, litres |-> call.litres, event |-> call.event]
                         ELSE supply[s]]
    [] call.op = "remove" ->
         /\ call.supply \in DOMAIN supply
         /\ supply' = [s \in DOMAIN supply \ {call.supply} |-> supply[s]]
    [] call.op \in {"receipt", "check"} -> UNCHANGED supply

CheckWrite(call, theoretical, movement) ==
  checks' = IF call.op = "check"
            THEN checks \cup {[tank |-> call.tank, theoretical |-> theoretical,
                               measured |-> call.measured, movement |-> movement]}
            ELSE checks

\* applyMovement and what the caller writes beside it.
Commit(r) ==
  /\ MayCommit(req[r])
  /\ LET call == req[r].call
         t == call.tank
         balance == req[r].balance
     IN  /\ req[r].writes # {}
         /\ Len(log[t]) < MaxMovements
         /\ tank' = [tank EXCEPT ![t].balance = NextBalance(call, balance)]
         /\ log' = [log EXCEPT ![t] = Append(@, NewMovement(call, balance))]
         /\ SupplyWrite(call)
         /\ CheckWrite(call, balance, Len(log[t]) + 1)
         /\ req' = Doom([req EXCEPT ![r] = Idle], {t})

\* A check that moves nothing writes its own row only.
CommitCheck(r) ==
  /\ MayCommit(req[r])
  /\ req[r].writes = {}
  /\ CheckWrite(req[r].call, req[r].balance, 0)
  /\ Become(r, Idle)
  /\ UNCHANGED <<tank, log, supply>>

\* The database aborts the transaction: everything in it is undone.
Abort(r) ==
  /\ Open(req[r])
  /\ req[r].doomed
  /\ Become(r, Retry(req[r]))
  /\ UNCHANGED <<tank, log, supply, checks>>

\* The unique event, or the row to delete that is gone, ends it without a retry.
Fail(r) ==
  /\ Open(req[r])
  /\ LET call == req[r].call
     IN  \/ call.op = "fuel" /\ EventTaken(call.event)
         \/ call.op = "remove" /\ call.supply \notin DOMAIN supply
  /\ Become(r, Idle)
  /\ UNCHANGED <<tank, log, supply, checks>>

----
Init ==
  /\ tank = [t \in {} |-> [balance |-> 0, active |-> TRUE]]
  /\ log = [t \in Tanks |-> <<>>]
  /\ supply = [s \in {} |-> NoSupply]
  /\ checks = {}
  /\ req = [r \in Requests |-> Idle]

Handle(r) ==
  \/ \E t \in Tanks, litres \in Litres : RegisterReceipt(r, t, litres)
  \/ \E t \in Tanks, measured \in Litres \cup {0}, adjust \in BOOLEAN :
       RegisterCheck(r, t, measured, adjust)
  \/ \E s \in Supplies, t \in Tanks, litres \in Litres, e \in Events \cup {NoEvent} :
       RequestFueling(r, s, t, litres, e)
  \/ \E s \in Supplies : RequestRemoval(r, s)
  \/ Begin(r)
  \/ Commit(r)
  \/ CommitCheck(r)
  \/ Abort(r)
  \/ Fail(r)

Next ==
  \/ \E t \in Tanks, initial \in Litres \cup {0} : CreateTank(t, initial)
  \/ \E t \in Tanks, active \in BOOLEAN : UpdateTankStatus(t, active)
  \/ \E r \in Requests : Handle(r)

Spec == Init /\ [][Next]_vars

----
(* Properties. *)

\* The ledger is a chain: each movement starts from the balance that the one
\* before it left, and the tank holds what the last one left, within its
\* capacity.  Two movements that read the same balance would break it.
LedgerIsChain ==
  \A t \in DOMAIN tank :
    /\ Len(log[t]) > 0
    /\ \A i \in DOMAIN log[t] :
         log[t][i].from = IF i = 1 THEN 0 ELSE log[t][i - 1].to
    /\ tank[t].balance = log[t][Len(log[t])].to
    /\ tank[t].balance \in 0..Capacity[t]

\* An adjustment confirmed by a physical check starts from the theoretical stock
\* that the check froze and leaves the tank at what was measured, whatever was
\* fueled or received meanwhile.
AdjustedChecksAreExact ==
  \A c \in checks :
    c.movement # 0 =>
      LET m == log[c.tank][c.movement]
      IN  m.type = "ADJUSTMENT" /\ m.from = c.theoretical /\ m.to = c.measured

Linked(s, type, t, i) == log[t][i].supply = s /\ log[t][i].type = type

Fueling(s, t, i) == Linked(s, "INTERNAL_FUELING", t, i)
Reversal(s, t, i) == Linked(s, "ADJUSTMENT", t, i)

Drawn(t, i) == log[t][i].from - log[t][i].to

OneOfEachKind(s) ==
  \A t, u \in Tanks : \A i \in DOMAIN log[t], j \in DOMAIN log[u], type \in Types :
    Linked(s, type, t, i) /\ Linked(s, type, u, j) => t = u /\ i = j

LiveIsDrawn(s) ==
  s \in DOMAIN supply =>
    /\ \E i \in DOMAIN log[supply[s].tank] :
         Fueling(s, supply[s].tank, i) /\ Drawn(supply[s].tank, i) = supply[s].litres
    /\ \A t \in Tanks : \A i \in DOMAIN log[t] : ~Reversal(s, t, i)

RemovedIsReversed(s) ==
  s \notin DOMAIN supply =>
    \A t \in Tanks : \A i \in DOMAIN log[t] :
      Fueling(s, t, i) => \E j \in DOMAIN log[t] : Reversal(s, t, j) /\ Drawn(t, j) = -Drawn(t, i)

\* Every supply drew its litres from its tank once; one that was removed gave
\* the same litres back to the same tank once, however often the app sends it
\* and however many removals run at once.
SupplyDrawnOnce ==
  \A s \in Supplies : OneOfEachKind(s) /\ LiveIsDrawn(s) /\ RemovedIsReversed(s)

\* The tanks keep the promise of the stock book.
Book == INSTANCE StockBook WITH
  Items <- Tanks,
  Allowed <- [t \in Tanks |-> 0..Capacity[t]],
  stock <- [t \in Tanks |-> IF t \in DOMAIN tank THEN tank[t].balance ELSE 0],
  entries <- [t \in Tanks |-> [i \in DOMAIN log[t] |-> log[t][i].to - log[t][i].from]]

ImplementsStockBook == Book!Spec

=============================================================================

---------------------------- MODULE WorkshopProofs ----------------------------
(***************************************************************************)
(* Proofs about Workshop, for any orders, vehicles, parts, requests and      *)
(* quantities: the shape of the state, then that the parts of an order are   *)
(* taken once, that a vehicle follows its orders, and that the parts store   *)
(* implements the stock book.                                                *)
(*                                                                           *)
(* What carries them is what a handler holds between two steps: the row of   *)
(* its order is locked, and the stock, the consumption and the vehicle that  *)
(* it has read are those of now while it may still commit.                   *)
(***************************************************************************)
EXTENDS Workshop, TLAPS

\* A movement appended to those of a part leaves the older ones where they were.
LEMMA Appended ==
  ASSUME NEW S, NEW old \in Seq(S), NEW m \in S
  PROVE  /\ Append(old, m) \in Seq(S)
         /\ DOMAIN old = 1..Len(old) /\ Len(old) \in Nat
         /\ DOMAIN Append(old, m) = 1..(Len(old) + 1)
         /\ \A i \in DOMAIN old : Append(old, m)[i] = old[i]
         /\ Append(old, m)[Len(old) + 1] = m
OBVIOUS

----
(***************************************************************************)
(* What the handlers hold.                                                   *)
(***************************************************************************)

Completing(q) == Open(q) /\ q.call.op = "status"

Moving(q) == Open(q) /\ q.call.op = "stock"

\* A handler whose state is of this kind has read nothing that others may change.
Light(q) == q.step \notin {"writing", "open"}

\* A handler goes on with what it held, at most doomed meanwhile.
Kept(q, next) == next = q \/ (Open(q) /\ next = [q EXCEPT !.doomed = TRUE])

AskedState == [step: {"checking", "ready"}, call: StatusCall, second: BOOLEAN]

StockState == [step: {"ready"}, call: StockCall, second: BOOLEAN]

WritingState == [step: {"writing"}, call: StatusCall, vehicle: SUBSET VehicleStatuses]

AuditState == [step: {"audit"}, call: StatusCall \cup UpdateCall]

UpdatingState ==
  [step: {"updating"}, call: UpdateCall, vehicle: Vehicles, parts: SUBSET Lines]

RemovalState == [step: {"counting", "removing"}, call: RemoveCall]

CompletionState ==
  [step: {"open"}, call: StatusCall, second: BOOLEAN, doomed: BOOLEAN, writes: SUBSET Rows,
   draw: [Parts -> Nat], seen: [Parts -> Nat], vehicle: SUBSET VehicleStatuses]

MovementState ==
  [step: {"open"}, call: StockCall, second: BOOLEAN, doomed: BOOLEAN, writes: SUBSET Rows,
   seen: [Parts -> Nat]]

\* The kind of a handler's state, by its step.
LEMMA StepTypes ==
  ASSUME NEW q \in RequestState
  PROVE  /\ q.step = "checking" => q \in AskedState
         /\ q.step = "ready" /\ q.call.op = "status" => q \in AskedState
         /\ q.step = "ready" /\ q.call.op = "stock" => q \in StockState
         /\ q.step = "ready" => q \in AskedState \/ q \in StockState
         /\ q.step = "writing" => q \in WritingState
         /\ q.step = "audit" => q \in AuditState
         /\ q.step = "updating" => q \in UpdatingState
         /\ q.step \in {"counting", "removing"} => q \in RemovalState
         /\ Completing(q) => q \in CompletionState
         /\ Moving(q) => q \in MovementState
         /\ Open(q) => q \in CompletionState \/ q \in MovementState
BY DEF RequestState, Idle, StatusCall, UpdateCall, RemoveCall, StockCall, AskedState,
       StockState, WritingState, AuditState, UpdatingState, RemovalState, CompletionState,
       MovementState, Completing, Moving, Open

\* The other way around.
LEMMA StepKinds ==
  /\ Idle \in RequestState
  /\ AskedState \subseteq RequestState /\ StockState \subseteq RequestState
  /\ WritingState \subseteq RequestState /\ AuditState \subseteq RequestState
  /\ UpdatingState \subseteq RequestState /\ RemovalState \subseteq RequestState
  /\ CompletionState \subseteq RequestState /\ MovementState \subseteq RequestState
BY DEF RequestState, AskedState, StockState, WritingState, AuditState, UpdatingState,
       RemovalState, CompletionState, MovementState

\* What a doomed transaction keeps.
LEMMA KeptFields ==
  ASSUME NEW q \in RequestState, NEW next, Kept(q, next)
  PROVE  /\ next \in RequestState
         /\ next.step = q.step
         /\ Open(q) => next.call = q.call /\ next.writes = q.writes /\ next.seen = q.seen
         /\ Completing(q) => next.draw = q.draw /\ next.vehicle = q.vehicle
         /\ MayCommit(next) => next = q
         /\ q.step = "writing" => next = q
<1>1. CASE next = q
  BY <1>1
<1>2. CASE Open(q) /\ next = [q EXCEPT !.doomed = TRUE]
  <2>1. CASE q \in CompletionState
    <3>1. next \in CompletionState
      BY <1>2, <2>1 DEF CompletionState
    <3> QED
      BY <1>2, <2>1, <3>1, StepKinds DEF CompletionState, Completing, MayCommit, Open
  <2>2. CASE q \in MovementState
    <3>1. next \in MovementState
      BY <1>2, <2>2 DEF MovementState
    <3> QED
      BY <1>2, <2>2, <3>1, StepKinds DEF MovementState, StockCall, Completing, MayCommit, Open
  <2> QED
    BY <1>2, <2>1, <2>2, StepTypes
<1> QED
  BY <1>1, <1>2 DEF Kept

\* Dooming keeps what the transactions hold, and dooms those that write the rows.
LEMMA DoomKeeps ==
  ASSUME NEW txs \in [Requests -> RequestState], NEW rows
  PROVE  /\ Doom(txs, rows) \in [Requests -> RequestState]
         /\ \A r \in Requests :
              /\ Kept(txs[r], Doom(txs, rows)[r])
              /\ MayCommit(Doom(txs, rows)[r]) => txs[r].writes \cap rows = {}
<1> SUFFICES ASSUME NEW r \in Requests
             PROVE  /\ Kept(txs[r], Doom(txs, rows)[r])
                    /\ MayCommit(Doom(txs, rows)[r]) => txs[r].writes \cap rows = {}
  BY KeptFields DEF Doom
<1>1. Doom(txs, rows)[r] = IF Open(txs[r]) /\ txs[r].writes \cap rows # {}
                           THEN [txs[r] EXCEPT !.doomed = TRUE] ELSE txs[r]
  BY DEF Doom
<1>2. CASE Open(txs[r]) /\ txs[r].writes \cap rows # {}
  <2>1. Doom(txs, rows)[r] = [txs[r] EXCEPT !.doomed = TRUE]
    BY <1>1, <1>2
  <2>2. Doom(txs, rows)[r].doomed = TRUE
    BY <1>2, <2>1, StepTypes DEF CompletionState, MovementState
  <2> QED
    BY <1>2, <2>1, <2>2 DEF Kept, MayCommit
<1>3. CASE ~(Open(txs[r]) /\ txs[r].writes \cap rows # {})
  BY <1>1, <1>3 DEF Kept, MayCommit
<1> QED
  BY <1>2, <1>3

----
(***************************************************************************)
(* Rules.                                                                    *)
(***************************************************************************)

\* An order takes what its lines say, or nothing.
LEMMA DrawType ==
  ASSUME TypeOK, NEW o \in DOMAIN order
  PROVE  Draw(o) \in [Parts -> Nat]
<1>1. order[o].lines \in [Parts -> Quantities \cup {0}]
  BY DEF TypeOK, Order, Lines
<1>2. Quantities \cup {0} \subseteq Nat
  BY WorkshopAssumption
<1>3. order[o].lines \in [Parts -> Nat]
  BY <1>1, <1>2
<1> QED
  BY <1>3 DEF Draw

\* A status that a vehicle is brought in line with is a status, and is written.
LEMMA VehicleWriteType ==
  ASSUME TypeOK, NEW o \in DOMAIN order, NEW to
  PROVE  /\ order[o].vehicle \in Vehicles
         /\ VehicleWrite(o, to) \subseteq VehicleStatuses
<1>1. order[o].vehicle \in Vehicles /\ vehicle[order[o].vehicle] \in VehicleStatuses
  BY DEF TypeOK, Order
<1>2. \A busy \in BOOLEAN : Synced(vehicle[order[o].vehicle], busy) \in VehicleStatuses
  BY <1>1 DEF Synced, VehicleStatuses
<1>3. (to = "IN_PROGRESS" \/ InProgress(order[o].vehicle, o)) \in BOOLEAN
  OBVIOUS
<1> QED
  BY <1>1, <1>2, <1>3 DEF VehicleWrite

LEMMA WrittenType ==
  ASSUME TypeOK, NEW v, NEW write, write \subseteq VehicleStatuses
  PROVE  Written(v, write) \in [Vehicles -> VehicleStatuses]
<1>1. write # {} => (CHOOSE status \in write : TRUE) \in VehicleStatuses
  OBVIOUS
<1> QED
  BY <1>1 DEF Written, TypeOK

\* A retry starts over with the same call.
LEMMA RetryType ==
  ASSUME NEW q \in RequestState, Open(q)
  PROVE  Retry(q) \in RequestState /\ Light(Retry(q))
<1>1. q.call \in StatusCall \cup StockCall /\ q.second \in BOOLEAN
  BY StepTypes DEF CompletionState, MovementState
<1> QED
  BY <1>1 DEF Retry, Light, RequestState, Idle

----
(***************************************************************************)
(* How the handlers move.                                                    *)
(***************************************************************************)

\* Handler r moves to a state, and the others keep what they hold.
Moves(r, state) ==
  /\ req' \in [Requests -> RequestState]
  /\ req'[r] = state
  /\ \A q \in Requests \ {r} : Kept(req[q], req'[q])

LEMMA BecomeMoves ==
  ASSUME TypeOK, NEW r \in Requests, NEW state \in RequestState, Become(r, state)
  PROVE  Moves(r, state)
BY DEF TypeOK, Become, Moves, Kept

LEMMA DoomMoves ==
  ASSUME TypeOK, NEW r \in Requests, NEW state \in RequestState, ~Open(state), NEW rows,
         req' = Doom([req EXCEPT ![r] = state], rows)
  PROVE  /\ Moves(r, state)
         /\ \A q \in Requests \ {r} : MayCommit(req'[q]) => req[q].writes \cap rows = {}
<1>1. PICK txs : txs = [req EXCEPT ![r] = state]
  OBVIOUS
<1>2. txs \in [Requests -> RequestState] /\ txs[r] = state
      /\ \A q \in Requests \ {r} : txs[q] = req[q]
  BY <1>1 DEF TypeOK
<1>3. /\ Doom(txs, rows) \in [Requests -> RequestState]
      /\ \A q \in Requests :
           /\ Kept(txs[q], Doom(txs, rows)[q])
           /\ MayCommit(Doom(txs, rows)[q]) => txs[q].writes \cap rows = {}
  BY <1>2, DoomKeeps, Zenon
<1>4. req' = Doom(txs, rows)
  BY <1>1
<1>5. /\ req' \in [Requests -> RequestState]
      /\ \A q \in Requests : /\ Kept(txs[q], req'[q])
                             /\ MayCommit(req'[q]) => txs[q].writes \cap rows = {}
  BY <1>3, <1>4, Zenon
<1>6. req'[r] = state
  BY <1>2, <1>5 DEF Kept
<1> QED
  BY <1>2, <1>5, <1>6 DEF Moves

\* A step of a handler leaves it with a light state, or with what it has just read.
LEMMA HandleMoves ==
  ASSUME TypeOK, NEW r \in Requests, Handle(r)
  PROVE  \E state \in RequestState :
           /\ Moves(r, state)
           /\ Light(state) \/ WriteStatus(r) \/ BeginCompletion(r) \/ BeginMovement(r)
<1> DEFINE Goal == \E state \in RequestState :
                     /\ Moves(r, state)
                     /\ Light(state) \/ WriteStatus(r) \/ BeginCompletion(r) \/ BeginMovement(r)
<1>0. req[r] \in RequestState /\ Idle \in RequestState /\ Light(Idle)
  BY StepKinds DEF TypeOK, Idle, Light
<1>1. ASSUME NEW state \in RequestState, Become(r, state),
             Light(state) \/ WriteStatus(r) \/ BeginCompletion(r) \/ BeginMovement(r)
      PROVE  Goal
  BY <1>1, BecomeMoves
<1>2. ASSUME NEW state \in RequestState, Light(state), NEW rows,
             req' = Doom([req EXCEPT ![r] = state], rows)
      PROVE  Goal
  BY <1>2, DoomMoves DEF Light, Open
<1> HIDE DEF Goal
<1>3. ASSUME NEW o \in Orders, NEW change \in Offered, AskChange(r, o, change) PROVE Goal
  <2> DEFINE state == [step |-> IF change.action = "start" THEN "checking" ELSE "ready",
                       call |-> [op |-> "status", order |-> o, to |-> change.to],
                       second |-> FALSE]
  <2>1. change.to \in OpenStatuses \cup Terminal
    <3>1. change \in Changes
      BY WorkshopAssumption
    <3> QED
      BY <3>1 DEF Changes, OpenStatuses, Terminal
  <2>2. state \in AskedState /\ Light(state)
    BY <2>1 DEF AskedState, StatusCall, Light
  <2>3. Become(r, state)
    BY <1>3 DEF AskChange, Accept
  <2> QED
    BY <1>1, <2>2, <2>3, StepKinds
<1>4. ASSUME NEW onTrip \in BOOLEAN, CheckStart(r, onTrip) PROVE Goal
  <2>1. req[r] \in AskedState
    BY <1>0, <1>4, StepTypes DEF CheckStart, At
  <2>2. [req[r] EXCEPT !.step = "ready"] \in AskedState
        /\ Light([req[r] EXCEPT !.step = "ready"])
    BY <2>1 DEF AskedState, Light
  <2> QED
    BY <1>0, <1>1, <1>4, <2>2, StepKinds DEF CheckStart
<1>5. ASSUME WriteStatus(r) PROVE Goal
  <2> DEFINE o == req[r].call.order
             state == [step |-> "writing", call |-> req[r].call,
                       vehicle |-> VehicleWrite(o, req[r].call.to)]
  <2>1. req[r] \in AskedState
    BY <1>0, <1>5, StepTypes DEF WriteStatus, At
  <2>2. CASE o \notin DOMAIN order
    BY <1>0, <1>1, <1>5, <2>2 DEF WriteStatus
  <2>3. CASE o \in DOMAIN order
    <3>1. state \in WritingState
      BY <2>1, <2>3, VehicleWriteType DEF AskedState, WritingState
    <3>2. Become(r, state)
      BY <1>5, <2>3 DEF WriteStatus
    <3> QED
      BY <1>1, <1>5, <3>1, <3>2, StepKinds
  <2> QED
    BY <2>2, <2>3
<1>6. ASSUME CommitStatus(r) PROVE Goal
  <2>1. req[r] \in WritingState
    BY <1>0, <1>6, StepTypes DEF CommitStatus, At
  <2>2. [step |-> "audit", call |-> req[r].call] \in AuditState
        /\ Light([step |-> "audit", call |-> req[r].call])
    BY <2>1 DEF WritingState, AuditState, Light
  <2> QED
    BY <1>2, <1>6, <2>2, StepKinds DEF CommitStatus
<1>7. ASSUME BeginCompletion(r) PROVE Goal
  <2> DEFINE o == req[r].call.order
             state == [step |-> "open", call |-> req[r].call, second |-> req[r].second,
                       doomed |-> FALSE, writes |-> CompletionRows(o),
                       draw |-> Draw(o), seen |-> stock,
                       vehicle |-> VehicleWrite(o, "COMPLETED")]
  <2>1. req[r] \in AskedState
    BY <1>0, <1>7, StepTypes DEF BeginCompletion, At
  <2>2. CASE ~(o \in DOMAIN order /\ Enough(Draw(o)))
    BY <1>0, <1>1, <1>7, <2>2 DEF BeginCompletion
  <2>3. CASE o \in DOMAIN order /\ Enough(Draw(o))
    <3>1. Draw(o) \in [Parts -> Nat] /\ VehicleWrite(o, "COMPLETED") \subseteq VehicleStatuses
          /\ order[o].vehicle \in Vehicles /\ o \in Orders
      BY <2>3, DrawType, VehicleWriteType DEF TypeOK
    <3>2. CompletionRows(o) \subseteq Rows
      BY <3>1 DEF CompletionRows, Rows
    <3>3. stock \in [Parts -> Nat] /\ req[r].call \in StatusCall /\ req[r].second \in BOOLEAN
      BY <2>1 DEF TypeOK, AskedState
    <3>4. state \in CompletionState
      BY <3>1, <3>2, <3>3 DEF CompletionState
    <3>5. Become(r, state)
      BY <1>7, <2>3 DEF BeginCompletion
    <3> QED
      BY <1>1, <1>7, <3>4, <3>5, StepKinds
  <2> QED
    BY <2>2, <2>3
<1>8. ASSUME CommitCompletion(r) PROVE Goal
  <2>1. req[r] \in CompletionState
    BY <1>0, <1>8, StepTypes DEF CommitCompletion, MayCommit, Completing
  <2>2. [step |-> "audit", call |-> req[r].call] \in AuditState
        /\ Light([step |-> "audit", call |-> req[r].call])
    BY <2>1 DEF CompletionState, AuditState, Light
  <2> QED
    BY <1>2, <1>8, <2>2, StepKinds DEF CommitCompletion
<1>9. ASSUME NEW written \in BOOLEAN, Audit(r, written) PROVE Goal
  BY <1>0, <1>1, <1>9 DEF Audit
<1>10. ASSUME NEW o \in Orders, NEW v \in Vehicles,
              NEW parts \in {{}} \cup {{lines} : lines \in Lines}, AskUpdate(r, o, v, parts)
       PROVE  Goal
  <2> DEFINE state == [step |-> "updating", call |-> [op |-> "update", order |-> o],
                       vehicle |-> v, parts |-> parts]
  <2>1. state \in UpdatingState /\ Light(state)
    BY DEF UpdatingState, UpdateCall, Light
  <2> QED
    BY <1>1, <1>10, <2>1, StepKinds DEF AskUpdate, Accept
<1>11. ASSUME Update(r) PROVE Goal
  <2>1. req[r] \in UpdatingState
    BY <1>0, <1>11, StepTypes DEF Update, At
  <2>2. [step |-> "audit", call |-> req[r].call] \in AuditState
        /\ Light([step |-> "audit", call |-> req[r].call])
    BY <2>1 DEF UpdatingState, AuditState, Light
  <2> QED
    BY <1>0, <1>1, <1>11, <2>2, StepKinds DEF Update
<1>12. ASSUME NEW o \in Orders, AskRemoval(r, o) PROVE Goal
  <2> DEFINE state == [step |-> "counting", call |-> [op |-> "remove", order |-> o]]
  <2>1. state \in RemovalState /\ Light(state)
    BY DEF RemovalState, RemoveCall, Light
  <2> QED
    BY <1>1, <1>12, <2>1, StepKinds DEF AskRemoval, Accept
<1>13. ASSUME CountAudit(r) PROVE Goal
  <2>1. req[r] \in RemovalState
    BY <1>0, <1>13, StepTypes DEF CountAudit, At
  <2>2. [req[r] EXCEPT !.step = "removing"] \in RemovalState
        /\ Light([req[r] EXCEPT !.step = "removing"])
    BY <2>1 DEF RemovalState, Light
  <2> QED
    BY <1>0, <1>1, <1>13, <2>2, StepKinds DEF CountAudit
<1>14. ASSUME Remove(r) PROVE Goal
  BY <1>0, <1>1, <1>14 DEF Remove
<1>15. ASSUME NEW p \in Parts, NEW delta \in Deltas, NEW o \in Orders \cup {NoOrder},
              AskMovement(r, p, delta, o)
       PROVE  Goal
  <2> DEFINE state == [step |-> "ready", second |-> FALSE,
                       call |-> [op |-> "stock", part |-> p, delta |-> delta, order |-> o]]
  <2>1. state \in StockState /\ Light(state)
    BY DEF StockState, StockCall, Light
  <2> QED
    BY <1>1, <1>15, <2>1, StepKinds DEF AskMovement, Accept
<1>16. ASSUME BeginMovement(r) PROVE Goal
  <2> DEFINE p == req[r].call.part
             state == [step |-> "open", call |-> req[r].call, second |-> req[r].second,
                       doomed |-> FALSE, writes |-> {p}, seen |-> stock]
  <2>1. req[r] \in StockState
    BY <1>0, <1>16, StepTypes DEF BeginMovement, At
  <2>2. state \in MovementState
    BY <2>1 DEF StockState, MovementState, StockCall, Rows, TypeOK
  <2> HIDE DEF state
  <2>3. Become(r, state) \/ Become(r, Idle)
    BY <1>16 DEF BeginMovement, state
  <2> QED
    BY <1>0, <1>1, <1>16, <2>2, <2>3, StepKinds
<1>17. ASSUME CommitMovement(r) PROVE Goal
  BY <1>0, <1>2, <1>17 DEF CommitMovement
<1>18. ASSUME Abort(r) PROVE Goal
  <2>1. Retry(req[r]) \in RequestState /\ Light(Retry(req[r]))
    BY <1>0, <1>18, RetryType DEF Abort
  <2> QED
    BY <1>0, <1>1, <1>18, <2>1 DEF Abort
<1>19. Goal
  BY <1>3, <1>4, <1>5, <1>6, <1>7, <1>8, <1>9, <1>10, <1>11, <1>12, <1>13, <1>14, <1>15,
     <1>16, <1>17, <1>18 DEF Handle
<1> QED
  BY <1>19 DEF Goal

\* What a step may do to what a handler holds.
LEMMA HandlerSteps ==
  ASSUME TypeOK, [Next]_vars
  PROVE  /\ req' \in [Requests -> RequestState]
         /\ \A q \in Requests :
              \/ Kept(req[q], req'[q])
              \/ Light(req'[q])
              \/ WriteStatus(q) \/ BeginCompletion(q) \/ BeginMovement(q)
<1>1. ASSUME NEW r \in Requests, Handle(r)
      PROVE  /\ req' \in [Requests -> RequestState]
             /\ \A q \in Requests :
                  \/ Kept(req[q], req'[q])
                  \/ Light(req'[q])
                  \/ WriteStatus(q) \/ BeginCompletion(q) \/ BeginMovement(q)
  <2>1. PICK state \in RequestState :
          /\ Moves(r, state)
          /\ Light(state) \/ WriteStatus(r) \/ BeginCompletion(r) \/ BeginMovement(r)
    BY <1>1, HandleMoves
  <2> QED
    BY <2>1 DEF Moves
<1>2. ASSUME NEW v \in Vehicles, NEW status \in ByHand, UpdateVehicleStatus(v, status)
      PROVE  req' \in [Requests -> RequestState]
             /\ \A q \in Requests : Kept(req[q], req'[q])
  BY <1>2, DoomKeeps DEF UpdateVehicleStatus, TypeOK
<1>3. CASE UNCHANGED req
  BY <1>3 DEF TypeOK, Kept
<1> QED
  BY <1>1, <1>2, <1>3 DEF Next, Create, vars

----
(***************************************************************************)
(* The inductive invariant.                                                  *)
(***************************************************************************)

Consumed(o, p) ==
  \E i \in DOMAIN moves[p] : moves[p][i].order = o /\ moves[p][i].consumption

\* The order that a status transaction moves is there, and the transaction writes the
\* rows that it will change and no part beyond what it has seen.
Locked(q) ==
  /\ q.step = "writing" \/ Completing(q) => q.call.order \in DOMAIN order
  /\ Completing(q) =>
       /\ q.call.to = "COMPLETED"
       /\ q.call.order \in q.writes
       /\ <<"count", order[q.call.order].vehicle>> \in q.writes
       /\ \A p \in Parts : q.draw[p] > 0 => p \in q.writes /\ q.draw[p] <= q.seen[p]
  /\ Moving(q) => q.call.part \in q.writes /\ q.seen[q.call.part] + q.call.delta >= 0

\* A transaction that may still commit saw the stock of now, and draws for an order that
\* has drawn nothing.
Current(q) ==
  MayCommit(q) =>
    /\ \A p \in Parts : p \in q.writes => q.seen[p] = stock[p]
    /\ Completing(q) => \A p \in Parts : q.draw[p] > 0 => ~Consumed(q.call.order, p)

\* What it will write on the vehicle is what the orders of now call for.
VehicleCurrent(q) ==
  /\ q.step = "writing" \/ (Completing(q) /\ MayCommit(q))
  /\ order[q.call.order].vehicle \notin loose
  => q.vehicle = VehicleWrite(q.call.order, q.call.to)

WorkshopInv ==
  /\ TypeOK
  /\ \A r \in Requests : Locked(req[r]) /\ Current(req[r]) /\ VehicleCurrent(req[r])
  /\ ConsumedOnce
  /\ VehicleFollowsOrders

LEMMA LightHolds ==
  ASSUME NEW q, Light(q)
  PROVE  Locked(q) /\ Current(q) /\ VehicleCurrent(q)
BY DEF Light, Locked, Current, VehicleCurrent, Completing, Moving, MayCommit, Open

LEMMA InvInit ==
  ASSUME Init
  PROVE  WorkshopInv
<1>1. TypeOK
  <2>1. \A p \in Parts : moves[p] \in Seq(Movement)
    BY DEF Init
  <2> QED
    BY <2>1, StepKinds, WorkshopAssumption DEF Init, TypeOK, VehicleStatuses
<1>2. \A r \in Requests : Light(req[r])
  BY DEF Init, Light, Idle
<1>3. ConsumedOnce
  BY DEF Init, ConsumedOnce
<1>4. VehicleFollowsOrders
  BY DEF Init, VehicleFollowsOrders, InProgress
<1> QED
  BY <1>1, <1>2, <1>3, <1>4, LightHolds DEF WorkshopInv

----
(***************************************************************************)
(* What the steps do to the tables.                                          *)
(***************************************************************************)

\* The steps that write a table.
LEMMA TableSteps ==
  ASSUME [Next]_vars
  PROVE  \/ UNCHANGED <<order, vehicle, stock, moves, loose>>
         \/ \E o \in Orders, v \in Vehicles, lines \in Lines : Create(o, v, lines)
         \/ \E v \in Vehicles, status \in ByHand : UpdateVehicleStatus(v, status)
         \/ \E r \in Requests : \/ CommitStatus(r) \/ CommitCompletion(r)
                                \/ \E written \in BOOLEAN : Audit(r, written)
                                \/ Update(r) \/ Remove(r) \/ CommitMovement(r)
BY ZenonT(40) DEF Next, vars, Handle, AskChange, CheckStart, WriteStatus, BeginCompletion,
       AskUpdate, AskRemoval, CountAudit, AskMovement, BeginMovement, Abort

\* A change of status leaves the rest of the orders alone.
LEMMA StatusWritten ==
  ASSUME order \in [DOMAIN order -> Order], NEW o \in DOMAIN order,
         NEW status \in OpenStatuses \cup Terminal,
         order' = [order EXCEPT ![o].status = status]
  PROVE  /\ DOMAIN order' = DOMAIN order /\ order' \in [DOMAIN order -> Order]
         /\ order'[o].status = status
         /\ \A u \in DOMAIN order : order'[u].vehicle = order[u].vehicle
         /\ \A u \in DOMAIN order : u # o => order'[u] = order[u]
BY DEF Order

\* What any change of status writes: the order, and the vehicle from what was read.
StatusEffect(r, o, to) ==
  /\ o = req[r].call.order /\ to = req[r].call.to
  /\ order' = [order EXCEPT ![o].status = to]
  /\ order[o].vehicle \in Vehicles
  /\ vehicle' = Written(order[o].vehicle, req[r].vehicle)
  /\ req[r].vehicle \subseteq VehicleStatuses
  /\ loose' = IF Overlaps(r, order[o].vehicle) THEN loose \cup {order[o].vehicle} ELSE loose
  /\ Moves(r, [step |-> "audit", call |-> req[r].call])

\* What a completion takes of the parts, and which transactions it leaves alive.
DrawEffect(r, o, draw) ==
  /\ draw = req[r].draw
  /\ stock' = [p \in Parts |-> stock[p] - draw[p]]
  /\ moves' = [p \in Parts |->
                 IF draw[p] > 0
                 THEN Append(moves[p], [delta |-> -draw[p], order |-> o, consumption |-> TRUE])
                 ELSE moves[p]]
  /\ \A p \in Parts : draw[p] > 0 =>
       p \in req[r].writes /\ draw[p] <= stock[p] /\ ~Consumed(o, p)
  /\ o \in req[r].writes /\ <<"count", order[o].vehicle>> \in req[r].writes
  /\ \A q \in Requests \ {r} : MayCommit(req'[q]) => req[q].writes \cap req[r].writes = {}

MovementEffect(r, p, m) ==
  /\ stock' = [stock EXCEPT ![p] = stock[p] + m.delta]
  /\ stock[p] + m.delta >= 0
  /\ moves' = [moves EXCEPT ![p] = Append(moves[p], m)]
  /\ ~m.consumption
  /\ Moves(r, Idle)
  /\ \A q \in Requests \ {r} : MayCommit(req'[q]) => p \notin req[q].writes

UpdateEffect(r, o, v, lines) ==
  /\ order' = [order EXCEPT ![o].vehicle = v, ![o].lines = lines]
  /\ Unlocked(r, o)
  /\ At(r, "updating")
  /\ loose' = loose \cup IF order[o].vehicle = v THEN {} ELSE {order[o].vehicle, v}
  /\ UNCHANGED <<vehicle, stock, moves>>

RemovalEffect(r, o) ==
  /\ order' = [u \in DOMAIN order \ {o} |-> order[u]]
  /\ moves' = [p \in Parts |-> [i \in DOMAIN moves[p] |-> Unlinked(moves[p][i], o)]]
  /\ Unlocked(r, o)
  /\ At(r, "removing")
  /\ loose' = IF order[o].status = "IN_PROGRESS" THEN loose \cup {order[o].vehicle} ELSE loose
  /\ UNCHANGED <<vehicle, stock>>

LEMMA CommitStatusFacts ==
  ASSUME WorkshopInv, NEW r \in Requests, CommitStatus(r)
  PROVE  \E o \in DOMAIN order, to \in OpenStatuses \cup Terminal : StatusEffect(r, o, to)
<1>1. req[r] \in WritingState
  BY StepTypes DEF WorkshopInv, TypeOK, CommitStatus, At
<1>2. req[r].call.order \in DOMAIN order
  BY DEF WorkshopInv, Locked, CommitStatus, At
<1>3. req[r].call.to \in OpenStatuses \cup Terminal /\ req[r].vehicle \subseteq VehicleStatuses
  BY <1>1 DEF WritingState, StatusCall
<1>4. order[req[r].call.order].vehicle \in Vehicles
  BY <1>2 DEF WorkshopInv, TypeOK, Order
<1>5. [step |-> "audit", call |-> req[r].call] \in RequestState
      /\ ~Open([step |-> "audit", call |-> req[r].call])
  BY <1>1, StepKinds DEF WritingState, AuditState, Open
<1>6. Moves(r, [step |-> "audit", call |-> req[r].call])
  BY <1>5, DoomMoves DEF WorkshopInv, CommitStatus
<1>7. StatusEffect(r, req[r].call.order, req[r].call.to)
  BY <1>3, <1>4, <1>6 DEF CommitStatus, StatusEffect
<1> QED
  BY <1>2, <1>3, <1>7

LEMMA CommitCompletionFacts ==
  ASSUME WorkshopInv, NEW r \in Requests, CommitCompletion(r)
  PROVE  /\ Completing(req[r]) /\ MayCommit(req[r])
         /\ \E o \in DOMAIN order, draw \in [Parts -> Nat] :
              StatusEffect(r, o, "COMPLETED") /\ DrawEffect(r, o, draw)
<1>0. TypeOK /\ Locked(req[r]) /\ Current(req[r])
  BY DEF WorkshopInv
<1>1. Completing(req[r]) /\ MayCommit(req[r])
  BY DEF CommitCompletion, MayCommit, Completing
<1>2. req[r] \in CompletionState
  BY <1>0, <1>1, StepTypes DEF TypeOK
<1>3. req[r].call.order \in DOMAIN order /\ req[r].call.to = "COMPLETED"
      /\ {req[r].call.order, <<"count", order[req[r].call.order].vehicle>>} \subseteq req[r].writes
  BY <1>0, <1>1 DEF Locked
<1>4. PICK o \in DOMAIN order, draw \in [Parts -> Nat] :
        o = req[r].call.order /\ draw = req[r].draw
  BY <1>2, <1>3 DEF CompletionState
<1>5. \A p \in Parts : draw[p] > 0 =>
        /\ p \in req[r].writes /\ draw[p] <= req[r].seen[p]
        /\ req[r].seen[p] = stock[p] /\ ~Consumed(o, p)
  BY <1>0, <1>1, <1>4 DEF Locked, Current
<1>6. order[o].vehicle \in Vehicles /\ stock \in [Parts -> Nat]
  BY <1>0 DEF TypeOK, Order
<1>7. req[r].vehicle \subseteq VehicleStatuses
  BY <1>2 DEF CompletionState
<1>8. stock' = [p \in Parts |-> stock[p] - draw[p]]
  <2>1. stock' = [p \in Parts |-> IF draw[p] > 0 THEN req[r].seen[p] - draw[p] ELSE stock[p]]
    BY <1>4 DEF CommitCompletion
  <2>2. ASSUME NEW p \in Parts
        PROVE  (IF draw[p] > 0 THEN req[r].seen[p] - draw[p] ELSE stock[p]) = stock[p] - draw[p]
    <3>1. draw[p] \in Nat /\ stock[p] \in Nat
      BY <1>4, <1>6
    <3> QED
      BY <1>5, <3>1
  <2> QED
    BY <2>1, <2>2
<1>9. moves' = [p \in Parts |->
                  IF draw[p] > 0
                  THEN Append(moves[p], [delta |-> -draw[p], order |-> o,
                                         consumption |-> TRUE])
                  ELSE moves[p]]
  BY <1>4 DEF CommitCompletion
<1>10. [step |-> "audit", call |-> req[r].call] \in RequestState
       /\ ~Open([step |-> "audit", call |-> req[r].call])
  BY <1>2, StepKinds DEF CompletionState, AuditState, Open
<1>11. /\ Moves(r, [step |-> "audit", call |-> req[r].call])
       /\ \A q \in Requests \ {r} : MayCommit(req'[q]) =>
            req[q].writes \cap req[r].writes = {}
  <2>1. PICK rows, state : rows = req[r].writes /\ state = [step |-> "audit", call |-> req[r].call]
    OBVIOUS
  <2>2. req' = Doom([req EXCEPT ![r] = state], rows)
    BY <2>1 DEF CommitCompletion
  <2>3. state \in RequestState /\ ~Open(state)
    BY <1>10, <2>1
  <2>4. /\ Moves(r, state)
        /\ \A q \in Requests \ {r} : MayCommit(req'[q]) => req[q].writes \cap rows = {}
    BY <1>0, <2>2, <2>3, DoomMoves
  <2> QED
    BY <2>1, <2>4
<1>12. /\ order' = [order EXCEPT ![o].status = "COMPLETED"]
       /\ vehicle' = Written(order[o].vehicle, req[r].vehicle)
       /\ loose' = IF Overlaps(r, order[o].vehicle) THEN loose \cup {order[o].vehicle}
                   ELSE loose
  BY <1>4 DEF CommitCompletion
<1>13. StatusEffect(r, o, "COMPLETED")
  BY <1>3, <1>4, <1>6, <1>7, <1>11, <1>12 DEF StatusEffect
<1>14. DrawEffect(r, o, draw)
  BY <1>3, <1>4, <1>5, <1>8, <1>9, <1>11 DEF DrawEffect
<1> QED
  BY <1>1, <1>13, <1>14

LEMMA CommitMovementFacts ==
  ASSUME WorkshopInv, NEW r \in Requests, CommitMovement(r)
  PROVE  \E p \in Parts, m \in Movement : MovementEffect(r, p, m)
<1>0. TypeOK /\ Locked(req[r]) /\ Current(req[r])
  BY DEF WorkshopInv
<1>1. Moving(req[r]) /\ MayCommit(req[r])
  BY DEF CommitMovement, MayCommit, Moving
<1>2. req[r] \in MovementState
  BY <1>0, <1>1, StepTypes DEF TypeOK
<1>3. PICK p \in Parts, m \in Movement :
        p = req[r].call.part
          /\ m = [delta |-> req[r].call.delta, order |-> req[r].call.order, consumption |-> FALSE]
  <2>1. req[r].call \in StockCall
    BY <1>2 DEF MovementState
  <2>2. req[r].call.delta \in Int
    BY <2>1, WorkshopAssumption DEF StockCall
  <2> QED
    BY <2>1, <2>2 DEF StockCall, Movement
<1>4. p \in req[r].writes /\ req[r].seen[p] + m.delta >= 0 /\ req[r].seen[p] = stock[p]
  BY <1>0, <1>1, <1>3 DEF Locked, Current
<1>5. /\ stock' = [stock EXCEPT ![p] = req[r].seen[p] + m.delta]
      /\ moves' = [moves EXCEPT ![p] = Append(moves[p], m)]
      /\ req' = Doom([req EXCEPT ![r] = Idle], {p})
  BY <1>3 DEF CommitMovement
<1>6. Idle \in RequestState /\ ~Open(Idle)
  BY StepKinds DEF Idle, Open
<1>7. /\ Moves(r, Idle)
      /\ \A q \in Requests \ {r} : MayCommit(req'[q]) => req[q].writes \cap {p} = {}
  BY <1>0, <1>5, <1>6, DoomMoves
<1> QED
  BY <1>3, <1>4, <1>5, <1>7 DEF MovementEffect

\* What an update does: an order stays, and may move to another vehicle.
LEMMA UpdateFacts ==
  ASSUME WorkshopInv, NEW r \in Requests, Update(r)
  PROVE  \/ UNCHANGED <<order, vehicle, stock, moves, loose>>
         \/ \E o \in DOMAIN order, v \in Vehicles, lines \in Lines : UpdateEffect(r, o, v, lines)
<1>1. req[r] \in UpdatingState
  BY StepTypes DEF WorkshopInv, TypeOK, Update, At
<1> DEFINE o == req[r].call.order
<1>2. CASE o \notin DOMAIN order
  BY <1>2 DEF Update
<1>3. CASE o \in DOMAIN order
  <2>1. PICK lines \in IF req[r].parts = {} THEN {order[o].lines} ELSE req[r].parts :
          order' = [order EXCEPT ![o].vehicle = req[r].vehicle, ![o].lines = lines]
    BY <1>3 DEF Update
  <2>2. lines \in Lines
    BY <1>1, <1>3, <2>1 DEF WorkshopInv, TypeOK, Order, UpdatingState
  <2>3. req[r].vehicle \in Vehicles
    BY <1>1 DEF UpdatingState
  <2>4. /\ Unlocked(r, o) /\ At(r, "updating") /\ UNCHANGED <<vehicle, stock, moves>>
        /\ loose' = loose \cup IF order[o].vehicle = req[r].vehicle THEN {}
                               ELSE {order[o].vehicle, req[r].vehicle}
    BY <1>3 DEF Update
  <2> HIDE DEF o
  <2> QED
    BY <1>3, <2>1, <2>2, <2>3, <2>4 DEF UpdateEffect
<1> QED
  BY <1>2, <1>3

\* What a removal does: the order goes, and its movements stay without it.
LEMMA RemoveFacts ==
  ASSUME WorkshopInv, NEW r \in Requests, Remove(r)
  PROVE  \/ UNCHANGED <<order, vehicle, stock, moves, loose>>
         \/ \E o \in DOMAIN order : RemovalEffect(r, o)
<1>1. CASE req[r].call.order \notin DOMAIN order
  BY <1>1 DEF Remove
<1>2. CASE req[r].call.order \in DOMAIN order
  BY <1>2 DEF Remove, RemovalEffect
<1> QED
  BY <1>1, <1>2

\* The audit entry of an order changes nothing else of it.
LEMMA AuditFacts ==
  ASSUME TypeOK, NEW r \in Requests, NEW written \in BOOLEAN, Audit(r, written)
  PROVE  /\ UNCHANGED <<vehicle, stock, moves, loose>>
         /\ DOMAIN order' = DOMAIN order /\ order' \in [DOMAIN order -> Order]
         /\ \A o \in DOMAIN order : /\ order'[o].vehicle = order[o].vehicle
                                    /\ order'[o].status = order[o].status
BY DEF TypeOK, Audit, Order

LEMMA MovementsType ==
  ASSUME TypeOK, NEW o \in DOMAIN order, NEW p \in Parts
  PROVE  /\ \A n \in Nat : Append(moves[p], [delta |-> -n, order |-> o, consumption |-> TRUE])
                             \in Seq(Movement)
         /\ [i \in DOMAIN moves[p] |-> Unlinked(moves[p][i], o)] \in Seq(Movement)
<1>1. moves[p] \in Seq(Movement) /\ o \in Orders
  BY DEF TypeOK
<1>2. \A m \in Movement : Unlinked(m, o) \in Movement
  BY DEF Unlinked, Movement
<1>3. \A i \in DOMAIN moves[p] : moves[p][i] \in Movement
  BY <1>1
<1>4. DOMAIN moves[p] = 1..Len(moves[p]) /\ Len(moves[p]) \in Nat
  BY <1>1
<1>5. [i \in DOMAIN moves[p] |-> Unlinked(moves[p][i], o)] \in [1..Len(moves[p]) -> Movement]
  BY <1>2, <1>3, <1>4
<1>6. [i \in DOMAIN moves[p] |-> Unlinked(moves[p][i], o)] \in Seq(Movement)
  BY <1>4, <1>5
<1>7. \A n \in Nat : [delta |-> -n, order |-> o, consumption |-> TRUE] \in Movement
  BY <1>1 DEF Movement
<1> QED
  BY <1>1, <1>6, <1>7

LEMMA TypeStep ==
  ASSUME WorkshopInv, [Next]_vars
  PROVE  TypeOK'
<1> DEFINE Tables == /\ DOMAIN order' \subseteq Orders /\ order' \in [DOMAIN order' -> Order]
                     /\ vehicle' \in [Vehicles -> VehicleStatuses]
                     /\ stock' \in [Parts -> Nat]
                     /\ moves' \in [Parts -> Seq(Movement)]
                     /\ loose' \subseteq Vehicles
<1>0. TypeOK
  BY DEF WorkshopInv
<1>1. req' \in [Requests -> RequestState]
  BY <1>0, HandlerSteps
<1>2. calls' \in 0..MaxCalls
  <2>1. calls \in 0..MaxCalls /\ MaxCalls \in Nat
    BY <1>0, WorkshopAssumption DEF TypeOK
  <2>2. UNCHANGED calls \/ \E r \in Requests : \E state : Accept(r, state)
    BY ZenonT(40)
       DEF Next, vars, Create, UpdateVehicleStatus, Handle, AskChange, CheckStart, WriteStatus,
           CommitStatus, BeginCompletion, CommitCompletion, Audit, AskUpdate, Update, AskRemoval,
           CountAudit, Remove, AskMovement, BeginMovement, CommitMovement, Abort
  <2> QED
    BY <2>1, <2>2 DEF Accept
<1>3. ASSUME UNCHANGED <<order, vehicle, stock, moves, loose>> PROVE Tables
  BY <1>0, <1>3 DEF TypeOK
<1>4. ASSUME NEW o \in Orders, NEW v \in Vehicles, NEW lines \in Lines, Create(o, v, lines)
      PROVE  Tables
  <2>1. [status |-> "OPEN", vehicle |-> v, lines |-> lines, audited |-> FALSE] \in Order
    BY DEF Order, OpenStatuses
  <2>2. order' \in [DOMAIN order \cup {o} -> Order]
    BY <1>0, <1>4, <2>1 DEF Create, TypeOK
  <2> QED
    BY <1>0, <1>4, <2>2 DEF Create, TypeOK
<1>5. ASSUME NEW v \in Vehicles, NEW status \in ByHand, UpdateVehicleStatus(v, status)
      PROVE  Tables
  <2>1. status \in VehicleStatuses
    BY WorkshopAssumption
  <2> QED
    BY <1>0, <1>5, <2>1 DEF UpdateVehicleStatus, TypeOK
<1>6. ASSUME NEW r \in Requests, CommitStatus(r) PROVE Tables
  <2>1. PICK o \in DOMAIN order, to \in OpenStatuses \cup Terminal : StatusEffect(r, o, to)
    BY <1>6, CommitStatusFacts
  <2>2. DOMAIN order' = DOMAIN order /\ order' \in [DOMAIN order -> Order]
    BY <1>0, <2>1, StatusWritten DEF StatusEffect, TypeOK
  <2>3. vehicle' \in [Vehicles -> VehicleStatuses]
    BY <1>0, <2>1, WrittenType DEF StatusEffect
  <2>4. loose' \subseteq Vehicles
    BY <1>0, <2>1 DEF StatusEffect, TypeOK
  <2> QED
    BY <1>0, <1>6, <2>2, <2>3, <2>4 DEF CommitStatus, TypeOK
<1>7. ASSUME NEW r \in Requests, CommitCompletion(r) PROVE Tables
  <2>1. PICK o \in DOMAIN order, draw \in [Parts -> Nat] :
          StatusEffect(r, o, "COMPLETED") /\ DrawEffect(r, o, draw)
    BY <1>7, CommitCompletionFacts
  <2>2. DOMAIN order' = DOMAIN order /\ order' \in [DOMAIN order -> Order]
    <3>1. "COMPLETED" \in OpenStatuses \cup Terminal
      BY DEF Terminal
    <3> QED
      BY <1>0, <2>1, <3>1, StatusWritten DEF StatusEffect, TypeOK
  <2>3. vehicle' \in [Vehicles -> VehicleStatuses]
    BY <1>0, <2>1, WrittenType DEF StatusEffect
  <2>4. loose' \subseteq Vehicles
    BY <1>0, <2>1 DEF StatusEffect, TypeOK
  <2>5. ASSUME NEW p \in Parts
        PROVE  stock[p] - draw[p] \in Nat
    <3>1. stock[p] \in Nat /\ draw[p] \in Nat
      BY <1>0 DEF TypeOK
    <3> QED
      BY <2>1, <3>1 DEF DrawEffect
  <2>6. stock' \in [Parts -> Nat]
    BY <2>1, <2>5 DEF DrawEffect
  <2>7. moves' \in [Parts -> Seq(Movement)]
    BY <1>0, <2>1, MovementsType DEF DrawEffect, TypeOK
  <2> QED
    BY <1>0, <2>2, <2>3, <2>4, <2>6, <2>7 DEF TypeOK
<1>8. ASSUME NEW r \in Requests, NEW written \in BOOLEAN, Audit(r, written) PROVE Tables
  BY <1>0, <1>8, AuditFacts DEF TypeOK
<1>9. ASSUME NEW r \in Requests, Update(r) PROVE Tables
  <2>1. CASE UNCHANGED <<order, vehicle, stock, moves, loose>>
    BY <1>3, <2>1
  <2>2. CASE ~UNCHANGED <<order, vehicle, stock, moves, loose>>
    <3>1. PICK o \in DOMAIN order, v \in Vehicles, lines \in Lines : UpdateEffect(r, o, v, lines)
      BY <1>9, <2>2, UpdateFacts
    <3>2. order' \in [DOMAIN order -> Order] /\ order[o].vehicle \in Vehicles
      BY <1>0, <3>1 DEF UpdateEffect, TypeOK, Order
    <3> QED
      BY <1>0, <3>1, <3>2 DEF UpdateEffect, TypeOK
  <2> QED
    BY <2>1, <2>2
<1>10. ASSUME NEW r \in Requests, Remove(r) PROVE Tables
  <2>1. CASE UNCHANGED <<order, vehicle, stock, moves, loose>>
    BY <1>3, <2>1
  <2>2. CASE ~UNCHANGED <<order, vehicle, stock, moves, loose>>
    <3>1. PICK o \in DOMAIN order : RemovalEffect(r, o)
      BY <1>10, <2>2, RemoveFacts
    <3>2. order[o].vehicle \in Vehicles
      BY <1>0 DEF TypeOK, Order
    <3>3. moves' \in [Parts -> Seq(Movement)]
      BY <1>0, <3>1, MovementsType DEF RemovalEffect
    <3>4. DOMAIN order' \subseteq Orders /\ order' \in [DOMAIN order' -> Order]
      BY <1>0, <3>1 DEF RemovalEffect, TypeOK
    <3>5. loose' \subseteq Vehicles
      BY <1>0, <3>1, <3>2 DEF RemovalEffect, TypeOK
    <3> QED
      BY <1>0, <3>1, <3>3, <3>4, <3>5 DEF RemovalEffect, TypeOK
  <2> QED
    BY <2>1, <2>2
<1>11. ASSUME NEW r \in Requests, CommitMovement(r) PROVE Tables
  <2>1. PICK p \in Parts, m \in Movement : MovementEffect(r, p, m)
    BY <1>11, CommitMovementFacts
  <2>2. stock[p] + m.delta \in Nat
    BY <1>0, <2>1 DEF MovementEffect, TypeOK, Movement
  <2>3. Append(moves[p], m) \in Seq(Movement)
    BY <1>0 DEF TypeOK
  <2>4. stock' \in [Parts -> Nat]
    BY <1>0, <2>1, <2>2 DEF MovementEffect, TypeOK
  <2>5. moves' \in [Parts -> Seq(Movement)]
    BY <1>0, <2>1, <2>3 DEF MovementEffect, TypeOK
  <2> QED
    BY <1>0, <1>11, <2>4, <2>5 DEF CommitMovement, TypeOK
<1>12. Tables
  BY <1>3, <1>4, <1>5, <1>6, <1>7, <1>8, <1>9, <1>10, <1>11, TableSteps
<1> QED
  BY <1>1, <1>2, <1>12 DEF TypeOK

----
(***************************************************************************)
(* What a handler holds stays true.                                          *)
(***************************************************************************)

\* The row of an order that a transaction moves stays, on the same vehicle.
LEMMA RowStays ==
  ASSUME WorkshopInv, [Next]_vars, NEW r \in Requests,
         At(r, "writing") \/ Completing(req[r])
  PROVE  /\ req[r].call.order \in DOMAIN order
         /\ req[r].call.order \in DOMAIN order'
         /\ order'[req[r].call.order].vehicle = order[req[r].call.order].vehicle
<1>0. TypeOK /\ Locked(req[r])
  BY DEF WorkshopInv
<1>1. PICK o : o = req[r].call.order
  OBVIOUS
<1>2. o \in DOMAIN order
  BY <1>0, <1>1 DEF Locked, At
<1> DEFINE Goal == o \in DOMAIN order' /\ order'[o].vehicle = order[o].vehicle
<1>3. ASSUME UNCHANGED order PROVE Goal
  BY <1>2, <1>3
<1>4. ASSUME NEW u \in Orders, NEW v \in Vehicles, NEW lines \in Lines, Create(u, v, lines)
      PROVE  Goal
  BY <1>2, <1>4 DEF Create
<1>5. ASSUME NEW v \in Vehicles, NEW status \in ByHand, UpdateVehicleStatus(v, status)
      PROVE  Goal
  BY <1>3, <1>5 DEF UpdateVehicleStatus
<1>6. ASSUME NEW q, NEW u \in DOMAIN order, NEW to \in OpenStatuses \cup Terminal,
             StatusEffect(q, u, to)
      PROVE  Goal
  BY <1>0, <1>2, <1>6, StatusWritten DEF StatusEffect, TypeOK
<1>7. ASSUME NEW q \in Requests, NEW written \in BOOLEAN, Audit(q, written) PROVE Goal
  BY <1>0, <1>2, <1>7, AuditFacts
<1>8. ASSUME NEW q \in Requests, NEW u, Unlocked(q, u), ~At(q, "writing"), ~Open(req[q])
      PROVE  u # o
  <2>1. q # r
    BY <1>8 DEF Completing
  <2> QED
    BY <1>0, <1>1, <1>8, <2>1 DEF Unlocked, Holds, Locked, Completing
<1>9. ASSUME NEW q \in Requests, Update(q) PROVE Goal
  <2>1. ASSUME NEW u \in DOMAIN order, NEW v \in Vehicles, NEW lines \in Lines,
               UpdateEffect(q, u, v, lines)
        PROVE  Goal
    <3>1. u # o
      BY <1>8, <2>1 DEF UpdateEffect, At, Open
    <3> QED
      BY <1>0, <1>2, <2>1, <3>1 DEF UpdateEffect, TypeOK
  <2> QED
    BY <1>3, <1>9, <2>1, UpdateFacts
<1>10. ASSUME NEW q \in Requests, Remove(q) PROVE Goal
  <2>1. ASSUME NEW u \in DOMAIN order, RemovalEffect(q, u) PROVE Goal
    <3>1. u # o
      BY <1>8, <2>1 DEF RemovalEffect, At, Open
    <3> QED
      BY <1>2, <2>1, <3>1 DEF RemovalEffect
  <2> QED
    BY <1>3, <1>10, <2>1, RemoveFacts
<1>11. ASSUME NEW q \in Requests, CommitStatus(q) PROVE Goal
  BY <1>6, <1>11, CommitStatusFacts
<1>12. ASSUME NEW q \in Requests, CommitCompletion(q) PROVE Goal
  <2>1. "COMPLETED" \in OpenStatuses \cup Terminal
    BY DEF Terminal
  <2> QED
    BY <1>6, <1>12, <2>1, CommitCompletionFacts
<1>13. ASSUME NEW q \in Requests, CommitMovement(q) PROVE Goal
  BY <1>3, <1>13 DEF CommitMovement
<1>14. Goal
  BY <1>3, <1>4, <1>5, <1>7, <1>9, <1>10, <1>11, <1>12, <1>13, TableSteps
<1> QED
  BY <1>1, <1>2, <1>14

\* What is not taken by a movement of the order stays so; a removal only takes orders
\* off their movements.
LEMMA UnlinkedKeeps ==
  ASSUME TypeOK, NEW q, NEW o, NoOrder # o, RemovalEffect(q, o), NEW p \in Parts
  PROVE  /\ DOMAIN moves'[p] = DOMAIN moves[p]
         /\ \A i \in DOMAIN moves[p] :
              /\ moves'[p][i].consumption = moves[p][i].consumption
              /\ moves'[p][i].delta = moves[p][i].delta
              /\ moves'[p][i].order = IF moves[p][i].order = o THEN NoOrder ELSE moves[p][i].order
<1>1. moves'[p] = [i \in DOMAIN moves[p] |-> Unlinked(moves[p][i], o)]
  BY DEF RemovalEffect
<1>2. \A i \in DOMAIN moves[p] : moves[p][i] \in Movement
  BY DEF TypeOK
<1>3. \A m \in Movement :
        /\ Unlinked(m, o).consumption = m.consumption
        /\ Unlinked(m, o).delta = m.delta
        /\ Unlinked(m, o).order = IF m.order = o THEN NoOrder ELSE m.order
  BY DEF Unlinked, Movement
<1>4. \A i \in DOMAIN moves[p] : moves'[p][i] = Unlinked(moves[p][i], o)
  BY <1>1
<1> QED
  BY <1>1, <1>2, <1>3, <1>4

\* A transaction that may still commit keeps the stock that it saw of the parts it
\* writes, and nobody consumed them meanwhile.
LEMMA StockStays ==
  ASSUME WorkshopInv, [Next]_vars, NEW r \in Requests, Kept(req[r], req'[r]),
         MayCommit(req'[r]), NEW p \in Parts, p \in req[r].writes
  PROVE  stock'[p] = stock[p] /\ \A o \in Orders : Consumed(o, p)' => Consumed(o, p)
<1>0. TypeOK
  BY DEF WorkshopInv
<1> DEFINE Goal == stock'[p] = stock[p] /\ \A o \in Orders : Consumed(o, p)' => Consumed(o, p)
<1>1. ASSUME stock'[p] = stock[p], moves'[p] = moves[p] PROVE Goal
  BY <1>1 DEF Consumed
<1>2. ASSUME NEW q \in Requests, CommitCompletion(q) PROVE Goal
  <2>1. PICK o \in DOMAIN order, draw \in [Parts -> Nat] :
          StatusEffect(q, o, "COMPLETED") /\ DrawEffect(q, o, draw)
    BY <1>2, CommitCompletionFacts
  <2>2. q # r
    BY <2>1 DEF StatusEffect, Moves, MayCommit, Open
  <2>3. ~(draw[p] > 0) /\ draw[p] \in Nat /\ stock[p] \in Nat
    BY <1>0, <2>1, <2>2 DEF DrawEffect, TypeOK
  <2>4. stock'[p] = stock[p] /\ moves'[p] = moves[p]
    BY <2>1, <2>3 DEF DrawEffect
  <2> QED
    BY <1>1, <2>4
<1>3. ASSUME NEW q \in Requests, CommitMovement(q) PROVE Goal
  <2>1. PICK u \in Parts, m \in Movement : MovementEffect(q, u, m)
    BY <1>3, CommitMovementFacts
  <2>2. q # r
    BY <2>1 DEF MovementEffect, Moves, MayCommit, Open, Idle
  <2>3. u # p
    BY <2>1, <2>2 DEF MovementEffect
  <2> QED
    BY <1>0, <1>1, <2>1, <2>3 DEF MovementEffect, TypeOK
<1>4. ASSUME NEW q \in Requests, Remove(q) PROVE Goal
  <2>1. ASSUME NEW u \in DOMAIN order, RemovalEffect(q, u) PROVE Goal
    <3>1. u \in Orders /\ NoOrder # u /\ NoOrder \notin Orders
      BY <1>0, WorkshopAssumption DEF TypeOK
    <3>2. stock'[p] = stock[p]
      BY <2>1 DEF RemovalEffect
    <3>3. \A o \in Orders : Consumed(o, p)' => Consumed(o, p)
      BY <1>0, <2>1, <3>1, UnlinkedKeeps DEF Consumed
    <3> QED
      BY <3>2, <3>3
  <2> QED
    BY <1>1, <1>4, <2>1, RemoveFacts
<1> QED
  BY <1>1, <1>2, <1>3, <1>4, TableSteps
     DEF Create, UpdateVehicleStatus, CommitStatus, Audit, Update

LEMMA LockedStays ==
  ASSUME WorkshopInv, [Next]_vars, NEW r \in Requests, Kept(req[r], req'[r])
  PROVE  Locked(req[r])'
<1>0. TypeOK /\ Locked(req[r]) /\ req[r] \in RequestState
  BY DEF WorkshopInv, TypeOK
<1>1. PICK next : next = req'[r]
  OBVIOUS
<1>2. /\ next.step = req[r].step
      /\ Open(req[r]) => next.call = req[r].call /\ next.writes = req[r].writes
                         /\ next.seen = req[r].seen
      /\ Completing(req[r]) => next.draw = req[r].draw
      /\ req[r].step = "writing" => next = req[r]
  BY <1>0, <1>1, KeptFields
<1>3. Completing(next) => Completing(req[r])
  BY <1>2 DEF Completing, Open
<1>4. Moving(next) => Moving(req[r])
  BY <1>2 DEF Moving, Open
<1>5. next.step = "writing" => next.call.order \in DOMAIN order'
  BY <1>2, RowStays DEF At
<1>6. ASSUME Completing(next)
      PROVE  /\ next.call.order \in DOMAIN order'
             /\ next.call.to = "COMPLETED"
             /\ next.call.order \in next.writes
             /\ <<"count", order'[next.call.order].vehicle>> \in next.writes
             /\ \A p \in Parts : next.draw[p] > 0 => p \in next.writes
                                                     /\ next.draw[p] <= next.seen[p]
  <2>1. Completing(req[r]) /\ Open(req[r])
    BY <1>3, <1>6 DEF Completing
  <2> QED
    BY <1>0, <1>2, <2>1, RowStays DEF Locked
<1>7. Moving(next) => next.call.part \in next.writes
                      /\ next.seen[next.call.part] + next.call.delta >= 0
  BY <1>0, <1>2, <1>4 DEF Locked, Moving
<1>8. \A q : Open(q)' <=> Open(q)
  BY DEF Open
<1> QED
  BY <1>1, <1>5, <1>6, <1>7 DEF Locked, Completing, Moving, Open

LEMMA CurrentStays ==
  ASSUME WorkshopInv, [Next]_vars, NEW r \in Requests, Kept(req[r], req'[r])
  PROVE  Current(req[r])'
<1>0. TypeOK /\ Locked(req[r]) /\ Current(req[r]) /\ req[r] \in RequestState
  BY DEF WorkshopInv, TypeOK
<1>1. CASE ~MayCommit(req'[r])
  BY <1>1 DEF Current, MayCommit, Open
<1>2. CASE MayCommit(req'[r])
  <2>1. req'[r] = req[r] /\ MayCommit(req[r])
    BY <1>0, <1>2, KeptFields
  <2>2. ASSUME NEW p \in Parts, p \in req[r].writes
        PROVE  req[r].seen[p] = stock'[p]
    BY <1>0, <1>2, <2>1, <2>2, StockStays DEF Current
  <2>3. ASSUME Completing(req[r]), NEW p \in Parts, req[r].draw[p] > 0
        PROVE  ~Consumed(req[r].call.order, p)'
    <3>1. p \in req[r].writes /\ req[r].call.order \in DOMAIN order
          /\ ~Consumed(req[r].call.order, p)
      BY <1>0, <2>1, <2>3 DEF Locked, Current
    <3>2. PICK o \in Orders : o = req[r].call.order
      BY <1>0, <3>1 DEF TypeOK
    <3>3. ~Consumed(o, p)'
      BY <1>2, <3>1, <3>2, StockStays
    <3>4. o = req'[r].call.order
      BY <2>1, <3>2
    <3> QED
      BY <2>1, <3>2, <3>3 DEF Consumed
  <2> QED
    BY <2>1, <2>2, <2>3 DEF Current, Completing, MayCommit, Open, Consumed
<1> QED
  BY <1>1, <1>2

----
(***************************************************************************)
(* Vehicles and their orders.                                                *)
(***************************************************************************)

\* A step does not touch what a vehicle is brought in line with.
Untouched(v) ==
  /\ vehicle'[v] = vehicle[v]
  /\ \A but : InProgress(v, but)' <=> InProgress(v, but)

\* A status transaction s commits its change of order o, undisturbed on its vehicle.
CommitsAlone(s, o, to) ==
  /\ StatusEffect(s, o, to)
  /\ ~Overlaps(s, order[o].vehicle)
  /\ At(s, "writing") \/ (CommitCompletion(s) /\ Completing(req[s]) /\ MayCommit(req[s]))

LEMMA SameOrders ==
  ASSUME NEW v \in Vehicles, vehicle'[v] = vehicle[v], DOMAIN order' = DOMAIN order,
         \A o \in DOMAIN order : /\ order'[o].vehicle = v <=> order[o].vehicle = v
                                 /\ order'[o].status = order[o].status
                                    \/ (order[o].vehicle # v)
  PROVE  Untouched(v)
BY DEF Untouched, InProgress

\* A vehicle in touch with its orders is left alone, or a single transaction commits on it.
LEMMA VehicleSteps ==
  ASSUME WorkshopInv, [Next]_vars, NEW v \in Vehicles, v \notin loose'
  PROVE  /\ v \notin loose
         /\ \/ Untouched(v)
            \/ \E s \in Requests, o \in DOMAIN order, to \in OpenStatuses \cup Terminal :
                 CommitsAlone(s, o, to) /\ order[o].vehicle = v
<1>0. TypeOK
  BY DEF WorkshopInv
<1> DEFINE Alone == \E s \in Requests, o \in DOMAIN order, to \in OpenStatuses \cup Terminal :
                      CommitsAlone(s, o, to) /\ order[o].vehicle = v
           Goal == v \notin loose /\ (Untouched(v) \/ Alone)
<1>1. ASSUME UNCHANGED <<order, vehicle, loose>> PROVE Goal
  BY <1>1 DEF Untouched, InProgress
<1>2. ASSUME NEW o \in Orders, NEW u \in Vehicles, NEW lines \in Lines, Create(o, u, lines)
      PROVE  Goal
  BY <1>2 DEF Create, Untouched, InProgress
<1>3. ASSUME NEW u \in Vehicles, NEW status \in ByHand, UpdateVehicleStatus(u, status)
      PROVE  Goal
  BY <1>0, <1>3 DEF UpdateVehicleStatus, TypeOK, Untouched, InProgress
<1>4. ASSUME NEW s \in Requests, NEW o \in DOMAIN order, NEW to \in OpenStatuses \cup Terminal,
             StatusEffect(s, o, to),
             At(s, "writing")
               \/ (CommitCompletion(s) /\ Completing(req[s]) /\ MayCommit(req[s]))
      PROVE  Goal
  <2>1. v \notin loose
    BY <1>4 DEF StatusEffect
  <2>2. CASE order[o].vehicle = v
    <3>1. ~Overlaps(s, v)
      BY <1>4, <2>2 DEF StatusEffect
    <3> QED
      BY <1>4, <2>1, <2>2, <3>1 DEF CommitsAlone
  <2>3. CASE order[o].vehicle # v
    <3>1. vehicle'[v] = vehicle[v]
      BY <1>4, <2>3 DEF StatusEffect, Written
    <3>2. /\ DOMAIN order' = DOMAIN order
          /\ \A u \in DOMAIN order : order'[u].vehicle = order[u].vehicle
          /\ \A u \in DOMAIN order : u # o => order'[u] = order[u]
      BY <1>0, <1>4, StatusWritten DEF StatusEffect, TypeOK
    <3> QED
      BY <2>1, <2>3, <3>1, <3>2, SameOrders
  <2> QED
    BY <2>2, <2>3
<1>5. ASSUME NEW s \in Requests, CommitStatus(s) PROVE Goal
  BY <1>4, <1>5, CommitStatusFacts DEF CommitStatus
<1>6. ASSUME NEW s \in Requests, CommitCompletion(s) PROVE Goal
  <2>1. "COMPLETED" \in OpenStatuses \cup Terminal
    BY DEF Terminal
  <2> QED
    BY <1>4, <1>6, <2>1, CommitCompletionFacts
<1>7. ASSUME NEW s \in Requests, NEW written \in BOOLEAN, Audit(s, written) PROVE Goal
  BY <1>0, <1>7, AuditFacts, SameOrders
<1>8. ASSUME NEW s \in Requests, Update(s) PROVE Goal
  <2>1. ASSUME NEW o \in DOMAIN order, NEW u \in Vehicles, NEW lines \in Lines,
               UpdateEffect(s, o, u, lines)
        PROVE  Goal
    <3>1. /\ DOMAIN order' = DOMAIN order /\ order'[o].vehicle = u
          /\ order'[o].status = order[o].status
          /\ \A w \in DOMAIN order : w # o => order'[w] = order[w]
      BY <1>0, <2>1 DEF UpdateEffect, TypeOK, Order
    <3>2. order'[o].vehicle = v <=> order[o].vehicle = v
      BY <2>1, <3>1 DEF UpdateEffect
    <3>3. vehicle'[v] = vehicle[v] /\ v \notin loose
      BY <2>1 DEF UpdateEffect
    <3> QED
      BY <3>1, <3>2, <3>3, SameOrders
  <2> QED
    BY <1>1, <1>8, <2>1, UpdateFacts
<1>9. ASSUME NEW s \in Requests, Remove(s) PROVE Goal
  <2>1. ASSUME NEW o \in DOMAIN order, RemovalEffect(s, o) PROVE Goal
    <3>1. vehicle'[v] = vehicle[v] /\ v \notin loose
      BY <2>1 DEF RemovalEffect
    <3>2. ~(order[o].status = "IN_PROGRESS" /\ order[o].vehicle = v)
      BY <2>1 DEF RemovalEffect
    <3>3. /\ DOMAIN order' = DOMAIN order \ {o}
          /\ \A w \in DOMAIN order' : order'[w] = order[w]
      BY <2>1 DEF RemovalEffect
    <3> QED
      BY <3>1, <3>2, <3>3 DEF Untouched, InProgress
  <2> QED
    BY <1>1, <1>9, <2>1, RemoveFacts
<1>10. ASSUME NEW s \in Requests, CommitMovement(s) PROVE Goal
  BY <1>1, <1>10 DEF CommitMovement
<1> QED
  BY <1>1, <1>2, <1>3, <1>5, <1>6, <1>7, <1>8, <1>9, <1>10, TableSteps

\* What is written brings the vehicle in line.
LEMMA WrittenInLine ==
  ASSUME TypeOK, NEW o \in DOMAIN order, NEW to,
         vehicle[order[o].vehicle] \in {"ACTIVE", "MAINTENANCE"}
  PROVE  Written(order[o].vehicle, VehicleWrite(o, to))[order[o].vehicle]
           = IF to = "IN_PROGRESS" \/ InProgress(order[o].vehicle, o)
             THEN "MAINTENANCE" ELSE "ACTIVE"
<1>1. PICK v \in Vehicles, busy \in BOOLEAN :
        /\ v = order[o].vehicle
        /\ busy = (to = "IN_PROGRESS" \/ InProgress(order[o].vehicle, o))
  BY DEF TypeOK, Order
<1> DEFINE status == Synced(vehicle[v], busy)
<1>2. status = IF busy THEN "MAINTENANCE" ELSE "ACTIVE"
  BY <1>1 DEF Synced
<1>3. VehicleWrite(o, to) = {status} \ {vehicle[v]}
  BY <1>1 DEF VehicleWrite
<1> HIDE DEF status
<1>4. Written(v, {status} \ {vehicle[v]})[v] = status
  <2>1. CASE status = vehicle[v]
    BY <2>1 DEF Written
  <2>2. CASE status # vehicle[v]
    <3>1. {status} \ {vehicle[v]} = {status} /\ (CHOOSE s \in {status} : TRUE) = status
      BY <2>2
    <3> QED
      BY <3>1 DEF Written
  <2> QED
    BY <2>1, <2>2
<1> QED
  BY <1>1, <1>2, <1>3, <1>4

LEMMA FollowsStays ==
  ASSUME WorkshopInv, [Next]_vars
  PROVE  VehicleFollowsOrders'
<1>0. TypeOK /\ VehicleFollowsOrders
  BY DEF WorkshopInv
<1> SUFFICES ASSUME NEW v \in Vehicles, v \notin loose'
             PROVE  /\ vehicle'[v] \in {"ACTIVE", "MAINTENANCE"}
                    /\ vehicle'[v] = "MAINTENANCE" <=> InProgress(v, NoOrder)'
  BY DEF VehicleFollowsOrders, InProgress
<1>1. /\ v \notin loose
      /\ vehicle[v] \in {"ACTIVE", "MAINTENANCE"}
      /\ vehicle[v] = "MAINTENANCE" <=> InProgress(v, NoOrder)
  BY <1>0, VehicleSteps DEF VehicleFollowsOrders
<1>2. CASE Untouched(v)
  BY <1>1, <1>2 DEF Untouched
<1>3. ASSUME NEW s \in Requests, NEW o \in DOMAIN order,
             NEW to \in OpenStatuses \cup Terminal, CommitsAlone(s, o, to),
             order[o].vehicle = v
      PROVE  /\ vehicle'[v] \in {"ACTIVE", "MAINTENANCE"}
             /\ vehicle'[v] = "MAINTENANCE" <=> InProgress(v, NoOrder)'
  <2>1. req[s].vehicle = VehicleWrite(o, to)
    BY <1>1, <1>3 DEF CommitsAlone, StatusEffect, WorkshopInv, VehicleCurrent, At
  <2>2. vehicle' = Written(v, VehicleWrite(o, to))
    BY <1>3, <2>1 DEF CommitsAlone, StatusEffect
  <2>3. vehicle'[v] = IF to = "IN_PROGRESS" \/ InProgress(v, o) THEN "MAINTENANCE" ELSE "ACTIVE"
    BY <1>0, <1>1, <1>3, <2>2, WrittenInLine
  <2>4. /\ DOMAIN order' = DOMAIN order
        /\ order'[o].status = to
        /\ \A u \in DOMAIN order : order'[u].vehicle = order[u].vehicle
        /\ \A u \in DOMAIN order : u # o => order'[u] = order[u]
    BY <1>0, <1>3, StatusWritten DEF CommitsAlone, StatusEffect, TypeOK
  <2>5. NoOrder \notin DOMAIN order
    BY <1>0, WorkshopAssumption DEF TypeOK
  <2>6. InProgress(v, NoOrder)' <=> (to = "IN_PROGRESS" \/ InProgress(v, o))
    BY <1>3, <2>4, <2>5 DEF InProgress
  <2> QED
    BY <2>3, <2>6
<1> QED
  BY <1>2, <1>3, VehicleSteps

LEMMA VehicleCurrentStays ==
  ASSUME WorkshopInv, [Next]_vars, NEW r \in Requests, Kept(req[r], req'[r])
  PROVE  VehicleCurrent(req[r])'
<1>0. TypeOK /\ Locked(req[r]) /\ VehicleCurrent(req[r]) /\ req[r] \in RequestState
  BY DEF WorkshopInv, TypeOK
<1> SUFFICES ASSUME At(r, "writing")' \/ (Completing(req[r])' /\ MayCommit(req[r])'),
                    order'[req'[r].call.order].vehicle \notin loose'
             PROVE  req'[r].vehicle = VehicleWrite(req[r].call.order, req[r].call.to)'
  BY DEF VehicleCurrent, At
<1>1. req'[r] = req[r]
  BY <1>0, KeptFields DEF At, MayCommit, Open
<1>2. At(r, "writing") \/ (Completing(req[r]) /\ MayCommit(req[r]))
  BY <1>1 DEF At, Completing, MayCommit, Open
<1>3. PICK o \in DOMAIN order, to \in OpenStatuses \cup Terminal, v \in Vehicles :
        o = req[r].call.order /\ to = req[r].call.to /\ v = order[o].vehicle
  <2>1. req[r].call.order \in DOMAIN order
    BY <1>0, <1>2 DEF Locked, At
  <2>2. order[req[r].call.order].vehicle \in Vehicles
    BY <1>0, <2>1 DEF TypeOK, Order
  <2>3. req[r].call \in StatusCall
    BY <1>0, <1>2, StepTypes DEF At, WritingState, CompletionState
  <2>4. req[r].call.to \in OpenStatuses \cup Terminal
    BY <2>3 DEF StatusCall
  <2> QED
    BY <2>1, <2>2, <2>4
<1>4. o \in DOMAIN order' /\ order'[o].vehicle = v /\ v \notin loose'
  BY <1>1, <1>2, <1>3, RowStays
<1>5. OnVehicle(r, v)
  BY <1>2, <1>3 DEF OnVehicle, Completing, MayCommit
<1>6. ASSUME NEW s \in Requests, NEW u \in DOMAIN order, NEW toward,
             CommitsAlone(s, u, toward), order[u].vehicle = v
      PROVE  FALSE
  <2>1. s # r
    BY <1>1, <1>2, <1>6 DEF CommitsAlone, StatusEffect, Moves, At, Completing, MayCommit, Open
  <2>2. ~At(r, "writing") /\ ~At(s, "writing")
    BY <1>5, <1>6, <2>1 DEF CommitsAlone, Overlaps
  <2>3. CommitCompletion(s) /\ Completing(req[r]) /\ MayCommit(req'[r])
    BY <1>1, <1>2, <1>6, <2>2 DEF CommitsAlone
  <2>4. <<"count", v>> \in req[r].writes
    BY <1>0, <1>3, <2>3 DEF Locked
  <2>5. PICK w \in DOMAIN order, draw \in [Parts -> Nat] :
          StatusEffect(s, w, "COMPLETED") /\ DrawEffect(s, w, draw)
    BY <2>3, CommitCompletionFacts
  <2>6. w = u
    BY <1>6, <2>5 DEF StatusEffect, CommitsAlone
  <2> QED
    BY <1>6, <2>1, <2>3, <2>4, <2>5, <2>6 DEF DrawEffect
<1>7. Untouched(v) /\ v \notin loose
  BY <1>4, <1>6, VehicleSteps
<1>8. VehicleWrite(o, to)' = VehicleWrite(o, to)
  BY <1>3, <1>4, <1>7 DEF VehicleWrite, Untouched
<1>9. req[r].vehicle = VehicleWrite(o, to)
  BY <1>0, <1>2, <1>3, <1>7 DEF VehicleCurrent, At
<1> QED
  BY <1>1, <1>3, <1>8, <1>9

----
(***************************************************************************)
(* The parts of an order.                                                    *)
(***************************************************************************)

\* No step makes a second consumption of a part by one order.
LEMMA ConsumedOnceStays ==
  ASSUME WorkshopInv, [Next]_vars
  PROVE  ConsumedOnce'
<1>0. TypeOK /\ ConsumedOnce
  BY DEF WorkshopInv
<1>1. ASSUME UNCHANGED moves PROVE ConsumedOnce'
  BY <1>0, <1>1 DEF ConsumedOnce
<1>2. ASSUME NEW r \in Requests, CommitCompletion(r) PROVE ConsumedOnce'
  <2>1. PICK u \in DOMAIN order, draw \in [Parts -> Nat] :
          StatusEffect(r, u, "COMPLETED") /\ DrawEffect(r, u, draw)
    BY <1>2, CommitCompletionFacts
  <2> SUFFICES ASSUME NEW o \in Orders, NEW p \in Parts,
                      NEW i \in DOMAIN moves'[p], NEW j \in DOMAIN moves'[p],
                      moves'[p][i].order = o, moves'[p][i].consumption,
                      moves'[p][j].order = o, moves'[p][j].consumption
               PROVE  i = j
    BY DEF ConsumedOnce
  <2>2. CASE ~(draw[p] > 0)
    <3>1. moves'[p] = moves[p]
      BY <2>1, <2>2 DEF DrawEffect
    <3> QED
      BY <1>0, <3>1 DEF ConsumedOnce
  <2>3. CASE draw[p] > 0
    <3>1. PICK m \in Movement : m = [delta |-> -draw[p], order |-> u, consumption |-> TRUE]
      <4>1. -draw[p] \in Int /\ u \in Orders
        BY <1>0, <2>1 DEF TypeOK
      <4> QED
        BY <4>1 DEF Movement
    <3>2. moves'[p] = Append(moves[p], m) /\ ~Consumed(u, p)
      BY <2>1, <2>3, <3>1 DEF DrawEffect
    <3>3. moves[p] \in Seq(Movement)
      BY <1>0 DEF TypeOK
    <3>4. /\ \A k \in DOMAIN moves[p] : moves'[p][k] = moves[p][k]
          /\ moves'[p][Len(moves[p]) + 1] = m
          /\ \A k \in DOMAIN moves'[p] : k \in DOMAIN moves[p] \/ k = Len(moves[p]) + 1
      BY <3>2, <3>3, Appended
    <3>5. m.order = u
      BY <3>1
    <3>6. \A k \in DOMAIN moves[p] : ~(moves[p][k].order = u /\ moves[p][k].consumption)
      BY <3>2 DEF Consumed
    <3> QED
      BY <1>0, <3>4, <3>5, <3>6 DEF ConsumedOnce
  <2> QED
    BY <2>2, <2>3
<1>3. ASSUME NEW r \in Requests, CommitMovement(r) PROVE ConsumedOnce'
  <2>1. PICK u \in Parts, m \in Movement : MovementEffect(r, u, m)
    BY <1>3, CommitMovementFacts
  <2> SUFFICES ASSUME NEW o \in Orders, NEW p \in Parts,
                      NEW i \in DOMAIN moves'[p], NEW j \in DOMAIN moves'[p],
                      moves'[p][i].order = o, moves'[p][i].consumption,
                      moves'[p][j].order = o, moves'[p][j].consumption
               PROVE  i = j
    BY DEF ConsumedOnce
  <2>2. CASE p # u
    <3>1. moves'[p] = moves[p]
      BY <1>0, <2>1, <2>2 DEF MovementEffect, TypeOK
    <3> QED
      BY <1>0, <3>1 DEF ConsumedOnce
  <2>3. CASE p = u
    <3>1. moves'[p] = Append(moves[p], m) /\ ~m.consumption /\ moves[p] \in Seq(Movement)
      BY <1>0, <2>1, <2>3 DEF MovementEffect, TypeOK
    <3>2. /\ \A k \in DOMAIN moves[p] : moves'[p][k] = moves[p][k]
          /\ moves'[p][Len(moves[p]) + 1] = m
          /\ \A k \in DOMAIN moves'[p] : k \in DOMAIN moves[p] \/ k = Len(moves[p]) + 1
      BY <3>1, Appended
    <3> QED
      BY <1>0, <3>1, <3>2 DEF ConsumedOnce
  <2> QED
    BY <2>2, <2>3
<1>4. ASSUME NEW r \in Requests, Remove(r) PROVE ConsumedOnce'
  <2>1. ASSUME NEW u \in DOMAIN order, RemovalEffect(r, u) PROVE ConsumedOnce'
    <3>1. u \in Orders /\ NoOrder # u /\ NoOrder \notin Orders
      BY <1>0, WorkshopAssumption DEF TypeOK
    <3> QED
      BY <1>0, <2>1, <3>1, UnlinkedKeeps DEF ConsumedOnce
  <2> QED
    BY <1>1, <1>4, <2>1, RemoveFacts
<1> QED
  BY <1>1, <1>2, <1>3, <1>4, TableSteps
     DEF Create, UpdateVehicleStatus, CommitStatus, Audit, Update

----
(***************************************************************************)
(* The invariant.                                                            *)
(***************************************************************************)

\* What a handler has just read is true.
LEMMA JustRead ==
  ASSUME WorkshopInv, NEW r \in Requests, Handle(r),
         WriteStatus(r) \/ BeginCompletion(r) \/ BeginMovement(r)
  PROVE  Locked(req[r])' /\ Current(req[r])' /\ VehicleCurrent(req[r])'
<1>0. TypeOK /\ req[r] \in RequestState
  BY DEF WorkshopInv, TypeOK
<1> DEFINE Goal == Locked(req[r])' /\ Current(req[r])' /\ VehicleCurrent(req[r])'
<1>1. ASSUME Light(req'[r]) PROVE Goal
  BY <1>1, LightHolds DEF Light, Locked, Current, VehicleCurrent, Completing, Moving,
                          MayCommit, Open
<1>2. ASSUME Become(r, Idle) PROVE Goal
  <2>1. req'[r] = Idle
    BY <1>0, <1>2 DEF Become, TypeOK
  <2> QED
    BY <1>1, <2>1 DEF Light, Idle
<1>3. CASE WriteStatus(r)
  <2> DEFINE o == req[r].call.order
  <2>1. CASE o \notin DOMAIN order
    BY <1>2, <1>3, <2>1 DEF WriteStatus
  <2>2. CASE o \in DOMAIN order
    <3>1. /\ req'[r] = [step |-> "writing", call |-> req[r].call,
                        vehicle |-> VehicleWrite(o, req[r].call.to)]
          /\ UNCHANGED <<order, vehicle, loose>>
      BY <1>0, <1>3, <2>2 DEF WriteStatus, Become, TypeOK
    <3>2. PICK u, to, write :
            /\ u = req[r].call.order /\ to = req[r].call.to
            /\ write = VehicleWrite(u, to)
      OBVIOUS
    <3>3. /\ req'[r].step = "writing" /\ req'[r].call.order = u /\ req'[r].call.to = to
          /\ req'[r].vehicle = write /\ u \in DOMAIN order'
      BY <2>2, <3>1, <3>2
    <3>4. VehicleWrite(u, to)' = write
      BY <3>1, <3>2 DEF VehicleWrite, InProgress
    <3>5. ~Open(req'[r])
      BY <3>3 DEF Open
    <3> QED
      BY <3>3, <3>4, <3>5
         DEF Locked, Current, VehicleCurrent, Completing, Moving, MayCommit, Open, VehicleWrite,
             InProgress
  <2> QED
    BY <2>1, <2>2
<1>4. CASE BeginCompletion(r)
  <2> DEFINE o == req[r].call.order
  <2>1. CASE ~(o \in DOMAIN order /\ Enough(Draw(o)))
    BY <1>2, <1>4, <2>1 DEF BeginCompletion
  <2>2. CASE o \in DOMAIN order /\ Enough(Draw(o))
    <3>1. PICK u, draw, write, rows :
            /\ u = req[r].call.order /\ draw = Draw(u)
            /\ write = VehicleWrite(u, "COMPLETED") /\ rows = CompletionRows(u)
      OBVIOUS
    <3>2. /\ req'[r] = [step |-> "open", call |-> req[r].call, second |-> req[r].second,
                        doomed |-> FALSE, writes |-> rows, draw |-> draw, seen |-> stock,
                        vehicle |-> write]
          /\ req[r].call.op = "status" /\ req[r].call.to = "COMPLETED"
          /\ UNCHANGED <<order, vehicle, stock, moves, loose>>
      BY <1>0, <1>4, <2>2, <3>1 DEF BeginCompletion, Become, TypeOK
    <3>3. /\ req'[r].step = "open" /\ req'[r].call.op = "status"
          /\ req'[r].call.order = u /\ req'[r].call.to = "COMPLETED"
          /\ req'[r].writes = rows /\ req'[r].draw = draw /\ req'[r].seen = stock
          /\ req'[r].vehicle = write
      BY <3>1, <3>2
    <3>4. /\ u \in DOMAIN order' /\ u \in rows /\ <<"count", order'[u].vehicle>> \in rows
          /\ \A p \in Parts : draw[p] > 0 => p \in rows /\ draw[p] <= stock[p]
      BY <2>2, <3>1, <3>2 DEF CompletionRows, Enough
    <3>5. \A p \in Parts : draw[p] > 0 => ~Consumed(u, p)'
      BY <3>1, <3>2 DEF Draw, AlreadyConsumed, Consumed
    <3>6. VehicleWrite(u, "COMPLETED")' = write
      BY <3>1, <3>2 DEF VehicleWrite, InProgress
    <3>7. Completing(req'[r]) /\ ~Moving(req'[r])
      BY <3>3 DEF Completing, Moving, Open
    <3>8. Locked(req[r])'
      BY <3>3, <3>4, <3>7 DEF Locked, Completing, Moving, Open
    <3>9. Current(req[r])'
      <4>1. stock' = stock
        BY <3>2
      <4> QED
        BY <3>3, <3>5, <4>1 DEF Current, Consumed
    <3>10. VehicleCurrent(req[r])'
      BY <3>3, <3>6 DEF VehicleCurrent, VehicleWrite, InProgress
    <3> QED
      BY <3>8, <3>9, <3>10
  <2> QED
    BY <2>1, <2>2
<1>5. CASE BeginMovement(r)
  <2> DEFINE p == req[r].call.part
  <2>1. CASE ~(stock[p] + req[r].call.delta >= 0)
    BY <1>2, <1>5, <2>1 DEF BeginMovement
  <2>2. CASE stock[p] + req[r].call.delta >= 0
    <3>1. /\ req'[r] = [step |-> "open", call |-> req[r].call, second |-> req[r].second,
                        doomed |-> FALSE, writes |-> {p}, seen |-> stock]
          /\ req[r].call.op = "stock" /\ stock' = stock
      BY <1>0, <1>5, <2>2 DEF BeginMovement, Become, TypeOK
    <3>2. PICK call : call = req[r].call
      OBVIOUS
    <3>3. /\ req'[r].step = "open" /\ req'[r].call = call /\ call.op = "stock"
          /\ req'[r].writes = {call.part} /\ req'[r].seen = stock
          /\ stock[call.part] + call.delta >= 0
      BY <2>2, <3>1, <3>2
    <3>4. Moving(req'[r]) /\ ~Completing(req'[r])
      BY <3>3 DEF Completing, Moving, Open
    <3>5. Locked(req[r])'
      BY <3>3, <3>4 DEF Locked, Completing, Moving, Open
    <3>6. Current(req[r])'
      BY <3>1, <3>3, <3>4 DEF Current, Completing, Open
    <3>7. VehicleCurrent(req[r])'
      BY <3>3, <3>4 DEF VehicleCurrent, Completing, Open
    <3> QED
      BY <3>5, <3>6, <3>7
  <2> QED
    BY <2>1, <2>2
<1> QED
  BY <1>3, <1>4, <1>5

LEMMA InvStep ==
  ASSUME WorkshopInv, [Next]_vars
  PROVE  WorkshopInv'
<1>0. TypeOK
  BY DEF WorkshopInv
<1>1. ASSUME NEW r \in Requests
      PROVE  Locked(req[r])' /\ Current(req[r])' /\ VehicleCurrent(req[r])'
  <2>1. CASE Kept(req[r], req'[r])
    BY <2>1, LockedStays, CurrentStays, VehicleCurrentStays
  <2>2. CASE Light(req'[r])
    BY <2>2 DEF Light, Locked, Current, VehicleCurrent, Completing, Moving, MayCommit, Open
  <2>3. CASE WriteStatus(r) \/ BeginCompletion(r) \/ BeginMovement(r)
    BY <2>3, JustRead DEF Handle
  <2> QED
    BY <1>0, <2>1, <2>2, <2>3, HandlerSteps
<1>2. TypeOK' /\ ConsumedOnce' /\ VehicleFollowsOrders'
  BY TypeStep, ConsumedOnceStays, FollowsStays
<1>3. \A r \in Requests : Locked(req[r])' /\ Current(req[r])' /\ VehicleCurrent(req[r])'
  BY <1>1
<1> QED
  BY <1>2, <1>3 DEF WorkshopInv

\* The inductive invariant of the workshop: what a transaction holds is what it would
\* read again, for as long as it may commit.
THEOREM WorkshopInvariance == Spec => []WorkshopInv
<1>1. Init => WorkshopInv
  BY InvInit
<1>2. WorkshopInv /\ [Next]_vars => WorkshopInv'
  BY InvStep
<1> QED
  BY <1>1, <1>2, PTL DEF Spec

\* The rows keep their form, no part's stock is negative, and a handler is in one of the
\* states of the call that it answers.
THEOREM WorkshopTypes == Spec => []TypeOK
<1>1. WorkshopInv => TypeOK
  BY DEF WorkshopInv
<1> QED
  BY <1>1, WorkshopInvariance, PTL

\* However completions are repeated, retried and interleaved with removals and movements
\* by hand, the parts of an order are taken from stock once.
THEOREM PartsConsumedOnce == Spec => []ConsumedOnce
<1>1. WorkshopInv => ConsumedOnce
  BY DEF WorkshopInv
<1> QED
  BY <1>1, WorkshopInvariance, PTL

\* A vehicle is in the workshop exactly while one of its orders is in progress, unless one
\* of the ways out of touch that "loose" records has happened to it.
THEOREM VehiclesFollow == Spec => []VehicleFollowsOrders
<1>1. WorkshopInv => VehicleFollowsOrders
  BY DEF WorkshopInv
<1> QED
  BY <1>1, WorkshopInvariance, PTL

----
(***************************************************************************)
(* The stock book.                                                           *)
(***************************************************************************)

Entries == [p \in Parts |-> [i \in DOMAIN moves[p] |-> moves[p][i].delta]]

\* A function on 1..n with integer values is a sequence of length n.
LEMMA FunctionIsSequence ==
  ASSUME NEW n \in Nat, NEW f, f = [i \in 1..n |-> f[i]], \A i \in 1..n : f[i] \in Int
  PROVE  f \in Seq(Int) /\ Len(f) = n
OBVIOUS

\* The quantities of a sequence of movements, and of one more.
LEMMA OneEntryMore ==
  ASSUME NEW old \in Seq(Movement), NEW m \in Movement
  PROVE  [i \in DOMAIN Append(old, m) |-> Append(old, m)[i].delta]
           = Append([i \in DOMAIN old |-> old[i].delta], m.delta)
<1> DEFINE new == Append(old, m)
           before == [i \in DOMAIN old |-> old[i].delta]
           after == [i \in DOMAIN new |-> new[i].delta]
<1>1. /\ DOMAIN old = 1..Len(old) /\ Len(old) \in Nat
      /\ DOMAIN new = 1..(Len(old) + 1)
      /\ \A i \in DOMAIN old : new[i] = old[i] /\ old[i] \in Movement
      /\ new[Len(old) + 1] = m
  BY Appended
<1>2. m.delta \in Int /\ \A i \in 1..Len(old) : before[i] \in Int
  BY <1>1 DEF Movement
<1>3. before = [i \in 1..Len(old) |-> before[i]]
  BY <1>1
<1> HIDE DEF before
<1>4. before \in Seq(Int) /\ Len(before) = Len(old)
  BY <1>1, <1>2, <1>3, FunctionIsSequence
<1>5. /\ Append(before, m.delta) \in Seq(Int)
      /\ DOMAIN Append(before, m.delta) = 1..(Len(old) + 1)
      /\ \A i \in 1..Len(old) : Append(before, m.delta)[i] = before[i]
      /\ Append(before, m.delta)[Len(old) + 1] = m.delta
  BY <1>1, <1>2, <1>4, Appended
<1>6. Append(before, m.delta) = [i \in 1..(Len(old) + 1) |-> Append(before, m.delta)[i]]
  BY <1>5
<1>7. \A i \in 1..(Len(old) + 1) : new[i].delta = Append(before, m.delta)[i]
  BY <1>1, <1>5 DEF before
<1> HIDE DEF new
<1>8. after = [i \in 1..(Len(old) + 1) |-> Append(before, m.delta)[i]]
  BY <1>1, <1>7
<1> QED
  BY <1>6, <1>8 DEF new, before

\* Every step of the workshop is a step of the book or invisible to it.
LEMMA StepBook ==
  ASSUME WorkshopInv, TypeOK', [Next]_vars
  PROVE  [Book!Next]_(Book!vars)
<1>0. TypeOK
  BY DEF WorkshopInv
<1>1. ASSUME UNCHANGED <<stock, moves>> PROVE UNCHANGED Book!vars
  BY <1>1 DEF Book!vars
<1>2. ASSUME \A p \in Parts :
               \/ Entries'[p] = Append(Entries[p], stock'[p] - stock[p])
               \/ stock'[p] = stock[p] /\ Entries'[p] = Entries[p]
      PROVE  Book!Next
  <2>1. stock' \in [Parts -> Int] /\ DOMAIN Entries' = Parts
    BY DEF TypeOK, Entries
  <2>2. \A p \in Parts : stock'[p] \in [u \in Parts |-> Nat][p]
    BY DEF TypeOK
  <2> QED
    BY <1>2, <2>1, <2>2 DEF Book!Next, Book!Moves, Book!Rests, Entries
<1>3. ASSUME NEW r \in Requests, CommitCompletion(r) PROVE Book!Next
  <2>1. PICK o \in DOMAIN order, draw \in [Parts -> Nat] :
          StatusEffect(r, o, "COMPLETED") /\ DrawEffect(r, o, draw)
    BY <1>3, CommitCompletionFacts
  <2>2. ASSUME NEW p \in Parts
        PROVE  \/ Entries'[p] = Append(Entries[p], stock'[p] - stock[p])
               \/ stock'[p] = stock[p] /\ Entries'[p] = Entries[p]
    <3>1. stock'[p] = stock[p] - draw[p] /\ stock[p] \in Nat /\ draw[p] \in Nat
      BY <1>0, <2>1 DEF DrawEffect, TypeOK
    <3>2. CASE ~(draw[p] > 0)
      <4>1. moves'[p] = moves[p]
        BY <2>1, <3>2 DEF DrawEffect
      <4>2. stock'[p] = stock[p]
        BY <3>1, <3>2
      <4> QED
        BY <4>1, <4>2 DEF Entries
    <3>3. CASE draw[p] > 0
      <4>1. PICK m \in Movement : m = [delta |-> -draw[p], order |-> o, consumption |-> TRUE]
        <5>1. -draw[p] \in Int /\ o \in Orders
          BY <1>0, <2>1, <3>1 DEF TypeOK
        <5> QED
          BY <5>1 DEF Movement
      <4>2. moves'[p] = Append(moves[p], m) /\ moves[p] \in Seq(Movement)
        BY <1>0, <2>1, <3>3, <4>1 DEF DrawEffect, TypeOK
      <4>3. Entries'[p] = Append(Entries[p], m.delta)
        BY <4>2, OneEntryMore DEF Entries
      <4>4. m.delta = stock'[p] - stock[p]
        BY <3>1, <4>1
      <4> QED
        BY <4>3, <4>4
    <3> QED
      BY <3>2, <3>3
  <2> QED
    BY <1>2, <2>2
<1>4. ASSUME NEW r \in Requests, CommitMovement(r) PROVE Book!Next
  <2>1. PICK u \in Parts, m \in Movement : MovementEffect(r, u, m)
    BY <1>4, CommitMovementFacts
  <2>2. ASSUME NEW p \in Parts
        PROVE  \/ Entries'[p] = Append(Entries[p], stock'[p] - stock[p])
               \/ stock'[p] = stock[p] /\ Entries'[p] = Entries[p]
    <3>1. CASE p # u
      <4>1. moves'[p] = moves[p] /\ stock'[p] = stock[p]
        BY <1>0, <2>1, <3>1 DEF MovementEffect, TypeOK
      <4> QED
        BY <4>1 DEF Entries
    <3>2. CASE p = u
      <4>1. moves'[p] = Append(moves[p], m) /\ moves[p] \in Seq(Movement)
        BY <1>0, <2>1, <3>2 DEF MovementEffect, TypeOK
      <4>2. Entries'[p] = Append(Entries[p], m.delta)
        BY <4>1, OneEntryMore DEF Entries
      <4>3. m.delta = stock'[p] - stock[p]
        BY <1>0, <2>1, <3>2 DEF MovementEffect, TypeOK, Movement
      <4> QED
        BY <4>2, <4>3
    <3> QED
      BY <3>1, <3>2
  <2> QED
    BY <1>2, <2>2
<1>5. ASSUME NEW r \in Requests, Remove(r) PROVE Book!Next \/ UNCHANGED Book!vars
  <2>1. ASSUME NEW o \in DOMAIN order, RemovalEffect(r, o) PROVE Book!Next
    <3>1. NoOrder # o
      BY <1>0, WorkshopAssumption DEF TypeOK
    <3>2. ASSUME NEW p \in Parts
          PROVE  stock'[p] = stock[p] /\ Entries'[p] = Entries[p]
      <4>1. /\ DOMAIN moves'[p] = DOMAIN moves[p]
            /\ \A i \in DOMAIN moves[p] : moves'[p][i].delta = moves[p][i].delta
        BY <1>0, <2>1, <3>1, UnlinkedKeeps
      <4> QED
        BY <2>1, <4>1 DEF Entries, RemovalEffect
    <3> QED
      BY <1>2, <3>2
  <2> QED
    BY <1>1, <1>5, <2>1, RemoveFacts
<1> QED
  BY <1>1, <1>3, <1>4, <1>5, TableSteps
     DEF Create, UpdateVehicleStatus, CommitStatus, Audit, Update

\* The parts store implements the stock book: whatever completions and movements by hand
\* do, a stock changes only with one movement of exactly that size, and is never negative.
THEOREM WorkshopRefinement == Spec => ImplementsStockBook
<1>1. Init => Book!Init
  BY DEF Init, Book!Init
<1>2. WorkshopInv /\ WorkshopInv' /\ [Next]_vars => [Book!Next]_(Book!vars)
  BY StepBook DEF WorkshopInv
<1> QED
  BY <1>1, <1>2, WorkshopInvariance, PTL DEF Spec, ImplementsStockBook, Book!Spec

=============================================================================

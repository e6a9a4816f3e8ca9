---------------------------- MODULE FuelTankProofs ----------------------------
(***************************************************************************)
(* Proofs about FuelTank, for any tanks, capacities, quantities, supplies    *)
(* and requests: the shape of the state, then that the ledger is a chain, a  *)
(* confirmed check is exact, every supply draws once, and the tanks          *)
(* implement the stock book.                                                 *)
(*                                                                           *)
(* What carries them is SnapshotIsCurrent: a transaction that may still      *)
(* commit a movement read the balance that the tank has now.                 *)
(***************************************************************************)
EXTENDS FuelTank, SequenceTheorems, TLAPS

(***************************************************************************)
(* Appending a movement.                                                     *)
(***************************************************************************)

\* A movement appended to a ledger leaves the older ones where they were.
LEMMA Appended ==
  ASSUME NEW S, NEW old \in Seq(S), NEW m \in S
  PROVE  /\ Append(old, m) \in Seq(S)
         /\ Len(Append(old, m)) = Len(old) + 1
         /\ DOMAIN old = 1..Len(old)
         /\ DOMAIN Append(old, m) = 1..(Len(old) + 1)
         /\ \A i \in DOMAIN old : Append(old, m)[i] = old[i]
         /\ Append(old, m)[Len(old) + 1] = m
OBVIOUS

----
(***************************************************************************)
(* What the handlers hold.                                                   *)
(***************************************************************************)

ReadyState == [step: {"ready"}, call: Call, second: BOOLEAN]

OpenState == [step: {"open"}, call: Call, second: BOOLEAN, balance: Int,
              writes: SUBSET Tanks, doomed: BOOLEAN]

\* A handler is idle, about to run its transaction, or in it.
LEMMA StepTypes ==
  ASSUME TypeOK, NEW r \in Requests
  PROVE  /\ At(r, "ready") => req[r] \in ReadyState
         /\ Open(req[r]) => req[r] \in OpenState
         /\ req[r] \in RequestState
BY DEF TypeOK, RequestState, ReadyState, OpenState, Idle, At, Open

\* What each kind of call holds.
LEMMA CallTypes ==
  ASSUME NEW call \in Call
  PROVE  /\ call.tank \in Tanks
         /\ call.op \in {"receipt", "fuel", "remove", "check"}
         /\ call.op = "receipt" => call \in [op: {"receipt"}, tank: Tanks, litres: Int]
         /\ call.op \in {"fuel", "remove"} =>
              call \in [op: {"fuel", "remove"}, tank: Tanks, litres: Int, supply: Supplies,
                        event: Events \cup {NoEvent}]
         /\ call.op = "check" =>
              call \in [op: {"check"}, tank: Tanks, measured: Int, adjust: BOOLEAN]
BY DEF Call

\* The movement of a call is a row of the ledger.
LEMMA MovementType ==
  ASSUME NEW call \in Call, NEW from \in Int
  PROVE  /\ NextBalance(call, from) \in Int
         /\ NewMovement(call, from) \in Movement
         /\ NewMovement(call, from).from = from
         /\ NewMovement(call, from).to = NextBalance(call, from)
         /\ NewMovement(call, from).supply = LinkOf(call)
         /\ NewMovement(call, from).type = TypeOf(call)
         /\ Moves(call, from) \in BOOLEAN
<1>1. NextBalance(call, from) \in Int
  BY CallTypes DEF NextBalance
<1>2. TypeOf(call) \in Types
  BY CallTypes DEF TypeOf, Types
<1>3. LinkOf(call) \in Supplies \cup {NoSupply}
  BY CallTypes DEF LinkOf
<1> QED
  BY <1>1, <1>2, <1>3, CallTypes DEF NewMovement, Movement, Moves

\* Dooming transactions keeps their shape, and what they hold.
LEMMA DoomType ==
  ASSUME NEW txs \in [Requests -> RequestState], NEW rows
  PROVE  /\ Doom(txs, rows) \in [Requests -> RequestState]
         /\ \A r \in Requests :
              /\ Doom(txs, rows)[r].step = txs[r].step
              /\ txs[r].step # "open" => Doom(txs, rows)[r] = txs[r]
              /\ txs[r].step = "open" =>
                   /\ Doom(txs, rows)[r].call = txs[r].call
                   /\ Doom(txs, rows)[r].balance = txs[r].balance
                   /\ Doom(txs, rows)[r].writes = txs[r].writes
                   /\ ~Doom(txs, rows)[r].doomed =>
                        ~txs[r].doomed /\ txs[r].writes \cap rows = {}
<1> SUFFICES ASSUME NEW r \in Requests
             PROVE  /\ Doom(txs, rows)[r] \in RequestState
                    /\ Doom(txs, rows)[r].step = txs[r].step
                    /\ txs[r].step # "open" => Doom(txs, rows)[r] = txs[r]
                    /\ txs[r].step = "open" =>
                         /\ Doom(txs, rows)[r].call = txs[r].call
                         /\ Doom(txs, rows)[r].balance = txs[r].balance
                         /\ Doom(txs, rows)[r].writes = txs[r].writes
                         /\ ~Doom(txs, rows)[r].doomed =>
                              ~txs[r].doomed /\ txs[r].writes \cap rows = {}
  BY DEF Doom
<1>1. CASE txs[r].step # "open"
  BY <1>1 DEF Doom, Open
<1>2. CASE txs[r].step = "open"
  <2>1. txs[r] \in OpenState
    BY <1>2 DEF RequestState, OpenState, Idle
  <2>2. Doom(txs, rows)[r] \in OpenState
    BY <1>2, <2>1 DEF Doom, Open, OpenState
  <2> QED
    BY <1>2, <2>1, <2>2 DEF Doom, Open, OpenState, RequestState
<1> QED
  BY <1>1, <1>2

----
(***************************************************************************)
(* Types.                                                                    *)
(***************************************************************************)

\* Starting a transaction, or failing to, leaves the handler in a state of its type.
LEMMA BeginType ==
  ASSUME TypeOK, NEW r \in Requests, NEW call \in Call, NEW second \in BOOLEAN,
         call.tank \in DOMAIN tank, BeginWith(r, call, second)
  PROVE  req' \in [Requests -> RequestState]
<1>1. tank[call.tank].balance \in Int
  BY DEF TypeOK, Tank
<1>2. call.tank \in Tanks
  BY CallTypes
<1>3. [step |-> "open", call |-> call, second |-> second, balance |-> tank[call.tank].balance,
       doomed |-> FALSE,
       writes |-> IF Moves(call, tank[call.tank].balance) THEN {call.tank} ELSE {}] \in OpenState
  BY <1>1, <1>2 DEF OpenState
<1> QED
  BY <1>3 DEF BeginWith, Become, TypeOK, RequestState, OpenState

\* The supplies that a transaction leaves behind are rows of the table.
LEMMA SupplyType ==
  ASSUME TypeOK, NEW call \in Call, SupplyWrite(call)
  PROVE  DOMAIN supply' \subseteq Supplies /\ supply' \in [DOMAIN supply' -> Supply]
<1>1. CASE call.op = "fuel"
  <2>1. call.supply \in Supplies
        /\ [tank |-> call.tank, litres |-> call.litres, event |-> call.event] \in Supply
    BY <1>1, CallTypes DEF Supply
  <2>2. supply' = [s \in DOMAIN supply \cup {call.supply} |->
                     IF s = call.supply
                     THEN [tank |-> call.tank, litres |-> call.litres, event |-> call.event]
                     ELSE supply[s]]
    BY <1>1 DEF SupplyWrite
  <2> QED
    BY <2>1, <2>2 DEF TypeOK
<1>2. CASE call.op = "remove"
  <2>1. supply' = [s \in DOMAIN supply \ {call.supply} |-> supply[s]]
    BY <1>2 DEF SupplyWrite
  <2> QED
    BY <2>1 DEF TypeOK
<1>3. CASE call.op \in {"receipt", "check"}
  BY <1>3 DEF SupplyWrite, TypeOK
<1> QED
  BY <1>1, <1>2, <1>3, CallTypes

\* A handler about to run its transaction names a tank that exists.
CallsNameTanks ==
  \A r \in Requests : req[r].step \in {"ready", "open"} => req[r].call.tank \in DOMAIN tank

\* A live supply belongs to a tank that exists.
SuppliesNameTanks == \A s \in DOMAIN supply : supply[s].tank \in DOMAIN tank

Shape == TypeOK /\ CallsNameTanks /\ SuppliesNameTanks

\* The three parts of Shape in the first state.
LEMMA InitShape ==
  ASSUME Init PROVE Shape
<1>1. TypeOK
  BY DEF Init, TypeOK, RequestState
<1>2. CallsNameTanks /\ SuppliesNameTanks
  BY DEF Init, CallsNameTanks, SuppliesNameTanks, Idle
<1> QED
  BY <1>1, <1>2 DEF Shape

\* Every step keeps the types, and the tanks that calls and supplies name.
LEMMA StepShape ==
  ASSUME Shape, [Next]_vars
  PROVE  Shape'
<1> USE DEF Shape
<1>1. CASE UNCHANGED vars
  BY <1>1 DEF vars, TypeOK, CallsNameTanks, SuppliesNameTanks
<1>2. ASSUME NEW t \in Tanks, NEW initial \in Litres \cup {0}, CreateTank(t, initial)
      PROVE  Shape'
  <2>1. initial \in Int
    BY TankAssumption
  <2>2. [balance |-> initial, active |-> TRUE] \in Tank
        /\ DOMAIN tank' = DOMAIN tank \cup {t}
    BY <1>2, <2>1 DEF CreateTank, Tank
  <2>3. [type |-> "INITIAL_BALANCE", from |-> 0, to |-> initial, supply |-> NoSupply] \in Movement
    BY <2>1 DEF Movement, Types
  <2>4. tank' \in [DOMAIN tank' -> Tank]
    BY <1>2, <2>2 DEF CreateTank, TypeOK
  <2>5. log' \in [Tanks -> Seq(Movement)]
    BY <1>2, <2>3 DEF CreateTank, TypeOK
  <2> QED
    BY <1>2, <2>2, <2>4, <2>5 DEF CreateTank, TypeOK, CallsNameTanks, SuppliesNameTanks
<1>3. ASSUME NEW t \in Tanks, NEW active \in BOOLEAN, UpdateTankStatus(t, active)
      PROVE  Shape'
  <2>1. tank' \in [DOMAIN tank -> Tank] /\ DOMAIN tank' = DOMAIN tank
    BY <1>3 DEF UpdateTankStatus, TypeOK, Tank
  <2>2. req' = Doom(req, {t}) /\ req \in [Requests -> RequestState]
    BY <1>3 DEF UpdateTankStatus, TypeOK
  <2>3. TypeOK'
    BY <1>3, <2>1, <2>2, DoomType DEF UpdateTankStatus, TypeOK
  <2>4. CallsNameTanks'
    <3> SUFFICES ASSUME NEW r \in Requests, req'[r].step \in {"ready", "open"}
                 PROVE  req'[r].call.tank \in DOMAIN tank
      BY <2>1 DEF CallsNameTanks
    <3>1. req'[r].step = req[r].step /\ req'[r].call = req[r].call
      BY <2>2, DoomType
    <3> QED
      BY <3>1 DEF CallsNameTanks
  <2> QED
    BY <1>3, <2>1, <2>3, <2>4 DEF UpdateTankStatus, SuppliesNameTanks
<1>4. ASSUME NEW r \in Requests, Handle(r)
      PROVE  Shape'
  <2>1. ASSUME NEW call \in Call, NEW second \in BOOLEAN, call.tank \in DOMAIN tank,
               BeginWith(r, call, second), UNCHANGED <<tank, log, supply, checks>>
        PROVE  Shape'
    <3>1. req' \in [Requests -> RequestState]
      BY <2>1, BeginType
    <3>2. \A q \in Requests : req'[q].step \in {"ready", "open"} =>
            \/ q = r /\ req'[q].call = call
            \/ q # r /\ req'[q] = req[q]
      BY <2>1 DEF BeginWith, Become, TypeOK, Idle
    <3> QED
      BY <2>1, <3>1, <3>2 DEF TypeOK, CallsNameTanks, SuppliesNameTanks
  <2>2. ASSUME NEW state \in RequestState, Become(r, state), UNCHANGED <<tank, log, supply, checks>>,
               state.step \in {"ready", "open"} => state.call.tank \in DOMAIN tank
        PROVE  Shape'
    BY <2>2 DEF Become, TypeOK, CallsNameTanks, SuppliesNameTanks
  <2>3. ASSUME NEW t \in Tanks, NEW litres \in Litres, RegisterReceipt(r, t, litres)
        PROVE  Shape'
    <3>1. [op |-> "receipt", tank |-> t, litres |-> litres] \in Call
      BY TankAssumption DEF Call
    <3> QED
      BY <2>1, <2>3, <3>1 DEF RegisterReceipt
  <2>4. ASSUME NEW t \in Tanks, NEW measured \in Litres \cup {0}, NEW adjust \in BOOLEAN,
               RegisterCheck(r, t, measured, adjust)
        PROVE  Shape'
    <3>1. measured \in Int
      BY TankAssumption
    <3>2. [op |-> "check", tank |-> t, measured |-> measured, adjust |-> adjust] \in Call
      BY <3>1 DEF Call
    <3> QED
      BY <2>1, <2>4, <3>2 DEF RegisterCheck
  <2>5. ASSUME NEW s \in Supplies, NEW t \in Tanks, NEW litres \in Litres,
               NEW e \in Events \cup {NoEvent}, RequestFueling(r, s, t, litres, e)
        PROVE  Shape'
    <3>1. [op |-> "fuel", tank |-> t, litres |-> litres, supply |-> s, event |-> e] \in Call
      BY TankAssumption DEF Call
    <3> QED
      BY <2>2, <2>5, <3>1 DEF RequestFueling, Ready, RequestState
  <2>6. ASSUME NEW s \in Supplies, RequestRemoval(r, s)
        PROVE  Shape'
    <3>1. supply[s] \in Supply /\ supply[s].tank \in DOMAIN tank
      BY <2>6 DEF RequestRemoval, TypeOK, SuppliesNameTanks
    <3>2. [op |-> "remove", tank |-> supply[s].tank, litres |-> supply[s].litres,
           supply |-> s, event |-> supply[s].event] \in Call
      BY <3>1 DEF Call, Supply
    <3> QED
      BY <2>2, <2>6, <3>1, <3>2 DEF RequestRemoval, Ready, RequestState
  <2>7. CASE Begin(r)
    <3>1. req[r] \in ReadyState /\ req[r].call.tank \in DOMAIN tank
      BY <2>7, StepTypes DEF Begin, At, CallsNameTanks
    <3> QED
      BY <2>1, <2>7, <3>1 DEF Begin, ReadyState
  <2>8. CASE Commit(r)
    <3> DEFINE call == req[r].call
               t == call.tank
               balance == req[r].balance
               rest == [req EXCEPT ![r] = Idle]
    <3>1. req[r] \in OpenState /\ t \in DOMAIN tank
      BY <2>8, StepTypes DEF Commit, MayCommit, Open, CallsNameTanks
    <3>2. call \in Call /\ t \in Tanks /\ balance \in Int
      BY <3>1, CallTypes DEF OpenState
    <3>3. tank' = [tank EXCEPT ![t].balance = NextBalance(call, balance)]
          /\ log' = [log EXCEPT ![t] = Append(log[t], NewMovement(call, balance))]
          /\ SupplyWrite(call)
          /\ CheckWrite(call, balance, Len(log[t]) + 1)
          /\ req' = Doom(rest, {t})
      BY <2>8 DEF Commit
    <3>4. NextBalance(call, balance) \in Int /\ NewMovement(call, balance) \in Movement
      BY <3>2, MovementType
    <3>5. tank' \in [DOMAIN tank -> Tank] /\ DOMAIN tank' = DOMAIN tank
      BY <3>1, <3>3, <3>4 DEF TypeOK, Tank
    <3>6. log[t] \in Seq(Movement) /\ Len(log[t]) \in Nat
      BY <3>2 DEF TypeOK
    <3>7. log' \in [Tanks -> Seq(Movement)]
      <4>1. Append(log[t], NewMovement(call, balance)) \in Seq(Movement)
        BY <3>4, <3>6, Appended
      <4> QED
        BY <3>3, <4>1 DEF TypeOK
    <3>8. checks' \subseteq Check
      BY <3>2, <3>3, <3>6, CallTypes DEF CheckWrite, TypeOK, Check
    <3>9. rest \in [Requests -> RequestState]
      BY DEF TypeOK, RequestState
    <3> HIDE DEF rest
    <3>10. /\ req' \in [Requests -> RequestState]
           /\ \A q \in Requests :
                /\ req'[q].step = rest[q].step
                /\ rest[q].step \in {"ready", "open"} => req'[q].call = rest[q].call
      <4> HIDE DEF t
      <4> QED
        BY <3>3, <3>9, DoomType
    <3>11. CallsNameTanks'
      <4> SUFFICES ASSUME NEW q \in Requests, req'[q].step \in {"ready", "open"}
                   PROVE  req'[q].call.tank \in DOMAIN tank
        BY <3>5 DEF CallsNameTanks
      <4>1. rest[q].step \in {"ready", "open"} /\ req'[q].call = rest[q].call
        BY <3>10
      <4>2. q # r /\ rest[q] = req[q]
        BY <4>1 DEF Idle, TypeOK, rest
      <4> QED
        BY <4>1, <4>2 DEF CallsNameTanks
    <3>12. SuppliesNameTanks'
      <4>1. CASE call.op = "fuel"
        BY <3>1, <3>3, <3>5, <4>1 DEF SupplyWrite, SuppliesNameTanks
      <4>2. CASE call.op = "remove"
        BY <3>3, <3>5, <4>2 DEF SupplyWrite, SuppliesNameTanks
      <4>3. CASE call.op \in {"receipt", "check"}
        BY <3>3, <3>5, <4>3 DEF SupplyWrite, SuppliesNameTanks
      <4> QED
        BY <3>2, <4>1, <4>2, <4>3, CallTypes
    <3>13. DOMAIN supply' \subseteq Supplies /\ supply' \in [DOMAIN supply' -> Supply]
      BY <3>2, <3>3, SupplyType
    <3> QED
      BY <3>5, <3>7, <3>8, <3>10, <3>11, <3>12, <3>13 DEF TypeOK
  <2>9. CASE CommitCheck(r)
    <3>1. req[r] \in OpenState /\ req[r].call \in Call /\ req[r].call.tank \in Tanks
      BY <2>9, StepTypes, CallTypes DEF CommitCheck, MayCommit, Open, OpenState
    <3>2. checks' \subseteq Check
      BY <2>9, <3>1, CallTypes DEF CommitCheck, CheckWrite, TypeOK, Check, OpenState
    <3> QED
      BY <2>9, <3>2 DEF CommitCheck, Become, TypeOK, RequestState, CallsNameTanks,
                        SuppliesNameTanks, Idle
  <2>10. CASE Abort(r)
    <3>1. req[r] \in OpenState /\ req[r].call.tank \in DOMAIN tank
      BY <2>10, StepTypes DEF Abort, Open, CallsNameTanks
    <3>2. Retry(req[r]) \in RequestState
          /\ (Retry(req[r]).step \in {"ready", "open"} => Retry(req[r]).call = req[r].call)
      BY <3>1 DEF Retry, OpenState, RequestState, Idle
    <3> QED
      BY <2>2, <2>10, <3>1, <3>2 DEF Abort
  <2>11. CASE Fail(r)
    BY <2>2, <2>11 DEF Fail, Idle, RequestState
  <2> QED
    BY <1>4, <2>3, <2>4, <2>5, <2>6, <2>7, <2>8, <2>9, <2>10, <2>11 DEF Handle
<1> QED
  BY <1>1, <1>2, <1>3, <1>4 DEF Next

\* Every reachable state has tanks, movements, supplies, checks and held calls of
\* the declared shape, and no call or supply names a tank that does not exist.
THEOREM TankTypes == Spec => []Shape
<1>1. Init => Shape
  BY InitShape
<1>2. Shape /\ [Next]_vars => Shape'
  BY StepShape
<1> QED
  BY <1>1, <1>2, PTL DEF Spec

----
SnapshotIsCurrent ==
  \A r \in Requests :
    MayCommit(req[r]) /\ req[r].writes # {} =>
      LET call == req[r].call
          t == call.tank
      IN  /\ req[r].writes = {t}
          /\ req[r].balance = tank[t].balance
          /\ NextBalance(call, req[r].balance) \in 0..Capacity[t]

\* A tank that was not created has no movement.
NoGhostMovement == \A t \in Tanks \ DOMAIN tank : log[t] = <<>>

\* A check that adjusted points at a movement of its tank.
ChecksNameMovements ==
  \A c \in checks : c.movement # 0 => c.movement \in DOMAIN log[c.tank]

TankInv ==
  /\ Shape
  /\ SnapshotIsCurrent
  /\ NoGhostMovement
  /\ LedgerIsChain
  /\ ChecksNameMovements
  /\ AdjustedChecksAreExact

----
(***************************************************************************)
(* The steps that change the ledger, in terms of the state.                  *)
(***************************************************************************)

\* What a committing transaction does to tank and ledger.
LEMMA CommitFacts ==
  ASSUME Shape, SnapshotIsCurrent, NEW r \in Requests, Commit(r)
  PROVE  LET call == req[r].call
             t == call.tank
             m == NewMovement(call, tank[t].balance)
         IN  /\ call \in Call /\ t \in DOMAIN tank /\ t \in Tanks
             /\ req[r].balance = tank[t].balance
             /\ m \in Movement /\ m.from = tank[t].balance
             /\ m.to \in 0..Capacity[t]
             /\ m.to = NextBalance(call, tank[t].balance)
             /\ m.type = TypeOf(call) /\ m.supply = LinkOf(call)
             /\ tank' = [tank EXCEPT ![t].balance = m.to]
             /\ log' = [log EXCEPT ![t] = Append(log[t], m)]
             /\ log[t] \in Seq(Movement)
             /\ DOMAIN tank' = DOMAIN tank
<1> DEFINE call == req[r].call
           t == call.tank
           m == NewMovement(call, tank[t].balance)
<1>1. Open(req[r]) /\ MayCommit(req[r]) /\ req[r].writes # {}
  BY DEF Commit, MayCommit
<1>2. req[r] \in OpenState /\ t \in DOMAIN tank
  BY <1>1, StepTypes DEF Shape, CallsNameTanks, Open
<1>3. call \in Call /\ t \in Tanks
  BY <1>2, CallTypes DEF OpenState
<1>4. req[r].balance = tank[t].balance /\ NextBalance(call, tank[t].balance) \in 0..Capacity[t]
  BY <1>1 DEF SnapshotIsCurrent
<1>5. tank[t].balance \in Int
  BY <1>2 DEF Shape, TypeOK, Tank
<1>6. m \in Movement /\ m.from = tank[t].balance /\ m.to = NextBalance(call, tank[t].balance)
      /\ m.type = TypeOf(call) /\ m.supply = LinkOf(call)
  BY <1>3, <1>5, MovementType
<1>7. tank' = [tank EXCEPT ![t].balance = m.to]
      /\ log' = [log EXCEPT ![t] = Append(log[t], m)]
  BY <1>4, <1>6 DEF Commit
<1>8. log[t] \in Seq(Movement) /\ DOMAIN tank' = DOMAIN tank
  BY <1>3, <1>7 DEF Shape, TypeOK
<1> HIDE DEF m
<1> QED
  BY <1>2, <1>3, <1>4, <1>6, <1>7, <1>8 DEF m

\* The steps that leave tanks, movements and checks alone.
Quiet == UNCHANGED <<tank, log, checks>>

\* What such a step keeps.
LEMMA QuietKeeps ==
  ASSUME NoGhostMovement, LedgerIsChain, ChecksNameMovements, AdjustedChecksAreExact, Quiet
  PROVE  /\ NoGhostMovement' /\ LedgerIsChain'
         /\ ChecksNameMovements' /\ AdjustedChecksAreExact'
BY DEF Quiet, NoGhostMovement, LedgerIsChain, ChecksNameMovements, AdjustedChecksAreExact

\* Every step of a request commits a movement, records a check that moves
\* nothing, or is quiet.
LEMMA RequestSteps ==
  ASSUME NEW r \in Requests, Handle(r)
  PROVE  Commit(r) \/ CommitCheck(r) \/ Quiet
BY DEF Handle, Quiet, RegisterReceipt, RegisterCheck, RequestFueling, RequestRemoval, Begin,
       Abort, Fail

----
(***************************************************************************)
(* Snapshots.                                                                *)
(***************************************************************************)

\* A transaction that begins holds the balance it finds, and fits.
LEMMA BeginSnapshot ==
  ASSUME Shape, SnapshotIsCurrent, NEW r \in Requests, NEW call \in Call,
         NEW second \in BOOLEAN, call.tank \in DOMAIN tank, BeginWith(r, call, second),
         UNCHANGED tank
  PROVE  SnapshotIsCurrent'
<1> SUFFICES ASSUME NEW q \in Requests, MayCommit(req'[q]), req'[q].writes # {}
             PROVE  /\ req'[q].writes = {req'[q].call.tank}
                    /\ req'[q].balance = tank[req'[q].call.tank].balance
                    /\ NextBalance(req'[q].call, req'[q].balance) \in 0..Capacity[req'[q].call.tank]
  BY DEF SnapshotIsCurrent
<1>1. CASE q # r
  <2>1. req'[q] = req[q]
    BY <1>1 DEF BeginWith, Become, Shape, TypeOK
  <2> QED
    BY <2>1 DEF SnapshotIsCurrent
<1>2. CASE q = r
  <2> DEFINE balance == tank[call.tank].balance
             tx == [step |-> "open", call |-> call, second |-> second, balance |-> balance,
                    doomed |-> FALSE, writes |-> IF Moves(call, balance) THEN {call.tank} ELSE {}]
  <2>1. req'[q] = IF Accepted(call) THEN tx ELSE Idle
    BY <1>2 DEF BeginWith, Become, Shape, TypeOK
  <2>2. Accepted(call) /\ req'[q] = tx
    BY <2>1 DEF MayCommit, Open, Idle
  <2>3. Moves(call, balance) /\ req'[q].writes = {call.tank} /\ req'[q].call = call
        /\ req'[q].balance = balance
    BY <2>2
  <2>4. balance \in Int /\ call.tank \in Tanks
    BY CallTypes DEF Shape, TypeOK, Tank
  <2>5. Fits(call.tank, NextBalance(call, balance)) /\ NextBalance(call, balance) \in Int
    BY <2>2, <2>3, <2>4, MovementType DEF Accepted
  <2>6. Capacity[call.tank] \in Nat
    BY <2>4, TankAssumption
  <2>7. NextBalance(call, balance) \in 0..Capacity[call.tank]
    BY <2>5, <2>6 DEF Fits
  <2> QED
    BY <2>3, <2>7
<1> QED
  BY <1>1, <1>2

\* A transaction that may still commit after others were doomed writes none of
\* their rows, and holds what it held.
LEMMA DoomedOthers ==
  ASSUME NEW txs \in [Requests -> RequestState], NEW rows, NEW r \in Requests,
         MayCommit(Doom(txs, rows)[r])
  PROVE  /\ MayCommit(txs[r])
         /\ txs[r].writes \cap rows = {}
         /\ Doom(txs, rows)[r].call = txs[r].call
         /\ Doom(txs, rows)[r].balance = txs[r].balance
         /\ Doom(txs, rows)[r].writes = txs[r].writes
<1>1. Doom(txs, rows)[r].step = "open" /\ ~Doom(txs, rows)[r].doomed
  BY DEF MayCommit, Open
<1>2. txs[r].step = "open"
  BY <1>1, DoomType
<1> QED
  BY <1>1, <1>2, DoomType DEF MayCommit, Open

\* Every step keeps the snapshots of the live transactions current.
LEMMA StepSnapshot ==
  ASSUME Shape, SnapshotIsCurrent, [Next]_vars
  PROVE  SnapshotIsCurrent'
<1> USE DEF Shape
<1>1. CASE UNCHANGED vars
  BY <1>1 DEF vars, SnapshotIsCurrent
<1>2. ASSUME NEW t \in Tanks, NEW initial \in Litres \cup {0}, CreateTank(t, initial)
      PROVE  SnapshotIsCurrent'
  <2>1. req' = req /\ \A u \in DOMAIN tank : tank'[u] = tank[u]
    BY <1>2 DEF CreateTank
  <2>2. \A r \in Requests : MayCommit(req[r]) => req[r].call.tank \in DOMAIN tank
    BY DEF CallsNameTanks, MayCommit, Open
  <2> QED
    BY <2>1, <2>2 DEF SnapshotIsCurrent
<1>3. ASSUME NEW t \in Tanks, NEW active \in BOOLEAN, UpdateTankStatus(t, active)
      PROVE  SnapshotIsCurrent'
  <2> SUFFICES ASSUME NEW q \in Requests, MayCommit(req'[q]), req'[q].writes # {}
               PROVE  /\ req'[q].writes = {req'[q].call.tank}
                      /\ req'[q].balance = tank'[req'[q].call.tank].balance
                      /\ NextBalance(req'[q].call, req'[q].balance) \in 0..Capacity[req'[q].call.tank]
    BY DEF SnapshotIsCurrent
  <2>1. req' = Doom(req, {t}) /\ req \in [Requests -> RequestState]
    BY <1>3 DEF UpdateTankStatus, TypeOK
  <2>2. MayCommit(req[q]) /\ req[q].writes # {} /\ req'[q].call = req[q].call
        /\ req'[q].balance = req[q].balance /\ req'[q].writes = req[q].writes
    <3> DEFINE rows == {t}
    <3>1. req' = Doom(req, rows)
      BY <2>1
    <3> HIDE DEF rows
    <3>2. MayCommit(Doom(req, rows)[q])
      BY <3>1
    <3>3. /\ MayCommit(req[q])
          /\ Doom(req, rows)[q].call = req[q].call
          /\ Doom(req, rows)[q].balance = req[q].balance
          /\ Doom(req, rows)[q].writes = req[q].writes
      BY <2>1, <3>2, DoomedOthers
    <3> QED
      BY <3>1, <3>3
  <2>3. req[q].call.tank \in DOMAIN tank
    BY <2>2 DEF CallsNameTanks, MayCommit, Open
  <2>4. tank'[req[q].call.tank].balance = tank[req[q].call.tank].balance
    BY <1>3, <2>3 DEF UpdateTankStatus, TypeOK, Tank
  <2> QED
    BY <2>2, <2>4 DEF SnapshotIsCurrent
<1>4. ASSUME NEW r \in Requests, Handle(r)
      PROVE  SnapshotIsCurrent'
  <2>1. ASSUME NEW state \in RequestState, Become(r, state), ~MayCommit(state), UNCHANGED tank
        PROVE  SnapshotIsCurrent'
    BY <2>1 DEF Become, TypeOK, SnapshotIsCurrent
  <2>2. ASSUME NEW t \in Tanks, NEW litres \in Litres, RegisterReceipt(r, t, litres)
        PROVE  SnapshotIsCurrent'
    <3> DEFINE call == [op |-> "receipt", tank |-> t, litres |-> litres]
    <3>1. call \in Call
      BY TankAssumption DEF Call
    <3>2. BeginWith(r, call, FALSE) /\ call.tank \in DOMAIN tank /\ UNCHANGED tank
      BY <2>2 DEF RegisterReceipt
    <3> HIDE DEF call
    <3> QED
      BY <3>1, <3>2, BeginSnapshot
  <2>3. ASSUME NEW t \in Tanks, NEW measured \in Litres \cup {0}, NEW adjust \in BOOLEAN,
               RegisterCheck(r, t, measured, adjust)
        PROVE  SnapshotIsCurrent'
    <3>1. measured \in Int
      BY TankAssumption
    <3>2. [op |-> "check", tank |-> t, measured |-> measured, adjust |-> adjust] \in Call
      BY <3>1 DEF Call
    <3> QED
      BY <2>3, <3>2, BeginSnapshot DEF RegisterCheck
  <2>4. ASSUME NEW s \in Supplies, NEW t \in Tanks, NEW litres \in Litres,
               NEW e \in Events \cup {NoEvent}, RequestFueling(r, s, t, litres, e)
        PROVE  SnapshotIsCurrent'
    <3>1. [op |-> "fuel", tank |-> t, litres |-> litres, supply |-> s, event |-> e] \in Call
      BY TankAssumption DEF Call
    <3> QED
      BY <2>1, <2>4, <3>1 DEF RequestFueling, Ready, RequestState, MayCommit, Open
  <2>5. ASSUME NEW s \in Supplies, RequestRemoval(r, s)
        PROVE  SnapshotIsCurrent'
    <3>1. supply[s] \in Supply
      BY <2>5 DEF RequestRemoval, TypeOK
    <3>2. [op |-> "remove", tank |-> supply[s].tank, litres |-> supply[s].litres,
           supply |-> s, event |-> supply[s].event] \in Call
      BY <3>1 DEF Call, Supply
    <3> QED
      BY <2>1, <2>5, <3>2 DEF RequestRemoval, Ready, RequestState, MayCommit, Open
  <2>6. CASE Begin(r)
    <3>1. req[r] \in ReadyState /\ req[r].call.tank \in DOMAIN tank
      BY <2>6, StepTypes DEF Begin, At, CallsNameTanks
    <3> QED
      BY <2>6, <3>1, BeginSnapshot DEF Begin, ReadyState
  <2>7. CASE Commit(r)
    <3> DEFINE t == req[r].call.tank
               rest == [req EXCEPT ![r] = Idle]
    <3> SUFFICES ASSUME NEW q \in Requests, MayCommit(req'[q]), req'[q].writes # {}
                 PROVE  /\ req'[q].writes = {req'[q].call.tank}
                        /\ req'[q].balance = tank'[req'[q].call.tank].balance
                        /\ NextBalance(req'[q].call, req'[q].balance)
                             \in 0..Capacity[req'[q].call.tank]
      BY DEF SnapshotIsCurrent
    <3>1. req' = Doom(rest, {t}) /\ rest \in [Requests -> RequestState]
      BY <2>7 DEF Commit, TypeOK, RequestState
    <3>2. MayCommit(rest[q]) /\ rest[q].writes \cap {t} = {} /\ req'[q].call = rest[q].call
          /\ req'[q].balance = rest[q].balance /\ req'[q].writes = rest[q].writes
      <4> HIDE DEF rest, t
      <4> QED
        BY <3>1, DoomedOthers
    <3>3. q # r /\ rest[q] = req[q]
      BY <3>2 DEF MayCommit, Open, Idle, TypeOK
    <3>4. req[q].writes = {req[q].call.tank} /\ req[q].call.tank # t
          /\ req[q].call.tank \in DOMAIN tank
      BY <3>2, <3>3 DEF SnapshotIsCurrent, CallsNameTanks, MayCommit, Open
    <3>5. tank'[req[q].call.tank] = tank[req[q].call.tank]
      BY <2>7, <3>4, CommitFacts
    <3> QED
      BY <3>2, <3>3, <3>5 DEF SnapshotIsCurrent
  <2>8. CASE CommitCheck(r)
    BY <2>1, <2>8 DEF CommitCheck, Idle, RequestState, MayCommit, Open
  <2>9. CASE Abort(r)
    <3>1. req[r] \in OpenState
      BY <2>9, StepTypes DEF Abort
    <3>2. Retry(req[r]) \in RequestState /\ ~MayCommit(Retry(req[r]))
      BY <3>1 DEF Retry, OpenState, RequestState, Idle, MayCommit, Open
    <3> QED
      BY <2>1, <2>9, <3>2 DEF Abort
  <2>10. CASE Fail(r)
    BY <2>1, <2>10 DEF Fail, Idle, RequestState, MayCommit, Open
  <2> QED
    BY <1>4, <2>2, <2>3, <2>4, <2>5, <2>6, <2>7, <2>8, <2>9, <2>10 DEF Handle
<1> QED
  BY <1>1, <1>2, <1>3, <1>4 DEF Next

----
(***************************************************************************)
(* The ledger.                                                               *)
(***************************************************************************)

\* The first state has no tank, no movement, no check and no transaction.
LEMMA InitTank ==
  ASSUME Init PROVE TankInv
<1>1. Shape
  BY InitShape
<1>2. SnapshotIsCurrent
  BY DEF Init, SnapshotIsCurrent, MayCommit, Open, Idle
<1>3. NoGhostMovement /\ LedgerIsChain /\ ChecksNameMovements /\ AdjustedChecksAreExact
  BY DEF Init, NoGhostMovement, LedgerIsChain, ChecksNameMovements, AdjustedChecksAreExact
<1> QED
  BY <1>1, <1>2, <1>3 DEF TankInv

\* A created tank starts its own chain with its initial balance.
LEMMA CreateKeeps ==
  ASSUME TankInv, NEW t \in Tanks, NEW initial \in Litres \cup {0}, CreateTank(t, initial)
  PROVE  NoGhostMovement' /\ LedgerIsChain' /\ ChecksNameMovements' /\ AdjustedChecksAreExact'
<1> DEFINE m == [type |-> "INITIAL_BALANCE", from |-> 0, to |-> initial, supply |-> NoSupply]
<1>1. t \notin DOMAIN tank /\ initial <= Capacity[t] /\ initial \in Nat /\ Capacity[t] \in Nat
  <2>1. initial \in Nat /\ Capacity[t] \in Nat
    BY TankAssumption
  <2> QED
    BY <2>1 DEF CreateTank
<1>2. /\ DOMAIN tank' = DOMAIN tank \cup {t}
      /\ tank'[t].balance = initial
      /\ \A u \in DOMAIN tank : tank'[u] = tank[u]
      /\ checks' = checks
  BY <1>1 DEF CreateTank
<1>3. /\ log'[t] = <<m>>
      /\ \A u \in Tanks \ {t} : log'[u] = log[u]
      /\ log[t] = <<>>
  BY <1>1 DEF CreateTank, TankInv, Shape, TypeOK, NoGhostMovement
<1>4. NoGhostMovement'
  BY <1>2, <1>3 DEF NoGhostMovement, TankInv
<1>5. LedgerIsChain'
  <2> SUFFICES ASSUME NEW u \in DOMAIN tank'
               PROVE  /\ Len(log'[u]) > 0
                      /\ \A i \in DOMAIN log'[u] :
                           log'[u][i].from = IF i = 1 THEN 0 ELSE log'[u][i - 1].to
                      /\ tank'[u].balance = log'[u][Len(log'[u])].to
                      /\ tank'[u].balance \in 0..Capacity[u]
    BY DEF LedgerIsChain
  <2>1. CASE u = t
    BY <1>1, <1>2, <1>3, <2>1
  <2>2. CASE u # t
    <3>1. u \in DOMAIN tank /\ u \in Tanks
      BY <1>2, <2>2 DEF TankInv, Shape, TypeOK
    <3>2. log'[u] = log[u] /\ tank'[u] = tank[u]
      BY <1>2, <1>3, <2>2, <3>1
    <3> QED
      BY <3>1, <3>2 DEF TankInv, LedgerIsChain
  <2> QED
    BY <2>1, <2>2
<1>6. ChecksNameMovements' /\ AdjustedChecksAreExact'
  <2>1. ASSUME NEW c \in checks, c.movement # 0
        PROVE  c.tank # t /\ c.tank \in Tanks
    BY <1>3, <2>1 DEF TankInv, ChecksNameMovements, Shape, TypeOK, Check
  <2> QED
    BY <1>2, <1>3, <2>1 DEF TankInv, ChecksNameMovements, AdjustedChecksAreExact
<1> QED
  BY <1>4, <1>5, <1>6

\* A committed movement continues the chain where the last one left it.
LEMMA CommitKeepsLedger ==
  ASSUME TankInv, NEW r \in Requests, Commit(r)
  PROVE  NoGhostMovement' /\ LedgerIsChain'
<1> DEFINE t == req[r].call.tank
           m == NewMovement(req[r].call, tank[t].balance)
<1>1. /\ t \in DOMAIN tank /\ t \in Tanks
      /\ m \in Movement /\ m.from = tank[t].balance /\ m.to \in 0..Capacity[t]
      /\ tank' = [tank EXCEPT ![t].balance = m.to]
      /\ log' = [log EXCEPT ![t] = Append(log[t], m)]
      /\ log[t] \in Seq(Movement) /\ DOMAIN tank' = DOMAIN tank
  BY CommitFacts DEF TankInv
<1> HIDE DEF m, t
<1>2. log'[t] = Append(log[t], m) /\ \A u \in Tanks \ {t} : log'[u] = log[u]
  BY <1>1 DEF TankInv, Shape, TypeOK
<1>3. tank'[t].balance = m.to /\ \A u \in DOMAIN tank \ {t} : tank'[u] = tank[u]
  BY <1>1 DEF TankInv, Shape, TypeOK, Tank
<1>4. NoGhostMovement'
  BY <1>1, <1>2 DEF NoGhostMovement, TankInv
<1>5. /\ Len(log'[t]) = Len(log[t]) + 1
      /\ DOMAIN log[t] = 1..Len(log[t])
      /\ DOMAIN log'[t] = 1..(Len(log[t]) + 1)
      /\ \A i \in DOMAIN log[t] : log'[t][i] = log[t][i]
      /\ log'[t][Len(log[t]) + 1] = m
      /\ Len(log[t]) \in Nat /\ Len(log[t]) > 0
  BY <1>1, <1>2, Appended DEF TankInv, LedgerIsChain
<1>6. LedgerIsChain'
  <2> SUFFICES ASSUME NEW u \in DOMAIN tank
               PROVE  /\ Len(log'[u]) > 0
                      /\ \A i \in DOMAIN log'[u] :
                           log'[u][i].from = IF i = 1 THEN 0 ELSE log'[u][i - 1].to
                      /\ tank'[u].balance = log'[u][Len(log'[u])].to
                      /\ tank'[u].balance \in 0..Capacity[u]
    BY <1>1 DEF LedgerIsChain
  <2>1. CASE u = t
    <3>1. ASSUME NEW i \in DOMAIN log'[t]
          PROVE  log'[t][i].from = IF i = 1 THEN 0 ELSE log'[t][i - 1].to
      <4>1. CASE i \in DOMAIN log[t]
        <5>1. i \in Nat /\ (i # 1 => i - 1 \in DOMAIN log[t])
          BY <1>5, <4>1
        <5>2. log[t][i].from = IF i = 1 THEN 0 ELSE log[t][i - 1].to
          BY <1>1, <4>1 DEF TankInv, LedgerIsChain
        <5> QED
          BY <1>5, <4>1, <5>1, <5>2
      <4>2. CASE i = Len(log[t]) + 1
        <5>1. m.from = log[t][Len(log[t])].to
          BY <1>1 DEF TankInv, LedgerIsChain
        <5>2. Len(log[t]) \in DOMAIN log[t] /\ i # 1 /\ i - 1 = Len(log[t])
          BY <1>5, <4>2
        <5> QED
          BY <1>5, <4>2, <5>1, <5>2
      <4> QED
        BY <1>5, <3>1, <4>1, <4>2
    <3> QED
      BY <1>1, <1>3, <1>5, <2>1, <3>1
  <2>2. CASE u # t
    <3>1. u \in Tanks
      BY DEF TankInv, Shape, TypeOK
    <3>2. log'[u] = log[u] /\ tank'[u] = tank[u]
      BY <1>2, <1>3, <2>2, <3>1
    <3> QED
      BY <3>2 DEF TankInv, LedgerIsChain
  <2> QED
    BY <2>1, <2>2
<1> QED
  BY <1>4, <1>6

\* A committed movement leaves older checks exact, and so is the check that made it.
LEMMA CommitKeepsChecks ==
  ASSUME TankInv, NEW r \in Requests, Commit(r)
  PROVE  ChecksNameMovements' /\ AdjustedChecksAreExact'
<1> DEFINE call == req[r].call
           t == call.tank
           m == NewMovement(call, tank[t].balance)
           old == log[t]
<1>1. /\ call \in Call /\ t \in Tanks
      /\ req[r].balance = tank[t].balance
      /\ m \in Movement /\ m.from = tank[t].balance
      /\ m.to = NextBalance(call, tank[t].balance) /\ m.type = TypeOf(call)
      /\ log' = [log EXCEPT ![t] = Append(old, m)]
      /\ old \in Seq(Movement)
  BY CommitFacts DEF TankInv
<1>2. CheckWrite(call, tank[t].balance, Len(old) + 1)
  BY <1>1 DEF Commit
<1>3. tank[t].balance \in Int
  BY CommitFacts DEF TankInv, Shape, TypeOK, Tank
<1>4. call.op = "check" => m.type = "ADJUSTMENT" /\ m.to = call.measured
  <2>1. SUFFICES ASSUME call.op = "check" PROVE m.type = "ADJUSTMENT" /\ m.to = call.measured
    OBVIOUS
  <2>2. call.measured \in Int
    BY <1>1, <2>1, CallTypes
  <2>3. NextBalance(call, tank[t].balance) = tank[t].balance + (call.measured - tank[t].balance)
    BY <2>1 DEF NextBalance
  <2>4. tank[t].balance + (call.measured - tank[t].balance) = call.measured
    BY <1>3, <2>2
  <2> QED
    BY <1>1, <2>1, <2>3, <2>4 DEF TypeOf
<1> HIDE DEF m
<1>5. /\ log'[t] = Append(old, m) /\ \A u \in Tanks \ {t} : log'[u] = log[u]
      /\ DOMAIN log'[t] = 1..(Len(old) + 1)
      /\ \A i \in DOMAIN old : i \in DOMAIN log'[t] /\ log'[t][i] = old[i]
      /\ log'[t][Len(old) + 1] = m
      /\ Len(old) \in Nat
  BY <1>1, Appended DEF TankInv, Shape, TypeOK
<1> SUFFICES ASSUME NEW c \in checks', c.movement # 0
             PROVE  /\ c.movement \in DOMAIN log'[c.tank]
                    /\ log'[c.tank][c.movement].type = "ADJUSTMENT"
                    /\ log'[c.tank][c.movement].from = c.theoretical
                    /\ log'[c.tank][c.movement].to = c.measured
  BY DEF ChecksNameMovements, AdjustedChecksAreExact
<1>6. CASE c \in checks
  <2>1. /\ c.tank \in Tanks /\ c.movement \in DOMAIN log[c.tank]
        /\ log[c.tank][c.movement].type = "ADJUSTMENT"
        /\ log[c.tank][c.movement].from = c.theoretical
        /\ log[c.tank][c.movement].to = c.measured
    BY <1>6 DEF TankInv, ChecksNameMovements, AdjustedChecksAreExact, Shape, TypeOK, Check
  <2> QED
    BY <1>5, <2>1
<1>7. CASE c \notin checks
  <2>1. call.op = "check" /\ c = [tank |-> t, theoretical |-> tank[t].balance,
                                  measured |-> call.measured, movement |-> Len(old) + 1]
    BY <1>2, <1>7 DEF CheckWrite
  <2>2. /\ c.tank = t /\ c.theoretical = tank[t].balance
        /\ c.measured = call.measured /\ c.movement = Len(old) + 1
    BY <2>1
  <2> HIDE DEF call, t, old
  <2>3. c.movement \in DOMAIN log'[t] /\ log'[t][c.movement] = m
    BY <1>5, <2>2
  <2> QED
    BY <1>1, <1>4, <2>1, <2>2, <2>3
<1> QED
  BY <1>6, <1>7

\* The inductive invariant is kept by every step.
LEMMA StepTank ==
  ASSUME TankInv, [Next]_vars
  PROVE  TankInv'
<1>1. Shape' /\ SnapshotIsCurrent'
  BY StepShape, StepSnapshot DEF TankInv
<1>2. ASSUME Quiet
      PROVE  NoGhostMovement' /\ LedgerIsChain' /\ ChecksNameMovements' /\ AdjustedChecksAreExact'
  BY <1>2, QuietKeeps DEF TankInv
<1>3. ASSUME NEW t \in Tanks, NEW active \in BOOLEAN, UpdateTankStatus(t, active)
      PROVE  NoGhostMovement' /\ LedgerIsChain' /\ ChecksNameMovements' /\ AdjustedChecksAreExact'
  <2>1. DOMAIN tank' = DOMAIN tank /\ \A u \in DOMAIN tank : tank'[u].balance = tank[u].balance
    BY <1>3 DEF UpdateTankStatus, TankInv, Shape, TypeOK, Tank
  <2>2. log' = log /\ checks' = checks
    BY <1>3 DEF UpdateTankStatus
  <2> QED
    BY <2>1, <2>2 DEF TankInv, NoGhostMovement, LedgerIsChain, ChecksNameMovements,
                      AdjustedChecksAreExact
<1>4. ASSUME NEW r \in Requests, CommitCheck(r)
      PROVE  NoGhostMovement' /\ LedgerIsChain' /\ ChecksNameMovements' /\ AdjustedChecksAreExact'
  <2>1. \A c \in checks' : c \in checks \/ c.movement = 0
    BY <1>4 DEF CommitCheck, CheckWrite
  <2>2. tank' = tank /\ log' = log
    BY <1>4 DEF CommitCheck
  <2> QED
    BY <2>1, <2>2 DEF TankInv, NoGhostMovement, LedgerIsChain, ChecksNameMovements,
                      AdjustedChecksAreExact
<1>5. ASSUME NEW r \in Requests, Handle(r)
      PROVE  NoGhostMovement' /\ LedgerIsChain' /\ ChecksNameMovements' /\ AdjustedChecksAreExact'
  BY <1>2, <1>4, <1>5, RequestSteps, CommitKeepsLedger, CommitKeepsChecks
<1>6. CASE UNCHANGED vars
  BY <1>1, <1>2, <1>6 DEF vars, Quiet, TankInv
<1> QED
  BY <1>1, <1>3, <1>5, <1>6, CreateKeeps DEF Next, TankInv

\* The inductive invariant of the tanks: what every live transaction read is
\* still true, and the ledgers are chains that exact checks point into.
THEOREM TankInvariance == Spec => []TankInv
<1>1. Init => TankInv
  BY InitTank
<1>2. TankInv /\ [Next]_vars => TankInv'
  BY StepTank
<1> QED
  BY <1>1, <1>2, PTL DEF Spec

\* However receipts, fuelings, removals and checks interleave, conflict and are
\* retried, the movements of a tank form one chain that ends at its balance,
\* within the capacity.
THEOREM LedgersAreChains == Spec => []LedgerIsChain
<1>1. TankInv => LedgerIsChain
  BY DEF TankInv
<1> QED
  BY <1>1, TankInvariance, PTL

\* A confirmed physical check leaves the tank at the measured quantity, from the
\* theoretical stock it recorded.
THEOREM ChecksAreExact == Spec => []AdjustedChecksAreExact
<1>1. TankInv => AdjustedChecksAreExact
  BY DEF TankInv
<1> QED
  BY <1>1, TankInvariance, PTL

----
(***************************************************************************)
(* The stock book.                                                           *)
(***************************************************************************)

Stock == [t \in Tanks |-> IF t \in DOMAIN tank THEN tank[t].balance ELSE 0]
Entries == [t \in Tanks |-> [i \in DOMAIN log[t] |-> log[t][i].to - log[t][i].from]]

\* A function on 1..n with integer values is a sequence of length n.
LEMMA FunctionIsSequence ==
  ASSUME NEW n \in Nat, NEW f, f = [i \in 1..n |-> f[i]], \A i \in 1..n : f[i] \in Int
  PROVE  f \in Seq(Int) /\ Len(f) = n
OBVIOUS

\* A step that leaves balances and movements alone is a stutter of the book.
LEMMA BookRests ==
  ASSUME TankInv, log' = log, DOMAIN tank' = DOMAIN tank,
         \A t \in DOMAIN tank : tank'[t].balance = tank[t].balance
  PROVE  UNCHANGED Book!vars
<1>1. Stock' = Stock
  BY DEF Stock
<1>2. Entries' = Entries
  BY DEF Entries
<1> QED
  BY <1>1, <1>2 DEF Book!vars, Stock, Entries

\* A movement of one tank, of exactly the change of its balance, is a step of
\* the book.
LEMMA BookMoves ==
  ASSUME TankInv, TankInv', NEW t \in Tanks, NEW m \in Movement,
         log' = [log EXCEPT ![t] = Append(log[t], m)],
         m.from = Stock[t], m.to = Stock'[t], m.to \in 0..Capacity[t],
         \A u \in Tanks \ {t} : Stock'[u] = Stock[u]
  PROVE  Book!Next
<1>1. log[t] \in Seq(Movement) /\ log'[t] = Append(log[t], m)
      /\ \A u \in Tanks \ {t} : log'[u] = log[u]
  BY DEF TankInv, Shape, TypeOK
<1>2. /\ DOMAIN log'[t] = 1..(Len(log[t]) + 1)
      /\ DOMAIN log[t] = 1..Len(log[t])
      /\ \A i \in DOMAIN log[t] : log'[t][i] = log[t][i]
      /\ log'[t][Len(log[t]) + 1] = m
      /\ Len(log[t]) \in Nat
  BY <1>1, Appended
<1>3. Entries'[t] = Append(Entries[t], Stock'[t] - Stock[t])
  <2> DEFINE size(x) == x.to - x.from
             old == [i \in DOMAIN log[t] |-> size(log[t][i])]
             new == [i \in DOMAIN log'[t] |-> size(log'[t][i])]
  <2>1. \A i \in DOMAIN log[t] : size(log[t][i]) \in Int
    <3>1. \A i \in DOMAIN log[t] : log[t][i] \in Movement
      BY <1>1
    <3> QED
      BY <3>1 DEF Movement
  <2>2. old \in Seq(Int) /\ Len(old) = Len(log[t])
    BY <1>2, <2>1
  <2>3. size(m) \in Int /\ size(m) = Stock'[t] - Stock[t]
    BY DEF Movement
  <2> HIDE DEF size
  <2>4. \A i \in DOMAIN log[t] : old[i] = size(log[t][i])
    OBVIOUS
  <2>5. \A i \in DOMAIN log'[t] : new[i] = IF i \in DOMAIN log[t] THEN old[i] ELSE size(m)
    BY <1>2, <2>4
  <2>6. \A i \in 1..(Len(log[t]) + 1) : new[i] \in Int
    <3> HIDE DEF new, old
    <3> QED
      BY <1>2, <2>1, <2>3, <2>4, <2>5
  <2>7. new \in Seq(Int) /\ Len(new) = Len(log[t]) + 1
    <3> DEFINE n == Len(log[t]) + 1
    <3>1. new = [i \in 1..n |-> new[i]] /\ n \in Nat
      BY <1>2
    <3> HIDE DEF n, new
    <3>2. \A i \in 1..n : new[i] \in Int
      BY <2>6 DEF n
    <3> QED
      BY <3>1, <3>2, FunctionIsSequence DEF n
  <2>8. new = Append(old, size(m))
    <3> HIDE DEF new, old
    <3>1. /\ Append(old, size(m)) \in Seq(Int)
          /\ Len(Append(old, size(m))) = Len(log[t]) + 1
          /\ \A i \in DOMAIN old : Append(old, size(m))[i] = old[i]
          /\ Append(old, size(m))[Len(log[t]) + 1] = size(m)
          /\ DOMAIN old = DOMAIN log[t]
      BY <1>2, <2>2, <2>3, Appended
    <3>2. \A i \in 1..Len(new) : new[i] = Append(old, size(m))[i]
      BY <1>2, <2>5, <2>7, <3>1, SMTT(20)
    <3> QED
      BY <2>7, <3>1, <3>2, SeqEqual
  <2> QED
    BY <2>3, <2>8 DEF Entries, size
<1>4. \A u \in Tanks \ {t} : Entries'[u] = Entries[u]
  BY <1>1 DEF Entries
<1>5. Stock' \in [Tanks -> Int] /\ DOMAIN Entries' = Tanks
  BY DEF Stock, Entries, TankInv, Shape, TypeOK, Tank
<1>6. Stock'[t] \in [u \in Tanks |-> 0..Capacity[u]][t]
  OBVIOUS
<1> QED
  BY <1>3, <1>4, <1>5, <1>6 DEF Book!Next, Book!Moves, Book!Rests, Stock, Entries

\* Every step of the tanks is a movement of the book or invisible to it.
LEMMA StepBook ==
  ASSUME TankInv, TankInv', [Next]_vars
  PROVE  [Book!Next]_(Book!vars)
<1> USE DEF TankInv
<1>1. CASE UNCHANGED vars
  BY <1>1, BookRests DEF vars
<1>2. ASSUME NEW t \in Tanks, NEW initial \in Litres \cup {0}, CreateTank(t, initial)
      PROVE  Book!Next
  <2> DEFINE m == [type |-> "INITIAL_BALANCE", from |-> 0, to |-> initial, supply |-> NoSupply]
  <2>1. initial \in Nat /\ Capacity[t] \in Nat
    BY TankAssumption
  <2>2. initial \in 0..Capacity[t] /\ t \notin DOMAIN tank
    BY <1>2, <2>1 DEF CreateTank
  <2>3. m \in Movement /\ m.from = 0 /\ m.to = initial
    BY <2>1 DEF Movement, Types
  <2>4. log' = [log EXCEPT ![t] = <<m>>] /\ log[t] = <<>>
    BY <1>2, <2>2 DEF CreateTank, NoGhostMovement
  <2>5. Stock[t] = 0 /\ Stock'[t] = initial /\ \A u \in Tanks \ {t} : Stock'[u] = Stock[u]
    BY <1>2, <2>2 DEF CreateTank, Stock
  <2> HIDE DEF m, TankInv
  <2>6. Append(log[t], m) = <<m>>
    BY <2>4
  <2> QED
    BY <2>2, <2>3, <2>4, <2>5, <2>6, BookMoves
<1>3. ASSUME NEW t \in Tanks, NEW active \in BOOLEAN, UpdateTankStatus(t, active)
      PROVE  UNCHANGED Book!vars
  <2>1. DOMAIN tank' = DOMAIN tank /\ \A u \in DOMAIN tank : tank'[u].balance = tank[u].balance
    BY <1>3 DEF UpdateTankStatus, Shape, TypeOK, Tank
  <2> QED
    BY <1>3, <2>1, BookRests DEF UpdateTankStatus
<1>4. ASSUME NEW r \in Requests, Commit(r)
      PROVE  Book!Next
  <2> DEFINE t == req[r].call.tank
             m == NewMovement(req[r].call, tank[t].balance)
  <2>1. /\ t \in DOMAIN tank /\ t \in Tanks
        /\ m \in Movement /\ m.from = tank[t].balance /\ m.to \in 0..Capacity[t]
        /\ tank' = [tank EXCEPT ![t].balance = m.to]
        /\ log' = [log EXCEPT ![t] = Append(log[t], m)]
        /\ DOMAIN tank' = DOMAIN tank
    BY <1>4, CommitFacts
  <2> HIDE DEF m, t
  <2>2. m.from = Stock[t] /\ m.to = Stock'[t] /\ \A u \in Tanks \ {t} : Stock'[u] = Stock[u]
    BY <2>1 DEF Stock, Shape, TypeOK, Tank
  <2> HIDE DEF TankInv
  <2> QED
    BY <2>1, <2>2, BookMoves
<1>5. ASSUME NEW r \in Requests, Handle(r)
      PROVE  [Book!Next]_(Book!vars)
  <2>1. ASSUME UNCHANGED <<tank, log>> PROVE UNCHANGED Book!vars
    BY <2>1, BookRests
  <2> QED
    BY <1>4, <1>5, <2>1, RequestSteps DEF Quiet, CommitCheck
<1> QED
  BY <1>1, <1>2, <1>3, <1>5 DEF Next

\* The tanks implement the stock book: every step of a handler is one movement
\* of exactly the change of one balance, within its capacity, or invisible.
THEOREM TankRefinement == Spec => ImplementsStockBook
<1>1. Init => Book!Init
  BY DEF Init, Book!Init
<1>2. TankInv /\ TankInv' /\ [Next]_vars => [Book!Next]_(Book!vars)
  BY StepBook
<1> QED
  BY <1>1, <1>2, TankInvariance, PTL DEF Spec, ImplementsStockBook, Book!Spec

----
(***************************************************************************)
(* Supplies and their movements.                                             *)
(***************************************************************************)

\* A removal that a handler holds names a supply that was once fueled, and its
\* tank and litres while it is still there.
RemovalCalls ==
  \A r \in Requests, s \in Supplies :
    /\ req[r].step \in {"ready", "open"}
    /\ req[r].call.op = "remove"
    /\ req[r].call.supply = s
    => /\ ~Fresh(s)
       /\ s \in DOMAIN supply =>
            supply[s].tank = req[r].call.tank /\ supply[s].litres = req[r].call.litres

SupplyInv == TankInv /\ RemovalCalls /\ SupplyDrawnOnce

\* What is said of a supply stays true while its row and its movements stay.
LEMMA SupplyFrame ==
  ASSUME SupplyInv, NEW s \in Supplies, NEW t \in Tanks, NEW m \in Movement,
         log' = [log EXCEPT ![t] = Append(log[t], m)], m.supply # s,
         s \in DOMAIN supply' <=> s \in DOMAIN supply,
         s \in DOMAIN supply => supply'[s] = supply[s]
  PROVE  OneOfEachKind(s)' /\ LiveIsDrawn(s)' /\ RemovedIsReversed(s)'
<1>1. log[t] \in Seq(Movement) /\ log'[t] = Append(log[t], m)
      /\ \A u \in Tanks \ {t} : log'[u] = log[u]
  BY DEF SupplyInv, TankInv, Shape, TypeOK
<1>2. /\ DOMAIN log'[t] = 1..(Len(log[t]) + 1)
      /\ DOMAIN log[t] = 1..Len(log[t])
      /\ \A i \in DOMAIN log[t] : log'[t][i] = log[t][i]
      /\ log'[t][Len(log[t]) + 1] = m
      /\ Len(log[t]) \in Nat
  BY <1>1, Appended
<1>3. \A u \in Tanks : \A i \in DOMAIN log[u] : i \in DOMAIN log'[u] /\ log'[u][i] = log[u][i]
  BY <1>1, <1>2
<1>4. \A u \in Tanks : \A i \in DOMAIN log'[u] :
        log'[u][i].supply = s => i \in DOMAIN log[u] /\ log'[u][i] = log[u][i]
  BY <1>1, <1>2
<1>5. OneOfEachKind(s) /\ LiveIsDrawn(s) /\ RemovedIsReversed(s)
      /\ (s \in DOMAIN supply => supply[s].tank \in Tanks)
  BY DEF SupplyInv, SupplyDrawnOnce, TankInv, Shape, TypeOK, Supply
<1>6. OneOfEachKind(s)'
  BY <1>4, <1>5 DEF OneOfEachKind, Linked
<1>7. LiveIsDrawn(s)'
  BY <1>3, <1>4, <1>5 DEF LiveIsDrawn, Fueling, Reversal, Linked, Drawn
<1>8. RemovedIsReversed(s)'
  BY <1>3, <1>4, <1>5 DEF RemovedIsReversed, Fueling, Reversal, Linked, Drawn
<1> QED
  BY <1>6, <1>7, <1>8

\* A fueling draws the litres of the supply it creates.
LEMMA FuelingKeeps ==
  ASSUME SupplyInv, NEW r \in Requests, Commit(r), req[r].call.op = "fuel",
         NEW s \in Supplies, s = req[r].call.supply
  PROVE  OneOfEachKind(s)' /\ LiveIsDrawn(s)' /\ RemovedIsReversed(s)'
<1> DEFINE call == req[r].call
           m == NewMovement(call, tank[call.tank].balance)
<1>1. PICK t \in Tanks :
        /\ call \in Call /\ t = call.tank /\ t \in DOMAIN tank
        /\ m \in Movement /\ m.from = tank[t].balance
        /\ m.to = NextBalance(call, tank[t].balance) /\ m.type = TypeOf(call)
        /\ m.supply = LinkOf(call)
        /\ log' = [log EXCEPT ![t] = Append(log[t], m)]
        /\ log[t] \in Seq(Movement)
  BY CommitFacts DEF SupplyInv, TankInv
<1>2. call.litres \in Int /\ tank[t].balance \in Int
  BY <1>1, CallTypes DEF SupplyInv, TankInv, Shape, TypeOK, Tank
<1>3. SupplyWrite(call)
  BY DEF Commit
<1>4. Fresh(s) /\ s \in DOMAIN supply'
      /\ supply'[s] = [tank |-> t, litres |-> call.litres, event |-> call.event]
  BY <1>1, <1>3 DEF SupplyWrite
<1>5. m.type = "INTERNAL_FUELING" /\ m.supply = s /\ m.from - m.to = call.litres
  BY <1>1, <1>2 DEF TypeOf, LinkOf, NextBalance
<1> HIDE DEF m, call
<1>6. PICK last \in Nat :
        /\ log'[t] = Append(log[t], m) /\ \A u \in Tanks \ {t} : log'[u] = log[u]
        /\ DOMAIN log'[t] = 1..last
        /\ DOMAIN log[t] = 1..Len(log[t])
        /\ last = Len(log[t]) + 1
        /\ \A i \in DOMAIN log[t] : log'[t][i] = log[t][i]
        /\ log'[t][last] = m
        /\ last \in DOMAIN log'[t]
  <2>1. log'[t] = Append(log[t], m) /\ \A u \in Tanks \ {t} : log'[u] = log[u]
    BY <1>1 DEF SupplyInv, TankInv, Shape, TypeOK
  <2>2. PICK last \in Nat : last = Len(log[t]) + 1
    BY <1>1
  <2> QED
    BY <1>1, <2>1, <2>2, Appended
<1>7. \A u \in Tanks : \A i \in DOMAIN log'[u] : log'[u][i].supply = s => u = t /\ i = last
  BY <1>4, <1>6 DEF Fresh
<1>8. OneOfEachKind(s)'
  BY <1>7 DEF OneOfEachKind, Linked
<1>9. LiveIsDrawn(s)'
  BY <1>4, <1>5, <1>6, <1>7 DEF LiveIsDrawn, Fueling, Reversal, Linked, Drawn
<1>10. RemovedIsReversed(s)'
  BY <1>4 DEF RemovedIsReversed
<1> QED
  BY <1>8, <1>9, <1>10

\* A removal gives back the litres that the supply drew, to the same tank.
LEMMA RemovalKeeps ==
  ASSUME SupplyInv, NEW r \in Requests, Commit(r), req[r].call.op = "remove",
         NEW s \in Supplies, s = req[r].call.supply
  PROVE  OneOfEachKind(s)' /\ LiveIsDrawn(s)' /\ RemovedIsReversed(s)'
<1> DEFINE call == req[r].call
           m == NewMovement(call, tank[call.tank].balance)
<1>1. PICK t \in Tanks :
        /\ call \in Call /\ t = call.tank /\ t \in DOMAIN tank
        /\ m \in Movement /\ m.from = tank[t].balance
        /\ m.to = NextBalance(call, tank[t].balance) /\ m.type = TypeOf(call)
        /\ m.supply = LinkOf(call)
        /\ log' = [log EXCEPT ![t] = Append(log[t], m)]
        /\ log[t] \in Seq(Movement)
  BY CommitFacts DEF SupplyInv, TankInv
<1>2. call.litres \in Int /\ tank[t].balance \in Int
  BY <1>1, CallTypes DEF SupplyInv, TankInv, Shape, TypeOK, Tank
<1>3. SupplyWrite(call) /\ Open(req[r])
  BY DEF Commit, MayCommit
<1>4. s \in DOMAIN supply /\ s \notin DOMAIN supply'
  BY <1>3 DEF SupplyWrite
<1>5. m.type = "ADJUSTMENT" /\ m.supply = s /\ m.from - m.to = -call.litres
  BY <1>1, <1>2 DEF TypeOf, LinkOf, NextBalance
<1>6. supply[s].tank = t /\ supply[s].litres = call.litres
  BY <1>1, <1>3, <1>4 DEF SupplyInv, RemovalCalls, Open
<1> HIDE DEF m, call
<1>7. OneOfEachKind(s) /\ LiveIsDrawn(s)
  BY DEF SupplyInv, SupplyDrawnOnce
<1>8. PICK i \in DOMAIN log[t] : Fueling(s, t, i) /\ Drawn(t, i) = call.litres
  BY <1>4, <1>6, <1>7 DEF LiveIsDrawn
<1>9. \A u \in Tanks : \A j \in DOMAIN log[u] : ~Reversal(s, u, j)
  BY <1>4, <1>7 DEF LiveIsDrawn
<1>10. \A u \in Tanks : \A j \in DOMAIN log[u] : Fueling(s, u, j) => u = t /\ j = i
  BY <1>1, <1>7, <1>8 DEF OneOfEachKind, Fueling, Types
<1>11. PICK last \in Nat :
        /\ log'[t] = Append(log[t], m) /\ \A u \in Tanks \ {t} : log'[u] = log[u]
        /\ DOMAIN log'[t] = 1..last
        /\ DOMAIN log[t] = 1..Len(log[t])
        /\ last = Len(log[t]) + 1
        /\ \A k \in DOMAIN log[t] : log'[t][k] = log[t][k]
        /\ log'[t][last] = m
        /\ last \in DOMAIN log'[t]
  <2>1. log'[t] = Append(log[t], m) /\ \A u \in Tanks \ {t} : log'[u] = log[u]
    BY <1>1 DEF SupplyInv, TankInv, Shape, TypeOK
  <2>2. PICK last \in Nat : last = Len(log[t]) + 1
    BY <1>1
  <2> QED
    BY <1>1, <2>1, <2>2, Appended
<1>12. \A u \in Tanks : \A j \in DOMAIN log'[u] :
         \/ u = t /\ j = last
         \/ j \in DOMAIN log[u] /\ log'[u][j] = log[u][j]
  BY <1>11
<1>13. OneOfEachKind(s)'
  <2> SUFFICES ASSUME NEW u \in Tanks, NEW v \in Tanks, NEW j \in DOMAIN log'[u],
                      NEW k \in DOMAIN log'[v], NEW type \in Types,
                      log'[u][j].supply = s, log'[u][j].type = type,
                      log'[v][k].supply = s, log'[v][k].type = type
               PROVE  u = v /\ j = k
    BY DEF OneOfEachKind, Linked
  <2>1. CASE j \in DOMAIN log[u] /\ log'[u][j] = log[u][j]
             /\ k \in DOMAIN log[v] /\ log'[v][k] = log[v][k]
    BY <1>7, <2>1 DEF OneOfEachKind, Linked
  <2>2. CASE u = t /\ j = last /\ v = t /\ k = last
    BY <2>2
  <2>3. ASSUME u = t, j = last, k \in DOMAIN log[v], log'[v][k] = log[v][k]
        PROVE  FALSE
    BY <1>5, <1>9, <1>11, <2>3 DEF Reversal, Linked
  <2>4. ASSUME v = t, k = last, j \in DOMAIN log[u], log'[u][j] = log[u][j]
        PROVE  FALSE
    BY <1>5, <1>9, <1>11, <2>4 DEF Reversal, Linked
  <2> QED
    BY <1>12, <2>1, <2>2, <2>3, <2>4
<1>14. LiveIsDrawn(s)'
  BY <1>4 DEF LiveIsDrawn
<1>15. RemovedIsReversed(s)'
  <2> SUFFICES ASSUME NEW u \in Tanks, NEW j \in DOMAIN log'[u], Fueling(s, u, j)'
               PROVE  \E k \in DOMAIN log'[u] : Reversal(s, u, k)' /\ Drawn(u, k)' = -(Drawn(u, j)')
    BY DEF RemovedIsReversed
  <2>1. ~(u = t /\ j = last)
    BY <1>5, <1>11 DEF Fueling, Linked
  <2>2. j \in DOMAIN log[u] /\ log'[u][j] = log[u][j]
    BY <1>12, <2>1
  <2>3. u = t /\ j = i
    BY <1>10, <2>2 DEF Fueling, Linked
  <2>4. Drawn(t, i)' = call.litres
    BY <1>8, <2>2, <2>3 DEF Drawn
  <2>5. Reversal(s, t, last)' /\ Drawn(t, last)' = -call.litres
    BY <1>5, <1>11 DEF Reversal, Linked, Drawn
  <2> QED
    BY <1>11, <2>3, <2>4, <2>5
<1> QED
  BY <1>13, <1>14, <1>15

\* Every step that writes no movement of a supply.
LEMMA OtherSupplies ==
  ASSUME SupplyInv, NEW t \in Tanks, NEW m \in Movement,
         log' = [log EXCEPT ![t] = Append(log[t], m)], m.supply = NoSupply, supply' = supply
  PROVE  SupplyDrawnOnce'
<1>1. ASSUME NEW s \in Supplies
      PROVE  OneOfEachKind(s)' /\ LiveIsDrawn(s)' /\ RemovedIsReversed(s)'
  <2>1. m.supply # s
    BY TankAssumption
  <2> QED
    BY <2>1, SupplyFrame
<1> QED
  BY <1>1 DEF SupplyDrawnOnce

\* A committed transaction keeps the supplies and their movements together.
LEMMA CommitKeepsSupplies ==
  ASSUME SupplyInv, NEW r \in Requests, Commit(r)
  PROVE  SupplyDrawnOnce'
<1> DEFINE call == req[r].call
           m == NewMovement(call, tank[call.tank].balance)
<1>1. /\ call \in Call /\ call.tank \in Tanks
      /\ m \in Movement /\ m.supply = LinkOf(call)
      /\ log' = [log EXCEPT ![call.tank] = Append(log[call.tank], m)]
  BY CommitFacts DEF SupplyInv, TankInv
<1>2. SupplyWrite(call)
  BY DEF Commit
<1>3. CASE call.op \in {"receipt", "check"}
  <2>1. m.supply = NoSupply /\ supply' = supply
    BY <1>1, <1>2, <1>3 DEF LinkOf, SupplyWrite
  <2> HIDE DEF m
  <2> QED
    BY <1>1, <2>1, OtherSupplies
<1>4. ASSUME NEW s \in Supplies, call.op \in {"fuel", "remove"}, s # call.supply
      PROVE  OneOfEachKind(s)' /\ LiveIsDrawn(s)' /\ RemovedIsReversed(s)'
  <2>1. m.supply # s
    BY <1>1, <1>4 DEF LinkOf
  <2>2. (s \in DOMAIN supply' <=> s \in DOMAIN supply)
        /\ (s \in DOMAIN supply => supply'[s] = supply[s])
    BY <1>2, <1>4, ZenonT(40) DEF SupplyWrite
  <2> HIDE DEF m
  <2> QED
    BY <1>1, <2>1, <2>2, SupplyFrame
<1>5. CASE call.op \in {"fuel", "remove"}
  <2>1. ASSUME NEW s \in Supplies
        PROVE  OneOfEachKind(s)' /\ LiveIsDrawn(s)' /\ RemovedIsReversed(s)'
    BY <1>4, <1>5, FuelingKeeps, RemovalKeeps
  <2> QED
    BY <2>1 DEF SupplyDrawnOnce
<1> QED
  BY <1>1, <1>3, <1>5, CallTypes

\* A ledger only grows: a supply that was fueled stays so.
LEMMA FueledStays ==
  ASSUME SupplyInv, NEW t \in Tanks, NEW m \in Movement,
         log' = [log EXCEPT ![t] = Append(log[t], m)], NEW s, ~Fresh(s)
  PROVE  ~(Fresh(s)')
<1>1. log[t] \in Seq(Movement) /\ log'[t] = Append(log[t], m)
      /\ \A u \in Tanks \ {t} : log'[u] = log[u]
  BY DEF SupplyInv, TankInv, Shape, TypeOK
<1>2. \A u \in Tanks : \A i \in DOMAIN log[u] : i \in DOMAIN log'[u] /\ log'[u][i] = log[u][i]
  <2>1. DOMAIN log[t] = 1..Len(log[t]) /\ DOMAIN log'[t] = 1..(Len(log[t]) + 1)
        /\ \A i \in DOMAIN log[t] : log'[t][i] = log[t][i]
        /\ Len(log[t]) \in Nat
    BY <1>1, Appended
  <2> QED
    BY <1>1, <2>1
<1> QED
  BY <1>2 DEF Fresh

\* The removals that handlers hold stay true while the supplies they name are
\* the same or gone, and the ledgers grow.
LEMMA HeldRemovals ==
  ASSUME SupplyInv,
         \A s \in Supplies : ~Fresh(s) => ~(Fresh(s)'),
         \A s \in DOMAIN supply' : ~Fresh(s) => s \in DOMAIN supply /\ supply'[s] = supply[s],
         \A q \in Requests : req'[q].step \in {"ready", "open"} /\ req'[q].call.op = "remove" =>
           req[q].step \in {"ready", "open"} /\ req'[q].call = req[q].call
  PROVE  RemovalCalls'
<1> SUFFICES ASSUME NEW q \in Requests, NEW s \in Supplies, req'[q].step \in {"ready", "open"},
                    req'[q].call.op = "remove", req'[q].call.supply = s
             PROVE  /\ ~(Fresh(s)')
                    /\ s \in DOMAIN supply' =>
                         /\ supply'[s].tank = req'[q].call.tank
                         /\ supply'[s].litres = req'[q].call.litres
  BY DEF RemovalCalls
<1>1. req[q].step \in {"ready", "open"} /\ req'[q].call = req[q].call
  OBVIOUS
<1>2. /\ ~Fresh(s)
      /\ s \in DOMAIN supply =>
           supply[s].tank = req[q].call.tank /\ supply[s].litres = req[q].call.litres
  BY <1>1 DEF SupplyInv, RemovalCalls
<1> QED
  BY <1>1, <1>2

\* A step that begins a transaction, ends one or reads, and writes nothing, keeps
\* the removals that are held.
LEMMA QuietRemovals ==
  ASSUME SupplyInv, UNCHANGED <<log, supply>>,
         \A q \in Requests : req'[q].step \in {"ready", "open"} /\ req'[q].call.op = "remove" =>
           req[q].step \in {"ready", "open"} /\ req'[q].call = req[q].call
  PROVE  RemovalCalls'
BY HeldRemovals DEF Fresh

\* A handler that ends, retries or begins its transaction holds the same call.
LEMMA BecomeKeepsCall ==
  ASSUME Shape, NEW r \in Requests, NEW state, Become(r, state),
         state.step \in {"ready", "open"} /\ state.call.op = "remove" =>
           req[r].step \in {"ready", "open"} /\ state.call = req[r].call
  PROVE  \A q \in Requests : req'[q].step \in {"ready", "open"} /\ req'[q].call.op = "remove" =>
           req[q].step \in {"ready", "open"} /\ req'[q].call = req[q].call
BY DEF Become, Shape, TypeOK

\* The same when a transaction begins.
LEMMA BeginKeepsCall ==
  ASSUME Shape, NEW r \in Requests, NEW call, NEW second, BeginWith(r, call, second),
         call.op = "remove" => req[r].step \in {"ready", "open"} /\ call = req[r].call
  PROVE  \A q \in Requests : req'[q].step \in {"ready", "open"} /\ req'[q].call.op = "remove" =>
           req[q].step \in {"ready", "open"} /\ req'[q].call = req[q].call
<1>1. CASE Accepted(call)
  BY <1>1, BecomeKeepsCall DEF BeginWith
<1>2. CASE ~Accepted(call)
  BY <1>2, BecomeKeepsCall DEF BeginWith, Idle
<1> QED
  BY <1>1, <1>2

\* Every step of a request keeps the removals that are held.
LEMMA StepRemovals ==
  ASSUME SupplyInv, NEW r \in Requests, Handle(r)
  PROVE  RemovalCalls'
<1>1. Shape
  BY DEF SupplyInv, TankInv
<1>2. ASSUME NEW t \in Tanks, NEW litres \in Litres, RegisterReceipt(r, t, litres)
      PROVE  RemovalCalls'
  BY <1>1, <1>2, BeginKeepsCall, QuietRemovals DEF RegisterReceipt
<1>3. ASSUME NEW t \in Tanks, NEW measured \in Litres \cup {0}, NEW adjust \in BOOLEAN,
             RegisterCheck(r, t, measured, adjust)
      PROVE  RemovalCalls'
  BY <1>1, <1>3, BeginKeepsCall, QuietRemovals DEF RegisterCheck
<1>4. ASSUME NEW s \in Supplies, NEW t \in Tanks, NEW litres \in Litres,
             NEW e \in Events \cup {NoEvent}, RequestFueling(r, s, t, litres, e)
      PROVE  RemovalCalls'
  <2>1. \A q \in Requests : req'[q].step \in {"ready", "open"} /\ req'[q].call.op = "remove" =>
           req[q].step \in {"ready", "open"} /\ req'[q].call = req[q].call
    BY <1>1, <1>4, BecomeKeepsCall DEF RequestFueling, Ready
  <2> QED
    BY <1>4, <2>1, QuietRemovals DEF RequestFueling
<1>5. ASSUME NEW s \in Supplies, RequestRemoval(r, s)
      PROVE  RemovalCalls'
  <2>1. s \in DOMAIN supply /\ LiveIsDrawn(s) /\ supply[s].tank \in Tanks
    BY <1>1, <1>5 DEF RequestRemoval, SupplyInv, SupplyDrawnOnce, Shape, TypeOK, Supply
  <2>2. ~Fresh(s)
    BY <2>1 DEF LiveIsDrawn, Fueling, Linked, Fresh
  <2>3. req' = [req EXCEPT ![r] = Ready([op |-> "remove", tank |-> supply[s].tank,
                                         litres |-> supply[s].litres, supply |-> s,
                                         event |-> supply[s].event])]
        /\ log' = log /\ supply' = supply
    BY <1>5 DEF RequestRemoval, Become
  <2> QED
    BY <1>1, <2>1, <2>2, <2>3 DEF SupplyInv, RemovalCalls, Ready, Fresh, Shape, TypeOK
<1>6. CASE Begin(r)
  BY <1>1, <1>6, BeginKeepsCall, QuietRemovals DEF Begin, At
<1>7. CASE Commit(r)
  <2> DEFINE call == req[r].call
             m == NewMovement(call, tank[call.tank].balance)
             rest == [req EXCEPT ![r] = Idle]
             rows == {call.tank}
  <2>1. /\ call.tank \in Tanks /\ m \in Movement
        /\ log' = [log EXCEPT ![call.tank] = Append(log[call.tank], m)]
    BY <1>7, CommitFacts DEF SupplyInv, TankInv
  <2>2. \A s \in Supplies : ~Fresh(s) => ~(Fresh(s)')
    <3> HIDE DEF m
    <3> QED
      BY <2>1, FueledStays
  <2>3. req' = Doom(rest, rows) /\ rest \in [Requests -> RequestState] /\ SupplyWrite(call)
    BY <1>1, <1>7 DEF Commit, Shape, TypeOK, RequestState
  <2>4. \A s \in DOMAIN supply' : ~Fresh(s) => s \in DOMAIN supply /\ supply'[s] = supply[s]
    <3>1. call \in Call
      BY <1>7, CommitFacts DEF SupplyInv, TankInv
    <3>2. CASE call.op = "fuel"
      BY <2>3, <3>2 DEF SupplyWrite
    <3>3. CASE call.op = "remove"
      BY <2>3, <3>3 DEF SupplyWrite
    <3>4. CASE call.op \in {"receipt", "check"}
      BY <2>3, <3>4 DEF SupplyWrite
    <3> QED
      BY <3>1, <3>2, <3>3, <3>4, CallTypes
  <2>5. \A q \in Requests : req'[q].step \in {"ready", "open"} =>
          req[q].step \in {"ready", "open"} /\ req'[q].call = req[q].call
    <3>1. \A q \in Requests : rest[q].step \in {"ready", "open"} => rest[q] = req[q]
      BY <1>1 DEF Idle, Shape, TypeOK
    <3> HIDE DEF rest, rows
    <3> QED
      BY <2>3, <3>1, DoomType
  <2> QED
    BY <2>2, <2>4, <2>5, HeldRemovals
<1>8. CASE CommitCheck(r)
  <2>1. \A q \in Requests : req'[q].step \in {"ready", "open"} /\ req'[q].call.op = "remove" =>
           req[q].step \in {"ready", "open"} /\ req'[q].call = req[q].call
    BY <1>1, <1>8, BecomeKeepsCall DEF CommitCheck, Idle
  <2>2. supply' = supply /\ log' = log
    BY <1>8 DEF CommitCheck
  <2> QED
    BY <2>1, <2>2, QuietRemovals
<1>9. CASE Abort(r)
  <2>1. Retry(req[r]).step \in {"ready", "open"} =>
          req[r].step \in {"ready", "open"} /\ Retry(req[r]).call = req[r].call
    BY <1>9 DEF Abort, Open, Retry
  <2> QED
    BY <1>1, <1>9, <2>1, BecomeKeepsCall, QuietRemovals DEF Abort
<1>10. CASE Fail(r)
  <2>1. \A q \in Requests : req'[q].step \in {"ready", "open"} /\ req'[q].call.op = "remove" =>
           req[q].step \in {"ready", "open"} /\ req'[q].call = req[q].call
    BY <1>1, <1>10, BecomeKeepsCall DEF Fail, Idle
  <2> QED
    BY <1>10, <2>1, QuietRemovals DEF Fail
<1> QED
  BY <1>2, <1>3, <1>4, <1>5, <1>6, <1>7, <1>8, <1>9, <1>10 DEF Handle

\* Every step keeps the supplies and their movements together.
LEMMA StepSupply ==
  ASSUME SupplyInv, [Next]_vars
  PROVE  SupplyInv'
<1>1. TankInv'
  BY StepTank DEF SupplyInv
<1>2. ASSUME UNCHANGED <<log, supply>>
      PROVE  SupplyDrawnOnce'
  BY <1>2 DEF SupplyInv, SupplyDrawnOnce, OneOfEachKind, LiveIsDrawn, RemovedIsReversed,
              Fueling, Reversal, Linked, Drawn
<1>3. CASE UNCHANGED vars
  <2>1. RemovalCalls'
    BY <1>3, QuietRemovals DEF vars
  <2> QED
    BY <1>1, <1>2, <1>3, <2>1 DEF vars, SupplyInv
<1>4. ASSUME NEW t \in Tanks, NEW initial \in Litres \cup {0}, CreateTank(t, initial)
      PROVE  SupplyInv'
  <2> DEFINE m == [type |-> "INITIAL_BALANCE", from |-> 0, to |-> initial, supply |-> NoSupply]
  <2>1. initial \in Int /\ t \notin DOMAIN tank
    <3>1. initial \in Int
      BY TankAssumption
    <3> QED
      BY <1>4, <3>1 DEF CreateTank
  <2>2. m \in Movement /\ m.supply = NoSupply
    BY <2>1 DEF Movement, Types
  <2>3. log' = [log EXCEPT ![t] = <<m>>] /\ log[t] = <<>> /\ supply' = supply /\ req' = req
    BY <1>4, <2>1 DEF CreateTank, SupplyInv, TankInv, NoGhostMovement
  <2> HIDE DEF m
  <2>4. log' = [log EXCEPT ![t] = Append(log[t], m)]
    BY <2>3
  <2>5. SupplyDrawnOnce'
    BY <2>2, <2>3, <2>4, OtherSupplies
  <2>6. \A s \in Supplies : ~Fresh(s) => ~(Fresh(s)')
    BY <2>2, <2>4, FueledStays
  <2>7. RemovalCalls'
    BY <2>3, <2>6, HeldRemovals
  <2> QED
    BY <1>1, <2>5, <2>7 DEF SupplyInv
<1>5. ASSUME NEW t \in Tanks, NEW active \in BOOLEAN, UpdateTankStatus(t, active)
      PROVE  SupplyInv'
  <2> DEFINE rows == {t}
  <2>1. req' = Doom(req, rows) /\ req \in [Requests -> RequestState] /\ log' = log
        /\ supply' = supply
    BY <1>5 DEF UpdateTankStatus, SupplyInv, TankInv, Shape, TypeOK
  <2> HIDE DEF rows
  <2>2. \A q \in Requests : req'[q].step \in {"ready", "open"} =>
          req[q].step \in {"ready", "open"} /\ req'[q].call = req[q].call
    BY <2>1, DoomType
  <2>3. RemovalCalls'
    BY <2>1, <2>2, QuietRemovals
  <2> QED
    BY <1>1, <1>2, <2>1, <2>3 DEF SupplyInv
<1>6. ASSUME NEW r \in Requests, Handle(r)
      PROVE  SupplyInv'
  <2>1. RemovalCalls'
    BY <1>6, StepRemovals
  <2>2. ASSUME ~Commit(r)
        PROVE  UNCHANGED <<log, supply>>
    BY <1>6, <2>2 DEF Handle, RegisterReceipt, RegisterCheck, RequestFueling, RequestRemoval,
                      Begin, CommitCheck, Abort, Fail
  <2> QED
    BY <1>1, <1>2, <2>1, <2>2, CommitKeepsSupplies DEF SupplyInv
<1> QED
  BY <1>3, <1>4, <1>5, <1>6 DEF Next

\* Whatever the app resends, the office removes and the database retries, every
\* supply is one movement of its tank, and every removed supply one more that
\* gives the same litres back.
THEOREM SuppliesDrawnOnce == Spec => []SupplyDrawnOnce
<1>1. Init => SupplyInv
  <2>1. Init => TankInv
    BY InitTank
  <2>2. Init => RemovalCalls
    BY DEF Init, RemovalCalls, Idle
  <2>3. Init => SupplyDrawnOnce
    BY DEF Init, SupplyDrawnOnce, OneOfEachKind, LiveIsDrawn, RemovedIsReversed
  <2> QED
    BY <2>1, <2>2, <2>3 DEF SupplyInv
<1>2. SupplyInv /\ [Next]_vars => SupplyInv'
  BY StepSupply
<1>3. SupplyInv => SupplyDrawnOnce
  BY DEF SupplyInv
<1> QED
  BY <1>1, <1>2, <1>3, PTL DEF Spec

=============================================================================

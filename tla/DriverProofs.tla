----------------------------- MODULE DriverProofs -----------------------------
(***************************************************************************)
(* Proofs about the driver app's queue over the API: what holds for any      *)
(* number of calls of the app, of requests, of losses and of crashes.        *)
(***************************************************************************)
EXTENDS DriverApp, SequenceTheorems, TLAPS

(***************************************************************************)
(* Shapes.                                                                   *)
(***************************************************************************)

LiveRequest ==
  [at: {"sent", "looked", "guarded", "ok", "failed"}, action: Ids, waits: BOOLEAN]

Submitted == [at: {"submitting"}, action: Ids, slot: Slots]
Queueing == [at: {"queueing"}, action: Ids]
Appending == [at: {"appending"}, action: Ids, copy: Queue]
Sweeping == [at: {"flushing", "storing"}, copy: Queue]
Resending == [at: {"resending"}, copy: Queue \ {<<>>}, slot: Slots]

\* A request that is not free is an action on its way.
LEMMA RequestShapes ==
  ASSUME ApiTypeOK, NEW s \in Slots, http[s].at # "free"
  PROVE  http[s] \in LiveRequest
BY DEF ApiTypeOK, Request, LiveRequest

\* A request that nobody waits for any more, and one that was answered.
LEMMA WaitsShape ==
  ASSUME NEW request \in LiveRequest, NEW waits
  PROVE  [request EXCEPT !.waits = waits]
           = [at |-> request.at, action |-> request.action, waits |-> waits]
BY DEF LiveRequest

LEMMA AtShape ==
  ASSUME NEW request \in LiveRequest, NEW at, NEW waits, request.waits = waits
  PROVE  [request EXCEPT !.at = at]
           = [at |-> at, action |-> request.action, waits |-> waits]
BY DEF LiveRequest

\* What each await of a call keeps.
LEMMA CallShapes ==
  ASSUME TypeOK, NEW c \in Calls
  PROVE  /\ call[c].at = "submitting" => call[c] \in Submitted
         /\ call[c].at = "queueing" => call[c] \in Queueing
         /\ call[c].at = "appending" => call[c] \in Appending
         /\ call[c].at \in {"flushing", "storing"} => call[c] \in Sweeping
         /\ call[c].at = "resending" => call[c] \in Resending
BY DEF TypeOK, CallState, Submitted, Queueing, Appending, Sweeping, Resending

\* A call that moves on.
LEMMA BecomesShape ==
  ASSUME TypeOK, NEW c \in Calls, NEW state \in CallState, Becomes(c, state)
  PROVE  /\ call' \in [Calls -> CallState]
         /\ call'[c] = state
         /\ \A d \in Calls \ {c} : call'[d] = call[d]
BY DEF TypeOK, Becomes

\* The states a call may take.
LEMMA CallStates ==
  /\ Resting \in CallState
  /\ \A at \in {"syncing", "refreshing"} : [at |-> at] \in CallState
  /\ \A i \in Ids, s \in Slots : [at |-> "submitting", action |-> i, slot |-> s] \in CallState
  /\ \A i \in Ids : [at |-> "queueing", action |-> i] \in CallState
  /\ \A i \in Ids, q \in Queue : [at |-> "appending", action |-> i, copy |-> q] \in CallState
  /\ \A at \in {"flushing", "storing"}, q \in Queue : [at |-> at, copy |-> q] \in CallState
  /\ \A q \in Queue \ {<<>>}, s \in Slots :
       [at |-> "resending", copy |-> q, slot |-> s] \in CallState
BY DEF Resting, CallState

\* A slot that gets or loses its request.
LEMMA SlotShape ==
  ASSUME ApiTypeOK, NEW s \in Slots, NEW request \in Request,
         http' = [http EXCEPT ![s] = request]
  PROVE  /\ http' \in [Slots -> Request]
         /\ http'[s] = request
         /\ \A t \in Slots \ {s} : http'[t] = http[t]
BY DEF ApiTypeOK

LEMMA FreeShape == Free \in Request /\ Free.at = "free"
BY DEF Free, Request

----
(***************************************************************************)
(* The API's steps.                                                          *)
(***************************************************************************)

\* An answer leaves the request's action, or frees its slot.
LEMMA AnswerShape ==
  ASSUME ApiTypeOK, NEW s \in Slots, http[s].at # "free", NEW result \in {"ok", "failed"},
         Answer(s, result)
  PROVE  /\ http' \in [Slots -> Request]
         /\ \A t \in Slots \ {s} : http'[t] = http[t]
         /\ http'[s] = IF http[s].waits
                       THEN [at |-> result, action |-> http[s].action, waits |-> TRUE] ELSE Free
<1>1. http[s] \in LiveRequest
  BY RequestShapes
<1> DEFINE request == IF http[s].waits THEN [http[s] EXCEPT !.at = result] ELSE Free
<1>2. request = IF http[s].waits
                THEN [at |-> result, action |-> http[s].action, waits |-> TRUE] ELSE Free
  <2>1. CASE http[s].waits
    <3>1. http[s].waits = TRUE
      BY <1>1, <2>1 DEF LiveRequest
    <3>2. [http[s] EXCEPT !.at = result]
            = [at |-> result, action |-> http[s].action, waits |-> TRUE]
      BY <1>1, <3>1, AtShape, Zenon
    <3> QED
      BY <2>1, <3>2
  <2>2. CASE ~http[s].waits
    BY <2>2
  <2> QED
    BY <2>1, <2>2
<1>3. request \in Request
  BY <1>1, <1>2, FreeShape DEF LiveRequest, Request
<1>4. http' = [http EXCEPT ![s] = request]
  BY DEF Answer
<1> HIDE DEF request
<1> QED
  BY <1>2, <1>3, <1>4, SlotShape

\* A handler that goes on keeps its action.
LEMMA AdvanceShape ==
  ASSUME ApiTypeOK, NEW s \in Slots, http[s].at # "free", NEW point \in {"looked", "guarded"},
         Advance(s, point)
  PROVE  /\ http' \in [Slots -> Request]
         /\ \A t \in Slots \ {s} : http'[t] = http[t]
         /\ http'[s] = [at |-> point, action |-> http[s].action, waits |-> http[s].waits]
<1>1. http[s] \in LiveRequest
  BY RequestShapes
<1> DEFINE request == [at |-> point, action |-> http[s].action, waits |-> http[s].waits]
<1>2. [http[s] EXCEPT !.at = point] = request
  BY <1>1 DEF LiveRequest
<1>3. request \in Request
  BY <1>1 DEF LiveRequest, Request
<1>4. http' = [http EXCEPT ![s] = request]
  BY <1>1, <1>2 DEF Advance, ApiTypeOK, LiveRequest
<1> HIDE DEF request
<1> QED
  BY <1>3, <1>4, SlotShape DEF request

\* What one step of a handler does, whichever it is: its action stays its own,
\* and it is served before its answer is "ok".
LEMMA ServerFacts ==
  ASSUME ApiTypeOK, NEW s \in Slots, Handle(s)
  PROVE  /\ http[s].at # "free" /\ http[s] \in LiveRequest
         /\ http' \in [Slots -> Request]
         /\ \A t \in Slots \ {s} : http'[t] = http[t]
         /\ \/ http'[s] = Free /\ ~http[s].waits
            \/ /\ http'[s] \in LiveRequest
               /\ http'[s].action = http[s].action /\ http'[s].waits = http[s].waits
               /\ http'[s].at = "ok" => http[s].action \in served'
         /\ log' = log
         /\ served' \in {served, served \cup {http[s].action}}
<1>1. http[s].at # "free"
  BY DEF Handle, Lookup, Guard, InsertRow, CloseStop, UpdateStatus, At
<1>2. http[s] \in LiveRequest
  BY <1>1, RequestShapes
<1>3. log' = log /\ served' \in {served, served \cup {http[s].action}}
  BY DEF Handle, Lookup, Guard, InsertRow, CloseStop, UpdateStatus
<1>4. \/ \E result \in {"ok", "failed"} :
            Answer(s, result) /\ (result = "ok" => http[s].action \in served')
      \/ \E point \in {"looked", "guarded"} : Advance(s, point)
  BY DEF Handle, Lookup, Guard, InsertRow, CloseStop, UpdateStatus
<1>5. ASSUME NEW result \in {"ok", "failed"}, Answer(s, result),
             result = "ok" => http[s].action \in served'
      PROVE  /\ http' \in [Slots -> Request]
             /\ \A t \in Slots \ {s} : http'[t] = http[t]
             /\ \/ http'[s] = Free /\ ~http[s].waits
                \/ /\ http'[s] \in LiveRequest
                   /\ http'[s].action = http[s].action /\ http'[s].waits = http[s].waits
                   /\ http'[s].at = "ok" => http[s].action \in served'
  <2>1. /\ http' \in [Slots -> Request]
        /\ \A t \in Slots \ {s} : http'[t] = http[t]
        /\ http'[s] = IF http[s].waits
                      THEN [at |-> result, action |-> http[s].action, waits |-> TRUE] ELSE Free
    BY <1>1, <1>5, AnswerShape
  <2>2. CASE http[s].waits
    BY <1>2, <1>5, <2>1, <2>2 DEF LiveRequest
  <2>3. CASE ~http[s].waits
    BY <2>1, <2>3
  <2> QED
    BY <2>1, <2>2, <2>3
<1>6. ASSUME NEW point \in {"looked", "guarded"}, Advance(s, point)
      PROVE  /\ http' \in [Slots -> Request]
             /\ \A t \in Slots \ {s} : http'[t] = http[t]
             /\ http'[s] \in LiveRequest
             /\ http'[s].action = http[s].action /\ http'[s].waits = http[s].waits
             /\ http'[s].at # "ok"
  <2>1. /\ http' \in [Slots -> Request]
        /\ \A t \in Slots \ {s} : http'[t] = http[t]
        /\ http'[s] = [at |-> point, action |-> http[s].action, waits |-> http[s].waits]
    BY <1>1, <1>6, AdvanceShape
  <2> QED
    BY <1>2, <2>1 DEF LiveRequest
<1> QED
  BY <1>1, <1>2, <1>3, <1>4, <1>5, <1>6

\* The API keeps the shape of its own state.
LEMMA ServerTypes ==
  ASSUME TypeOK, NEW s \in Slots, Server(s)
  PROVE  TypeOK'
<1>1. ApiTypeOK /\ Handle(s) /\ UNCHANGED appVars
  BY DEF TypeOK, Server
<1>2. /\ http[s] \in LiveRequest
      /\ http' \in [Slots -> Request]
      /\ log' = log
      /\ served' \in {served, served \cup {http[s].action}}
  BY <1>1, ServerFacts
<1>3. http[s].action \in Ids
  BY <1>2 DEF LiveRequest
<1>4. created' \in [Ids -> Nat] /\ open' \subseteq Ids
  BY <1>1, <1>3 DEF ApiTypeOK, Handle, Lookup, Guard, InsertRow, CloseStop, UpdateStatus
<1>5. trip' \in {"IN_PROGRESS", "PAUSED", "COMPLETED"}
  BY <1>1 DEF ApiTypeOK, Handle, Lookup, Guard, InsertRow, CloseStop, UpdateStatus, Commands,
              Target
<1>6. ApiTypeOK'
  BY <1>1, <1>2, <1>3, <1>4, <1>5 DEF ApiTypeOK
<1> QED
  BY <1>1, <1>6 DEF TypeOK, HistoryTypeOK, appVars, history

----
(***************************************************************************)
(* The app's steps.                                                          *)
(***************************************************************************)

\* A call that sends: its slot was free and holds its action now.
LEMMA SendShape ==
  ASSUME ApiTypeOK, NEW s \in Slots, NEW i \in Ids, Send(s, i)
  PROVE  /\ http[s] = Free
         /\ http' \in [Slots -> Request]
         /\ http'[s] = [at |-> "sent", action |-> i, waits |-> TRUE]
         /\ \A t \in Slots \ {s} : http'[t] = http[t]
<1> DEFINE request == [at |-> "sent", action |-> i, waits |-> TRUE]
<1>1. request \in Request
  BY DEF Request
<1>2. http' = [http EXCEPT ![s] = request] /\ http[s] = Free
  BY DEF Send
<1> HIDE DEF request
<1>3. /\ http' \in [Slots -> Request]
      /\ http'[s] = request
      /\ \A t \in Slots \ {s} : http'[t] = http[t]
  BY <1>1, <1>2, SlotShape
<1> QED
  BY <1>2, <1>3 DEF request

\* A call whose answer came frees its slot.
LEMMA ClearShape ==
  ASSUME ApiTypeOK, NEW s \in Slots, http' = [http EXCEPT ![s] = Free]
  PROVE  /\ http' \in [Slots -> Request]
         /\ http'[s] = Free
         /\ \A t \in Slots \ {s} : http'[t] = http[t]
BY FreeShape, SlotShape

\* A call that gives up on its request.
LEMMA AbandonShape ==
  ASSUME ApiTypeOK, NEW s \in Slots, NEW request \in Abandoned(http[s]),
         http' = [http EXCEPT ![s] = request]
  PROVE  /\ http' \in [Slots -> Request]
         /\ \A t \in Slots \ {s} : http'[t] = http[t]
         /\ \/ http'[s] = Free
            \/ /\ http[s] \in LiveRequest /\ http[s].at \in {"sent", "looked", "guarded"}
               /\ http'[s] = [at |-> http[s].at, action |-> http[s].action, waits |-> FALSE]
<1>1. CASE http[s].at \in {"sent", "looked", "guarded"}
  <2>1. http[s] \in LiveRequest
    BY <1>1, RequestShapes
  <2> DEFINE left == [at |-> http[s].at, action |-> http[s].action, waits |-> FALSE]
  <2>2. [http[s] EXCEPT !.waits = FALSE] = left
    BY <2>1, WaitsShape, Zenon
  <2>3. left \in Request
    BY <1>1, <2>1 DEF LiveRequest, Request
  <2>4. request = left \/ request = Free
    BY <1>1, <2>2 DEF Abandoned
  <2> HIDE DEF left
  <2>5. request \in Request
    BY <2>3, <2>4, FreeShape
  <2>6. /\ http' \in [Slots -> Request]
        /\ http'[s] = request
        /\ \A t \in Slots \ {s} : http'[t] = http[t]
    BY <2>5, SlotShape
  <2> QED
    BY <1>1, <2>1, <2>4, <2>6 DEF left
<1>2. CASE http[s].at \notin {"sent", "looked", "guarded"}
  <2>1. request = Free
    BY <1>2 DEF Abandoned
  <2> QED
    BY <2>1, ClearShape
<1> QED
  BY <1>1, <1>2

\* Recording an action and sending it.
LEMMA SubmitFacts ==
  ASSUME TypeOK, NEW c \in Calls, Submit(c)
  PROVE  \E action \in Action, s \in Slots :
           LET n == Len(log) + 1
           IN  /\ n \in Ids /\ call[c] = Resting
               /\ Offers(action)
               /\ log' = Append(log, action)
               /\ log' \in Seq(Action) /\ Len(log') = n
               /\ \A i \in 1..Len(log) : log'[i] = log[i]
               /\ Send(s, n)
               /\ Becomes(c, [at |-> "submitting", action |-> n, slot |-> s])
               /\ busy' \in Calls \cup {Nobody}
               /\ UNCHANGED <<trip, created, open, served, disk, accepted, pointer, shown,
                              losses, crashes, history>>
<1>1. PICK action \in Action, s \in Slots :
        /\ Offers(action)
        /\ log' = Append(log, action)
        /\ Send(s, Len(log) + 1)
        /\ Becomes(c, [at |-> "submitting", action |-> Len(log) + 1, slot |-> s])
        /\ busy' = IF action.kind \in {"pause", "resume"} THEN c ELSE busy
  BY DEF Submit
<1>2. log \in Seq(Action) /\ Len(log) \in Nat
  BY DEF TypeOK, ApiTypeOK
<1>3. Len(log) + 1 \in Ids
  BY <1>2, MaxActionsAssumption DEF Submit, Ids
<1>4. log' \in Seq(Action) /\ Len(log') = Len(log) + 1
      /\ \A i \in 1..Len(log) : log'[i] = log[i]
  BY <1>1, <1>2
<1>5. busy' \in Calls \cup {Nobody}
  BY <1>1 DEF TypeOK
<1> QED
  BY <1>1, <1>3, <1>4, <1>5 DEF Submit

\* What stays while a call of the app moves.
LEMMA ReturnTypes ==
  ASSUME TypeOK, NEW c \in Calls, NEW i \in Ids, Return(c, i)
  PROVE  /\ accepted' \subseteq Ids /\ pointer' \in 0..MaxActions
         /\ call' \in [Calls -> CallState]
         /\ call'[c].at \in {"idle", "syncing"}
         /\ \A d \in Calls \ {c} : call'[d] = call[d]
<1> DEFINE state == IF busy = c THEN [at |-> "syncing"] ELSE Resting
<1>1. state \in CallState /\ state.at \in {"idle", "syncing"}
  BY CallStates DEF Resting
<1>2. Becomes(c, state)
  BY DEF Return
<1> HIDE DEF state
<1>3. call' \in [Calls -> CallState] /\ call'[c] = state
      /\ \A d \in Calls \ {c} : call'[d] = call[d]
  BY <1>1, <1>2, BecomesShape
<1>4. i \in 0..MaxActions /\ 0 \in 0..MaxActions
  BY MaxActionsAssumption DEF Ids
<1> QED
  BY <1>1, <1>3, <1>4 DEF Return, TypeOK

LEMMA SubmitTypes ==
  ASSUME TypeOK, NEW c \in Calls, Submit(c)
  PROVE  TypeOK'
<1>1. PICK action \in Action, s \in Slots :
        LET n == Len(log) + 1
        IN  /\ n \in Ids
            /\ log' \in Seq(Action) /\ Len(log') = n
            /\ Send(s, n)
            /\ Becomes(c, [at |-> "submitting", action |-> n, slot |-> s])
            /\ busy' \in Calls \cup {Nobody}
            /\ UNCHANGED <<trip, created, open, served, disk, accepted, pointer, shown,
                           losses, crashes, history>>
  BY SubmitFacts
<1> DEFINE n == Len(log) + 1
           state == [at |-> "submitting", action |-> n, slot |-> s]
<1>2. http' \in [Slots -> Request]
  BY <1>1, SendShape DEF TypeOK
<1>3. state \in CallState
  BY <1>1, CallStates
<1>4. Len(log') <= MaxActions
  BY <1>1, MaxActionsAssumption DEF Ids
<1>5. Becomes(c, state)
  BY <1>1
<1> HIDE DEF n, state
<1>6. call' \in [Calls -> CallState]
  BY <1>3, <1>5, BecomesShape
<1> QED
  BY <1>1, <1>2, <1>4, <1>6 DEF TypeOK, ApiTypeOK, HistoryTypeOK, history

\* The history of a write: what it overwrites and what others miss are actions.
LEMMA StoreTypes ==
  ASSUME TypeOK, NEW c \in Calls, NEW queue \in Queue, Store(c, queue)
  PROVE  missed' \in [Calls -> SUBSET Ids] /\ overwritten' \subseteq Ids
<1>1. Range(queue) \subseteq Ids /\ Range(disk) \subseteq Ids
  BY DEF TypeOK, Queue, Range
<1> QED
  BY <1>1 DEF Store, TypeOK, HistoryTypeOK

LEMMA HistoryTypes ==
  ASSUME TypeOK, NEW c \in Calls, Running(c) \/ Flush(c)
  PROVE  HistoryTypeOK'
<1>1. HistoryTypeOK
  BY DEF TypeOK
<1>2. CASE UNCHANGED history
  BY <1>1, <1>2 DEF HistoryTypeOK, history
<1>3. CASE QueueWrite(c)
  <2>1. call[c].action \in Ids /\ call[c].copy \in Queue
    BY <1>3, CallShapes DEF QueueWrite, Appending
  <2>2. Enqueued(call[c].copy, call[c].action) \in Queue
    BY <2>1 DEF Enqueued, Queue
  <2>3. missed' \in [Calls -> SUBSET Ids] /\ overwritten' \subseteq Ids
    BY <1>3, <2>2, StoreTypes DEF QueueWrite
  <2> QED
    BY <1>1, <1>3, <2>1, <2>3 DEF QueueWrite, HistoryTypeOK
<1>4. CASE FlushWrite(c)
  <2>1. call[c].copy \in Queue
    BY <1>4, CallShapes DEF FlushWrite, Sweeping
  <2>2. missed' \in [Calls -> SUBSET Ids] /\ overwritten' \subseteq Ids
    BY <1>4, <2>1, StoreTypes DEF FlushWrite
  <2> QED
    BY <1>1, <1>4, <2>2 DEF FlushWrite, HistoryTypeOK
<1> QED
  BY <1>2, <1>3, <1>4 DEF Running, Flush, SubmitDone, SubmitFailed, QueueRead, Resend, ResendDone,
                          ResendFailed, Refresh

\* The steps of a running call.
LEMMA RunningTypes ==
  ASSUME TypeOK, NEW c \in Calls, Running(c) \/ Flush(c)
  PROVE  TypeOK'
<1>1. ApiTypeOK /\ HistoryTypeOK'
  BY HistoryTypes DEF TypeOK
<1>2. ASSUME UNCHANGED <<log, trip, created, open, served, losses, crashes>>,
             http' \in [Slots -> Request], disk' \in Queue, call' \in [Calls -> CallState],
             accepted' \subseteq Ids, pointer' \in 0..MaxActions,
             shown' \in {"IN_PROGRESS", "PAUSED", "COMPLETED", "NONE"},
             busy' \in Calls \cup {Nobody}
      PROVE  TypeOK'
  BY <1>1, <1>2 DEF TypeOK, ApiTypeOK
<1>3. CASE SubmitDone(c)
  <2>1. call[c] \in Submitted
    BY <1>3, CallShapes DEF SubmitDone
  <2>2. call[c].action \in Ids /\ call[c].slot \in Slots
    BY <2>1 DEF Submitted
  <2>3. http' \in [Slots -> Request]
    BY <1>1, <1>3, <2>2, ClearShape DEF SubmitDone
  <2>4. accepted' \subseteq Ids /\ pointer' \in 0..MaxActions /\ call' \in [Calls -> CallState]
    BY <1>3, <2>2, ReturnTypes DEF SubmitDone
  <2> QED
    BY <1>2, <1>3, <2>3, <2>4 DEF SubmitDone, TypeOK
<1>4. CASE SubmitFailed(c)
  <2>1. call[c] \in Submitted
    BY <1>4, CallShapes DEF SubmitFailed
  <2>2. call[c].action \in Ids /\ call[c].slot \in Slots
    BY <2>1 DEF Submitted
  <2>3. http' \in [Slots -> Request]
    BY <1>1, <1>4, <2>2, ClearShape DEF SubmitFailed
  <2> DEFINE state == [at |-> "queueing", action |-> call[c].action]
  <2>4. state \in CallState /\ Becomes(c, state)
    BY <1>4, <2>2, CallStates DEF SubmitFailed
  <2> HIDE DEF state
  <2>5. call' \in [Calls -> CallState]
    BY <2>4, BecomesShape
  <2> QED
    BY <1>2, <1>4, <2>3, <2>5 DEF SubmitFailed, TypeOK
<1>5. CASE QueueRead(c)
  <2>1. call[c].action \in Ids
    BY <1>5, CallShapes DEF QueueRead, Queueing
  <2> DEFINE state == [at |-> "appending", action |-> call[c].action, copy |-> disk]
  <2>2. state \in CallState /\ Becomes(c, state)
    BY <1>5, <2>1, CallStates DEF QueueRead, TypeOK
  <2> HIDE DEF state
  <2>3. call' \in [Calls -> CallState]
    BY <2>2, BecomesShape
  <2> QED
    BY <1>1, <1>2, <1>5, <2>3 DEF QueueRead, TypeOK, ApiTypeOK, apiVars
<1>6. CASE QueueWrite(c)
  <2>1. call[c].action \in Ids /\ call[c].copy \in Queue
    BY <1>6, CallShapes DEF QueueWrite, Appending
  <2>2. disk' \in Queue
    BY <1>6, <2>1 DEF QueueWrite, Store, Enqueued, Queue
  <2>3. accepted' \subseteq Ids /\ pointer' \in 0..MaxActions /\ call' \in [Calls -> CallState]
    BY <1>6, <2>1, ReturnTypes DEF QueueWrite
  <2> QED
    BY <1>1, <1>2, <1>6, <2>2, <2>3 DEF QueueWrite, TypeOK, ApiTypeOK, apiVars
<1>7. CASE Flush(c)
  <2> DEFINE state == [at |-> "flushing", copy |-> disk]
  <2>1. state \in CallState /\ Becomes(c, state)
    BY <1>7, CallStates DEF Flush, TypeOK
  <2> HIDE DEF state
  <2>2. call' \in [Calls -> CallState]
    BY <2>1, BecomesShape
  <2> QED
    BY <1>1, <1>2, <1>7, <2>2 DEF Flush, TypeOK, ApiTypeOK, apiVars
<1>8. CASE Resend(c)
  <2>1. call[c].copy \in Queue /\ call[c].copy # <<>>
    BY <1>8, CallShapes DEF Resend, Sweeping
  <2>2. Head(call[c].copy) \in Ids
    BY <2>1 DEF Queue
  <2>3. PICK s \in Slots : /\ Send(s, Head(call[c].copy))
                           /\ Becomes(c, [at |-> "resending", copy |-> call[c].copy, slot |-> s])
    BY <1>8 DEF Resend
  <2>4. http' \in [Slots -> Request]
    BY <1>1, <2>2, <2>3, SendShape
  <2> DEFINE state == [at |-> "resending", copy |-> call[c].copy, slot |-> s]
  <2>5. state \in CallState /\ Becomes(c, state)
    BY <2>1, <2>3, CallStates
  <2> HIDE DEF state
  <2>6. call' \in [Calls -> CallState]
    BY <2>5, BecomesShape
  <2> QED
    BY <1>2, <1>8, <2>4, <2>6 DEF Resend, TypeOK
<1>9. CASE ResendDone(c)
  <2>1. call[c] \in Resending
    BY <1>9, CallShapes DEF ResendDone
  <2>2. call[c].copy \in Queue /\ call[c].copy # <<>> /\ call[c].slot \in Slots
    BY <2>1 DEF Resending
  <2>3. http' \in [Slots -> Request]
    BY <1>1, <1>9, <2>2, ClearShape DEF ResendDone
  <2>4. Tail(call[c].copy) \in Queue
    BY <2>2, HeadTailProperties DEF Queue
  <2> DEFINE state == [at |-> "flushing", copy |-> Tail(call[c].copy)]
  <2>5. state \in CallState /\ Becomes(c, state)
    BY <1>9, <2>4, CallStates DEF ResendDone
  <2> HIDE DEF state
  <2>6. call' \in [Calls -> CallState]
    BY <2>5, BecomesShape
  <2> QED
    BY <1>2, <1>9, <2>3, <2>6 DEF ResendDone, TypeOK
<1>10. CASE ResendFailed(c)
  <2>1. call[c] \in Resending
    BY <1>10, CallShapes DEF ResendFailed
  <2>2. call[c].copy \in Queue /\ call[c].slot \in Slots
    BY <2>1 DEF Resending
  <2>3. http' \in [Slots -> Request]
    BY <1>1, <1>10, <2>2, ClearShape DEF ResendFailed
  <2> DEFINE state == [at |-> "storing", copy |-> Kept(call[c].copy)]
  <2>4. state \in CallState /\ Becomes(c, state)
    BY <1>10, <2>2, CallStates DEF ResendFailed, Kept
  <2> HIDE DEF state
  <2>5. call' \in [Calls -> CallState]
    BY <2>4, BecomesShape
  <2> QED
    BY <1>2, <1>10, <2>3, <2>5 DEF ResendFailed, TypeOK
<1>11. CASE FlushWrite(c)
  <2>1. call[c].copy \in Queue
    BY <1>11, CallShapes DEF FlushWrite, Sweeping
  <2> DEFINE state == [at |-> "refreshing"]
  <2>2. state \in CallState /\ Becomes(c, state)
    BY <1>11, CallStates DEF FlushWrite
  <2> HIDE DEF state
  <2>3. call' \in [Calls -> CallState]
    BY <2>2, BecomesShape
  <2> QED
    BY <1>1, <1>2, <1>11, <2>1, <2>3 DEF FlushWrite, Store, TypeOK, ApiTypeOK, apiVars
<1>12. CASE Refresh(c)
  <2>1. Becomes(c, Resting) /\ Resting \in CallState
    BY <1>12, CallStates DEF Refresh
  <2>2. call' \in [Calls -> CallState]
    BY <2>1, BecomesShape
  <2>3. shown' \in {"IN_PROGRESS", "PAUSED", "COMPLETED", "NONE"}
        /\ busy' \in Calls \cup {Nobody}
    BY <1>1, <1>12 DEF Refresh, TypeOK, ApiTypeOK
  <2> QED
    BY <1>1, <1>2, <1>12, <2>2, <2>3 DEF Refresh, TypeOK, ApiTypeOK, apiVars
<1> QED
  BY <1>3, <1>4, <1>5, <1>6, <1>7, <1>8, <1>9, <1>10, <1>11, <1>12 DEF Running

\* A loss.
LEMMA LoseTypes ==
  ASSUME TypeOK, NEW c \in Calls, Lose(c)
  PROVE  TypeOK'
<1>1. ApiTypeOK
  BY DEF TypeOK
<1>2. call[c].slot \in Slots
      /\ (call[c].at = "submitting" => call[c].action \in Ids)
      /\ (call[c].at = "resending" => call[c].copy \in Queue)
  BY CallShapes DEF Lose, Submitted, Resending
<1>3. PICK request \in Abandoned(http[call[c].slot]) :
        http' = [http EXCEPT ![call[c].slot] = request]
  BY DEF Lose
<1>4. http' \in [Slots -> Request]
  BY <1>1, <1>2, <1>3, AbandonShape
<1> DEFINE state == IF call[c].at = "submitting"
                    THEN [at |-> "queueing", action |-> call[c].action]
                    ELSE [at |-> "storing", copy |-> Kept(call[c].copy)]
<1>5. state \in CallState /\ Becomes(c, state)
  BY <1>2, CallStates DEF Lose, Kept
<1> HIDE DEF state
<1>6. call' \in [Calls -> CallState]
  BY <1>5, BecomesShape
<1>7. losses' \in 0..MaxLosses
  BY BoundsAssumption DEF TypeOK, Lose
<1> QED
  BY <1>1, <1>4, <1>6, <1>7 DEF Lose, TypeOK, ApiTypeOK, HistoryTypeOK, history

\* What a crash leaves of the requests: those that live on are nobody's.
LEMMA CrashFacts ==
  ASSUME TypeOK, Crash
  PROVE  /\ call' = [c \in Calls |-> Resting]
         /\ http' \in [Slots -> Request]
         /\ \A s \in Slots :
              \/ http'[s] = Free
              \/ /\ http[s] \in LiveRequest /\ http[s].at \in {"sent", "looked", "guarded"}
                 /\ http'[s] = [at |-> http[s].at, action |-> http[s].action, waits |-> FALSE]
<1>1. PICK gone \in SUBSET {s \in Slots : At(s, "sent")} :
        http' = [s \in Slots |->
                  IF s \in gone \/ http[s].at \in {"free", "ok", "failed"} THEN Free
                  ELSE [http[s] EXCEPT !.waits = FALSE]]
  BY DEF Crash
<1>2. ASSUME NEW s \in Slots
      PROVE  /\ http'[s] \in Request
             /\ \/ http'[s] = Free
                \/ /\ http[s] \in LiveRequest /\ http[s].at \in {"sent", "looked", "guarded"}
                   /\ http'[s] = [at |-> http[s].at, action |-> http[s].action, waits |-> FALSE]
  <2>1. CASE s \in gone \/ http[s].at \in {"free", "ok", "failed"}
    BY <1>1, <2>1, FreeShape
  <2>2. CASE ~(s \in gone \/ http[s].at \in {"free", "ok", "failed"})
    <3>1. http[s] \in LiveRequest
      BY <2>2, RequestShapes DEF TypeOK
    <3> DEFINE left == [at |-> http[s].at, action |-> http[s].action, waits |-> FALSE]
    <3>2. [http[s] EXCEPT !.waits = FALSE] = left
      BY <3>1, WaitsShape, Zenon
    <3>3. http'[s] = left /\ http[s].at \in {"sent", "looked", "guarded"}
      BY <1>1, <2>2, <3>1, <3>2 DEF LiveRequest
    <3>4. left \in Request
      BY <3>1 DEF LiveRequest, Request
    <3> QED
      BY <3>1, <3>3, <3>4
  <2> QED
    BY <2>1, <2>2
<1>3. http' \in [Slots -> Request]
  <2>1. DOMAIN http' = Slots /\ http' = [s \in Slots |-> http'[s]]
    BY <1>1
  <2> QED
    BY <1>2, <2>1
<1>4. call' = [c \in Calls |-> Resting]
  BY DEF Crash
<1> QED
  BY <1>2, <1>3, <1>4

LEMMA CrashTypes ==
  ASSUME TypeOK, Crash
  PROVE  TypeOK'
<1>1. http' \in [Slots -> Request] /\ call' \in [Calls -> CallState]
  BY CrashFacts, CallStates
<1>2. crashes' \in 0..MaxCrashes
  BY BoundsAssumption DEF TypeOK, Crash
<1> QED
  BY <1>1, <1>2 DEF Crash, TypeOK, ApiTypeOK, HistoryTypeOK

LEMMA TypeStep ==
  ASSUME TypeOK, [Next]_vars
  PROVE  TypeOK'
<1>1. CASE UNCHANGED vars
  BY <1>1 DEF vars, apiVars, appVars, history, TypeOK, ApiTypeOK, HistoryTypeOK
<1>2. CASE Next
  BY <1>2, SubmitTypes, RunningTypes, LoseTypes, ServerTypes, CrashTypes DEF Next
<1> QED
  BY <1>1, <1>2

LEMMA TypeInit ==
  ASSUME Init
  PROVE  TypeOK
<1>1. ApiTypeOK
  BY MaxActionsAssumption DEF Init, ApiInit, ApiTypeOK, Free, Request
<1>2. call \in [Calls -> CallState]
  BY CallStates DEF Init
<1>3. disk \in Queue /\ pointer \in 0..MaxActions
  BY MaxActionsAssumption DEF Init, Queue
<1>4. losses \in 0..MaxLosses /\ crashes \in 0..MaxCrashes
  BY BoundsAssumption DEF Init
<1> QED
  BY <1>1, <1>2, <1>3, <1>4 DEF Init, TypeOK, HistoryTypeOK

\* The queue, its calls and the API keep the shapes TypeOK gives them, for any number
\* of calls, of requests, of losses and of crashes (storage/syncQueue.ts).
THEOREM DriverTypes == Spec => []TypeOK
<1>1. Init => TypeOK
  BY TypeInit
<1>2. TypeOK /\ [Next]_vars => TypeOK'
  BY TypeStep
<1> QED
  BY <1>1, <1>2, PTL DEF Spec

----
(***************************************************************************)
(* Whose request is whose.                                                   *)
(***************************************************************************)

Awaits(c) == call[c].at \in {"submitting", "resending"}

\* The action a call awaits the answer of.
Due(c) == IF call[c].at = "submitting" THEN call[c].action ELSE Head(call[c].copy)

\* What a step of a call does to the requests: it sends one, gives its own up, or
\* leaves them alone.
Sends(c) ==
  /\ ~Awaits(c) /\ Awaits(c)' /\ Due(c)' \in Ids
  /\ call'[c].slot \in Slots /\ http[call'[c].slot] = Free
  /\ http'[call'[c].slot] = [at |-> "sent", action |-> Due(c)', waits |-> TRUE]
  /\ \A t \in Slots \ {call'[c].slot} : http'[t] = http[t]

Leaves(c) ==
  /\ Awaits(c) /\ ~Awaits(c)' /\ call[c].slot \in Slots
  /\ \/ http'[call[c].slot] = Free
     \/ /\ http[call[c].slot].at # "free" /\ http'[call[c].slot].at # "ok"
        /\ http'[call[c].slot].action = http[call[c].slot].action
  /\ \A t \in Slots \ {call[c].slot} : http'[t] = http[t]

Stays(c) == ~Awaits(c) /\ ~Awaits(c)' /\ http' = http

LEMMA SubmitEffect ==
  ASSUME TypeOK, NEW c \in Calls, Submit(c)
  PROVE  /\ Sends(c)
         /\ call'[c].at = "submitting" /\ call'[c].action = Len(log) + 1
         /\ \A d \in Calls \ {c} : call'[d] = call[d]
<1>1. PICK action \in Action, s \in Slots :
        LET n == Len(log) + 1
        IN  /\ n \in Ids /\ call[c] = Resting
            /\ Send(s, n)
            /\ Becomes(c, [at |-> "submitting", action |-> n, slot |-> s])
  BY SubmitFacts
<1> DEFINE n == Len(log) + 1
           state == [at |-> "submitting", action |-> n, slot |-> s]
<1>2. n \in Ids /\ state \in CallState /\ Becomes(c, state) /\ Send(s, n)
  BY <1>1, CallStates
<1>3. state.at = "submitting" /\ state.action = n /\ state.slot = s
  OBVIOUS
<1> HIDE DEF n, state
<1>4. call'[c] = state /\ \A d \in Calls \ {c} : call'[d] = call[d]
  BY <1>2, BecomesShape
<1>5. /\ http[s] = Free
      /\ http'[s] = [at |-> "sent", action |-> n, waits |-> TRUE]
      /\ \A t \in Slots \ {s} : http'[t] = http[t]
  BY <1>2, SendShape DEF TypeOK
<1>6. ~Awaits(c)
  BY <1>1 DEF Awaits, Resting
<1>7. Awaits(c)' /\ Due(c)' = n /\ call'[c].slot = s
  BY <1>3, <1>4 DEF Awaits, Due
<1>8. Sends(c)
  BY <1>2, <1>5, <1>6, <1>7 DEF Sends
<1> QED
  BY <1>3, <1>4, <1>8 DEF n

LEMMA ResendEffect ==
  ASSUME TypeOK, NEW c \in Calls, Resend(c)
  PROVE  /\ Sends(c)
         /\ call'[c].copy = call[c].copy /\ call'[c].at = "resending"
         /\ \A d \in Calls \ {c} : call'[d] = call[d]
<1>1. call[c].copy \in Queue /\ call[c].copy # <<>>
  BY CallShapes DEF Resend, Sweeping
<1>2. Head(call[c].copy) \in Ids
  BY <1>1 DEF Queue
<1>3. PICK s \in Slots : /\ Send(s, Head(call[c].copy))
                         /\ Becomes(c, [at |-> "resending", copy |-> call[c].copy, slot |-> s])
  BY DEF Resend
<1> DEFINE state == [at |-> "resending", copy |-> call[c].copy, slot |-> s]
<1>4. state \in CallState /\ Becomes(c, state)
  BY <1>1, <1>3, CallStates
<1>5. state.at = "resending" /\ state.copy = call[c].copy /\ state.slot = s
  OBVIOUS
<1> HIDE DEF state
<1>6. call'[c] = state /\ \A d \in Calls \ {c} : call'[d] = call[d]
  BY <1>4, BecomesShape
<1>7. /\ http[s] = Free
      /\ http'[s] = [at |-> "sent", action |-> Head(call[c].copy), waits |-> TRUE]
      /\ \A t \in Slots \ {s} : http'[t] = http[t]
  BY <1>2, <1>3, SendShape DEF TypeOK
<1>8. ~Awaits(c)
  BY DEF Awaits, Resend
<1>9. Awaits(c)' /\ Due(c)' = Head(call[c].copy) /\ call'[c].slot = s
  BY <1>5, <1>6 DEF Awaits, Due
<1> QED
  BY <1>2, <1>5, <1>6, <1>7, <1>8, <1>9 DEF Sends

\* The four ways an answer ends a call's wait, and what the call holds then.
LEMMA LeaveEffect ==
  ASSUME TypeOK, NEW c \in Calls,
         SubmitDone(c) \/ SubmitFailed(c) \/ ResendDone(c) \/ ResendFailed(c)
  PROVE  /\ Leaves(c)
         /\ SubmitDone(c) => call'[c].at \in {"idle", "syncing"}
         /\ SubmitFailed(c) => call'[c] = [at |-> "queueing", action |-> call[c].action]
         /\ ResendDone(c) => call'[c] = [at |-> "flushing", copy |-> Tail(call[c].copy)]
         /\ ResendFailed(c) => call'[c] = [at |-> "storing", copy |-> call[c].copy]
         /\ \A d \in Calls \ {c} : call'[d] = call[d]
<1>1. ApiTypeOK
  BY DEF TypeOK
<1>2. call[c].slot \in Slots /\ Awaits(c)
  BY CallShapes DEF SubmitDone, SubmitFailed, ResendDone, ResendFailed, Submitted, Resending,
                    Awaits
<1>3. http' = [http EXCEPT ![call[c].slot] = Free]
  BY DEF SubmitDone, SubmitFailed, ResendDone, ResendFailed
<1>4. /\ http'[call[c].slot] = Free
      /\ \A t \in Slots \ {call[c].slot} : http'[t] = http[t]
  BY <1>1, <1>2, <1>3, ClearShape
<1>5. ASSUME NEW state \in CallState, Becomes(c, state)
      PROVE  call'[c] = state /\ \A d \in Calls \ {c} : call'[d] = call[d]
  BY <1>5, BecomesShape
<1>6. ASSUME SubmitDone(c)
      PROVE  call'[c].at \in {"idle", "syncing"} /\ \A d \in Calls \ {c} : call'[d] = call[d]
  <2>1. call[c].action \in Ids /\ Return(c, call[c].action)
    BY <1>6, CallShapes DEF SubmitDone, Submitted
  <2> QED
    BY <2>1, ReturnTypes
<1>7. ASSUME SubmitFailed(c)
      PROVE  /\ call'[c] = [at |-> "queueing", action |-> call[c].action]
             /\ \A d \in Calls \ {c} : call'[d] = call[d]
  <2> DEFINE state == [at |-> "queueing", action |-> call[c].action]
  <2>1. state \in CallState /\ Becomes(c, state)
    BY <1>7, CallShapes, CallStates DEF SubmitFailed, Submitted
  <2> HIDE DEF state
  <2>2. call'[c] = state /\ \A d \in Calls \ {c} : call'[d] = call[d]
    BY <1>5, <2>1
  <2> QED
    BY <2>2 DEF state
<1>8. ASSUME ResendDone(c)
      PROVE  /\ call'[c] = [at |-> "flushing", copy |-> Tail(call[c].copy)]
             /\ \A d \in Calls \ {c} : call'[d] = call[d]
  <2>1. call[c].copy \in Queue /\ call[c].copy # <<>>
    BY <1>8, CallShapes DEF ResendDone, Resending
  <2>2. Tail(call[c].copy) \in Queue
    BY <2>1, HeadTailProperties DEF Queue
  <2> DEFINE state == [at |-> "flushing", copy |-> Tail(call[c].copy)]
  <2>3. state \in CallState /\ Becomes(c, state)
    BY <1>8, <2>2, CallStates DEF ResendDone
  <2> HIDE DEF state
  <2>4. call'[c] = state /\ \A d \in Calls \ {c} : call'[d] = call[d]
    BY <1>5, <2>3
  <2> QED
    BY <2>4 DEF state
<1>9. ASSUME ResendFailed(c)
      PROVE  /\ call'[c] = [at |-> "storing", copy |-> call[c].copy]
             /\ \A d \in Calls \ {c} : call'[d] = call[d]
  <2>1. call[c].copy \in Queue
    BY <1>9, CallShapes DEF ResendFailed, Resending
  <2> DEFINE state == [at |-> "storing", copy |-> call[c].copy]
  <2>2. state \in CallState /\ Becomes(c, state)
    BY <1>9, <2>1, CallStates DEF ResendFailed, Kept
  <2> HIDE DEF state
  <2>3. call'[c] = state /\ \A d \in Calls \ {c} : call'[d] = call[d]
    BY <1>5, <2>2
  <2> QED
    BY <2>3 DEF state
<1>10. ~Awaits(c)' /\ \A d \in Calls \ {c} : call'[d] = call[d]
  BY <1>6, <1>7, <1>8, <1>9 DEF Awaits
<1> QED
  BY <1>2, <1>4, <1>6, <1>7, <1>8, <1>9, <1>10 DEF Leaves

\* A call whose request or whose answer is lost goes on as if it had failed.
LEMMA LoseEffect ==
  ASSUME TypeOK, NEW c \in Calls, Lose(c)
  PROVE  /\ Leaves(c)
         /\ call[c].at = "submitting" => call'[c] = [at |-> "queueing", action |-> call[c].action]
         /\ call[c].at = "resending" => call'[c] = [at |-> "storing", copy |-> call[c].copy]
         /\ \A d \in Calls \ {c} : call'[d] = call[d]
<1>1. Awaits(c)
      /\ call[c].slot \in Slots
      /\ (call[c].at = "submitting" => call[c].action \in Ids)
      /\ (call[c].at = "resending" => call[c].copy \in Queue)
  BY CallShapes DEF Lose, Submitted, Resending, Awaits
<1>2. PICK request \in Abandoned(http[call[c].slot]) :
        http' = [http EXCEPT ![call[c].slot] = request]
  BY DEF Lose
<1>3. /\ \A t \in Slots \ {call[c].slot} : http'[t] = http[t]
      /\ \/ http'[call[c].slot] = Free
         \/ /\ http[call[c].slot].at \in {"sent", "looked", "guarded"}
            /\ http'[call[c].slot] = [at |-> http[call[c].slot].at,
                                      action |-> http[call[c].slot].action, waits |-> FALSE]
  BY <1>1, <1>2, AbandonShape DEF TypeOK
<1> DEFINE state == IF call[c].at = "submitting"
                    THEN [at |-> "queueing", action |-> call[c].action]
                    ELSE [at |-> "storing", copy |-> call[c].copy]
<1>4. state \in CallState /\ Becomes(c, state) /\ state.at \in {"queueing", "storing"}
  BY <1>1, CallStates DEF Lose, Kept, Awaits
<1>5. /\ call[c].at = "submitting" => state = [at |-> "queueing", action |-> call[c].action]
      /\ call[c].at = "resending" => state = [at |-> "storing", copy |-> call[c].copy]
  OBVIOUS
<1> HIDE DEF state
<1>6. call'[c] = state /\ \A d \in Calls \ {c} : call'[d] = call[d]
  BY <1>4, BecomesShape
<1>7. ~Awaits(c)'
  BY <1>4, <1>6 DEF Awaits
<1> QED
  BY <1>1, <1>3, <1>5, <1>6, <1>7 DEF Leaves

\* The steps of a call on the disk and on the screen: what the call holds then.
LEMMA StayEffect ==
  ASSUME TypeOK, NEW c \in Calls,
         QueueRead(c) \/ QueueWrite(c) \/ Flush(c) \/ FlushWrite(c) \/ Refresh(c)
  PROVE  /\ Stays(c)
         /\ QueueRead(c) =>
              call'[c] = [at |-> "appending", action |-> call[c].action, copy |-> disk]
         /\ QueueWrite(c) => call'[c].at \in {"idle", "syncing"}
         /\ Flush(c) => call'[c] = [at |-> "flushing", copy |-> disk]
         /\ FlushWrite(c) => call'[c].at = "refreshing"
         /\ Refresh(c) => call'[c].at = "idle"
         /\ \A d \in Calls \ {c} : call'[d] = call[d]
<1>1. ~Awaits(c) /\ http' = http
  BY DEF QueueRead, QueueWrite, Flush, FlushWrite, Refresh, Awaits, apiVars
<1>2. ASSUME NEW state \in CallState, state.at \notin {"submitting", "resending"},
             Becomes(c, state)
      PROVE  ~Awaits(c)' /\ call'[c] = state /\ \A d \in Calls \ {c} : call'[d] = call[d]
  <2>1. call'[c] = state /\ \A d \in Calls \ {c} : call'[d] = call[d]
    BY <1>2, BecomesShape
  <2> QED
    BY <1>2, <2>1 DEF Awaits
<1>3. CASE QueueRead(c)
  <2> DEFINE state == [at |-> "appending", action |-> call[c].action, copy |-> disk]
  <2>1. call[c].action \in Ids
    BY <1>3, CallShapes DEF QueueRead, Queueing
  <2>2. state \in CallState /\ state.at = "appending" /\ Becomes(c, state)
    BY <1>3, <2>1, CallStates DEF QueueRead, TypeOK
  <2> HIDE DEF state
  <2>3. ~Awaits(c)' /\ call'[c] = state /\ \A d \in Calls \ {c} : call'[d] = call[d]
    BY <1>2, <2>2
  <2>4. call'[c] = [at |-> "appending", action |-> call[c].action, copy |-> disk]
    BY <2>3 DEF state
  <2>5. call[c].at = "queueing"
    BY <1>3 DEF QueueRead
  <2> QED
    BY <1>1, <2>3, <2>4, <2>5 DEF Stays, QueueWrite, Flush, FlushWrite, Refresh
<1>4. CASE QueueWrite(c)
  <2>1. call[c].action \in Ids /\ Return(c, call[c].action) /\ call[c].at = "appending"
    BY <1>4, CallShapes DEF QueueWrite, Appending
  <2>2. call'[c].at \in {"idle", "syncing"} /\ \A d \in Calls \ {c} : call'[d] = call[d]
    BY <2>1, ReturnTypes
  <2> QED
    BY <1>1, <2>1, <2>2 DEF Stays, Awaits, QueueRead, Flush, FlushWrite, Refresh
<1>5. CASE Flush(c)
  <2> DEFINE state == [at |-> "flushing", copy |-> disk]
  <2>1. state \in CallState /\ state.at = "flushing" /\ Becomes(c, state)
    BY <1>5, CallStates DEF Flush, TypeOK
  <2> HIDE DEF state
  <2>2. ~Awaits(c)' /\ call'[c] = state /\ \A d \in Calls \ {c} : call'[d] = call[d]
    BY <1>2, <2>1
  <2>3. call'[c] = [at |-> "flushing", copy |-> disk] /\ call[c].at \in {"idle", "syncing"}
    BY <1>5, <2>2 DEF state, Flush
  <2> QED
    BY <1>1, <2>2, <2>3 DEF Stays, QueueRead, QueueWrite, FlushWrite, Refresh
<1>6. CASE FlushWrite(c)
  <2> DEFINE state == [at |-> "refreshing"]
  <2>1. state \in CallState /\ state.at = "refreshing" /\ Becomes(c, state)
    BY <1>6, CallStates DEF FlushWrite
  <2> HIDE DEF state
  <2>2. ~Awaits(c)' /\ call'[c] = state /\ \A d \in Calls \ {c} : call'[d] = call[d]
    BY <1>2, <2>1
  <2>3. call'[c].at = "refreshing" /\ call[c].at \in {"flushing", "storing"}
    BY <1>6, <2>1, <2>2 DEF FlushWrite
  <2> QED
    BY <1>1, <2>2, <2>3 DEF Stays, QueueRead, QueueWrite, Flush, Refresh
<1>7. CASE Refresh(c)
  <2>1. Resting \in CallState /\ Resting.at = "idle" /\ Becomes(c, Resting)
        /\ call[c].at = "refreshing"
    BY <1>7, CallStates DEF Refresh, Resting
  <2>2. ~Awaits(c)' /\ call'[c] = Resting /\ \A d \in Calls \ {c} : call'[d] = call[d]
    BY <1>2, <2>1
  <2> QED
    BY <1>1, <2>1, <2>2 DEF Stays, QueueRead, QueueWrite, Flush, FlushWrite
<1> QED
  BY <1>3, <1>4, <1>5, <1>6, <1>7

\* Every step of the app's calls is one of the three.
LEMMA CallEffect ==
  ASSUME TypeOK, NEW c \in Calls, Submit(c) \/ Flush(c) \/ Running(c) \/ Lose(c)
  PROVE  /\ Sends(c) \/ Leaves(c) \/ Stays(c)
         /\ \A d \in Calls \ {c} : call'[d] = call[d]
         /\ served' = served
<1>1. served' = served
  BY DEF Submit, Flush, Running, Lose, SubmitDone, SubmitFailed, QueueRead, QueueWrite, Resend,
         ResendDone, ResendFailed, FlushWrite, Refresh, apiVars
<1> QED
  BY <1>1, SubmitEffect, ResendEffect, LeaveEffect, LoseEffect, StayEffect DEF Running

\* A call that awaits an answer has the request to itself, and it is for the action the
\* call means; an answer that is "ok" tells of an action the API has handled.
Owned ==
  /\ \A c \in Calls :
       Awaits(c) => /\ http[call[c].slot].at # "free" /\ http[call[c].slot].waits
                    /\ http[call[c].slot].action = Due(c)
  /\ \A c, d \in Calls : Awaits(c) /\ Awaits(d) /\ c # d => call[c].slot # call[d].slot
  /\ \A s \in Slots : http[s].at = "ok" => http[s].action \in served

\* The slot of a call that awaits is one.
LEMMA AwaitedSlot ==
  ASSUME TypeOK, NEW c \in Calls, Awaits(c)
  PROVE  call[c].slot \in Slots
BY CallShapes DEF Awaits, Submitted, Resending

\* A call that does not move awaits what it awaited.
LEMMA StillAwaits ==
  ASSUME NEW d \in Calls, call'[d] = call[d]
  PROVE  (Awaits(d)' <=> Awaits(d)) /\ Due(d)' = Due(d) /\ call'[d].slot = call[d].slot
BY DEF Awaits, Due

LEMMA OwnedCallStep ==
  ASSUME TypeOK, TypeOK', Owned, NEW c \in Calls,
         Sends(c) \/ Leaves(c) \/ Stays(c),
         \A d \in Calls \ {c} : call'[d] = call[d], served' = served
  PROVE  Owned'
<1>1. ASSUME NEW d \in Calls \ {c}, Awaits(d)'
      PROVE  /\ Awaits(d) /\ Due(d)' = Due(d)
             /\ call'[d].slot = call[d].slot /\ call[d].slot \in Slots
             /\ http'[call[d].slot] = http[call[d].slot]
  <2>1. call'[d] = call[d] /\ Awaits(d) /\ Due(d)' = Due(d) /\ call'[d].slot = call[d].slot
    BY <1>1, StillAwaits
  <2>2. call[d].slot \in Slots /\ http[call[d].slot].at # "free"
    BY <2>1, AwaitedSlot DEF Owned
  <2>3. CASE Sends(c)
    <3>1. call[d].slot # call'[c].slot
      BY <2>2, <2>3, FreeShape DEF Sends
    <3> QED
      BY <2>1, <2>2, <2>3, <3>1 DEF Sends
  <2>4. CASE Leaves(c)
    <3>1. call[d].slot # call[c].slot
      BY <1>1, <2>1, <2>4 DEF Owned, Leaves
    <3> QED
      BY <2>1, <2>2, <2>4, <3>1 DEF Leaves
  <2>5. CASE Stays(c)
    BY <2>1, <2>2, <2>5 DEF Stays
  <2> QED
    BY <2>3, <2>4, <2>5
<1>2. ASSUME Awaits(c)'
      PROVE  /\ http'[call'[c].slot].at # "free" /\ http'[call'[c].slot].waits
             /\ http'[call'[c].slot].action = Due(c)'
             /\ call'[c].slot \in Slots /\ http[call'[c].slot] = Free
  BY <1>2 DEF Sends, Leaves, Stays
<1>3. ASSUME NEW d \in Calls, Awaits(d)'
      PROVE  /\ http'[call'[d].slot].at # "free" /\ http'[call'[d].slot].waits
             /\ http'[call'[d].slot].action = Due(d)'
  <2>1. CASE d = c
    BY <1>2, <1>3, <2>1
  <2>2. CASE d # c
    BY <1>1, <1>3, <2>2 DEF Owned
  <2> QED
    BY <2>1, <2>2
<1>4. ASSUME NEW d \in Calls, NEW e \in Calls, Awaits(d)', Awaits(e)', d # e
      PROVE  call'[d].slot # call'[e].slot
  <2>1. CASE d # c /\ e # c
    BY <1>1, <1>4, <2>1 DEF Owned
  <2>2. CASE d = c
    BY <1>1, <1>2, <1>4, <2>2, FreeShape DEF Owned
  <2>3. CASE e = c
    BY <1>1, <1>2, <1>4, <2>3, FreeShape DEF Owned
  <2> QED
    BY <2>1, <2>2, <2>3
<1>5. ASSUME NEW s \in Slots, http'[s].at = "ok"
      PROVE  http'[s].action \in served'
  <2>1. http'[s] = http[s]
    BY <1>5, FreeShape DEF Sends, Leaves, Stays
  <2> QED
    BY <1>5, <2>1 DEF Owned
<1> QED
  BY <1>3, <1>4, <1>5 DEF Owned

LEMMA OwnedServerStep ==
  ASSUME TypeOK, Owned, NEW s \in Slots, Server(s)
  PROVE  Owned'
<1>1. /\ http[s].at # "free"
      /\ \A t \in Slots \ {s} : http'[t] = http[t]
      /\ \/ http'[s] = Free /\ ~http[s].waits
         \/ /\ http'[s] \in LiveRequest
            /\ http'[s].action = http[s].action /\ http'[s].waits = http[s].waits
            /\ http'[s].at = "ok" => http[s].action \in served'
      /\ served \subseteq served'
  BY ServerFacts DEF Server, TypeOK
<1>2. call' = call
  BY DEF Server, appVars
<1>3. \A d \in Calls : (Awaits(d)' <=> Awaits(d)) /\ Due(d)' = Due(d)
                       /\ call'[d].slot = call[d].slot
  BY <1>2, StillAwaits
<1>4. ASSUME NEW d \in Calls, Awaits(d)
      PROVE  /\ http'[call[d].slot].at # "free" /\ http'[call[d].slot].waits
             /\ http'[call[d].slot].action = Due(d)
  <2>1. /\ call[d].slot \in Slots
        /\ http[call[d].slot].at # "free" /\ http[call[d].slot].waits
        /\ http[call[d].slot].action = Due(d)
    BY <1>4, AwaitedSlot DEF Owned
  <2>2. CASE call[d].slot = s
    BY <1>1, <2>1, <2>2 DEF LiveRequest
  <2>3. CASE call[d].slot # s
    BY <1>1, <2>1, <2>3
  <2> QED
    BY <2>2, <2>3
<1>5. ASSUME NEW t \in Slots, http'[t].at = "ok"
      PROVE  http'[t].action \in served'
  <2>1. CASE t = s
    BY <1>1, <1>5, <2>1, FreeShape
  <2>2. CASE t # s
    BY <1>1, <1>5, <2>2 DEF Owned
  <2> QED
    BY <2>1, <2>2
<1> QED
  BY <1>3, <1>4, <1>5 DEF Owned

LEMMA OwnedCrash ==
  ASSUME TypeOK, Owned, Crash
  PROVE  Owned'
<1>1. /\ \A c \in Calls : ~Awaits(c)'
      /\ \A s \in Slots : http'[s].at # "ok"
  BY CrashFacts, FreeShape DEF Awaits, Resting
<1> QED
  BY <1>1 DEF Owned

LEMMA OwnedStep ==
  ASSUME TypeOK, Owned, [Next]_vars
  PROVE  Owned'
<1>1. TypeOK'
  BY TypeStep
<1>2. CASE UNCHANGED vars
  BY <1>2 DEF vars, apiVars, appVars, Owned, Awaits, Due
<1>3. ASSUME NEW c \in Calls, Submit(c) \/ Flush(c) \/ Running(c) \/ Lose(c)
      PROVE  Owned'
  BY <1>1, <1>3, CallEffect, OwnedCallStep
<1>4. ASSUME NEW s \in Slots, Server(s)
      PROVE  Owned'
  BY <1>4, OwnedServerStep
<1>5. CASE Crash
  BY <1>5, OwnedCrash
<1> QED
  BY <1>2, <1>3, <1>4, <1>5 DEF Next

LEMMA OwnedInit ==
  ASSUME Init
  PROVE  Owned
BY DEF Init, ApiInit, Owned, Awaits, Resting, Free

\* The step of a flush that puts its request behind it: an answer that is "ok", and then
\* it is the answer of the action the flush drops, or an error, and then nothing goes.
LEMMA DropStep ==
  ASSUME TypeOK, Owned, [Next]_vars, NEW c \in Calls,
         call[c].at = "resending", call'[c].at \in {"flushing", "storing"}
  PROVE  \/ call'[c].copy = call[c].copy
         \/ Head(call[c].copy) \in served /\ call'[c].copy = Tail(call[c].copy)
<1>1. call[c].copy \in Queue /\ call[c].copy # <<>> /\ Awaits(c)
  BY CallShapes DEF Resending, Awaits
<1>2. CASE ResendDone(c)
  <2>1. call'[c] = [at |-> "flushing", copy |-> Tail(call[c].copy)]
    BY <1>2, LeaveEffect, Zenon
  <2>2. call[c].slot \in Slots /\ http[call[c].slot].at = "ok"
    BY <1>1, <1>2, AwaitedSlot DEF ResendDone, At
  <2>3. http[call[c].slot].action = Head(call[c].copy)
    BY <1>1 DEF Owned, Due
  <2> QED
    BY <2>1, <2>2, <2>3 DEF Owned
<1>3. CASE ResendFailed(c)
  <2>1. call'[c] = [at |-> "storing", copy |-> call[c].copy]
    BY <1>3, LeaveEffect, Zenon
  <2> QED
    BY <2>1
<1>4. CASE Lose(c)
  <2>1. call[c].at = "resending" => call'[c] = [at |-> "storing", copy |-> call[c].copy]
    BY <1>4, LoseEffect, Zenon
  <2> QED
    BY <2>1
<1>5. CASE call'[c] = call[c]
  BY <1>5
<1>6. CASE Crash
  BY <1>6, CrashFacts DEF Resting
<1>7. CASE UNCHANGED vars
  BY <1>7 DEF vars, appVars
<1>8. ~(Submit(c) \/ Flush(c) \/ SubmitDone(c) \/ SubmitFailed(c) \/ QueueRead(c) \/ QueueWrite(c)
        \/ Resend(c) \/ FlushWrite(c) \/ Refresh(c))
  BY DEF Submit, Flush, SubmitDone, SubmitFailed, QueueRead, QueueWrite, Resend, FlushWrite,
         Refresh, Resting
<1>9. ASSUME NEW d \in Calls, Submit(d) \/ Flush(d) \/ Running(d) \/ Lose(d)
      PROVE  d = c \/ call'[c] = call[c]
  BY <1>9, CallEffect
<1>10. ASSUME NEW s \in Slots, Server(s)
       PROVE  call'[c] = call[c]
  BY <1>10 DEF Server, appVars
<1> QED
  BY <1>2, <1>3, <1>4, <1>5, <1>6, <1>7, <1>8, <1>9, <1>10 DEF Next, Running

\* A flush takes an action off its queue only when the API has handled that very action,
\* with any number of calls, of requests on the way, of losses and of crashes (flushQueue).
THEOREM DropsOnlyServed == Spec => DroppedOnlyWhenServed
<1>1. Init => TypeOK /\ Owned
  BY TypeInit, OwnedInit
<1>2. TypeOK /\ Owned /\ [Next]_vars => TypeOK' /\ Owned'
  BY TypeStep, OwnedStep
<1>3. TypeOK /\ Owned /\ [Next]_vars =>
        [\A c \in Calls :
           call[c].at = "resending" /\ call'[c].at \in {"flushing", "storing"} =>
             \/ call'[c].copy = call[c].copy
             \/ Head(call[c].copy) \in served /\ call'[c].copy = Tail(call[c].copy)]_vars
  BY DropStep
<1> QED
  BY <1>1, <1>2, <1>3, PTL DEF Spec, DroppedOnlyWhenServed

----
(***************************************************************************)
(* A creation leaves one row.                                                *)
(***************************************************************************)

\* An action that travels, waits or was served is one the driver recorded.
KnownActions ==
  /\ served \subseteq 1..Len(log)
  /\ disk \in Seq(1..Len(log))
  /\ \A s \in Slots : http[s].at # "free" => http[s].action \in 1..Len(log)
  /\ \A c \in Calls :
       /\ call[c].at \in {"submitting", "queueing", "appending"} => call[c].action \in 1..Len(log)
       /\ call[c].at \in {"appending", "flushing", "storing", "resending"} =>
            call[c].copy \in Seq(1..Len(log))

\* What a step of a call leaves known, from what it leaves where it was.
LEMMA KnownFrom ==
  ASSUME TypeOK, KnownActions, NEW c \in Calls, NEW n \in Nat,
         Len(log) <= n, Len(log') = n, served' = served, disk' \in Seq(1..n),
         \A s \in Slots : http'[s].at # "free" => http'[s].action \in 1..n,
         \A d \in Calls \ {c} : call'[d] = call[d],
         call'[c].at \in {"submitting", "queueing", "appending"} => call'[c].action \in 1..n,
         call'[c].at \in {"appending", "flushing", "storing", "resending"} =>
           call'[c].copy \in Seq(1..n)
  PROVE  KnownActions'
<1>1. Len(log) \in Nat /\ 1..Len(log) \subseteq 1..n
  BY DEF TypeOK, ApiTypeOK
<1>2. served' \subseteq 1..n
  BY <1>1 DEF KnownActions
<1>3. ASSUME NEW d \in Calls
      PROVE  /\ call'[d].at \in {"submitting", "queueing", "appending"} => call'[d].action \in 1..n
             /\ call'[d].at \in {"appending", "flushing", "storing", "resending"} =>
                  call'[d].copy \in Seq(1..n)
  <2>1. CASE d = c
    BY <2>1
  <2>2. CASE d # c
    <3>1. call'[d] = call[d]
      BY <2>2
    <3>2. call[d].at \in {"appending", "flushing", "storing", "resending"} =>
            call[d].copy \in Seq(1..n)
      BY <1>1, SeqMonotonic DEF KnownActions
    <3> QED
      BY <1>1, <3>1, <3>2 DEF KnownActions
  <2> QED
    BY <2>1, <2>2
<1> QED
  BY <1>2, <1>3 DEF KnownActions

\* The requests of a call's step, when it does not send, were there before.
LEMMA KnownRequests ==
  ASSUME TypeOK, KnownActions, NEW c \in Calls, Leaves(c) \/ Stays(c),
         NEW s \in Slots, http'[s].at # "free"
  PROVE  http'[s].action \in 1..Len(log)
BY FreeShape DEF Leaves, Stays, KnownActions

LEMMA KnownSubmit ==
  ASSUME TypeOK, KnownActions, NEW c \in Calls, Submit(c)
  PROVE  KnownActions'
<1>1. PICK action \in Action, s \in Slots :
        LET n == Len(log) + 1
        IN  /\ n \in Ids
            /\ log' \in Seq(Action) /\ Len(log') = n
            /\ Becomes(c, [at |-> "submitting", action |-> n, slot |-> s])
            /\ Send(s, n)
            /\ UNCHANGED <<served, disk>>
  BY SubmitFacts
<1> DEFINE n == Len(log) + 1
           state == [at |-> "submitting", action |-> n, slot |-> s]
<1>2. n \in Nat /\ Len(log) <= n /\ Len(log') = n /\ n \in 1..n
      /\ Len(log) \in Nat /\ 1..Len(log) \subseteq 1..n
  BY <1>1 DEF TypeOK, ApiTypeOK, Ids
<1>3. n \in Ids /\ state \in CallState /\ Becomes(c, state) /\ Send(s, n)
  BY <1>1, CallStates
<1>4. state.at = "submitting" /\ state.action = n
  OBVIOUS
<1>5. served' = served /\ disk' = disk
  BY <1>1
<1> HIDE DEF n, state
<1>6. call'[c] = state /\ \A d \in Calls \ {c} : call'[d] = call[d]
  BY <1>3, BecomesShape
<1>7. /\ http'[s] = [at |-> "sent", action |-> n, waits |-> TRUE]
      /\ \A t \in Slots \ {s} : http'[t] = http[t]
  BY <1>3, SendShape DEF TypeOK
<1>8. \A t \in Slots : http'[t].at # "free" => http'[t].action \in 1..n
  BY <1>2, <1>7 DEF KnownActions
<1>9. disk' \in Seq(1..n)
  BY <1>2, <1>5, SeqMonotonic DEF KnownActions
<1> QED
  BY <1>2, <1>4, <1>5, <1>6, <1>8, <1>9, KnownFrom

LEMMA KnownCallStep ==
  ASSUME TypeOK, KnownActions, NEW c \in Calls, Flush(c) \/ Running(c) \/ Lose(c)
  PROVE  KnownActions'
<1>1. /\ log' = log /\ served' = served /\ Len(log) \in Nat
      /\ \A d \in Calls \ {c} : call'[d] = call[d]
  <2>1. log' = log
    BY DEF Flush, Running, Lose, SubmitDone, SubmitFailed, QueueRead, QueueWrite, Resend,
           ResendDone, ResendFailed, FlushWrite, Refresh
  <2>2. Len(log) \in Nat
    BY DEF TypeOK, ApiTypeOK
  <2>3. served' = served /\ \A d \in Calls \ {c} : call'[d] = call[d]
    BY CallEffect, Zenon
  <2> QED
    BY <2>1, <2>2, <2>3
<1>2. ASSUME disk' \in Seq(1..Len(log)), Leaves(c) \/ Stays(c),
             call'[c].at \in {"submitting", "queueing", "appending"} =>
               call'[c].action \in 1..Len(log),
             call'[c].at \in {"appending", "flushing", "storing", "resending"} =>
               call'[c].copy \in Seq(1..Len(log))
      PROVE  KnownActions'
  <2> DEFINE n == Len(log)
  <2>1. \A s \in Slots : http'[s].at # "free" => http'[s].action \in 1..n
    BY <1>2, KnownRequests
  <2>2. n \in Nat /\ Len(log) <= n /\ Len(log') = n
    BY <1>1
  <2>3. /\ disk' \in Seq(1..n)
        /\ call'[c].at \in {"submitting", "queueing", "appending"} => call'[c].action \in 1..n
        /\ call'[c].at \in {"appending", "flushing", "storing", "resending"} =>
             call'[c].copy \in Seq(1..n)
    BY <1>2
  <2> HIDE DEF n
  <2> QED
    BY <1>1, <2>1, <2>2, <2>3, KnownFrom
<1>3. disk \in Seq(1..Len(log))
  BY DEF KnownActions
<1>4. CASE SubmitDone(c)
  <2>1. Leaves(c) /\ call'[c].at \in {"idle", "syncing"}
    BY <1>4, LeaveEffect, Zenon
  <2>2. disk' = disk
    BY <1>4 DEF SubmitDone
  <2> QED
    BY <1>2, <1>3, <2>1, <2>2
<1>5. CASE SubmitFailed(c)
  <2>1. Leaves(c) /\ call'[c] = [at |-> "queueing", action |-> call[c].action]
    BY <1>5, LeaveEffect, Zenon
  <2>2. disk' = disk /\ call[c].action \in 1..Len(log)
    BY <1>5 DEF SubmitFailed, KnownActions
  <2> QED
    BY <1>2, <1>3, <2>1, <2>2
<1>6. CASE QueueRead(c)
  <2>1. call'[c] = [at |-> "appending", action |-> call[c].action, copy |-> disk] /\ Stays(c)
    BY <1>6, StayEffect
  <2>2. disk' = disk /\ call[c].action \in 1..Len(log)
    BY <1>6 DEF QueueRead, KnownActions
  <2> QED
    BY <1>2, <1>3, <2>1, <2>2
<1>7. CASE QueueWrite(c)
  <2>1. call[c].copy \in Seq(1..Len(log)) /\ call[c].action \in 1..Len(log)
    BY <1>7 DEF QueueWrite, KnownActions
  <2>2. disk' \in Seq(1..Len(log))
    BY <1>7, <2>1, AppendProperties DEF QueueWrite, Store, Enqueued
  <2> QED
    BY <1>2, <1>7, <2>2, StayEffect
<1>8. CASE Flush(c)
  <2>1. call'[c] = [at |-> "flushing", copy |-> disk] /\ Stays(c) /\ disk' = disk
    BY <1>8, StayEffect DEF Flush
  <2> QED
    BY <1>2, <1>3, <2>1
<1>9. CASE FlushWrite(c)
  <2>1. disk' \in Seq(1..Len(log))
    BY <1>9 DEF FlushWrite, Store, KnownActions
  <2> QED
    BY <1>2, <1>9, <2>1, StayEffect
<1>10. CASE Refresh(c)
  <2>1. disk' = disk
    BY <1>10 DEF Refresh
  <2> QED
    BY <1>2, <1>3, <1>10, <2>1, StayEffect
<1>11. CASE ResendDone(c)
  <2>1. Leaves(c) /\ call'[c] = [at |-> "flushing", copy |-> Tail(call[c].copy)]
    BY <1>11, LeaveEffect, Zenon
  <2>2. call[c].copy # <<>> /\ disk' = disk /\ call[c].copy \in Seq(1..Len(log))
    BY <1>11, CallShapes DEF ResendDone, Resending, KnownActions
  <2>3. Tail(call[c].copy) \in Seq(1..Len(log))
    BY <2>2, HeadTailProperties
  <2> QED
    BY <1>2, <1>3, <2>1, <2>2, <2>3
<1>12. CASE ResendFailed(c)
  <2>1. Leaves(c) /\ call'[c] = [at |-> "storing", copy |-> call[c].copy]
    BY <1>12, LeaveEffect, Zenon
  <2>2. disk' = disk /\ call[c].copy \in Seq(1..Len(log))
    BY <1>12 DEF ResendFailed, KnownActions
  <2> QED
    BY <1>2, <1>3, <2>1, <2>2
<1>13. CASE Lose(c)
  <2>1. disk' = disk
    BY <1>13 DEF Lose
  <2>2. call[c].at \in {"submitting", "resending"}
    BY <1>13 DEF Lose
  <2>3. /\ call'[c].at \in {"submitting", "queueing", "appending"} =>
             call'[c].action \in 1..Len(log)
        /\ call'[c].at \in {"appending", "flushing", "storing", "resending"} =>
             call'[c].copy \in Seq(1..Len(log))
    <3>1. /\ call[c].at = "submitting" =>
               call'[c] = [at |-> "queueing", action |-> call[c].action]
          /\ call[c].at = "resending" => call'[c] = [at |-> "storing", copy |-> call[c].copy]
      BY <1>13, LoseEffect, Zenon
    <3> QED
      BY <2>2, <3>1 DEF KnownActions
  <2> QED
    BY <1>2, <1>3, <1>13, <2>1, <2>3, LoseEffect
<1>14. CASE Resend(c)
  <2>1. Sends(c) /\ call'[c].copy = call[c].copy /\ call'[c].at = "resending"
    BY <1>14, ResendEffect
  <2>2. disk' = disk /\ call[c].copy \in Seq(1..Len(log)) /\ call[c].copy # <<>>
    BY <1>14 DEF Resend, KnownActions
  <2>3. Due(c)' \in 1..Len(log)
    BY <2>1, <2>2, HeadTailProperties DEF Due
  <2> DEFINE n == Len(log)
  <2>4. \A s \in Slots : http'[s].at # "free" => http'[s].action \in 1..n
    BY <2>1, <2>3 DEF Sends, KnownActions
  <2>5. n \in Nat /\ Len(log) <= n /\ Len(log') = n
    BY <1>1
  <2>6. disk' \in Seq(1..n) /\ call'[c].copy \in Seq(1..n)
    BY <1>3, <2>1, <2>2
  <2> HIDE DEF n
  <2> QED
    BY <1>1, <2>1, <2>4, <2>5, <2>6, KnownFrom
<1> QED
  BY <1>4, <1>5, <1>6, <1>7, <1>8, <1>9, <1>10, <1>11, <1>12, <1>13, <1>14 DEF Running

LEMMA KnownStep ==
  ASSUME TypeOK, KnownActions, [Next]_vars
  PROVE  KnownActions'
<1>1. CASE UNCHANGED vars
  BY <1>1 DEF vars, apiVars, appVars, KnownActions
<1>2. ASSUME NEW c \in Calls, Submit(c) \/ Flush(c) \/ Running(c) \/ Lose(c)
      PROVE  KnownActions'
  BY <1>2, KnownSubmit, KnownCallStep
<1>3. ASSUME NEW s \in Slots, Server(s)
      PROVE  KnownActions'
  <2>1. /\ http[s].at # "free" /\ log' = log
        /\ served' \in {served, served \cup {http[s].action}}
        /\ \A t \in Slots \ {s} : http'[t] = http[t]
        /\ http'[s] = Free \/ http'[s].action = http[s].action
    BY <1>3, ServerFacts DEF Server, TypeOK
  <2>2. call' = call /\ disk' = disk
    BY <1>3 DEF Server, appVars
  <2>3. served' \subseteq 1..Len(log)
    BY <2>1 DEF KnownActions
  <2>4. \A t \in Slots : http'[t].at # "free" => http'[t].action \in 1..Len(log)
    BY <2>1, FreeShape DEF KnownActions
  <2> QED
    BY <2>1, <2>2, <2>3, <2>4 DEF KnownActions
<1>4. CASE Crash
  <2>1. log' = log /\ served' = served /\ disk' = disk
    BY <1>4 DEF Crash
  <2>2. \A s \in Slots : http'[s].at # "free" => http'[s].action \in 1..Len(log)
    BY <1>4, CrashFacts, FreeShape DEF KnownActions
  <2>3. \A c \in Calls : call'[c].at = "idle"
    BY <1>4, CrashFacts DEF Resting
  <2> QED
    BY <2>1, <2>2, <2>3 DEF KnownActions
<1> QED
  BY <1>1, <1>2, <1>3, <1>4 DEF Next

LEMMA KnownInit ==
  ASSUME Init
  PROVE  KnownActions
BY EmptySeq DEF Init, ApiInit, KnownActions, Resting, Free

\* The row of a creation is there before the creation counts as served, and the unique
\* column keeps a second one out.
LEMMA CreatedServerStep ==
  ASSUME TypeOK, CreatedOnce, NEW s \in Slots, Server(s)
  PROVE  CreatedOnce'
<1> DEFINE i == http[s].action
<1>1. /\ log' = log /\ http[s].at # "free" /\ created \in [Ids -> Nat]
      /\ http[s] \in LiveRequest
  BY ServerFacts DEF Server, TypeOK, ApiTypeOK
<1>2. i \in Ids
  BY <1>1 DEF LiveRequest
<1>3. Kind(i) \in {"event", "stop-open"} /\ created[i] > 0 => created[i] = 1
  BY <1>1, <1>2 DEF CreatedOnce
<1>4. CASE created' = created /\ served' = served
  BY <1>1, <1>4 DEF CreatedOnce, Kind
<1>5. CASE /\ created' = created /\ served' = served \cup {i}
           /\ Kind(i) \in {"event", "stop-open"} => created[i] > 0
  BY <1>1, <1>2, <1>3, <1>5 DEF CreatedOnce, Kind
<1>6. CASE /\ created[i] = 0 /\ created' = [created EXCEPT ![i] = @ + 1]
           /\ served' = served \cup {i}
  BY <1>1, <1>2, <1>6 DEF CreatedOnce, Kind
<1>7. Lookup(s) => \/ created' = created /\ served' = served
                   \/ /\ created' = created /\ served' = served \cup {i}
                      /\ Kind(i) \in {"event", "stop-open"} => created[i] > 0
  BY DEF Lookup, AlreadyDone, Commands
<1>8. Guard(s) => created' = created /\ served' = served
  BY DEF Guard
<1>9. InsertRow(s) => \/ /\ created' = created /\ served' = served \cup {i}
                         /\ created[i] > 0
                      \/ /\ created[i] = 0 /\ created' = [created EXCEPT ![i] = @ + 1]
                         /\ served' = served \cup {i}
  BY <1>1, <1>2 DEF InsertRow, UniqueViolated
<1>10. CloseStop(s) \/ UpdateStatus(s) =>
         /\ created' = created /\ served' = served \cup {i}
         /\ Kind(i) \notin {"event", "stop-open"}
  BY DEF CloseStop, UpdateStatus, Commands
<1> HIDE DEF i
<1> QED
  BY <1>4, <1>5, <1>6, <1>7, <1>8, <1>9, <1>10 DEF Server, Handle

LEMMA CreatedStep ==
  ASSUME TypeOK, KnownActions, CreatedOnce, [Next]_vars
  PROVE  CreatedOnce'
<1>1. ASSUME created' = created, served' = served, log' = log
      PROVE  CreatedOnce'
  BY <1>1 DEF CreatedOnce, Kind
<1>2. CASE UNCHANGED vars
  BY <1>1, <1>2 DEF vars, apiVars
<1>3. ASSUME NEW c \in Calls, Submit(c)
      PROVE  CreatedOnce'
  <2>1. /\ created' = created /\ served' = served
        /\ \A i \in 1..Len(log) : log'[i] = log[i]
    BY <1>3, SubmitFacts
  <2>2. served \subseteq 1..Len(log)
    BY DEF KnownActions
  <2> QED
    BY <2>1, <2>2 DEF CreatedOnce, Kind
<1>4. ASSUME NEW c \in Calls, Flush(c) \/ Running(c) \/ Lose(c)
      PROVE  CreatedOnce'
  <2>1. created' = created /\ served' = served /\ log' = log
    BY <1>4 DEF Flush, Running, Lose, SubmitDone, SubmitFailed, QueueRead, QueueWrite, Resend,
                ResendDone, ResendFailed, FlushWrite, Refresh, apiVars
  <2> QED
    BY <1>1, <2>1
<1>5. ASSUME NEW s \in Slots, Server(s)
      PROVE  CreatedOnce'
  BY <1>5, CreatedServerStep
<1>6. CASE Crash
  BY <1>1, <1>6 DEF Crash
<1> QED
  BY <1>2, <1>3, <1>4, <1>5, <1>6 DEF Next

\* However often a creation is sent, and however many of its copies are handled at once,
\* it leaves one row when it is served and never two (deviceEventId).
THEOREM OneRow == Spec => []CreatedOnce
<1>1. Init => TypeOK /\ KnownActions /\ CreatedOnce
  BY TypeInit, KnownInit DEF Init, ApiInit, CreatedOnce
<1>2. TypeOK /\ KnownActions /\ CreatedOnce /\ [Next]_vars
        => TypeOK' /\ KnownActions' /\ CreatedOnce'
  BY TypeStep, KnownStep, CreatedStep
<1> QED
  BY <1>1, <1>2, PTL DEF Spec

----
(***************************************************************************)
(* The queue, under any number of calls.                                     *)
(***************************************************************************)

Holds(c) == call[c].at \in Copying

\* What is on disk and not handled yet is in every copy, or the call has missed it.
Covers(c) ==
  Holds(c) => Range(disk) \subseteq served \cup Range(call[c].copy) \cup missed[c]

QueueCovers == LostOnlyOverwritten /\ \A c \in Calls : Covers(c)

\* A call that stays in its place while actions are served.
LEMMA CoversStays ==
  ASSUME NEW c \in Calls, Covers(c), call'[c] = call[c], disk' = disk, missed' = missed,
         served \subseteq served'
  PROVE  Covers(c)'
BY DEF Covers, Holds

\* A step of a call that writes nothing to the disk.
LEMMA CoverReads ==
  ASSUME QueueCovers, NEW c \in Calls, \A d \in Calls \ {c} : call'[d] = call[d],
         disk' = disk, served' = served, UNCHANGED history,
         accepted' \subseteq accepted \cup served,
         Covers(c)'
  PROVE  QueueCovers'
<1>1. ASSUME NEW d \in Calls PROVE Covers(d)'
  <2>1. CASE d = c
    BY <2>1
  <2>2. CASE d # c
    BY <2>2, CoversStays DEF QueueCovers, history
  <2> QED
    BY <2>1, <2>2
<1>2. LostOnlyOverwritten'
  BY DEF QueueCovers, LostOnlyOverwritten, history
<1> QED
  BY <1>1, <1>2 DEF QueueCovers

\* A write of a queue that has all the copy has: what it takes off the disk was handled,
\* or the call missed it; and what it puts there the others have missed from now on.
LEMMA CoverWrites ==
  ASSUME TypeOK, QueueCovers, NEW c \in Calls, Holds(c), NEW queue, Store(c, queue),
         \A d \in Calls \ {c} : call'[d] = call[d], ~Holds(c)',
         Range(call[c].copy) \subseteq Range(queue), served' = served,
         accepted' \subseteq accepted \cup Range(queue)
  PROVE  QueueCovers'
<1>1. disk' = queue
  BY DEF Store
<1>2. LostOnlyOverwritten'
  <2>1. /\ accepted \subseteq served \cup Range(disk) \cup overwritten
        /\ Range(disk) \subseteq served \cup Range(call[c].copy) \cup missed[c]
    BY DEF QueueCovers, LostOnlyOverwritten, Covers
  <2>2. overwritten' =
          (overwritten \cup (missed[c] \cap Range(disk))) \ (Range(queue) \cup served)
    BY DEF Store
  <2> QED
    BY <1>1, <2>1, <2>2 DEF LostOnlyOverwritten
<1>3. ASSUME NEW d \in Calls, Holds(d)' PROVE Covers(d)'
  <2>1. d # c /\ call'[d] = call[d]
    BY <1>3
  <2>2. call[d].at \in Copying
    BY <1>3, <2>1 DEF Holds
  <2>3. missed'[d] = missed[d] \cup (Range(queue) \ Range(call[d].copy))
    BY <2>1, <2>2 DEF Store
  <2> QED
    BY <1>1, <2>1, <2>3 DEF Covers
<1>4. \A d \in Calls : Covers(d)'
  BY <1>3 DEF Covers
<1> QED
  BY <1>2, <1>4 DEF QueueCovers

LEMMA CoverCallStep ==
  ASSUME TypeOK, Owned, QueueCovers, NEW c \in Calls,
         Submit(c) \/ Flush(c) \/ Running(c) \/ Lose(c)
  PROVE  QueueCovers'
<1>1. served' = served /\ \A d \in Calls \ {c} : call'[d] = call[d]
  BY CallEffect
<1>2. Covers(c) /\ LostOnlyOverwritten
  BY DEF QueueCovers
<1>3. ASSUME disk' = disk, UNCHANGED history, accepted' \subseteq accepted \cup served, Covers(c)'
      PROVE  QueueCovers'
  BY <1>1, <1>3, CoverReads
<1>4. CASE Submit(c)
  <2>1. call'[c].at = "submitting"
    BY <1>4, SubmitEffect
  <2> QED
    BY <1>3, <1>4, <2>1 DEF Submit, Covers, Holds, Copying
<1>5. CASE SubmitDone(c)
  <2>1. call'[c].at \in {"idle", "syncing"}
    BY <1>5, LeaveEffect, Zenon
  <2>2. call[c].at = "submitting" /\ http[call[c].slot].at = "ok"
        /\ disk' = disk /\ UNCHANGED history /\ accepted' = accepted \cup {call[c].action}
    BY <1>5 DEF SubmitDone, At, Return
  <2>3. Awaits(c) /\ Due(c) = call[c].action
    BY <2>2 DEF Awaits, Due
  <2>4. call[c].action \in served
    BY <2>2, <2>3, AwaitedSlot DEF Owned
  <2> QED
    BY <1>3, <2>1, <2>2, <2>4 DEF Covers, Holds, Copying
<1>6. CASE SubmitFailed(c)
  <2>1. call'[c] = [at |-> "queueing", action |-> call[c].action]
    BY <1>6, LeaveEffect, Zenon
  <2> QED
    BY <1>3, <1>6, <2>1 DEF SubmitFailed, Covers, Holds, Copying
<1>7. CASE QueueRead(c)
  <2>1. call'[c] = [at |-> "appending", action |-> call[c].action, copy |-> disk]
    BY <1>7, StayEffect, Zenon
  <2>2. disk' = disk /\ accepted' = accepted /\ UNCHANGED history
    BY <1>7 DEF QueueRead
  <2> QED
    BY <1>3, <2>1, <2>2 DEF Covers
<1>8. CASE QueueWrite(c)
  <2> DEFINE copy == call[c].copy
             i == call[c].action
  <2>1. copy \in Seq(Ids) /\ i \in Ids /\ Holds(c)
    BY <1>8, CallShapes DEF QueueWrite, Appending, Queue, Holds, Copying
  <2>2. call'[c].at \in {"idle", "syncing"}
    BY <1>8, StayEffect, Zenon
  <2>3. Store(c, Append(copy, i)) /\ accepted' = accepted \cup {i}
    BY <1>8 DEF QueueWrite, Enqueued, Return
  <2> HIDE DEF copy, i
  <2>4. /\ DOMAIN copy = 1..Len(copy) /\ Len(copy) \in Nat
        /\ DOMAIN Append(copy, i) = 1..(Len(copy) + 1)
        /\ Append(copy, i)[Len(copy) + 1] = i
        /\ \A n \in 1..Len(copy) : Append(copy, i)[n] = copy[n]
    BY <2>1
  <2>5. Range(copy) \subseteq Range(Append(copy, i)) /\ i \in Range(Append(copy, i))
    BY <2>4 DEF Range
  <2> QED
    BY <1>1, <2>1, <2>2, <2>3, <2>5, CoverWrites DEF Holds, Copying, copy
<1>9. CASE Flush(c)
  <2>1. call'[c] = [at |-> "flushing", copy |-> disk]
    BY <1>9, StayEffect, Zenon
  <2>2. disk' = disk /\ accepted' = accepted /\ UNCHANGED history
    BY <1>9 DEF Flush
  <2> QED
    BY <1>3, <2>1, <2>2 DEF Covers
<1>10. CASE Resend(c)
  <2>1. call'[c].at = "resending" /\ call'[c].copy = call[c].copy
    BY <1>10, ResendEffect, Zenon
  <2>2. call[c].at = "flushing" /\ disk' = disk /\ accepted' = accepted /\ UNCHANGED history
    BY <1>10 DEF Resend
  <2> QED
    BY <1>1, <1>2, <1>3, <2>1, <2>2 DEF Covers, Holds, Copying, history
<1>11. CASE ResendDone(c)
  <2> DEFINE copy == call[c].copy
  <2>1. call'[c] = [at |-> "flushing", copy |-> Tail(copy)]
    BY <1>11, LeaveEffect, Zenon
  <2>2. call[c].at = "resending" /\ http[call[c].slot].at = "ok"
        /\ disk' = disk /\ accepted' = accepted /\ UNCHANGED history
    BY <1>11 DEF ResendDone, At
  <2>3. Awaits(c) /\ Due(c) = Head(copy) /\ copy \in Seq(Ids) /\ copy # <<>>
    BY <2>2, CallShapes DEF Awaits, Due, Resending, Queue
  <2>4. Head(copy) \in served
    BY <2>2, <2>3, AwaitedSlot DEF Owned
  <2>5. Range(disk) \subseteq served \cup Range(copy) \cup missed[c]
    BY <1>2, <2>2 DEF Covers, Holds, Copying
  <2>6. call'[c].copy = Tail(copy)
    BY <2>1
  <2> HIDE DEF copy
  <2>7. /\ DOMAIN copy = 1..Len(copy) /\ Len(copy) \in Nat /\ Len(copy) > 0
        /\ Head(copy) = copy[1]
        /\ DOMAIN Tail(copy) = 1..(Len(copy) - 1)
        /\ \A m \in 1..(Len(copy) - 1) : Tail(copy)[m] = copy[m + 1]
    BY <2>3, HeadTailProperties, LenProperties, EmptySeq
  <2>8. ASSUME NEW m \in DOMAIN copy, m # 1 PROVE copy[m] \in Range(Tail(copy))
    <3>1. m - 1 \in DOMAIN Tail(copy) /\ Tail(copy)[m - 1] = copy[m]
      BY <2>7, <2>8
    <3> QED
      BY <3>1 DEF Range
  <2>9. Range(copy) \subseteq {Head(copy)} \cup Range(Tail(copy))
    BY <2>7, <2>8 DEF Range
  <2> QED
    BY <1>1, <1>3, <2>2, <2>4, <2>5, <2>6, <2>9 DEF Covers, history
<1>12. CASE ResendFailed(c)
  <2>1. call'[c] = [at |-> "storing", copy |-> call[c].copy]
    BY <1>12, LeaveEffect, Zenon
  <2>2. call[c].at = "resending" /\ disk' = disk /\ accepted' = accepted /\ UNCHANGED history
    BY <1>12 DEF ResendFailed
  <2> QED
    BY <1>1, <1>2, <1>3, <2>1, <2>2 DEF Covers, Holds, Copying, history
<1>13. CASE FlushWrite(c)
  <2>1. call'[c].at = "refreshing"
    BY <1>13, StayEffect, Zenon
  <2>2. Store(c, call[c].copy) /\ accepted' = accepted /\ Holds(c)
    BY <1>13 DEF FlushWrite, Holds, Copying
  <2> QED
    BY <1>1, <2>1, <2>2, CoverWrites DEF Holds, Copying
<1>14. CASE Refresh(c)
  <2>1. call'[c].at = "idle"
    BY <1>14, StayEffect, Zenon
  <2> QED
    BY <1>3, <1>14, <2>1 DEF Refresh, Covers, Holds, Copying
<1>15. CASE Lose(c)
  <2>1. /\ call[c].at = "submitting" =>
             call'[c] = [at |-> "queueing", action |-> call[c].action]
        /\ call[c].at = "resending" => call'[c] = [at |-> "storing", copy |-> call[c].copy]
    BY <1>15, LoseEffect, Zenon
  <2>2. /\ call[c].at \in {"submitting", "resending"}
        /\ disk' = disk /\ accepted' = accepted /\ UNCHANGED history
    BY <1>15 DEF Lose
  <2> QED
    BY <1>1, <1>2, <1>3, <2>1, <2>2 DEF Covers, Holds, Copying, history
<1> QED
  BY <1>4, <1>5, <1>6, <1>7, <1>8, <1>9, <1>10, <1>11, <1>12, <1>13, <1>14, <1>15 DEF Running

LEMMA CoverStep ==
  ASSUME TypeOK, Owned, QueueCovers, [Next]_vars
  PROVE  QueueCovers'
<1>1. ASSUME UNCHANGED <<call, disk, accepted, history>>, served \subseteq served'
      PROVE  QueueCovers'
  <2>1. \A c \in Calls : Covers(c)'
    BY <1>1, CoversStays DEF QueueCovers, history
  <2> QED
    BY <1>1, <2>1 DEF QueueCovers, LostOnlyOverwritten, history
<1>2. CASE UNCHANGED vars
  BY <1>1, <1>2 DEF vars, apiVars, appVars
<1>3. ASSUME NEW s \in Slots, Server(s)
      PROVE  QueueCovers'
  <2>1. served \subseteq served'
    BY <1>3, ServerFacts DEF Server, TypeOK
  <2> QED
    BY <1>1, <1>3, <2>1 DEF Server, appVars
<1>4. CASE Crash
  <2>1. /\ disk' = disk /\ accepted' = accepted /\ served' = served
        /\ overwritten' = overwritten
    BY <1>4 DEF Crash
  <2>2. \A c \in Calls : call'[c].at = "idle"
    BY <1>4, CrashFacts DEF Resting
  <2>3. \A c \in Calls : Covers(c)'
    BY <2>2 DEF Covers, Holds, Copying
  <2> QED
    BY <2>1, <2>3 DEF QueueCovers, LostOnlyOverwritten
<1> QED
  BY <1>2, <1>3, <1>4, CoverCallStep DEF Next

\* However many calls share the queue, an action the driver was told is safe is lost in
\* one way only: a call that read the queue before another stored the action writes its
\* copy back (submitOrQueue, flushQueue).
THEOREM LostOnlyByOverwriting == Spec => []LostOnlyOverwritten
<1>1. Init => TypeOK /\ Owned /\ QueueCovers
  <2>1. Init => QueueCovers
    BY DEF Init, QueueCovers, LostOnlyOverwritten, Covers, Holds, Copying, Resting
  <2> QED
    BY <2>1, TypeInit, OwnedInit
<1>2. TypeOK /\ Owned /\ QueueCovers /\ [Next]_vars => TypeOK' /\ Owned' /\ QueueCovers'
  BY TypeStep, OwnedStep, CoverStep
<1>3. QueueCovers => LostOnlyOverwritten
  BY DEF QueueCovers
<1> QED
  BY <1>1, <1>2, <1>3, PTL DEF Spec

----
(***************************************************************************)
(* The order of the queue, under any number of calls.                        *)
(***************************************************************************)

\* From the tap to the write an action has no turn yet.
Entering(c) == call[c].at \in {"submitting", "queueing", "appending"}

\* A queue whose actions took their turns one after the other.
InLine(queue, turns) ==
  /\ \A m \in DOMAIN queue : turns[queue[m]] > 0
  /\ \A m, n \in DOMAIN queue : m < n => turns[queue[m]] < turns[queue[n]]

\* The disk and every copy of it are in line, and no action enters twice.
Ordered ==
  /\ \A i \in Ids : turn[i] <= last /\ (i > Len(log) => turn[i] = 0)
  /\ \A c \in Calls : Entering(c) => turn[call[c].action] = 0
  /\ \A c, d \in Calls :
       Entering(c) /\ Entering(d) /\ c # d => call[c].action # call[d].action
  /\ InLine(disk, turn)
  /\ \A c \in Calls : Holds(c) => InLine(call[c].copy, turn)

\* What is left of a queue in line is in line.
LEMMA TailInLine ==
  ASSUME NEW queue \in Queue, queue # <<>>, NEW turns, InLine(queue, turns)
  PROVE  InLine(Tail(queue), turns)
<1>1. /\ DOMAIN queue = 1..Len(queue) /\ Len(queue) \in Nat
      /\ DOMAIN Tail(queue) = 1..(Len(queue) - 1)
      /\ \A m \in 1..(Len(queue) - 1) : Tail(queue)[m] = queue[m + 1]
  BY HeadTailProperties, LenProperties, EmptySeq DEF Queue
<1>2. \A m \in 1..(Len(queue) - 1) : m + 1 \in DOMAIN queue
  BY <1>1
<1> QED
  BY <1>1, <1>2 DEF InLine

\* An action that takes the next turn goes to the end of the line, and no copy in line
\* has it yet.
LEMMA TakesItsTurn ==
  ASSUME NEW queue \in Queue, NEW i \in Ids, NEW turns \in [Ids -> Nat], NEW top \in Nat,
         InLine(queue, turns), turns[i] = 0, \A j \in Ids : turns[j] <= top
  PROVE  /\ InLine(queue, [turns EXCEPT ![i] = top + 1])
         /\ InLine(Append(queue, i), [turns EXCEPT ![i] = top + 1])
<1> DEFINE later == [turns EXCEPT ![i] = top + 1]
<1>1. /\ DOMAIN queue = 1..Len(queue) /\ Len(queue) \in Nat
      /\ \A m \in DOMAIN queue : queue[m] \in Ids /\ queue[m] # i
  BY LenProperties, ElementOfSeq DEF Queue, InLine
<1>2. later[i] = top + 1 /\ \A j \in Ids \ {i} : later[j] = turns[j] /\ later[j] < top + 1
  OBVIOUS
<1>3. /\ DOMAIN Append(queue, i) = 1..(Len(queue) + 1)
      /\ Append(queue, i)[Len(queue) + 1] = i
      /\ \A m \in 1..Len(queue) : Append(queue, i)[m] = queue[m]
  BY DEF Queue
<1> HIDE DEF later
<1>4. InLine(queue, later)
  BY <1>1, <1>2 DEF InLine
<1>5. InLine(Append(queue, i), later)
  BY <1>1, <1>2, <1>3, <1>4 DEF InLine
<1> QED
  BY <1>4, <1>5 DEF later

\* A step of a call that gives no turn.
LEMMA OrderFrom ==
  ASSUME TypeOK, Ordered, NEW c \in Calls, \A d \in Calls \ {c} : call'[d] = call[d],
         turn' = turn, last' = last, Len(log) \in Nat, Len(log') \in Nat,
         Len(log) <= Len(log'), InLine(disk', turn),
         Holds(c)' => InLine(call'[c].copy, turn),
         Entering(c)' =>
           /\ turn[call'[c].action] = 0
           /\ \A d \in Calls \ {c} : Entering(d) => call[d].action # call'[c].action
  PROVE  Ordered'
<1>1. \A i \in Ids : turn'[i] <= last' /\ (i > Len(log') => turn'[i] = 0)
  BY DEF Ordered, Ids
<1>2. \A d \in Calls : d # c => /\ Entering(d)' = Entering(d) /\ Holds(d)' = Holds(d)
                                 /\ call'[d] = call[d]
  BY DEF Entering, Holds
<1>3. \A d \in Calls : Entering(d)' => turn'[call'[d].action] = 0
  BY <1>2 DEF Ordered
<1>4. \A d, e \in Calls :
        Entering(d)' /\ Entering(e)' /\ d # e => call'[d].action # call'[e].action
  BY <1>2 DEF Ordered
<1>5. InLine(disk', turn')
  OBVIOUS
<1>6. \A d \in Calls : Holds(d)' => InLine(call'[d].copy, turn')
  BY <1>2 DEF Ordered
<1> QED
  BY <1>1, <1>3, <1>4, <1>5, <1>6 DEF Ordered

\* The write of a submission.
LEMMA OrderWrite ==
  ASSUME TypeOK, Ordered, KnownActions, NEW c \in Calls, QueueWrite(c)
  PROVE  Ordered'
<1> DEFINE i == call[c].action
           copy == call[c].copy
<1>1. /\ i \in Ids /\ copy \in Queue /\ Entering(c) /\ Holds(c)
      /\ disk' = Append(copy, i) /\ log' = log
      /\ turn' = [turn EXCEPT ![i] = last + 1] /\ last' = last + 1
  BY CallShapes DEF QueueWrite, Appending, Store, Enqueued, Entering, Holds, Copying
<1>2. call'[c].at \in {"idle", "syncing"} /\ \A d \in Calls \ {c} : call'[d] = call[d]
  BY StayEffect, Zenon
<1>3. /\ turn \in [Ids -> Nat] /\ last \in Nat /\ turn[i] = 0
      /\ \A j \in Ids : turn[j] <= last
      /\ InLine(disk, turn) /\ InLine(copy, turn)
      /\ disk \in Queue
  BY <1>1 DEF Ordered, TypeOK, HistoryTypeOK
<1>4. i \in 1..Len(log) /\ Len(log) \in Nat
  BY <1>1 DEF KnownActions, Entering, TypeOK, ApiTypeOK
<1>5. InLine(disk', turn')
  BY <1>1, <1>3, TakesItsTurn
<1>6. ASSUME NEW d \in Calls, Holds(d)'
      PROVE  InLine(call'[d].copy, turn')
  <2>1. d # c /\ call'[d] = call[d] /\ Holds(d)
    BY <1>2, <1>6 DEF Holds, Copying
  <2>2. call[d].copy \in Queue /\ InLine(call[d].copy, turn)
    BY <2>1, CallShapes DEF Ordered, Holds, Copying, Appending, Sweeping, Resending
  <2> QED
    BY <1>1, <1>3, <2>1, <2>2, TakesItsTurn
<1>7. ASSUME NEW d \in Calls, Entering(d)'
      PROVE  /\ d # c /\ call'[d] = call[d] /\ Entering(d)
             /\ call[d].action \in Ids /\ call[d].action # i
  <2>1. d # c /\ call'[d] = call[d] /\ Entering(d)
    BY <1>2, <1>7 DEF Entering
  <2>2. call[d].action \in Ids
    BY <2>1, CallShapes DEF Entering, Submitted, Queueing, Appending
  <2> QED
    BY <1>1, <2>1, <2>2 DEF Ordered
<1> HIDE DEF i, copy
<1>8. \A j \in Ids : turn'[j] <= last' /\ (j > Len(log') => turn'[j] = 0)
  BY <1>1, <1>3, <1>4 DEF Ordered, Ids
<1>9. \A d \in Calls : Entering(d)' => turn'[call'[d].action] = 0
  BY <1>1, <1>3, <1>7 DEF Ordered
<1>10. \A d, e \in Calls :
         Entering(d)' /\ Entering(e)' /\ d # e => call'[d].action # call'[e].action
  BY <1>7 DEF Ordered
<1> QED
  BY <1>5, <1>6, <1>8, <1>9, <1>10 DEF Ordered

LEMMA OrderCallStep ==
  ASSUME TypeOK, Ordered, KnownActions, NEW c \in Calls,
         Submit(c) \/ Flush(c) \/ Running(c) \/ Lose(c)
  PROVE  Ordered'
<1>1. /\ \A d \in Calls \ {c} : call'[d] = call[d]
      /\ Len(log) \in Nat /\ InLine(disk, turn)
      /\ Holds(c) => InLine(call[c].copy, turn)
      /\ Entering(c) =>
           /\ turn[call[c].action] = 0
           /\ \A d \in Calls \ {c} : Entering(d) => call[d].action # call[c].action
  BY CallEffect DEF Ordered, TypeOK, ApiTypeOK
\* Steps that leave the queue and its turns where they are.
<1>2. ASSUME UNCHANGED <<log, disk, turn, last>>,
             Holds(c)' => InLine(call'[c].copy, turn),
             Entering(c)' => Entering(c) /\ call'[c].action = call[c].action
      PROVE  Ordered'
  BY <1>1, <1>2, OrderFrom
<1>3. CASE Submit(c)
  <2>1. PICK action \in Action, s \in Slots :
          LET n == Len(log) + 1
          IN  /\ n \in Ids /\ Len(log') = n
              /\ UNCHANGED <<disk, history>>
    BY <1>3, SubmitFacts
  <2>2. call'[c].at = "submitting" /\ call'[c].action = Len(log) + 1
    BY <1>3, SubmitEffect
  <2>3. turn[call'[c].action] = 0
    BY <1>1, <2>1, <2>2 DEF Ordered
  <2>4. \A d \in Calls : Entering(d) => call[d].action \in 1..Len(log)
    BY DEF KnownActions, Entering
  <2>5. Len(log') \in Nat /\ Len(log) <= Len(log') /\ ~Holds(c)'
    BY <1>1, <2>1, <2>2 DEF Holds, Copying
  <2>6. turn' = turn /\ last' = last /\ disk' = disk
    BY <2>1 DEF history
  <2>7. \A d \in Calls \ {c} : Entering(d) => call[d].action # call'[c].action
    BY <1>1, <2>2, <2>4
  <2> QED
    BY <1>1, <2>3, <2>5, <2>6, <2>7, OrderFrom
<1>4. CASE SubmitDone(c)
  <2>1. call'[c].at \in {"idle", "syncing"}
    BY <1>4, LeaveEffect, Zenon
  <2> QED
    BY <1>2, <1>4, <2>1 DEF SubmitDone, history, Holds, Copying, Entering
<1>5. CASE SubmitFailed(c)
  <2>1. call'[c] = [at |-> "queueing", action |-> call[c].action]
    BY <1>5, LeaveEffect, Zenon
  <2> QED
    BY <1>2, <1>5, <2>1 DEF SubmitFailed, history, Holds, Copying, Entering
<1>6. CASE QueueRead(c)
  <2>1. call'[c] = [at |-> "appending", action |-> call[c].action, copy |-> disk]
    BY <1>6, StayEffect, Zenon
  <2> QED
    BY <1>1, <1>2, <1>6, <2>1 DEF QueueRead, history, Entering
<1>7. CASE QueueWrite(c)
  BY <1>7, OrderWrite
<1>8. CASE Flush(c)
  <2>1. call'[c] = [at |-> "flushing", copy |-> disk]
    BY <1>8, StayEffect, Zenon
  <2> QED
    BY <1>1, <1>2, <1>8, <2>1 DEF Flush, history, Entering
<1>9. CASE Resend(c)
  <2>1. call'[c].at = "resending" /\ call'[c].copy = call[c].copy
    BY <1>9, ResendEffect, Zenon
  <2>2. Holds(c) /\ UNCHANGED <<log, disk, turn, last>>
    BY <1>9 DEF Resend, history, Holds, Copying
  <2> QED
    BY <1>1, <1>2, <2>1, <2>2 DEF Entering
<1>10. CASE ResendDone(c)
  <2>1. call'[c] = [at |-> "flushing", copy |-> Tail(call[c].copy)]
    BY <1>10, LeaveEffect, Zenon
  <2>2. /\ Holds(c) /\ UNCHANGED <<log, disk, turn, last>>
        /\ call[c].copy \in Queue /\ call[c].copy # <<>>
    BY <1>10, CallShapes DEF ResendDone, history, Holds, Copying, Resending
  <2>3. InLine(Tail(call[c].copy), turn)
    BY <1>1, <2>2, TailInLine
  <2> QED
    BY <1>2, <2>1, <2>2, <2>3 DEF Entering
<1>11. CASE ResendFailed(c)
  <2>1. call'[c] = [at |-> "storing", copy |-> call[c].copy]
    BY <1>11, LeaveEffect, Zenon
  <2>2. Holds(c) /\ UNCHANGED <<log, disk, turn, last>>
    BY <1>11 DEF ResendFailed, history, Holds, Copying
  <2> QED
    BY <1>1, <1>2, <2>1, <2>2 DEF Entering
<1>12. CASE FlushWrite(c)
  <2>1. call'[c].at = "refreshing"
    BY <1>12, StayEffect, Zenon
  <2>2. /\ Holds(c) /\ disk' = call[c].copy
        /\ log' = log /\ turn' = turn /\ last' = last
    BY <1>12 DEF FlushWrite, Store, Holds, Copying
  <2>3. InLine(disk', turn) /\ Len(log') \in Nat /\ Len(log) <= Len(log')
    BY <1>1, <2>2
  <2>4. ~Holds(c)' /\ ~Entering(c)'
    BY <2>1 DEF Holds, Copying, Entering
  <2> QED
    BY <1>1, <2>2, <2>3, <2>4, OrderFrom
<1>13. CASE Refresh(c)
  <2>1. call'[c].at = "idle"
    BY <1>13, StayEffect, Zenon
  <2> QED
    BY <1>2, <1>13, <2>1 DEF Refresh, history, Holds, Copying, Entering
<1>14. CASE Lose(c)
  <2>1. /\ call[c].at = "submitting" =>
             call'[c] = [at |-> "queueing", action |-> call[c].action]
        /\ call[c].at = "resending" => call'[c] = [at |-> "storing", copy |-> call[c].copy]
    BY <1>14, LoseEffect, Zenon
  <2>2. call[c].at \in {"submitting", "resending"} /\ UNCHANGED <<log, disk, turn, last>>
    BY <1>14 DEF Lose, history
  <2> QED
    BY <1>1, <1>2, <2>1, <2>2 DEF Holds, Copying, Entering
<1> QED
  BY <1>3, <1>4, <1>5, <1>6, <1>7, <1>8, <1>9, <1>10, <1>11, <1>12, <1>13, <1>14 DEF Running

LEMMA OrderStep ==
  ASSUME TypeOK, Ordered, KnownActions, [Next]_vars
  PROVE  Ordered'
<1>1. ASSUME UNCHANGED <<log, call, disk, turn, last>>
      PROVE  Ordered'
  BY <1>1 DEF Ordered, Entering, Holds
<1>2. CASE UNCHANGED vars
  BY <1>1, <1>2 DEF vars, appVars, history
<1>3. ASSUME NEW s \in Slots, Server(s)
      PROVE  Ordered'
  <2>1. log' = log
    BY <1>3, ServerFacts DEF Server, TypeOK
  <2> QED
    BY <1>1, <1>3, <2>1 DEF Server, appVars, history
<1>4. CASE Crash
  <2>1. UNCHANGED <<log, disk, turn, last>>
    BY <1>4 DEF Crash
  <2>2. \A c \in Calls : ~Entering(c)' /\ ~Holds(c)'
    BY <1>4, CrashFacts DEF Resting, Entering, Holds, Copying
  <2> QED
    BY <2>1, <2>2 DEF Ordered
<1> QED
  BY <1>2, <1>3, <1>4, OrderCallStep DEF Next

\* What waits on disk waits in the order in which it entered the queue, whatever stale
\* copies concurrent calls write back over it, losses and crashes included (flushQueue).
THEOREM OrderKept == Spec => []QueueInOrder
<1>1. Init => TypeOK /\ KnownActions /\ Ordered
  <2>1. Init => Ordered
    BY DEF Init, Ordered, InLine, Entering, Holds, Copying, Resting
  <2> QED
    BY <2>1, TypeInit, KnownInit
<1>2. TypeOK /\ KnownActions /\ Ordered /\ [Next]_vars
        => TypeOK' /\ KnownActions' /\ Ordered'
  BY TypeStep, KnownStep, OrderStep
<1>3. Ordered => QueueInOrder
  BY DEF Ordered, InLine, QueueInOrder
<1> QED
  BY <1>1, <1>2, <1>3, PTL DEF Spec

=============================================================================

------------------------------- MODULE DriverApp -------------------------------
(***************************************************************************)
(* The driver app's offline queue (storage/syncQueue.ts) with the screens   *)
(* that feed it, over the API's handlers (DriverApi).                       *)
(*                                                                          *)
(* The queue is one AsyncStorage key holding a JSON array.  submitOrQueue    *)
(* and flushQueue are async functions without a lock: each of their awaits  *)
(* is a step, and |Calls| of them may be running.  The network may lose a   *)
(* request or an answer, and the system may kill the app at any moment.     *)
(***************************************************************************)
EXTENDS DriverApi, Functions

CONSTANTS
  Calls,           \* bound: async calls of the app that run at once
  Offered,         \* bound: the kinds of actions the driver uses
  MaxLosses,       \* bound: requests and answers the network loses
  MaxCrashes       \* bound: times the app is killed

ASSUME BoundsAssumption == MaxLosses \in Nat /\ MaxCrashes \in Nat

VARIABLES
  disk,       \* AsyncStorage's driverapp.syncQueue
  call,       \* the submitOrQueue and flushQueue calls that are running
  accepted,   \* actions whose submitOrQueue returned: the driver was told they are safe
  pointer,    \* AsyncStorage's active stop, 0 when there is none
  shown,      \* status of the trip on the home screen
  busy,       \* the call the home screen waits for, if any
  losses, crashes

\* History: what the properties speak of and no step looks at.
VARIABLES
  missed,       \* what others stored since a call read the queue, and its copy lacks
  overwritten,  \* what such a call wrote off the disk
  turn, last    \* the turn in which an action entered the queue, 0 before; the last one

history == <<missed, overwritten, turn, last>>
appVars == <<disk, call, accepted, pointer, shown, busy, losses, crashes, history>>
vars == <<log, apiVars, appVars>>

Resting == [at |-> "idle"]

Nobody == "nobody"

Queue == Seq(Ids)

CallState ==
  [at: {"idle", "syncing", "refreshing"}]
    \cup [at: {"submitting"}, action: Ids, slot: Slots]
    \cup [at: {"queueing"}, action: Ids]
    \cup [at: {"appending"}, action: Ids, copy: Queue]
    \cup [at: {"flushing", "storing"}, copy: Queue]
    \cup [at: {"resending"}, copy: Queue \ {<<>>}, slot: Slots]

HistoryTypeOK ==
  /\ missed \in [Calls -> SUBSET Ids] /\ overwritten \subseteq Ids
  /\ turn \in [Ids -> Nat] /\ last \in Nat

TypeOK ==
  /\ ApiTypeOK
  /\ disk \in Queue
  /\ call \in [Calls -> CallState]
  /\ accepted \subseteq Ids
  /\ pointer \in 0..MaxActions
  /\ shown \in {"IN_PROGRESS", "PAUSED", "COMPLETED", "NONE"}
  /\ busy \in Calls \cup {Nobody}
  /\ losses \in 0..MaxLosses /\ crashes \in 0..MaxCrashes
  /\ HistoryTypeOK

\* Between the read and the write of the queue a call holds a copy of it.
Copying == {"appending", "flushing", "resending", "storing"}

Becomes(c, state) == call' = [call EXCEPT ![c] = state]

\* A request goes out in a free slot and its caller awaits the answer.
Send(s, i) == /\ http[s] = Free
              /\ http' = [http EXCEPT ![s] = [at |-> "sent", action |-> i, waits |-> TRUE]]

----
(* The screens: what the driver may do next. *)

Submitting(kinds) ==
  \E c \in Calls : /\ call[c].at \in {"submitting", "queueing", "appending"}
                   /\ Kind(call[c].action) \in kinds

\* Every screen is reached from the home screen while it shows a trip.  It offers to
\* pause what runs and to resume what is paused, one at a time, and to end both.
\* The stops screen, too, waits for its own call; it closes the stop its pointer
\* knows, and falls back on the server's own id of an open stop.
Offers(action) ==
  /\ action.kind \in Offered /\ shown \in {"IN_PROGRESS", "PAUSED"}
  /\ action.kind \in {"stop-open", "stop-close"} => ~Submitting({"stop-open", "stop-close"})
  /\ action.kind = "complete" => ~Submitting({"complete"})
  /\ action.kind \in {"pause", "resume"} => busy = Nobody /\ shown # Target[action.kind]
  /\ action.kind = "stop-open" => pointer = 0
  /\ action.kind = "stop-close" => pointer # 0 \/ open # {}
  /\ action.of = IF action.kind = "stop-close" THEN pointer ELSE 0

\* submitOrQueue returns: the stops screen moves its pointer, the home screen goes on
\* to a refresh, and the other screens go back to it as it was.
Return(c, i) ==
  /\ accepted' = accepted \cup {i}
  /\ pointer' = CASE Kind(i) = "stop-open"  -> i
                  [] Kind(i) = "stop-close" -> 0
                  [] OTHER                  -> pointer
  /\ Becomes(c, IF busy = c THEN [at |-> "syncing"] ELSE Resting)

----
(* submitOrQueue. *)

Submit(c) ==
  /\ call[c] = Resting /\ Len(log) < MaxActions
  /\ \E action \in Action, s \in Slots :
       /\ Offers(action)
       /\ log' = Append(log, action)
       /\ Send(s, Len(log) + 1)
       /\ Becomes(c, [at |-> "submitting", action |-> Len(log) + 1, slot |-> s])
       /\ busy' = IF action.kind \in {"pause", "resume"} THEN c ELSE busy
  /\ UNCHANGED <<trip, created, open, served, disk, accepted, pointer, shown, losses, crashes, history>>

SubmitDone(c) ==
  /\ call[c].at = "submitting" /\ At(call[c].slot, "ok")
  /\ http' = [http EXCEPT ![call[c].slot] = Free]
  /\ Return(c, call[c].action)
  /\ UNCHANGED <<log, trip, created, open, served, disk, shown, busy, losses, crashes, history>>

\* Any error at all, the API's own refusals included, is taken for a missing network.
SubmitFailed(c) ==
  /\ call[c].at = "submitting" /\ At(call[c].slot, "failed")
  /\ http' = [http EXCEPT ![call[c].slot] = Free]
  /\ Becomes(c, [at |-> "queueing", action |-> call[c].action])
  /\ UNCHANGED <<log, trip, created, open, served, disk, accepted, pointer, shown, busy, losses, crashes, history>>

QueueRead(c) ==
  /\ call[c].at = "queueing"
  /\ Becomes(c, [at |-> "appending", action |-> call[c].action, copy |-> disk])
  /\ UNCHANGED <<log, apiVars, disk, accepted, pointer, shown, busy, losses, crashes, history>>

\* Mutant of Enqueued: the action is put before the others.
Unshifted(queue, i) == <<i>> \o queue

Enqueued(queue, i) == Append(queue, i)

\* AsyncStorage.setItem: the whole array, over whatever is there.
Store(c, queue) ==
  /\ disk' = queue
  /\ overwritten' = (overwritten \cup (missed[c] \cap Range(disk))) \ (Range(queue) \cup served)
  /\ missed' = [d \in Calls |->
                  IF d # c /\ call[d].at \in Copying
                  THEN missed[d] \cup (Range(queue) \ Range(call[d].copy)) ELSE {}]

QueueWrite(c) ==
  /\ call[c].at = "appending"
  /\ Store(c, Enqueued(call[c].copy, call[c].action))
  /\ turn' = [turn EXCEPT ![call[c].action] = last + 1] /\ last' = last + 1
  /\ Return(c, call[c].action)
  /\ UNCHANGED <<log, apiVars, shown, busy, losses, crashes>>

----
(* flushQueue. *)

Flush(c) ==
  /\ call[c].at \in {"idle", "syncing"}
  /\ Becomes(c, [at |-> "flushing", copy |-> disk])
  /\ UNCHANGED <<log, apiVars, disk, accepted, pointer, shown, busy, losses, crashes, history>>

Resend(c) ==
  /\ call[c].at = "flushing" /\ call[c].copy # <<>>
  /\ \E s \in Slots : /\ Send(s, Head(call[c].copy))
                      /\ Becomes(c, [at |-> "resending", copy |-> call[c].copy, slot |-> s])
  /\ UNCHANGED <<log, trip, created, open, served, disk, accepted, pointer, shown, busy, losses, crashes, history>>

ResendDone(c) ==
  /\ call[c].at = "resending" /\ At(call[c].slot, "ok")
  /\ http' = [http EXCEPT ![call[c].slot] = Free]
  /\ Becomes(c, [at |-> "flushing", copy |-> Tail(call[c].copy)])
  /\ UNCHANGED <<log, trip, created, open, served, disk, accepted, pointer, shown, busy, losses, crashes, history>>

\* Mutant of Kept: the action is taken off before it is sent.
ShiftedFirst(queue) == Tail(queue)

\* What is left of a flush that stops at an error.
Kept(queue) == queue

ResendFailed(c) ==
  /\ call[c].at = "resending" /\ At(call[c].slot, "failed")
  /\ http' = [http EXCEPT ![call[c].slot] = Free]
  /\ Becomes(c, [at |-> "storing", copy |-> Kept(call[c].copy)])
  /\ UNCHANGED <<log, trip, created, open, served, disk, accepted, pointer, shown, busy, losses, crashes, history>>

\* The rest is written back, even by a flush that found nothing to send.
FlushWrite(c) ==
  /\ \/ call[c].at = "flushing" /\ call[c].copy = <<>>
     \/ call[c].at = "storing"
  /\ Store(c, call[c].copy)
  /\ Becomes(c, [at |-> "refreshing"])
  /\ UNCHANGED <<log, apiVars, accepted, pointer, shown, busy, losses, crashes, turn, last>>

\* A refresh then reads the trip's status, and shows no trip when that fails or the
\* trip has ended; a flush started by a GPS position reads nothing.
Refresh(c) ==
  /\ call[c].at = "refreshing"
  /\ shown' \in {trip, "NONE"} \cup (IF busy = c THEN {} ELSE {shown})
  /\ busy' = IF busy = c THEN Nobody ELSE busy
  /\ Becomes(c, Resting)
  /\ UNCHANGED <<log, apiVars, disk, accepted, pointer, losses, crashes, history>>

----
(* The network and the system. *)

\* The request, or its answer, is lost; a request that arrived is handled anyway.
Abandoned(request) ==
  IF request.at \in {"sent", "looked", "guarded"}
  THEN {[request EXCEPT !.waits = FALSE]} \cup (IF request.at = "sent" THEN {Free} ELSE {})
  ELSE {Free}

Lose(c) ==
  /\ call[c].at \in {"submitting", "resending"} /\ losses < MaxLosses
  /\ losses' = losses + 1
  /\ \E request \in Abandoned(http[call[c].slot]) :
       http' = [http EXCEPT ![call[c].slot] = request]
  /\ Becomes(c, IF call[c].at = "submitting"
                THEN [at |-> "queueing", action |-> call[c].action]
                ELSE [at |-> "storing", copy |-> Kept(call[c].copy)])
  /\ UNCHANGED <<log, trip, created, open, served, disk, accepted, pointer, shown, busy, crashes, history>>

\* The app is killed: its calls are gone, AsyncStorage stays.  Requests that had not
\* reached the API may be gone too.
Crash ==
  /\ crashes < MaxCrashes /\ crashes' = crashes + 1
  /\ call' = [c \in Calls |-> Resting]
  /\ \E gone \in SUBSET {s \in Slots : At(s, "sent")} :
       http' = [s \in Slots |->
                 IF s \in gone \/ http[s].at \in {"free", "ok", "failed"} THEN Free
                 ELSE [http[s] EXCEPT !.waits = FALSE]]
  /\ shown' = "NONE" /\ busy' = Nobody
  /\ missed' = [c \in Calls |-> {}]
  /\ UNCHANGED <<log, trip, created, open, served, disk, accepted, pointer, losses,
                 overwritten, turn, last>>

----
(* Specification. *)

Init ==
  /\ ApiInit
  /\ disk = <<>> /\ accepted = {} /\ pointer = 0
  /\ shown = "IN_PROGRESS" /\ busy = Nobody
  /\ call = [c \in Calls |-> Resting]
  /\ losses = 0 /\ crashes = 0
  /\ missed = [c \in Calls |-> {}] /\ overwritten = {}
  /\ turn = [i \in Ids |-> 0] /\ last = 0

Running(c) ==
  \/ call[c].at = "syncing" /\ Flush(c)
  \/ SubmitDone(c) \/ SubmitFailed(c) \/ QueueRead(c) \/ QueueWrite(c)
  \/ Resend(c) \/ ResendDone(c) \/ ResendFailed(c) \/ FlushWrite(c) \/ Refresh(c)

Server(s) == Handle(s) /\ UNCHANGED appVars

Next ==
  \/ \E c \in Calls : Submit(c) \/ Flush(c) \/ Running(c) \/ Lose(c)
  \/ \E s \in Slots : Server(s)
  \/ Crash

Spec == Init /\ [][Next]_vars

\* A call that can go on does, the API answers, and flushes keep coming: the home
\* screen runs one at every refresh and the GPS watch one at every position sent.
Fairness ==
  /\ \A c \in Calls : WF_vars(Running(c)) /\ WF_vars(Flush(c))
  /\ \A s \in Slots : WF_vars(Server(s))

FairSpec == Spec /\ Fairness

----
(* Properties. *)

\* What fails to go out stays here until the next flush (syncQueue.ts), so an action the
\* driver was told is safe has been handled by the API, or is on disk.
NothingLost == accepted \ served \subseteq Range(disk)

\* With any number of calls there is one way only to lose such an action: a call writes
\* back a copy it read before another call stored the action.  No loss of the network,
\* no crash, no refusal, no order of answers and no resend loses one.
LostOnlyOverwritten == accepted \subseteq served \cup Range(disk) \cup overwritten

\* What waits on disk waits in the order in which it entered the queue, whatever copies
\* are written back over it (flushQueue stops at the first error so as not to reorder).
QueueInOrder ==
  \A m, n \in DOMAIN disk : m < n => turn[disk[m]] < turn[disk[n]]

\* A creation that was handled left one row, however often it was sent and however
\* many copies of it were being handled at once (deviceEventId).
CreatedOnce ==
  \A i \in Ids :
    /\ created[i] <= 1
    /\ i \in served /\ Kind(i) \in {"event", "stop-open"} => created[i] = 1

\* A flush takes an action off its queue only when the API has handled that very
\* action, whatever happens to the answers of the other requests (flushQueue).
DroppedOnlyWhenServed ==
  [][\A c \in Calls :
       call[c].at = "resending" /\ call'[c].at \in {"flushing", "storing"} =>
         \/ call'[c].copy = call[c].copy
         \/ Head(call[c].copy) \in served /\ call'[c].copy = Tail(call[c].copy)]_vars

\* The API refuses an action for good (any 4xx that submitOrQueue and flushQueue keep).
Refused == \E s \in Slots : Handle(s) /\ ~At(s, "failed") /\ http'[s].at = "failed"

EventuallyServed == \A i \in Ids : i \in accepted ~> i \in served \cup overwritten

\* What the driver was told will be sent automatically is handled in the end, unless it
\* was overwritten, or the API refuses again and again: then the head of the queue holds
\* up all behind it.
ServedOrRefused == []<><<Refused>>_vars \/ EventuallyServed

=============================================================================

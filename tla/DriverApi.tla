------------------------------- MODULE DriverApi -------------------------------
(***************************************************************************)
(* The API's side of the driver app: the handlers that take the actions a   *)
(* driver records during one trip.  The app and the network choose when a   *)
(* request arrives; a handler that lost its client runs to its end.         *)
(*                                                                          *)
(* Each handler is three database round trips, and the handlers of other    *)
(* requests run between them: a lookup that makes a resend harmless, the    *)
(* checks, and a write by id.                                               *)
(***************************************************************************)
EXTENDS Integers, Sequences, FiniteSets

CONSTANTS
  MaxActions,      \* bound: actions the driver records
  Slots,           \* bound: requests on the network or in the API at once
  Refusable        \* kinds of actions that a validation outside this model may
                   \* refuse: an odometer that went down, an inactive driver, ...

ASSUME MaxActionsAssumption == MaxActions \in Nat

Ids == 1..MaxActions
Commands == {"pause", "resume", "complete"}

\* "event" stands for the creations that carry a deviceEventId and nothing else
\* depends on: fuel supplies, occurrences, tracking points, axle events.
Kinds == Commands \cup {"event", "stop-open", "stop-close"}

VARIABLES
  log,        \* every action the driver recorded, in order: kind, and the stop it closes
  trip,       \* Trip.status
  created,    \* rows there are with each action's deviceEventId
  open,       \* stops with no endedAt
  http,       \* the requests
  served      \* history: actions whose handler did its work or found it done

apiVars == <<trip, created, open, http, served>>

Action == [kind: Kinds, of: 0..MaxActions]

Free == [at |-> "free"]

Request == [at: {"free"}]
  \cup [at: {"sent", "looked", "guarded", "ok", "failed"}, action: Ids, waits: BOOLEAN]

ApiTypeOK ==
  /\ log \in Seq(Action) /\ Len(log) <= MaxActions
  /\ trip \in {"IN_PROGRESS", "PAUSED", "COMPLETED"}
  /\ created \in [Ids -> Nat]
  /\ open \subseteq Ids
  /\ http \in [Slots -> Request]
  /\ served \subseteq Ids

Kind(i) == log[i].kind

Target == [pause |-> "PAUSED", resume |-> "IN_PROGRESS", complete |-> "COMPLETED"]

\* The opening a stop-close names: 0 is the server's own id, no deviceEventId.
Known(i) == log[i].of # 0 /\ created[log[i].of] > 0

\* The early returns: the row exists, the stop is closed, the trip is there already.
AlreadyDone(i) ==
  \/ Kind(i) \in {"event", "stop-open"} /\ created[i] > 0
  \/ Kind(i) = "stop-close" /\ Known(i) /\ log[i].of \notin open
  \/ Kind(i) \in Commands /\ trip = Target[Kind(i)]

\* closeByDeviceEvent answers 404 to a deviceEventId it does not know.
Unknown(i) == Kind(i) = "stop-close" /\ ~Known(i)

\* ALLOWED_TRANSITIONS between the states of a trip on the road.
Allowed(from, kind) ==
  \/ kind \in {"pause", "complete"} /\ from = "IN_PROGRESS"
  \/ kind = "resume" /\ from = "PAUSED"

\* The conditions of a 409.
Passes(i) ==
  /\ Kind(i) = "stop-open" => open = {}
  /\ Kind(i) \in Commands => Allowed(trip, Kind(i))

At(s, point) == http[s].at = point

Advance(s, point) == http' = [http EXCEPT ![s].at = point]

\* An answer nobody waits for goes nowhere.
Answer(s, result) ==
  http' = [http EXCEPT ![s] = IF http[s].waits THEN [http[s] EXCEPT !.at = result] ELSE Free]

Lookup(s) ==
  /\ At(s, "sent")
  /\ LET i == http[s].action
     IN  \/ /\ AlreadyDone(i)
            /\ served' = served \cup {i}
            /\ Answer(s, "ok")
         \/ Unknown(i) /\ Answer(s, "failed") /\ UNCHANGED served
         \/ ~AlreadyDone(i) /\ ~Unknown(i) /\ Advance(s, "looked") /\ UNCHANGED served
  /\ UNCHANGED <<log, trip, created, open>>

Guard(s) ==
  /\ At(s, "looked")
  /\ LET i == http[s].action
     IN  \/ (~Passes(i) \/ Kind(i) \in Refusable) /\ Answer(s, "failed")
         \/ Passes(i) /\ Advance(s, "guarded")
  /\ UNCHANGED <<log, trip, created, open, served>>

\* Mutant of UniqueViolated: deviceEventId is indexed but not unique.
NotUnique(i) == created[i] < 0

\* deviceEventId is a unique column.
UniqueViolated(i) == created[i] > 0

\* createMany skips a duplicate tracking point; the other creations fail.
InsertRow(s) ==
  /\ At(s, "guarded") /\ Kind(http[s].action) \in {"event", "stop-open"}
  /\ LET i == http[s].action
     IN  IF UniqueViolated(i)
         THEN /\ \E result \in {"ok", "failed"} : Answer(s, result)
              /\ UNCHANGED <<created, open>>
         ELSE /\ created' = [created EXCEPT ![i] = @ + 1]
              /\ open' = IF Kind(i) = "stop-open" THEN open \cup {i} ELSE open
              /\ Answer(s, "ok")
  /\ served' = served \cup {http[s].action}
  /\ UNCHANGED <<log, trip>>

CloseStop(s) ==
  /\ At(s, "guarded") /\ Kind(http[s].action) = "stop-close"
  /\ open' = open \ {log[http[s].action].of}
  /\ served' = served \cup {http[s].action}
  /\ Answer(s, "ok")
  /\ UNCHANGED <<log, trip, created>>

UpdateStatus(s) ==
  /\ At(s, "guarded") /\ Kind(http[s].action) \in Commands
  /\ trip' = Target[Kind(http[s].action)]
  /\ served' = served \cup {http[s].action}
  /\ Answer(s, "ok")
  /\ UNCHANGED <<log, created, open>>

Handle(s) == Lookup(s) \/ Guard(s) \/ InsertRow(s) \/ CloseStop(s) \/ UpdateStatus(s)

ApiInit ==
  /\ log = <<>> /\ trip = "IN_PROGRESS" /\ open = {} /\ served = {}
  /\ created = [i \in Ids |-> 0]
  /\ http = [s \in Slots |-> Free]

=============================================================================

-------------------------- MODULE SubscriptionProofs --------------------------
(***************************************************************************)
(* Proofs about Subscriptions, for any number of preapprovals, payments,     *)
(* handlers, months and failures.                                            *)
(*                                                                           *)
(* What carries them is what a handler knows of a row it read: a payment it  *)
(* is about to record is approved, and the due date it will move was not     *)
(* ahead of the months that are given by now.                                *)
(***************************************************************************)
EXTENDS Subscriptions, TLAPS

----
(***************************************************************************)
(* Shapes.                                                                   *)
(***************************************************************************)

Bare == [at: {"idle", "creating", "marking"}]
Notified == [at: {"notified"}, of: Preapprovals \cup Charges]
Synced == [at: {"fetched", "found"}, of: Preapprovals, status: PreapprovalStatuses]
Paid == [at: {"approved", "fresh"}, of: Charges]
Crediting == [at: {"crediting"}, of: Charges, due: Nat]
Paying == [at: {"paying"}, due: Nat]
Authorizing == [at: {"asking", "linking"}, of: Preapprovals]

\* The states a handler may take.
LEMMA RequestStates ==
  /\ Bare \subseteq RequestState /\ Notified \subseteq RequestState
  /\ Synced \subseteq RequestState /\ Paid \subseteq RequestState
  /\ Crediting \subseteq RequestState /\ Paying \subseteq RequestState
  /\ Authorizing \subseteq RequestState /\ Idle \in Bare
BY DEF Bare, Notified, Synced, Paid, Crediting, Paying, Authorizing, RequestState, Idle

\* What a handler holds at each await.
LEMMA Held ==
  ASSUME TypeOK, NEW r \in Requests
  PROVE  /\ req[r].at = "notified" => req[r] \in Notified
         /\ req[r].at \in {"fetched", "found"} => req[r] \in Synced
         /\ req[r].at \in {"approved", "fresh"} => req[r] \in Paid
         /\ req[r].at = "crediting" => req[r] \in Crediting
         /\ req[r].at = "paying" => req[r] \in Paying
         /\ req[r].at \in {"asking", "linking"} => req[r] \in Authorizing
BY DEF TypeOK, RequestState, Notified, Synced, Paid, Crediting, Paying, Authorizing

\* A handler that moves on.
LEMMA Becomes ==
  ASSUME TypeOK, NEW r \in Requests, NEW state \in RequestState, Become(r, state)
  PROVE  /\ req' \in [Requests -> RequestState]
         /\ req'[r] = state
         /\ \A q \in Requests \ {r} : req'[q] = req[q]
BY DEF TypeOK, Become

----
(***************************************************************************)
(* What handlers know.                                                       *)
(***************************************************************************)

\* What was notified exists, what will be recorded is approved, and a due date that was
\* read is not ahead of the months that are given.
Knows(state) ==
  /\ state.at = "notified" /\ state.of \in Preapprovals => preapproval[state.of] # "none"
  /\ state.at \in {"approved", "fresh"} => charge[state.of] \in {"approved", "stranger"}
  /\ state.at = "crediting" => charge[state.of] = "approved"
  /\ state.at \in {"crediting", "paying"} => overtaken \/ state.due <= credit

SubscriptionInv ==
  /\ TypeOK
  /\ \A r \in Requests : Knows(req[r])
  /\ DueNeverAhead
  /\ CreditedOnce
  /\ NothingUnanswered

\* What only grows: what the payment service has made and approved, and the months given.
Grows ==
  /\ \A p \in Preapprovals : preapproval[p] # "none" => preapproval'[p] # "none"
  /\ \A x \in Charges : charge[x] \in {"approved", "stranger"} => charge'[x] = charge[x]
  /\ overtaken => overtaken'
  /\ overtaken' \/ credit <= credit'

\* A handler is at work on a payment.
Handles(r, x) ==
  req[r].at \in {"notified", "approved", "fresh", "crediting"} /\ req[r].of = x

\* One handler moved, and the others know what they knew.
LEMMA KnowsKept ==
  ASSUME TypeOK, TypeOK', \A q \in Requests : Knows(req[q]), Grows,
         NEW r \in Requests, \A q \in Requests \ {r} : req'[q] = req[q],
         Knows(req[r])'
  PROVE  (\A q \in Requests : Knows(req[q]))'
<1> SUFFICES ASSUME NEW q \in Requests, q # r PROVE Knows(req[q])'
  OBVIOUS
<1>1. req'[q] = req[q] /\ Knows(req[q])
  OBVIOUS
<1>2. /\ req[q].at = "notified" => req[q].of \in Preapprovals \cup Charges
      /\ req[q].at \in {"approved", "fresh", "crediting"} => req[q].of \in Charges
      /\ req[q].at \in {"crediting", "paying"} => req[q].due \in Nat
  BY Held DEF Notified, Paid, Crediting, Paying
<1>3. credit \in Nat /\ credit' \in Nat
  BY DEF TypeOK
<1> QED
  BY <1>1, <1>2, <1>3 DEF Knows, Grows

\* A payment that was recorded, ignored, on its way or in hand still is.
LEMMA AnsweredKept ==
  ASSUME NothingUnanswered, charge' = charge,
         NEW r \in Requests, \A q \in Requests \ {r} : req'[q] = req[q],
         \A x \in Charges : rows[x] > 0 => rows'[x] > 0,
         ignored \subseteq ignored',
         \A x \in Charges :
           (x \in unheard \/ Handles(r, x)) /\ charge[x] = "approved" =>
             rows'[x] > 0 \/ x \in ignored' \/ x \in unheard' \/ Handles(r, x)'
  PROVE  NothingUnanswered'
<1> SUFFICES ASSUME NEW x \in Charges, charge[x] = "approved",
                    ~(rows'[x] > 0), x \notin ignored', x \notin unheard'
             PROVE  \E q \in Requests : Handles(q, x)'
  BY DEF NothingUnanswered, Handles
<1>1. x \in unheard \/ \E q \in Requests : Handles(q, x)
  BY DEF NothingUnanswered, Handles
<1>2. CASE x \in unheard \/ Handles(r, x)
  BY <1>2
<1>3. CASE \E q \in Requests \ {r} : Handles(q, x)
  <2>1. PICK q \in Requests \ {r} : Handles(q, x)
    BY <1>3
  <2> QED
    BY <2>1 DEF Handles
<1> QED
  BY <1>1, <1>2, <1>3

----
(***************************************************************************)
(* The steps.                                                                *)
(***************************************************************************)

\* A handler moves on, and nothing that was paid or is due changes.
LEMMA Moves ==
  ASSUME SubscriptionInv, NEW r \in Requests, NEW state \in RequestState, Become(r, state),
         UNCHANGED <<due, rows, credit, overtaken, charge, month>>,
         status' \in Statuses, method' \in Methods, linked' \in Preapprovals \cup {NotLinked},
         preapproval' \in [Preapprovals -> PreapprovalStatuses \cup {"none"}],
         \A p \in Preapprovals : preapproval[p] # "none" => preapproval'[p] # "none",
         byHand' \in Nat, failures' \in Nat, unheard' \subseteq Charges,
         ignored' \subseteq Charges, ignored \subseteq ignored',
         Knows(state),
         \A x \in Charges :
           (x \in unheard \/ Handles(r, x)) /\ charge[x] = "approved" =>
             \/ rows[x] > 0 \/ x \in ignored' \/ x \in unheard'
             \/ state.at \in {"notified", "approved", "fresh", "crediting"} /\ state.of = x
  PROVE  SubscriptionInv'
<1>1. /\ req' \in [Requests -> RequestState] /\ req'[r] = state
      /\ \A q \in Requests \ {r} : req'[q] = req[q]
  BY Becomes DEF SubscriptionInv
<1>2. TypeOK'
  BY <1>1 DEF SubscriptionInv, TypeOK
<1>3. Grows
  BY <1>2 DEF Grows, TypeOK
<1>4. Knows(req[r])'
  BY <1>1 DEF Knows
<1>5. (\A q \in Requests : Knows(req[q]))'
  BY <1>1, <1>2, <1>3, <1>4, KnowsKept DEF SubscriptionInv
<1>6. NothingUnanswered'
  <2>1. \A x \in Charges : Handles(r, x)' <=>
          state.at \in {"notified", "approved", "fresh", "crediting"} /\ state.of = x
    BY <1>1 DEF Handles
  <2>2. \A x \in Charges :
          (x \in unheard \/ Handles(r, x)) /\ charge[x] = "approved" =>
            rows'[x] > 0 \/ x \in ignored' \/ x \in unheard' \/ Handles(r, x)'
    BY <2>1
  <2> QED
    BY <1>1, <2>2, AnsweredKept DEF SubscriptionInv
<1> QED
  BY <1>2, <1>5, <1>6 DEF SubscriptionInv, DueNeverAhead, CreditedOnce

\* An answer, lost or not, takes no notification away.
LEMMA Answers ==
  ASSUME TypeOK, NEW r \in Requests, Answer(r)
  PROVE  /\ Become(r, Idle) /\ Idle \in RequestState /\ Knows(Idle)
         /\ unheard' \subseteq Charges /\ unheard \subseteq unheard' /\ failures' \in Nat
BY RequestStates DEF Answer, Unanswered, TypeOK, Idle, Knows

\* The webhook takes a notification.
LEMMA StepNotify ==
  ASSUME SubscriptionInv, NEW r \in Requests, NEW x \in Preapprovals \cup Charges, Notify(r, x)
  PROVE  SubscriptionInv'
<1> DEFINE state == [at |-> "notified", of |-> x]
<1>1. state \in RequestState
  BY RequestStates DEF Notified
<1>2. Become(r, state) /\ ~\E y \in Charges : Handles(r, y)
  BY DEF Notify, At, Handles
<1>3. x \in Preapprovals => preapproval[x] # "none"
  BY SubscriptionAssumption DEF Notify, Exists
<1>4. Knows(state)
  BY <1>3 DEF Knows
<1>5. /\ UNCHANGED <<due, rows, credit, overtaken, charge, month, status, method, linked,
                     preapproval, byHand, failures, ignored>>
      /\ unheard' = unheard \ {x}
  BY DEF Notify, subVars, payVars, mpVars
<1> QED
  BY <1>1, <1>2, <1>4, <1>5, Moves DEF SubscriptionInv, TypeOK

\* A handler of the webhook fails.
LEMMA StepFail ==
  ASSUME SubscriptionInv, NEW r \in Requests, Fail(r)
  PROVE  SubscriptionInv'
<1>1. Become(r, Idle) /\ Idle \in RequestState /\ Knows(Idle)
  BY RequestStates DEF Fail, Idle, Knows
<1>2. /\ UNCHANGED <<due, rows, credit, overtaken, charge, month, status, method, linked,
                     preapproval, byHand, ignored>>
      /\ unheard' = unheard \cup Unanswered(req[r].of) /\ failures' = failures + 1
  BY DEF Fail, subVars, payVars, mpVars
<1>3. \A x \in Charges : Handles(r, x) => x \in unheard'
  BY <1>2 DEF Handles, Unanswered
<1> QED
  BY <1>1, <1>2, <1>3, Moves DEF SubscriptionInv, TypeOK, Unanswered

\* Nothing but a status or a link is written by the handlers that do not pay.
LEMMA StepPreapproval ==
  ASSUME SubscriptionInv, NEW r \in Requests,
         PreapprovalFetch(r) \/ PreapprovalFind(r) \/ PreapprovalWrite(r)
  PROVE  SubscriptionInv'
<1>1. CASE PreapprovalFetch(r)
  <2> DEFINE state == [at |-> "fetched", of |-> req[r].of, status |-> preapproval[req[r].of]]
  <2>1. req[r].of \in Preapprovals /\ preapproval[req[r].of] \in PreapprovalStatuses
    BY <1>1 DEF PreapprovalFetch, SubscriptionInv, Knows, At, TypeOK
  <2>2. state \in RequestState /\ Become(r, state) /\ Knows(state)
    BY <1>1, <2>1, RequestStates DEF PreapprovalFetch, Synced, Knows
  <2>3. UNCHANGED <<due, rows, credit, overtaken, charge, month, status, method, linked,
                    preapproval, byHand, failures, ignored, unheard>>
    BY <1>1 DEF PreapprovalFetch, subVars, payVars, mpVars
  <2>4. \A x \in Charges : ~Handles(r, x)
    BY <2>1, SubscriptionAssumption DEF Handles
  <2> QED
    BY <2>2, <2>3, <2>4, Moves DEF SubscriptionInv, TypeOK
<1>2. CASE PreapprovalFind(r)
  <2>1. UNCHANGED <<due, rows, credit, overtaken, charge, month, status, method, linked,
                    preapproval, byHand, ignored>>
    BY <1>2 DEF PreapprovalFind, subVars, payVars, mpVars
  <2>2. req[r] \in Synced /\ req[r].at = "fetched" /\ \A x \in Charges : ~Handles(r, x)
    BY <1>2, Held DEF PreapprovalFind, At, SubscriptionInv, Handles
  <2>3. CASE linked = req[r].of
    <3> DEFINE state == [req[r] EXCEPT !.at = "found"]
    <3>1. state \in Synced /\ state.at = "found"
      BY <2>2 DEF Synced
    <3>2. Become(r, state) /\ UNCHANGED <<unheard, failures>>
      BY <1>2, <2>3 DEF PreapprovalFind
    <3> HIDE DEF state
    <3> QED
      BY <2>1, <2>2, <3>1, <3>2, Moves, RequestStates DEF SubscriptionInv, TypeOK, Knows
  <2>4. CASE linked # req[r].of
    <3>1. Answer(r)
      BY <1>2, <2>4 DEF PreapprovalFind
    <3> QED
      BY <2>1, <2>2, <3>1, Answers, Moves DEF SubscriptionInv, TypeOK
  <2> QED
    BY <2>3, <2>4
<1>3. CASE PreapprovalWrite(r)
  <2>1. UNCHANGED <<due, rows, credit, overtaken, charge, month, method, linked,
                    preapproval, byHand, ignored>>
    BY <1>3 DEF PreapprovalWrite, subVars, payVars, mpVars
  <2>2. req[r] \in Synced /\ \A x \in Charges : ~Handles(r, x)
    BY <1>3, Held DEF PreapprovalWrite, At, SubscriptionInv, Handles
  <2>3. status' \in Statuses
    BY <1>3, <2>2 DEF PreapprovalWrite, Synced, PreapprovalStatuses, Mapped, Statuses
  <2>4. Answer(r)
    BY <1>3 DEF PreapprovalWrite
  <2> QED
    BY <2>1, <2>2, <2>3, <2>4, Answers, Moves DEF SubscriptionInv, TypeOK
<1> QED
  BY <1>1, <1>2, <1>3

\* The webhook reads a payment, its row and the subscription.
LEMMA StepPayment ==
  ASSUME SubscriptionInv, NEW r \in Requests,
         PaymentFetch(r) \/ PaymentLookup(r) \/ PaymentRead(r)
  PROVE  SubscriptionInv'
<1>1. UNCHANGED <<due, rows, credit, overtaken, charge, month, status, method, linked,
                  preapproval, byHand>>
  BY DEF PaymentFetch, PaymentLookup, PaymentRead, subVars, payVars, mpVars
<1>2. /\ req[r].at \in {"notified", "approved", "fresh"} /\ req[r].of \in Charges
      /\ req[r].at # "notified" => charge[req[r].of] \in {"approved", "stranger"}
      /\ due \in Nat /\ credit \in Nat /\ (overtaken \/ due <= credit)
  BY Held DEF PaymentFetch, PaymentLookup, PaymentRead, At, Paid, SubscriptionInv, Knows,
              DueNeverAhead, TypeOK
<1>3. \A x \in Charges : Handles(r, x) <=> x = req[r].of
  BY <1>2 DEF Handles
<1>4. CASE PaymentFetch(r) /\ charge[req[r].of] \in {"approved", "stranger"}
  <2> DEFINE state == [at |-> "approved", of |-> req[r].of]
  <2>1. state \in RequestState /\ Knows(state)
    BY <1>2, <1>4, RequestStates DEF Paid, Knows
  <2>2. Become(r, state) /\ UNCHANGED <<unheard, failures, ignored>>
    BY <1>4 DEF PaymentFetch
  <2> QED
    BY <1>1, <1>3, <2>1, <2>2, Moves DEF SubscriptionInv, TypeOK
<1>5. CASE PaymentFetch(r) /\ charge[req[r].of] \notin {"approved", "stranger"}
  <2>1. Answer(r) /\ UNCHANGED ignored
    BY <1>5 DEF PaymentFetch
  <2> QED
    BY <1>1, <1>3, <1>5, <2>1, Answers, Moves DEF SubscriptionInv, TypeOK
<1>6. CASE PaymentLookup(r) /\ rows[req[r].of] > 0
  <2>1. Answer(r) /\ UNCHANGED ignored
    BY <1>6 DEF PaymentLookup
  <2> QED
    BY <1>1, <1>3, <1>6, <2>1, Answers, Moves DEF SubscriptionInv, TypeOK
<1>7. CASE PaymentLookup(r) /\ ~(rows[req[r].of] > 0)
  <2> DEFINE state == [at |-> "fresh", of |-> req[r].of]
  <2>1. state \in RequestState /\ Knows(state)
    BY <1>2, <1>7, RequestStates DEF Paid, Knows, PaymentLookup, At
  <2>2. Become(r, state) /\ UNCHANGED <<unheard, failures, ignored>>
    BY <1>7 DEF PaymentLookup
  <2> QED
    BY <1>1, <1>3, <2>1, <2>2, Moves DEF SubscriptionInv, TypeOK
<1>8. CASE PaymentRead(r) /\ Takes(req[r].of)
  <2> DEFINE state == [at |-> "crediting", of |-> req[r].of, due |-> due]
  <2>1. state \in RequestState /\ Knows(state)
    BY <1>2, <1>8, RequestStates DEF Crediting, Knows, PaymentRead, At, Takes
  <2>2. Become(r, state) /\ UNCHANGED <<unheard, failures, ignored>>
    BY <1>8 DEF PaymentRead
  <2> QED
    BY <1>1, <1>3, <2>1, <2>2, Moves DEF SubscriptionInv, TypeOK
<1>9. CASE PaymentRead(r) /\ ~Takes(req[r].of)
  <2>1. Answer(r) /\ ignored' = ignored \cup {req[r].of}
    BY <1>9 DEF PaymentRead
  <2> QED
    BY <1>1, <1>2, <1>3, <2>1, Answers, Moves DEF SubscriptionInv, TypeOK
<1> QED
  BY <1>4, <1>5, <1>6, <1>7, <1>8, <1>9

\* The office starts to enter a payment or an authorization, and the daily check works.
LEMMA StepOther ==
  ASSUME SubscriptionInv, NEW r \in Requests,
         \/ RegisterRead(r) \/ AuthorizeRead(r) \/ AuthorizeAsk(r) \/ AuthorizeCreate(r)
         \/ AuthorizeLink(r) \/ MarkRead(r) \/ MarkWrite(r)
  PROVE  SubscriptionInv'
<1>1. /\ UNCHANGED <<due, rows, credit, overtaken, charge, month, method, unheard, failures,
                     ignored>>
      /\ byHand' \in Nat
  BY DEF RegisterRead, AuthorizeRead, AuthorizeAsk, AuthorizeCreate, AuthorizeLink, MarkRead,
         MarkWrite, subVars, payVars, mpVars, SubscriptionInv, TypeOK
<1>2. \A x \in Charges : ~Handles(r, x)
  BY DEF RegisterRead, AuthorizeRead, AuthorizeAsk, AuthorizeCreate, AuthorizeLink, MarkRead,
         MarkWrite, At, Handles
<1>3. /\ Idle \in RequestState /\ Knows(Idle)
      /\ \A point \in {"creating", "marking"} :
           [at |-> point] \in RequestState /\ Knows([at |-> point])
      /\ \A point \in {"asking", "linking"}, p \in Preapprovals :
           [at |-> point, of |-> p] \in RequestState /\ Knows([at |-> point, of |-> p])
      /\ [at |-> "paying", due |-> due] \in RequestState
      /\ Knows([at |-> "paying", due |-> due])
  BY RequestStates DEF Bare, Authorizing, Paying, Idle, Knows, SubscriptionInv, TypeOK,
                       DueNeverAhead
<1>4. CASE RegisterRead(r)
  <2>1. Become(r, [at |-> "paying", due |-> due]) /\ UNCHANGED <<status, linked, preapproval>>
    BY <1>4 DEF RegisterRead, subVars, mpVars
  <2> QED
    BY <1>1, <1>2, <1>3, <2>1, Moves DEF SubscriptionInv, TypeOK
<1>5. CASE AuthorizeRead(r)
  <2>1. UNCHANGED <<status, linked, preapproval>>
    BY <1>5 DEF AuthorizeRead, subVars, mpVars
  <2>2. PICK state \in RequestState : Become(r, state) /\ Knows(state)
    BY <1>3, <1>5 DEF AuthorizeRead, SubscriptionInv, TypeOK
  <2> QED
    BY <1>1, <1>2, <2>1, <2>2, Moves DEF SubscriptionInv, TypeOK
<1>6. CASE AuthorizeAsk(r)
  <2>1. UNCHANGED <<status, linked, preapproval>>
    BY <1>6 DEF AuthorizeAsk, subVars, mpVars
  <2>2. PICK state \in RequestState : Become(r, state) /\ Knows(state)
    BY <1>3, <1>6 DEF AuthorizeAsk
  <2> QED
    BY <1>1, <1>2, <2>1, <2>2, Moves DEF SubscriptionInv, TypeOK
<1>7. CASE AuthorizeCreate(r)
  <2>1. UNCHANGED <<status, linked>>
    BY <1>7 DEF AuthorizeCreate, subVars
  <2>2. CASE Become(r, Idle) /\ UNCHANGED preapproval
    BY <1>1, <1>2, <1>3, <2>1, <2>2, Moves DEF SubscriptionInv, TypeOK
  <2>3. CASE \E p \in Preapprovals :
               /\ preapproval' = [preapproval EXCEPT ![p] = "pending"]
               /\ Become(r, [at |-> "linking", of |-> p]) \/ Become(r, Idle)
    <3>1. PICK p \in Preapprovals :
            /\ preapproval' = [preapproval EXCEPT ![p] = "pending"]
            /\ Become(r, [at |-> "linking", of |-> p]) \/ Become(r, Idle)
      BY <2>3
    <3>2. /\ preapproval' \in [Preapprovals -> PreapprovalStatuses \cup {"none"}]
          /\ \A q \in Preapprovals : preapproval[q] # "none" => preapproval'[q] # "none"
      BY <3>1 DEF SubscriptionInv, TypeOK, PreapprovalStatuses
    <3> QED
      BY <1>1, <1>2, <1>3, <2>1, <3>1, <3>2, Moves DEF SubscriptionInv, TypeOK
  <2> QED
    BY <1>7, <2>2, <2>3 DEF AuthorizeCreate
<1>8. CASE AuthorizeLink(r)
  <2>1. /\ UNCHANGED <<status, preapproval>> /\ Become(r, Idle)
        /\ linked' \in Preapprovals \cup {NotLinked}
    BY <1>8, Held DEF AuthorizeLink, mpVars, At, Authorizing, SubscriptionInv
  <2> QED
    BY <1>1, <1>2, <1>3, <2>1, Moves DEF SubscriptionInv, TypeOK
<1>9. CASE MarkRead(r)
  <2>1. Become(r, [at |-> "marking"]) /\ UNCHANGED <<status, linked, preapproval>>
    BY <1>9 DEF MarkRead, subVars, mpVars
  <2> QED
    BY <1>1, <1>2, <1>3, <2>1, Moves DEF SubscriptionInv, TypeOK
<1>10. CASE MarkWrite(r)
  <2>1. Become(r, Idle) /\ UNCHANGED <<linked, preapproval>> /\ status' \in Statuses
    BY <1>10 DEF MarkWrite, mpVars, Statuses
  <2> QED
    BY <1>1, <1>2, <1>3, <2>1, Moves DEF SubscriptionInv, TypeOK
<1> QED
  BY <1>4, <1>5, <1>6, <1>7, <1>8, <1>9, <1>10

\* The webhook's transaction ends: the payment is recorded once, on the due date it read.
LEMMA StepPaymentCommit ==
  ASSUME SubscriptionInv, NEW r \in Requests, PaymentCommit(r)
  PROVE  SubscriptionInv'
<1> DEFINE x == req[r].of
<1>1. /\ UNCHANGED <<method, linked, byHand, overtaken, preapproval, charge, month, ignored>>
      /\ Answer(r)
  BY DEF PaymentCommit, mpVars
<1>2. /\ x \in Charges /\ charge[x] = "approved" /\ req[r].due \in Nat
      /\ (overtaken \/ req[r].due <= credit)
      /\ \A y \in Charges : Handles(r, y) => y = x
  BY Held DEF PaymentCommit, At, Crediting, SubscriptionInv, Knows, Handles
<1>3. CASE UniqueViolated(x)
  <2>1. UNCHANGED <<status, due, rows, credit>>
    BY <1>3 DEF PaymentCommit
  <2>2. rows[x] > 0
    BY <1>3 DEF UniqueViolated
  <2> QED
    BY <1>1, <1>2, <2>1, <2>2, Answers, Moves DEF SubscriptionInv, TypeOK
<1>4. CASE ~UniqueViolated(x)
  <2>1. /\ rows' = [rows EXCEPT ![x] = @ + 1] /\ status' = "ACTIVE"
        /\ due' = req[r].due + 1 /\ credit' = credit + 1
    BY <1>4 DEF PaymentCommit, Advance, Advances, Earned
  <2>2. rows[x] = 0
    BY <1>2, <1>4 DEF UniqueViolated, SubscriptionInv, TypeOK
  <2>3. /\ rows' \in [Charges -> Nat] /\ rows'[x] = 1
        /\ \A y \in Charges \ {x} : rows'[y] = rows[y]
    BY <1>2, <2>1, <2>2 DEF SubscriptionInv, TypeOK
  <2>4. /\ req' \in [Requests -> RequestState] /\ req'[r] = Idle
        /\ \A q \in Requests \ {r} : req'[q] = req[q]
        /\ unheard' \subseteq Charges /\ unheard \subseteq unheard' /\ failures' \in Nat
    BY <1>1, Answers, Becomes DEF SubscriptionInv
  <2>5. TypeOK'
    BY <1>1, <1>2, <2>1, <2>3, <2>4 DEF SubscriptionInv, TypeOK, Statuses
  <2>6. Grows
    BY <1>1, <2>1 DEF Grows, SubscriptionInv, TypeOK
  <2>7. Knows(req[r])'
    BY <2>4 DEF Knows, Idle
  <2>8. (\A q \in Requests : Knows(req[q]))'
    BY <2>4, <2>5, <2>6, <2>7, KnowsKept DEF SubscriptionInv
  <2>9. DueNeverAhead'
    BY <1>1, <1>2, <2>1 DEF DueNeverAhead, SubscriptionInv, TypeOK
  <2>10. CreditedOnce'
    BY <1>1, <1>2, <2>3 DEF CreditedOnce, SubscriptionInv
  <2>11. NothingUnanswered'
    <3>1. \A y \in Charges : rows[y] > 0 => rows'[y] > 0
      BY <2>2, <2>3
    <3>2. \A y \in Charges :
            (y \in unheard \/ Handles(r, y)) => rows'[y] > 0 \/ y \in unheard'
      BY <1>2, <2>3, <2>4
    <3> QED
      BY <1>1, <2>4, <3>1, <3>2, AnsweredKept DEF SubscriptionInv
  <2> QED
    BY <2>5, <2>8, <2>9, <2>10, <2>11 DEF SubscriptionInv
<1> QED
  BY <1>3, <1>4

\* The office's payment ends.
LEMMA StepRegisterCommit ==
  ASSUME SubscriptionInv, NEW r \in Requests, RegisterCommit(r)
  PROVE  SubscriptionInv'
<1>1. /\ UNCHANGED <<method, linked, rows, byHand, overtaken, preapproval, charge, month,
                     unheard, failures, ignored>>
      /\ Become(r, Idle)
  BY DEF RegisterCommit, mpVars
<1>2. /\ req[r].due \in Nat /\ (overtaken \/ req[r].due <= credit)
      /\ \A x \in Charges : ~Handles(r, x)
  BY Held DEF RegisterCommit, At, Paying, SubscriptionInv, Knows, Handles
<1>3. \/ status' = "ACTIVE" /\ due' = req[r].due + 1 /\ credit' = credit + 1
      \/ UNCHANGED <<status, due, credit>>
  BY DEF RegisterCommit, Advance, Advances, Earned
<1>4. /\ req' \in [Requests -> RequestState] /\ req'[r] = Idle
      /\ \A q \in Requests \ {r} : req'[q] = req[q]
  BY <1>1, Becomes, RequestStates DEF SubscriptionInv
<1>5. TypeOK'
  BY <1>1, <1>2, <1>3, <1>4 DEF SubscriptionInv, TypeOK, Statuses
<1>6. Grows
  BY <1>1, <1>3 DEF Grows, SubscriptionInv, TypeOK
<1>7. (\A q \in Requests : Knows(req[q]))'
  <2>1. Knows(req[r])'
    BY <1>4 DEF Knows, Idle
  <2> QED
    BY <1>4, <1>5, <1>6, <2>1, KnowsKept DEF SubscriptionInv
<1>8. DueNeverAhead'
  BY <1>1, <1>2, <1>3 DEF DueNeverAhead, SubscriptionInv, TypeOK
<1>9. NothingUnanswered'
  BY <1>1, <1>2, <1>4, AnsweredKept DEF SubscriptionInv
<1> QED
  BY <1>1, <1>5, <1>7, <1>8, <1>9 DEF SubscriptionInv, CreditedOnce

\* The office changes the subscription: a date it sets is a date that is given.
LEMMA StepUpdate ==
  ASSUME SubscriptionInv, Update
  PROVE  SubscriptionInv'
<1>1. /\ UNCHANGED <<linked, rows, preapproval, charge, month, unheard, req, failures, ignored>>
      /\ status' \in Statuses /\ method' \in Methods /\ byHand' = byHand + 1
  BY DEF Update, mpVars
<1>2. \/ UNCHANGED <<due, credit, overtaken>>
      \/ /\ due' \in Nat /\ credit' = due'
         /\ overtaken' = (overtaken \/ \E q \in Requests : Writing(q))
  BY SubscriptionAssumption DEF Update
<1>3. TypeOK'
  <2>1. overtaken' \in BOOLEAN
    BY <1>2, Zenon DEF SubscriptionInv, TypeOK
  <2> QED
    BY <1>1, <1>2, <2>1 DEF SubscriptionInv, TypeOK
<1>4. DueNeverAhead'
  BY <1>2, <1>3 DEF DueNeverAhead, SubscriptionInv, TypeOK
<1>5. \A q \in Requests : Knows(req[q])'
  <2> SUFFICES ASSUME NEW q \in Requests PROVE Knows(req[q])'
    OBVIOUS
  <2>1. Knows(req[q]) /\ (Writing(q) <=> req[q].at \in {"crediting", "paying"})
    BY DEF SubscriptionInv, Writing
  <2> QED
    BY <1>1, <1>2, <2>1 DEF Knows
<1>6. NothingUnanswered'
  BY <1>1 DEF SubscriptionInv, NothingUnanswered
<1> QED
  BY <1>1, <1>3, <1>4, <1>5, <1>6 DEF SubscriptionInv, CreditedOnce

\* The payment service and the clock.
LEMMA StepOutside ==
  ASSUME SubscriptionInv,
         \/ \E p \in Preapprovals : PayerMoves(p)
         \/ \E x \in Charges : Charged(x)
         \/ MonthPasses
  PROVE  SubscriptionInv'
<1>1. UNCHANGED <<status, method, due, linked, rows, byHand, credit, overtaken, req, failures,
                  ignored>>
  BY DEF PayerMoves, Charged, MonthPasses, subVars, payVars
<1>2. CASE \E p \in Preapprovals : PayerMoves(p)
  <2>1. /\ UNCHANGED <<charge, month, unheard>>
        /\ preapproval' \in [Preapprovals -> PreapprovalStatuses \cup {"none"}]
        /\ \A q \in Preapprovals : preapproval[q] # "none" => preapproval'[q] # "none"
    BY <1>2 DEF PayerMoves, SubscriptionInv, TypeOK, PreapprovalStatuses
  <2> QED
    BY <1>1, <2>1 DEF SubscriptionInv, TypeOK, Knows, DueNeverAhead, CreditedOnce,
                      NothingUnanswered
<1>3. CASE \E x \in Charges : Charged(x)
  <2>1. PICK x \in Charges : Charged(x)
    BY <1>3
  <2>2. /\ UNCHANGED <<preapproval, month>> /\ unheard' = unheard \cup {x}
        /\ charge' \in [Charges -> ChargeStatuses]
        /\ charge[x] \notin {"approved", "stranger"}
        /\ \A y \in Charges \ {x} : charge'[y] = charge[y]
    BY <2>1 DEF Charged, SubscriptionInv, TypeOK, ChargeStatuses
  <2>3. TypeOK' /\ CreditedOnce' /\ NothingUnanswered' /\ DueNeverAhead'
    BY <1>1, <2>2 DEF SubscriptionInv, TypeOK, CreditedOnce, NothingUnanswered, DueNeverAhead
  <2>4. \A q \in Requests : Knows(req[q])'
    <3> SUFFICES ASSUME NEW q \in Requests PROVE Knows(req[q])'
      OBVIOUS
    <3>1. Knows(req[q])
      BY DEF SubscriptionInv
    <3>2. req[q].at \in {"approved", "fresh", "crediting"} => req[q].of \in Charges
      BY Held DEF SubscriptionInv, Paid, Crediting
    <3> QED
      BY <1>1, <2>2, <3>1, <3>2 DEF Knows
  <2> QED
    BY <2>3, <2>4 DEF SubscriptionInv
<1>4. CASE MonthPasses
  <2>1. UNCHANGED <<preapproval, charge, unheard>> /\ month' = month + 1
    BY <1>4 DEF MonthPasses
  <2> QED
    BY <1>1, <2>1 DEF SubscriptionInv, TypeOK, Knows, DueNeverAhead, CreditedOnce,
                      NothingUnanswered
<1> QED
  BY <1>2, <1>3, <1>4

----
(***************************************************************************)
(* The theorems.                                                             *)
(***************************************************************************)

\* The inductive invariant: what is due, recorded and announced, and what every handler
\* of the webhook and of the office knows between two awaits.
THEOREM SubscriptionInvariance == Spec => []SubscriptionInv
<1>1. Init => SubscriptionInv
  <2> SUFFICES ASSUME Init PROVE SubscriptionInv
    OBVIOUS
  <2>1. TypeOK
    BY RequestStates DEF Init, TypeOK, Statuses, ChargeStatuses
  <2>2. \A r \in Requests : Knows(req[r])
    BY DEF Init, Knows, Idle
  <2> QED
    BY <2>1, <2>2 DEF Init, SubscriptionInv, DueNeverAhead, CreditedOnce, NothingUnanswered
<1>2. SubscriptionInv /\ [Next]_vars => SubscriptionInv'
  <2> SUFFICES ASSUME SubscriptionInv, [Next]_vars PROVE SubscriptionInv'
    OBVIOUS
  <2>1. CASE UNCHANGED vars
    BY <2>1 DEF vars, subVars, payVars, mpVars, SubscriptionInv, TypeOK, Knows, DueNeverAhead,
                CreditedOnce, NothingUnanswered
  <2>2. ASSUME NEW r \in Requests, Continue(r) PROVE SubscriptionInv'
    BY <2>2, StepPreapproval, StepPayment, StepPaymentCommit, StepRegisterCommit, StepOther
       DEF Continue
  <2>3. ASSUME NEW r \in Requests,
               Fail(r) \/ RegisterRead(r) \/ AuthorizeRead(r) \/ MarkRead(r)
        PROVE  SubscriptionInv'
    BY <2>3, StepFail, StepOther
  <2>4. ASSUME NEW r \in Requests, NEW x \in Preapprovals \cup Charges, Notify(r, x)
        PROVE  SubscriptionInv'
    BY <2>4, StepNotify
  <2> QED
    BY <2>1, <2>2, <2>3, <2>4, StepUpdate, StepOutside DEF Next
<1> QED
  BY <1>1, <1>2, PTL DEF Spec

\* However payments race and dates are read late, the due date is never ahead of the
\* months that were paid or given.
THEOREM NeverAhead == Spec => []DueNeverAhead
<1>1. SubscriptionInv => DueNeverAhead
  BY DEF SubscriptionInv
<1> QED
  BY <1>1, SubscriptionInvariance, PTL

\* However often and to however many handlers a payment is notified, it is recorded once,
\* and only if it was approved.
THEOREM RecordedOnce == Spec => []CreditedOnce
<1>1. SubscriptionInv => CreditedOnce
  BY DEF SubscriptionInv
<1> QED
  BY <1>1, SubscriptionInvariance, PTL

\* No failure of a handler and no lost answer makes an approved payment disappear.
THEOREM NoneSlips == Spec => []NothingUnanswered
<1>1. SubscriptionInv => NothingUnanswered
  BY DEF SubscriptionInv
<1> QED
  BY <1>1, SubscriptionInvariance, PTL

=============================================================================

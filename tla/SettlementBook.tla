---------------------------- MODULE SettlementBook ----------------------------
(***************************************************************************)
(* What a title, or any other amount settled in parts, promises to the      *)
(* rest of the system: items are opened with a limit that never changes,    *)
(* every settlement is a positive amount that fits in what is left, and     *)
(* nothing is ever taken back.  The services implement this with a          *)
(* read-check-write sequence of database calls; the book does each          *)
(* settlement in one step.                                                  *)
(***************************************************************************)
EXTENDS Integers

CONSTANT Items

VARIABLE book     \* for each open item, its limit and the total settled

Entry == [limit: Int, total: Int]

TypeOK ==
  /\ DOMAIN book \subseteq Items
  /\ book \in [DOMAIN book -> Entry]

\* Some items may be open already, with nothing settled.
Init ==
  /\ TypeOK
  /\ \A i \in DOMAIN book : book[i].total = 0

\* One call may open several items (an instalment plan).
Open ==
  /\ DOMAIN book \subseteq DOMAIN book'
  /\ DOMAIN book' \subseteq Items
  /\ book' \in [DOMAIN book' -> Entry]
  /\ \A i \in DOMAIN book : book'[i] = book[i]
  /\ \A i \in DOMAIN book' \ DOMAIN book : book'[i].total = 0

\* A settlement is positive and fits in what is left of the limit.
Settle(i) ==
  /\ book'[i].total > book[i].total
  /\ book'[i].total <= book[i].limit
  /\ book' = [book EXCEPT ![i].total = book'[i].total]

Next == Open \/ \E i \in DOMAIN book : Settle(i)

Spec == Init /\ [][Next]_book

=============================================================================

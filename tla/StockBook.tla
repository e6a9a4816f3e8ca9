------------------------------ MODULE StockBook -------------------------------
(***************************************************************************)
(* What a stock with a ledger promises: the stock of an item changes only   *)
(* together with one new movement of exactly that size, never leaves the    *)
(* quantities the item allows, and the ledger only grows.  The parts store  *)
(* of the workshop and the fuel tanks both promise it, with transactions    *)
(* that work on a snapshot; the book moves any number of items in one step. *)
(***************************************************************************)
EXTENDS Integers, Sequences

CONSTANTS
  Items,
  Allowed    \* for each item, the quantities it may hold

VARIABLES
  stock,     \* the quantity held of each item
  entries    \* the signed movements of each item, oldest first

vars == <<stock, entries>>

Init ==
  /\ stock = [i \in Items |-> 0]
  /\ entries = [i \in Items |-> <<>>]

\* One movement of item i, of exactly the change of its stock.
Moves(i) ==
  /\ entries'[i] = Append(entries[i], stock'[i] - stock[i])
  /\ stock'[i] \in Allowed[i]

Rests(i) == stock'[i] = stock[i] /\ entries'[i] = entries[i]

Next ==
  /\ stock' \in [Items -> Int]
  /\ DOMAIN entries' = Items
  /\ \A i \in Items : Moves(i) \/ Rests(i)

Spec == Init /\ [][Next]_vars

=============================================================================

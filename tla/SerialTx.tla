------------------------------- MODULE SerialTx -------------------------------
(***************************************************************************)
(* Serializable transactions of the database, as runSerializable uses them. *)
(* A transaction works on the snapshot of its first query.  When another    *)
(* transaction commits a row that it writes, the database fails it with     *)
(* P2034; it may fail any transaction so.  runSerializable runs a failed    *)
(* transaction a second time and answers with the error of the second.      *)
(*                                                                          *)
(* An open transaction is a record whose "step" is "open", with the rows it *)
(* writes, whether it is doomed, and whether it is the second attempt.      *)
(***************************************************************************)
EXTENDS Naturals

Open(tx) == tx.step = "open"

\* Mutant of Doom: Read Committed, where nothing is detected.
DoomNothing(txs, rows) == txs

\* The transactions after another one has committed the rows.
Doom(txs, rows) ==
  [r \in DOMAIN txs |->
     IF Open(txs[r]) /\ txs[r].writes \cap rows # {}
     THEN [txs[r] EXCEPT !.doomed = TRUE] ELSE txs[r]]

MayCommit(tx) == Open(tx) /\ ~tx.doomed

\* runSerializable: one retry, from the call as it was before the transaction.
Retry(tx) == IF tx.second THEN [step |-> "idle"] ELSE [step |-> "ready", call |-> tx.call, second |-> TRUE]

=============================================================================

------------------------------ MODULE MCFinance -------------------------------
(* Instances of FinanceCore for TLC. *)
EXTENDS FinanceCore, TLC

CONSTANTS rec1, rec2, rec3, pay1, bill1, doc1, req1, req2, req3, acc1, acc2

MCSymmetry == Permutations(Accounts) \cup Permutations({rec2, rec3})

\* Two payments race with each other and with a cancellation or a closing; titles are
\* made by two requests, while one of them pays and the other cancels and closes; money
\* is moved by hand and between accounts while titles are made and paid.
MCRaces == (req1 :> {"pay"}) @@ (req2 :> {"pay"}) @@ (req3 :> {"cancel", "period"})
MCTitles ==
  (req1 :> {"create", "pay"}) @@ (req2 :> {"create", "cancel", "account", "period"})
    @@ (req3 :> {})
MCEntries ==
  (req1 :> {"create", "pay"}) @@ (req2 :> {"account", "entry", "period"}) @@ (req3 :> {})
MCWorkloads == {MCRaces, MCTitles, MCEntries}

\* Payments only.
MCPayer == {[r \in Requests |-> {"pay"}]}

\* A payment against a cancellation.
MCPayAndCancel == {[r \in Requests |-> {"pay", "cancel"}]}

=============================================================================

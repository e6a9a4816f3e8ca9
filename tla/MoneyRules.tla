------------------------------ MODULE MoneyRules ------------------------------
(***************************************************************************)
(* The pure money rules shared by the accounts-receivable and              *)
(* accounts-payable services.  Every amount is an integer number of cents: *)
(* the columns are Decimal(_, 2), the DTOs accept two decimals, and round2 *)
(* of a sum of two-decimal numbers is that sum.                            *)
(***************************************************************************)
EXTENDS Integers

\* The persisted status of a title.  OVERDUE is never written.
WrittenStatuses == {"OPEN", "PARTIAL", "PAID", "CANCELLED"}

\* computeWrittenBalanceStatus: CANCELLED > PAID > PARTIAL > OPEN.
WrittenStatus(original, paid, cancelled) ==
  IF cancelled THEN "CANCELLED"
  ELSE IF original > 0 /\ paid >= original THEN "PAID"
  ELSE IF paid > 0 THEN "PARTIAL" ELSE "OPEN"

\* computeBalance: what is still open, never negative.
Balance(original, paid) == IF original > paid THEN original - paid ELSE 0

(***************************************************************************)
(* buildInstallmentPlan: n instalments, the first n - 1 of them the rounded *)
(* share of the total, the last one whatever is left.  The share is         *)
(* Math.round of a binary floating-point number, so an exact half cent may  *)
(* go either way; Shares is the set of values the code can compute.         *)
(***************************************************************************)
Shares(total, n) ==
  LET down == total \div n
      twice == 2 * (total % n)
  IN  (IF twice <= n THEN {down} ELSE {}) \cup (IF twice >= n THEN {down + 1} ELSE {})

InstallmentPlans(total, n) ==
  {[i \in 1..n |-> IF i < n THEN share ELSE total - (n - 1) * share] :
     share \in Shares(total, n)}

=============================================================================

------------------------------ MODULE SetSums ------------------------------
(* Sums over a finite set, for totals of balances, stakes and ledger rows. *)
EXTENDS Integers, FiniteSets, Functions

\* The sum of f[x] over the elements x of S.
SumOver(f, S) == FoldFunctionOnSet(+, 0, f, S)

=============================================================================

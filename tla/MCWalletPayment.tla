-------------------------- MODULE MCWalletPayment --------------------------
(* Instances of WalletPayment for TLC. *)
EXTENDS WalletPayment, TLC

\* Budgets that never end.
MCStarts == [b \in Budgets |-> 0]
MCEnds   == [b \in Budgets |-> MaxTime + 1]

\* Safety only: no liveness property is checked under symmetry.
Symmetry == Permutations(Keys)

=============================================================================

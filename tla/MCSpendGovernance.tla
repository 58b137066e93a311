------------------------- MODULE MCSpendGovernance -------------------------
(* Instances of SpendGovernance for TLC. *)
EXTENDS SpendGovernance, TLC

CONSTANTS sSmall, sLarge, b1, b2

MCAmountOf == [c \in Scopes |-> IF c = sLarge THEN 2 ELSE 1]

\* b1 has the first two instants, b2 everything after.
MCStarts == [b \in Budgets |-> IF b = b1 THEN 0 ELSE 2]
MCEnds   == [b \in Budgets |-> IF b = b1 THEN 2 ELSE MaxTime + 1]

\* One budget that never ends.
MCStart0 == [b \in Budgets |-> 0]
MCEndLate == [b \in Budgets |-> MaxTime + 1]

\* Safety only: no liveness property is checked under symmetry.
Symmetry == Permutations(Keys)
TwoSymmetry == Permutations(Keys) \cup Permutations(Servers)
ServerSymmetry == Permutations(Servers)

=============================================================================

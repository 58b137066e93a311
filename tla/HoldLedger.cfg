\* The abstract ledger: two holds, two budgets.
SPECIFICATION Spec
CONSTANTS
  Decisions = {d1, d2}
  Budgets = {b1, b2}
  NoBudget = NoBudget
  MaxAmount = 2
SYMMETRY Symmetry
INVARIANTS
  WithinLimit

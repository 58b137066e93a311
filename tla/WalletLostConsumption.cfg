\* A settlement's commit fails, an executor's receipt replaces the cached
\* balance, and the payment is submitted again.
SPECIFICATION Spec
CONSTANTS
  Keys = {k1, k2}
  MaxRevision = 1
  Budgets = {b1}
  NoBudget = NoBudget
  Starts <- MCStarts
  Ends <- MCEnds
  MaxAmount = 4
  Price = 2
  BudgetLimit = 4
  AuthTTL = 2
  ClaimTTL = 1
  Faults = TRUE
  MaxCharges = 1
  MaxTime = 2
SYMMETRY Symmetry
INVARIANTS
  SettledIsConsumed

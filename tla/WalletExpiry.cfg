\* A hold expires between the charge and its settlement; nothing fails.
SPECIFICATION Spec
CONSTANTS
  Keys = {k1, k2}
  MaxRevision = 1
  Budgets = {b1}
  NoBudget = NoBudget
  Starts <- MCStarts
  Ends <- MCEnds
  MaxAmount = 3
  Price = 2
  BudgetLimit = 3
  AuthTTL = 1
  ClaimTTL = 1
  Faults = FALSE
  MaxCharges = 2
  MaxTime = 1
SYMMETRY Symmetry
INVARIANTS
  PaidWithinLimit

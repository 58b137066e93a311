\* Two operations share one budget; the process crashes and commits fail.
SPECIFICATION Spec
CONSTANTS
  Keys = {k1, k2}
  MaxRevision = 1
  Budgets = {b1}
  NoBudget = NoBudget
  Starts <- MCStarts
  Ends <- MCEnds
  MaxAmount = 4
  Price = 2
  BudgetLimit = 4
  AuthTTL = 2
  ClaimTTL = 1
  Faults = TRUE
  MaxCharges = 2
  MaxTime = 3
SYMMETRY Symmetry
INVARIANTS
  TypeOK
  PaymentBooksBalance
  SettledIsPaid
  PaidOnce
PROPERTIES
  RecordedResultFinal

\* One server process, two operation keys that compete for one budget whose
\* limit may change; crashes and failing transactions at every step.
SPECIFICATION Spec
CONSTANTS
  sSmall = sSmall
  sLarge = sLarge
  b1 = b1
  b2 = b2
  NoBudget = NoBudget
  AmountOf <- MCAmountOf
  Servers = {s1}
  Keys = {k1, k2}
  Scopes = {sLarge}
  MaxRevision = 1
  Budgets = {b1}
  Starts <- MCStart0
  Ends <- MCEndLate
  Limits = {2, 3}
  Charges = {0, 1, 2, 3}
  MaxAmount = 3
  AuthTTL = 1
  ClaimTTL = 1
  MaxVersions = 2
  MaxTime = 2
SYMMETRY Symmetry
INVARIANTS
  TypeOK
  BooksBalance
  HardLimit
  ClaimOwnsHold
  CacheCoherent
PROPERTIES
  HoldLifecycle
  ImplementsLedger

\* Two server processes on one file: a repeated claim writes back a cached hold.
SPECIFICATION Spec
CONSTANTS
  sSmall = sSmall
  sLarge = sLarge
  b1 = b1
  b2 = b2
  NoBudget = NoBudget
  AmountOf <- MCAmountOf
  Servers = {s1, s2}
  Keys = {k1}
  Scopes = {sLarge}
  MaxRevision = 1
  Budgets = {b1}
  Starts <- MCStart0
  Ends <- MCEndLate
  Limits = {2}
  Charges = {1}
  MaxAmount = 3
  AuthTTL = 1
  ClaimTTL = 1
  MaxVersions = 1
  MaxTime = 0
PROPERTIES
  HoldLifecycle
CHECK_DEADLOCK FALSE

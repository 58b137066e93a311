\* One operation key retried with changed scopes while one budget's period ends
\* and the next begins; overdue holds end, under the fairness of FairSpec.
SPECIFICATION FairSpec
CONSTANTS
  sSmall = sSmall
  sLarge = sLarge
  b1 = b1
  b2 = b2
  NoBudget = NoBudget
  AmountOf <- MCAmountOf
  Servers = {s1}
  Keys = {k1}
  Scopes = {sSmall, sLarge}
  MaxRevision = 2
  Budgets = {b1, b2}
  Starts <- MCStarts
  Ends <- MCEnds
  Limits = {1, 2}
  Charges = {1, 3}
  MaxAmount = 3
  AuthTTL = 1
  ClaimTTL = 1
  MaxVersions = 1
  MaxTime = 2
INVARIANTS
  OneGrantPerKey
  GrantIsWhole
PROPERTIES
  ReservationFits
  OverdueHoldsEnd

\* Two server processes on one file, two operation keys racing for one budget and
\* two resolutions racing for one request.
\* The clock stands still.  No process may be able to start again (see
\* TwoServersHoldLifecycle.cfg), so the system may stop.
SPECIFICATION Spec
CONSTANTS
  sSmall = sSmall
  sLarge = sLarge
  b1 = b1
  b2 = b2
  NoBudget = NoBudget
  AmountOf <- MCAmountOf
  Servers = {s1, s2}
  Keys = {k1, k2}
  Scopes = {sLarge}
  MaxRevision = 1
  Budgets = {b1}
  Starts <- MCStart0
  Ends <- MCEndLate
  Limits = {3}
  Charges = {1}
  MaxAmount = 3
  AuthTTL = 1
  ClaimTTL = 1
  MaxVersions = 1
  MaxTime = 0
SYMMETRY TwoSymmetry
INVARIANTS
  HardLimit
PROPERTIES
  OutcomeFinal
  ReservationFits
CHECK_DEADLOCK FALSE

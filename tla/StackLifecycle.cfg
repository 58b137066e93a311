\* Two source versions, two processes, any number of commands and failures.
SPECIFICATION FairSpec
CONSTANTS
  g1 = g1
  g2 = g2
  None = None
  Procs = {p1, p2}
  Sources = {g1, g2}
  Managed <- MCManaged
  Port <- MCPort
INVARIANTS
  TypeOK
  OwnedRunsActive
  NothingLeftBehind
PROPERTIES
  AdviceRecovers

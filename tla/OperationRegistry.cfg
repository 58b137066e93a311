\* Two router processes on one registry, any number of tool calls.
SPECIFICATION FairSpec
CONSTANTS
  Workers = {w1, w2}
  None = None
  DispatchLimit = 2
  ObservationLimit = 2
  ReconciliationLimit = 1
INVARIANTS
  TypeOK
  OutcomeIsGongbus
  NeverStarted
  NoPoisonRow
  RefusedIsVoided
PROPERTIES
  TerminalFinal
  ReplayOnly
  AcceptedEnds

\* A crash between the commit of reconciliation_required and the commit of the
\* reconciliation record; no activity overruns.
SPECIFICATION FairSpec
CONSTANTS
  Slots = {"live"}
  Artifacts = 1
  MaxArtifacts = 1
  MaxAutomatic = 3
  MaxPending = 1
PROPERTIES
  EvidenceRecorded

\* An execution whose activities crash, overrun and are retried without bound;
\* two artifacts, one automatic recovery, one operator signal at a time.
SPECIFICATION FairSpec
CONSTANTS
  Slots = {"live", "overrun"}
  Artifacts = 2
  MaxArtifacts = 3
  MaxAutomatic = 1
  MaxPending = 1
INVARIANTS
  TypeOK
  SubmittedOnce
  ReleasedIsUnbilled
  SettledIsDelivered
  EndsAgree
PROPERTIES
  EvidenceFinal
  ImplementsService
  EndsOrWaits

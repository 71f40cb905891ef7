SPECIFICATION TasksSpec
CONSTANTS
  N = 3
  Qty = 2
  Sides = {"algo", "lab"}
  JobCount = 2
  Kinds <- MCKinds
  MaxJobs = 1
  MaxRounds = 1
  Queues = {"data", "compute"}
  None = None
  MaxFaults = 1
  MaxDeletes = 1
INVARIANTS ParentIsTrue ArtifactsMatchRecords
PROPERTIES CancelIsFinal AlgoEnds RecordsAreKept JobsEnd
CHECK_DEADLOCK FALSE

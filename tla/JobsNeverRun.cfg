SPECIFICATION TasksSpec
CONSTANTS
  N = 3
  Qty = 2
  Sides = {"lab"}
  JobCount = 2
  Kinds <- MCKinds
  MaxJobs = 1
  MaxRounds = 1
  Queues = {"data", "strategy", "default"}
  None = None
  MaxFaults = 1
  MaxDeletes = 1
PROPERTY JobsEnd
CHECK_DEADLOCK FALSE

CONSTANTS
  j1 = j1
  j2 = j2
  d1 = d1
  d2 = d2
  NoJob = NoJob
  Jobs = {j1}
  WikiJobs = {}
  Dest <- SharedDest
  MaxRuns = 2
  MaxCrashes = 2
  MaxCancels = 0
  Workload = {"fork", "reuse", "tick"}
  Linux = TRUE
  Stubborn = TRUE
SPECIFICATION Spec
PROPERTIES RecoveredGroupIsGone

CONSTANTS
  j1 = j1
  j2 = j2
  d1 = d1
  d2 = d2
  NoJob = NoJob
  Jobs = {j1}
  WikiJobs = {}
  Dest <- SharedDest
  MaxRuns = 2
  MaxCrashes = 1
  MaxCancels = 0
  Workload = {"tick"}
  Linux = FALSE
  Stubborn = TRUE
SPECIFICATION Spec
INVARIANTS OneDriverPerDestination

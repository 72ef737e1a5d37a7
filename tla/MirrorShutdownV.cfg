CONSTANTS
  j1 = j1
  j2 = j2
  d1 = d1
  d2 = d2
  NoJob = NoJob
  Jobs = {j1}
  WikiJobs = {}
  Dest <- SharedDest
  MaxRuns = 1
  MaxCrashes = 0
  MaxCancels = 0
  Workload = {"shutdown"}
  Linux = TRUE
  Stubborn = TRUE
SPECIFICATION Spec
INVARIANTS StopAllStopsDrivers

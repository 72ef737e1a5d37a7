CONSTANTS
  j1 = j1
  j2 = j2
  d1 = d1
  d2 = d2
  NoJob = NoJob
  Jobs = {j1, j2}
  WikiJobs = {j1, j2}
  Dest <- SharedDest
  MaxRuns = 2
  MaxCrashes = 1
  MaxCancels = 0
  Workload = {"delete", "tick"}
  Linux = TRUE
  Stubborn = TRUE
SPECIFICATION Spec
INVARIANTS NoHiddenDriver OneDriverPerDestination
PROPERTIES ImplementsLifecycle

CONSTANTS
  j1 = j1
  j2 = j2
  d1 = d1
  d2 = d2
  NoJob = NoJob
  Jobs = {j1}
  WikiJobs = {}
  Dest <- SharedDest
  MaxRuns = 1
  MaxCrashes = 1
  MaxCancels = 1
  Workload = {"fork", "tick", "shutdown"}
  Linux = TRUE
  Stubborn = FALSE
SPECIFICATION FairSpec
PROPERTIES  BlockedRunIsRetried

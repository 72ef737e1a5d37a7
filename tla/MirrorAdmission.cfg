CONSTANTS
  j1 = j1
  j2 = j2
  d1 = d1
  d2 = d2
  NoJob = NoJob
  Jobs = {j1, j2}
  WikiJobs = {j1, j2}
  Dest <- OwnDest
  MaxRuns = 2
  MaxCrashes = 1
  MaxCancels = 0
  Workload = {"tick", "pause"}
  Linux = TRUE
  Stubborn = TRUE
SPECIFICATION Spec
INVARIANTS OneWikiDriver

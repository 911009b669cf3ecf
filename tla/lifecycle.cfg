SPECIFICATION FairSpec
CONSTANTS
  Jobs = {j1, j2}
  Projects = {p1}
  ProjectOf <- OneProject
  Workers = {w1}
  Clients = {c1}
  Seeds = {s1}
  None = None
  LegacyJobs = {j1}
  MaxAttempts = 2
  MaxRevision = 1
  RemoteGpu = TRUE
  Faults = {"crash"}
PROPERTIES ImplementsLifecycle JobSettles StagingDrains NoRemoteResubmit

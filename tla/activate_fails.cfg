SPECIFICATION Spec
CONSTANTS
  Jobs = {j1}
  Projects = {p1}
  ProjectOf <- OneProject
  Workers = {w1}
  Clients = {c1}
  Seeds = {s1}
  None = None
  LegacyJobs = {}
  MaxAttempts = 2
  MaxRevision = 1
  RemoteGpu = FALSE
  Faults = {"store"}
INVARIANTS DoneNamesTake

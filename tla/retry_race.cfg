SPECIFICATION Spec
CONSTANTS
  Jobs = {j1, j2}
  Projects = {p1}
  ProjectOf <- OneProject
  Workers = {w1}
  Clients = {c1}
  Seeds = {s1, s2}
  None = None
  LegacyJobs = {}
  MaxAttempts = 1
  MaxRevision = 2
  RemoteGpu = FALSE
  Faults = {}
INVARIANTS RetryExact

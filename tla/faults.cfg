SPECIFICATION Spec
CONSTANTS
  Jobs = {j1}
  Projects = {p1}
  ProjectOf <- OneProject
  Workers = {w1}
  Clients = {c1}
  Seeds = {s1, s2}
  None = None
  LegacyJobs = {}
  MaxAttempts = 2
  MaxRevision = 2
  RemoteGpu = FALSE
  Faults = {"crash", "server", "store", "rmtree"}
INVARIANTS FrozenBrief
PROPERTIES TerminalFinal NoResurrection

SPECIFICATION Spec
CONSTANTS
  Jobs = {j1}
  Projects = {p1}
  ProjectOf <- OneProject
  Workers = {w1, w2}
  Clients = {c1}
  Seeds = {s1, s2}
  None = None
  LegacyJobs = {}
  MaxAttempts = 2
  MaxRevision = 1
  RemoteGpu = FALSE
  Faults = {"crash"}
INVARIANTS TypeOK OneTakePerJob CancelWins DoneNamesTake FrozenBrief
PROPERTIES PublishedByOwner LiveRenderKept
SYMMETRY Interchangeable

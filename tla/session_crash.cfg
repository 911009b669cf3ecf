SPECIFICATION Spec
CONSTANTS
  r1 = r1
  r2 = r2
  Pods = {p1, p2, p3}
  Requests = {r1}
  Lifespan = Lifespan
  None = None
  Manual = Manual
  Actions <- AnyRequest
  SessionFaults = {"crash"}
SYMMETRY Interchangeable
INVARIANTS CrashOrphansNothing

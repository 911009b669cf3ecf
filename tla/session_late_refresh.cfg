SPECIFICATION Spec
CONSTANTS
  r1 = r1
  r2 = r2
  Pods = {p1, p2, p3}
  Requests = {r1, r2}
  Lifespan = Lifespan
  None = None
  Manual = Manual
  Actions <- UserAndPanel
  SessionFaults = {}
SYMMETRY Interchangeable
PROPERTIES RecordKept

SPECIFICATION FairSpec
CONSTANTS
  r1 = r1
  r2 = r2
  Pods = {p1, p2}
  Requests = {r1, r2}
  Lifespan = Lifespan
  None = None
  Manual = Manual
  Actions <- AnyRequest
  SessionFaults = {"unreachable", "lost", "console", "crash"}
INVARIANTS RentsUnrecorded
PROPERTIES RecordLostToStale CleanExitTerminates

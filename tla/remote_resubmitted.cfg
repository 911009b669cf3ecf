SPECIFICATION Spec
CONSTANTS
  c1 = c1
  c2 = c2
  c3 = c3
  j1 = j1
  j2 = j2
  ClientIds = {c1, c2}
  JobIds = {j1}
  JobOf <- OneJob
  Tokens = {t1, t2, t3}
  None = None
  QueueLimit = 1
  NetFaults = {"crash"}
SYMMETRY TokenSymmetry
INVARIANTS JobRenderedOnce
CHECK_DEADLOCK FALSE

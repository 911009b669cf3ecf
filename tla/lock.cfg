SPECIFICATION FairSpec
CONSTANTS
  Threads = {t1, t2, t3}
  MaxDepth = 2
  LockFaults = {"crash", "suspend", "touch"}
INVARIANTS Exclusive
PROPERTIES NeverAbandoned
CHECK_DEADLOCK FALSE

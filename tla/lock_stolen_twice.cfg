SPECIFICATION Spec
CONSTANTS
  Threads = {t1, t2, t3}
  MaxDepth = 1
  LockFaults = {"crash"}
INVARIANTS OneHolder
CHECK_DEADLOCK FALSE

SPECIFICATION Spec
CONSTANTS
  j1 = j1
  j2 = j2
  None = None
  Jobs = {j1, j2}
  Faults = {"rot"}
SYMMETRY Alike
CHECK_DEADLOCK FALSE
INVARIANT KeysAsRecorded

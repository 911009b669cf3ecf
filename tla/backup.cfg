SPECIFICATION Spec
CONSTANTS
  j1 = j1
  j2 = j2
  None = None
  Jobs = {j1, j2}
  Faults = {"crash", "lapse", "rot", "server"}
SYMMETRY Alike
CHECK_DEADLOCK FALSE
INVARIANTS DoneHasTake OneTake
PROPERTIES RestoreExact

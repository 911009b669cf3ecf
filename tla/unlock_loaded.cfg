SPECIFICATION Spec
CONSTANTS
  j1 = j1
  j2 = j2
  k1 = k1
  k2 = k2
  iterate = iterate
  quality = quality
  studio = studio
  Workers = {w1, w2}
  Jobs = {j1, j2}
  Bodies <- TwoJobs
  Profiles = {iterate, quality, studio}
  Default = iterate
  LoraBase = studio
  Offloaded = {quality}
  Loadable = {iterate, quality, studio}
  Packs = {k1, k2}
  Trained = {k1}
  InTraining = InTraining
  None = None
  LoadFaults = {}
  ProcessFaults = {"interrupt"}
INVARIANTS OneHolder

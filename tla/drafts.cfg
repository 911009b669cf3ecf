SPECIFICATION Spec
CONSTANTS
  Ideas = {"idea"}
  Samples <- ThreeSamples
  Jobs = {1, 2}
  Actions = {"generate", "cover"}
  Ways = {"guarded", "blind", "partial"}
  MaxWrites = 2
CHECK_DEADLOCK FALSE
PROPERTIES PresetKeepsUser
\* The others, in the place of it:
\* INVARIANTS DefaultsNeverLock
\* INVARIANTS CaptionIsPlannedAround

SPECIFICATION Spec
CONSTANTS
  Ideas = {"idea"}
  Samples <- ThreeSamples
  Jobs = {1, 2}
  Actions = {"generate", "cover"}
  Ways = {"guarded", "blind", "partial"}
  MaxWrites = 2
CHECK_DEADLOCK FALSE
INVARIANTS ExplicitSurvives AnotherTake
PROPERTIES NewerTextWins OriginsStayTrue

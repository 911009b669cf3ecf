SPECIFICATION FairSpec
CONSTANTS
  c1 = c1
  c2 = c2
  c3 = c3
  k1 = k1
  s1 = s1
  blue = blue
  red = red
  Calls = {c1, c2, c3}
  KeyOf <- OneKey
  BodyOf <- Bodies
  Keys = {k1}
  Words = {blue, red}
  Submissions = {s1}
  None = None
  PostFaults = {"crash", "lost", "db", "disk", "remove"}
  MaxFaults = 2
CHECK_DEADLOCK FALSE
INVARIANTS RunsOnce AnswersAgree OwnReservation NoStrayProject
PROPERTIES ClientServed

SPECIFICATION FairSpec
CONSTANTS
  c1 = c1
  c2 = c2
  c3 = c3
  j1 = j1
  j2 = j2
  ClientIds = {c1, c2}
  JobIds = {j1}
  JobOf <- OneJob
  Tokens = {t1, t2}
  None = None
  QueueLimit = 1
  NetFaults = {"lost", "crash", "lapse", "restart", "connection"}
INVARIANTS HandleIsOwn
PROPERTIES RenderedOnce WantedResultKept AttemptsEnd QueueDrains
CHECK_DEADLOCK FALSE

\* Two builds of one user and one of another, two requests open at once.
SPECIFICATION Spec
CONSTANTS
  b1 = b1  b2 = b2  b3 = b3  u1 = u1  u2 = u2  p1 = p1
  None = None
  Builds = {b1, b2, b3}
  Users = {u1, u2}
  Projects = {p1}
  owner <- TwoUsers
  project <- OneProject
  Rejected = {}
  MaxEdits = 0
  MaxOpen = 2
  MaxCrashes = 0
  Timely = FALSE
INVARIANTS
  
  SerialRunnerFailsOnItsLogOnly
  LonelyAnswerIsOwn
\* requests are finitely many, and one that gets no log waits for ever
CHECK_DEADLOCK FALSE

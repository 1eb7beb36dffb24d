\* Three builds of one user, one after the other, with an edit and a crash.
SPECIFICATION Spec
CONSTANTS
  b1 = b1  b2 = b2  b3 = b3  u1 = u1  u2 = u2  p1 = p1
  None = None
  Builds = {b1, b2, b3}
  Users = {u1}
  Projects = {p1}
  owner <- OneUser
  project <- OneProject
  Rejected = {b2}
  MaxEdits = 1
  MaxOpen = 1
  MaxCrashes = 1
  Timely = FALSE
INVARIANTS
  SerialLogIsOwn
  SerialLogIsFresh
  
  SerialLeavesNothing
\* requests are finitely many, and one that gets no log waits for ever
CHECK_DEADLOCK FALSE

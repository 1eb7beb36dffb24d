\* Two builds of one user and one of another, one after the other, under fairness.
SPECIFICATION FairSpec
CONSTANTS
  b1 = b1  b2 = b2  b3 = b3  u1 = u1  u2 = u2  p1 = p1
  None = None
  Builds = {b1, b2, b3}
  Users = {u1, u2}
  Projects = {p1}
  owner <- TwoUsers
  project <- OneProject
  Rejected = {}
  MaxEdits = 1
  MaxOpen = 1
  MaxCrashes = 0
  Timely = TRUE
PROPERTIES
  
  FinishedBuildIsAnswered
\* requests are finitely many, and one that gets no log waits for ever
CHECK_DEADLOCK FALSE

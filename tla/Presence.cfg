\* Two users with a session each, two projects, three pages: what the viewers show.
SPECIFICATION FairSpec
CONSTANTS
  s1 = s1  s2 = s2  s3 = s3  u1 = u1  u2 = u2  p1 = p1  p2 = p2
  Sessions = {s2, s3}
  Users = {u1, u2}
  Projects = {p1, p2}
  user <- TwoSessions
  None = None
  MaxOpens = 3
INVARIANTS
  NoGhosts
  MissingAfterOverlapOnly
  ViewsConverge
PROPERTIES
  EveryoneIsSeen
\* the pages are finitely many
CHECK_DEADLOCK FALSE

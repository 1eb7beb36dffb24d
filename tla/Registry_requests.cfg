\* Two PUTs, a POST, two DELETEs and a poll of /change; its timeout may come first.
SPECIFICATION FairSpec
CONSTANTS
  r1 = r1  r2 = r2  r3 = r3  r4 = r4  r5 = r5  p1 = p1  p2 = p2
  i1 = i1  i2 = i2  o1 = o1  o2 = o2
  Puts = {r1, r2}
  Posts = {r3}
  Deletes = {r4, r5}
  Polls = {p1}
  Ids = {i1, i2}
  Numeric = {i1, i2}
  Options = {o1}
  None = None
  Null = Null
INVARIANTS
  LinksInv
PROPERTIES
  
  ImplementsLinkTable
\* requests are finitely many
CHECK_DEADLOCK FALSE

\* Two pages of one room, one of another, two messages to the first, a crash.
SPECIFICATION FairSpec
CONSTANTS
  c1 = c1  c2 = c2  c3 = c3  m1 = m1  m2 = m2  m3 = m3  r1 = r1  r2 = r2
  Clients = {c1, c2, c3}
  Posts = {m1, m2}
  Rooms = {r1, r2}
  room <- TwoRooms
  EarlyPosts = FALSE
  MaxCrashes = 1
INVARIANTS
  RoomsInv
  SavedIsInItsRoom
PROPERTIES
  ViewsGrow
  ImplementsConversation
  EveryoneSeesEverything
\* the messages are finitely many
CHECK_DEADLOCK FALSE

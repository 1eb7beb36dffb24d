\* A page, its session and the ones after a lost answer and a reconnection; responses of two pieces.
SPECIFICATION FairSpec
CONSTANTS
  MaxSessions = 3
  MaxReconnects = 1
  MaxEvents = 3
  MaxResponse = 2
  MaxFaults = 1
INVARIANTS
  PollInv
  ShellGetsItsKeys
  
  OutputIsWhole
PROPERTIES
  OutputArrives
\* every session ends and the user reconnects finitely often
CHECK_DEADLOCK FALSE

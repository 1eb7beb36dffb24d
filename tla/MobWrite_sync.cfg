\* Two pages of one file, an edit that both may delete, three syncs and two, one fault.
SPECIFICATION Spec
CONSTANTS
  c1 = c1  c2 = c2  e1 = e1
  Clients = {c1, c2}
  Edits = {e1}
  author <- Authors
  MaxSyncs <- ThreeAndTwo
  MaxFaults = 1
INVARIANTS
  
  ShadowsInv
  TypedStaysOnce
  ClosingSendsTheRest
PROPERTIES
  ImplementsSharedText
\* the syncs are finitely many
CHECK_DEADLOCK FALSE

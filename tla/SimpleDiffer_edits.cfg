\* Four edits, of at most two characters each, to a text of up to two.
SPECIFICATION Spec
CONSTANTS
  Lengths <- UpToTwo
  MaxEdits = 4
  MaxInsert = 2
INVARIANTS
  DiffInv
  EditorHasTheText
\* a patch ends
CHECK_DEADLOCK FALSE

\* Two sessions with the project open, a folder in a folder, three inputs.
SPECIFICATION Spec
CONSTANTS
  l1 = l1  l2 = l2  a = a
  Lists = {l1, l2}
  Names = {a}
  MaxDepth = 3
  FirstDirs <- Nested
  FirstFiles <- OneFile
  None = None
  MaxInputs = 3
SYMMETRY EitherList
INVARIANTS
  TreeInv
  ListsAreFresh
  
  IdsDiffer
\* the inputs are finitely many
CHECK_DEADLOCK FALSE

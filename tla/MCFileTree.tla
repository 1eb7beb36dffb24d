----------------------------- MODULE MCFileTree -----------------------------
(* An instance of FileTree for TLC: a folder in a folder. *)
EXTENDS FileTree, TLC

CONSTANTS l1, l2, a

Nested == {Root, <<a>>, <<a, a>>}
OneFile == {<<a, a, a>>}
EitherList == Permutations(Lists)
=============================================================================

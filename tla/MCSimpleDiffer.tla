--------------------------- MODULE MCSimpleDiffer ---------------------------
(* An instance of SimpleDiffer for TLC: old texts of up to two characters. *)
EXTENDS SimpleDiffer

UpToTwo == 0..2
=============================================================================

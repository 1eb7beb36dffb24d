----------------------------- MODULE MCMobWrite -----------------------------
(* An instance of MobWrite for TLC: two pages, an edit of the first. *)
EXTENDS MobWrite

CONSTANTS c1, c2, e1

Authors == [e \in Edits |-> c1]
ThreeAndTwo == [c \in Clients |-> IF c = c1 THEN 3 ELSE 2]
=============================================================================

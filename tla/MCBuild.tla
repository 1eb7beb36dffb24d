------------------------------ MODULE MCBuild ------------------------------
(* Instances of Build for TLC: who owns which build, of which project. *)
EXTENDS BuildInv

CONSTANTS b1, b2, b3, u1, u2, p1

OneUser == [b \in Builds |-> u1]
TwoUsers == [b \in Builds |-> IF b = b3 THEN u2 ELSE u1]
OneProject == [b \in Builds |-> p1]
=============================================================================

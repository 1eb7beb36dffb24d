----------------------------- MODULE MCRegistry -----------------------------
(* Instances of Registry for TLC. *)
EXTENDS Registry
CONSTANTS r1, r2, r3, r4, r5, p1, p2, i1, i2, o1, o2
=============================================================================

----------------------------- MODULE MCPresence -----------------------------
(* Instances of Presence for TLC: one user with two sessions, one with one. *)
EXTENDS Presence

CONSTANTS s1, s2, s3, u1, u2, p1, p2

TwoSessions == [s \in Sessions |-> IF s = s3 THEN u2 ELSE u1]
=============================================================================

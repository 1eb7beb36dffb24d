------------------------------- MODULE MCChat -------------------------------
(* Instances of Chat for TLC: two pages and two messages share a room, a    *)
(* third page and message have another.                                     *)
EXTENDS Chat

CONSTANTS c1, c2, c3, m1, m2, m3, r1, r2

TwoRooms == [x \in Clients \cup Posts |-> IF x \in {c3, m3} THEN r2 ELSE r1]
=============================================================================

----------------------------- MODULE SharedText -----------------------------
(***************************************************************************)
(* What the editors of one file promise each other, without messages: an   *)
(* edit is typed in one text, comes to the shared text and from there to   *)
(* the others, and so does its deletion; what was deleted does not return. *)
(* For each text an edit is 0 (never there), 1 (there) or 2 (there once,   *)
(* and deleted), and these values only grow.  MobWrite implements this.    *)
(***************************************************************************)
EXTENDS Integers

CONSTANTS Clients, Edits

VARIABLES
  shared,  \* [Edits -> 0..2], the text all come to agree on
  texts    \* [Clients -> [Edits -> 0..2]]

Values == [Edits -> 0..2]
Higher(a, b) == IF a < b THEN b ELSE a

TypeOK == shared \in Values /\ texts \in [Clients -> Values]

Init ==
  /\ shared = [e \in Edits |-> 0]
  /\ texts = [c \in Clients |-> [e \in Edits |-> 0]]

(* A new edit in one text. *)
Type(c, e) ==
  /\ shared[e] = 0 /\ \A d \in Clients : texts[d][e] = 0
  /\ texts' = [texts EXCEPT ![c][e] = 1]
  /\ UNCHANGED shared

(* A user deletes what the text has. *)
Delete(c, e) ==
  /\ texts[c][e] = 1
  /\ texts' = [texts EXCEPT ![c][e] = 2]
  /\ UNCHANGED shared

Between(low, v, high) == \A e \in Edits : low[e] <= v[e] /\ v[e] <= high[e]
Joined(v, w) == [e \in Edits |-> Higher(v[e], w[e])]

(* Some of what one text has comes to the shared text. *)
Publish(c) ==
  /\ shared' \in Values /\ Between(shared, shared', Joined(shared, texts[c]))
  /\ UNCHANGED texts

(* Some of the shared text comes to one text. *)
Learn(c) ==
  /\ texts'[c] \in Values /\ Between(texts[c], texts'[c], Joined(shared, texts[c]))
  /\ texts' = [texts EXCEPT ![c] = texts'[c]]
  /\ UNCHANGED shared

Next ==
  \E c \in Clients :
    \/ \E e \in Edits : Type(c, e) \/ Delete(c, e)
    \/ Publish(c) \/ Learn(c)

Spec == Init /\ [][Next]_<<shared, texts>>
=============================================================================

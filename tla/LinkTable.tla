----------------------------- MODULE LinkTable -----------------------------
(***************************************************************************)
(* What the clients of the registry may rely on, without its lists, locked *)
(* steps and scheduler: an id has one link or none; a request writes one   *)
(* link of its own or removes one, and is then answered with it; a poll    *)
(* that waits is answered with the first link written or removed since, or *)
(* with Null.  Registry implements this.                                   *)
(***************************************************************************)
EXTENDS Integers

CONSTANTS
  Ids, Links,       \* a link l has l.id and l.by, the request that wrote it
  Writers, Polls,   \* requests
  None, Null

VARIABLES
  table,    \* [Ids -> link or None]
  waiting,  \* polls
  first,    \* [Polls -> link or None], the first change of those that waited
  answer    \* [Writers and Polls -> link, None or Null]

Init ==
  /\ table = [i \in Ids |-> None] /\ waiting = {}
  /\ first = [p \in Polls |-> None] /\ answer = [r \in Writers \cup Polls |-> None]

(* The polls that wait are waiting no longer. *)
Tell(l) ==
  /\ first' = [p \in Polls |-> IF p \in waiting THEN l ELSE first[p]]
  /\ waiting' = {}

(* A request writes once, under its own name. *)
Write(l) ==
  /\ l.by \in Writers /\ answer[l.by] = None
  /\ table' = [table EXCEPT ![l.id] = l]
  /\ answer' = [answer EXCEPT ![l.by] = l]
  /\ Tell(l)

Remove(r, i) ==
  /\ table[i] # None /\ answer[r] = None
  /\ table' = [table EXCEPT ![i] = None]
  /\ answer' = [answer EXCEPT ![r] = table[i]]
  /\ Tell(table[i])

Wait(p) ==
  /\ p \notin waiting /\ first[p] = None
  /\ waiting' = waiting \cup {p}
  /\ UNCHANGED <<table, first, answer>>

AnswerPoll(p) ==
  /\ answer[p] = None
  /\ \E a \in {Null, first[p]} \ {None} : answer' = [answer EXCEPT ![p] = a]
  /\ UNCHANGED <<table, waiting, first>>

Next ==
  \/ \E l \in Links : Write(l)
  \/ \E r \in Writers, i \in Ids : Remove(r, i)
  \/ \E p \in Polls : Wait(p) \/ AnswerPoll(p)

Spec == Init /\ [][Next]_<<table, waiting, first, answer>>
=============================================================================

---------------------------- MODULE Conversation ----------------------------
(***************************************************************************)
(* What the chat of a file promises, without actors, updates or buffers:   *)
(* in each room there is one conversation, a message is said in it once,   *)
(* at its end, and each page has seen a beginning of it, of which it never *)
(* takes anything back.  Messages that are kept outlast the pages: when    *)
(* all of them are gone the conversation may begin anew with just these,   *)
(* in some order.  Chat implements this.                                   *)
(***************************************************************************)
EXTENDS Integers, Sequences, SequencesExt

CONSTANTS Clients, Posts, Rooms, room

VARIABLES
  said,  \* [Rooms -> messages]
  kept,  \* a set of messages
  seen   \* [Clients -> messages]

Init ==
  /\ said = [r \in Rooms |-> <<>>] /\ kept = {}
  /\ seen = [c \in Clients |-> <<>>]

Say(p) ==
  /\ p \notin ToSet(said[room[p]])
  /\ said' = [said EXCEPT ![room[p]] = Append(@, p)]
  /\ UNCHANGED <<kept, seen>>

Keep(p) ==
  /\ kept' = kept \cup {p}
  /\ UNCHANGED <<said, seen>>

(* A page catches up, not necessarily with all that is said. *)
See(c) ==
  /\ IsPrefix(seen[c], seen'[c]) /\ IsPrefix(seen'[c], said[room[c]])
  /\ seen' = [seen EXCEPT ![c] = seen'[c]]
  /\ UNCHANGED <<said, kept>>

Once(q) == \A i, j \in 1..Len(q) : q[i] = q[j] => i = j

Reopen ==
  /\ seen' = [c \in Clients |-> <<>>]
  /\ \A r \in Rooms : Once(said'[r]) /\ ToSet(said'[r]) = {p \in kept : room[p] = r}
  /\ UNCHANGED kept

Next ==
  \/ \E p \in Posts : Say(p) \/ Keep(p)
  \/ \E c \in Clients : See(c)
  \/ Reopen

Spec == Init /\ [][Next]_<<said, kept, seen>>
=============================================================================

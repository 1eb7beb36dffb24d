------------------------------ MODULE Presence ------------------------------
(***************************************************************************)
(* Who is working on a project: comet/UserInProjectDispatcher.scala (one   *)
(* actor with a map from projects to sets of users), the actors            *)
(* comet/EnterProjectNotifier.scala (one per session and project, they     *)
(* send 'Enter when they are made and 'Leave when the session drops them)  *)
(* and comet/InProjectViewer.scala (one per session, it shows the users of *)
(* the project whose page was opened first).                               *)
(*                                                                         *)
(* The update that the dispatcher sends is the map itself, mutable and     *)
(* shared: a viewer shows what the map holds when it renders, or anything  *)
(* in between if that is while the dispatcher changes it.                  *)
(***************************************************************************)
EXTENDS Integers, Sequences

CONSTANTS
  Sessions, Users, Projects,
  user,      \* [Sessions -> Users]
  None,      \* no project, no message
  MaxOpens   \* bound: pages opened

ASSUME UserAssumption == user \in [Sessions -> Users]
ASSUME BoundsAssumption == MaxOpens \in Nat
ASSUME NoneAssumption == None \notin Projects

Keys == Sessions \X Projects
Enters == [op : {"Enter"}, project : Projects, user : Users]
Leaves == [op : {"Leave"}, project : Projects, user : Users]
Adds == [op : {"Add"}, session : Sessions]
Messages == Enters \cup Leaves \cup Adds

VARIABLES
  opens,        \* pages opened
  live,         \* the notifiers in a session's table of comet actors
  leaving,      \* notifiers out of the table that have not sent 'Leave yet
  mailbox,      \* of the dispatcher
  userProject,  \* [Projects -> users]; a project that is not in the map has none
  listeners,
  project,      \* InProjectViewer.project of each session
  updates,      \* updates on their way to each viewer; all of them are the map
  shown,        \* the users on the page
  overlapped    \* history: (user, project) with a notifier made before an earlier one left

sessions == <<opens, live, leaving, overlapped>>
dispatcher == <<userProject, listeners>>
viewers == <<project, updates, shown>>
vars == <<sessions, mailbox, dispatcher, viewers>>

TypeOK ==
  /\ opens \in 0..MaxOpens
  /\ live \subseteq Keys /\ leaving \in [Keys -> Nat]
  /\ overlapped \subseteq Users \X Projects
  /\ mailbox \in Seq(Messages)
  /\ userProject \in [Projects -> SUBSET Users]
  /\ listeners \subseteq Sessions
  /\ project \in [Sessions -> Projects \cup {None}]
  /\ updates \in [Sessions -> Nat] /\ shown \in [Sessions -> SUBSET Users]

Init ==
  /\ opens = 0 /\ live = {} /\ leaving = [k \in Keys |-> 0] /\ overlapped = {}
  /\ mailbox = <<>> /\ userProject = [p \in Projects |-> {}]
  /\ listeners = {} /\ project = [s \in Sessions |-> None]
  /\ updates = [s \in Sessions |-> 0] /\ shown = [s \in Sessions |-> {}]

-----------------------------------------------------------------------------
(* Sessions. *)

EnterOf(u, p) == [op |-> "Enter", project |-> p, user |-> u]
LeaveOf(u, p) == [op |-> "Leave", project |-> p, user |-> u]
AddOf(s) == [op |-> "Add", session |-> s]
Queued(m) == \E k \in 1..Len(mailbox) : mailbox[k] = m

(* Does user u still have a notifier for project p? *)
Held(u, p) == \E s \in Sessions : user[s] = u /\ (<<s, p>> \in live \/ leaving[<<s, p>>] > 0)

(* A page of project p.  The session has its viewer from the first page on; *)
(* a notifier is made, and sends 'Enter, unless the session has one.        *)
OpenPage(s, p) ==
  /\ opens < MaxOpens /\ opens' = opens + 1
  /\ project' = [project EXCEPT ![s] = IF @ = None THEN p ELSE @]
  /\ \/ <<s, p>> \in live /\ UNCHANGED <<live, mailbox, overlapped>>
     \/ /\ <<s, p>> \notin live
        /\ live' = live \cup {<<s, p>>}
        /\ mailbox' = Append(mailbox, EnterOf(user[s], p))
        /\ overlapped' = overlapped \cup (IF Held(user[s], p) THEN {<<user[s], p>>} ELSE {})
  /\ UNCHANGED <<leaving, dispatcher, updates, shown>>

(* No page of the project was seen for five minutes, or the session ended: *)
(* the session takes the notifier out of its table,                        *)
ShutDown(s, p) ==
  /\ <<s, p>> \in live
  /\ live' = live \ {<<s, p>>}
  /\ leaving' = [leaving EXCEPT ![<<s, p>>] = @ + 1]
  /\ UNCHANGED <<opens, overlapped, mailbox, dispatcher, viewers>>

(* Mutant: only super.localShutdown(). *)
LeaveSilently(s, p) ==
  /\ leaving[<<s, p>>] > 0
  /\ leaving' = [leaving EXCEPT ![<<s, p>>] = @ - 1]
  /\ UNCHANGED <<opens, live, overlapped, mailbox, dispatcher, viewers>>

(* Mutant: the session is named where the user should be. *)
LeaveBySession(s, p) ==
  /\ leaving[<<s, p>>] > 0
  /\ leaving' = [leaving EXCEPT ![<<s, p>>] = @ - 1]
  /\ mailbox' = Append(mailbox, LeaveOf(s, p))
  /\ UNCHANGED <<opens, live, overlapped, dispatcher, viewers>>

(* and localShutdown sends 'Leave. *)
Leave(s, p) ==
  /\ leaving[<<s, p>>] > 0
  /\ leaving' = [leaving EXCEPT ![<<s, p>>] = @ - 1]
  /\ mailbox' = Append(mailbox, LeaveOf(user[s], p))
  /\ UNCHANGED <<opens, live, overlapped, dispatcher, viewers>>

(* The viewer sets itself up: registerWith UserInProjectDispatcher. *)
Register(s) ==
  /\ project[s] # None /\ s \notin listeners /\ ~Queued(AddOf(s))
  /\ mailbox' = Append(mailbox, AddOf(s))
  /\ UNCHANGED <<sessions, dispatcher, viewers>>

-----------------------------------------------------------------------------
(* UserInProjectDispatcher. *)

(* Mutant: the project's set is made anew. *)
AddAlone(p, u) == [userProject EXCEPT ![p] = {u}]

Add(p, u) == [userProject EXCEPT ![p] = @ \cup {u}]
Remove(p, u) == [userProject EXCEPT ![p] = @ \ {u}]

(* updateListeners() *)
UpdateListeners ==
  updates' = [s \in Sessions |-> IF s \in listeners THEN updates[s] + 1 ELSE updates[s]]

(* Mutant: no updateListeners() after remove. *)
HandleQuietly ==
  LET m == Head(mailbox) IN
  /\ mailbox # <<>> /\ mailbox' = Tail(mailbox)
  /\ \/ /\ m.op = "Enter" /\ userProject' = Add(m.project, m.user)
        /\ UpdateListeners /\ UNCHANGED listeners
     \/ /\ m.op = "Leave" /\ userProject' = Remove(m.project, m.user)
        /\ UNCHANGED <<listeners, updates>>
     \/ /\ m.op = "Add" /\ listeners' = listeners \cup {m.session}
        /\ updates' = [updates EXCEPT ![m.session] = @ + 1]
        /\ UNCHANGED userProject
  /\ UNCHANGED <<sessions, project, shown>>

(* lowPriority, and the ListenerManager's answer to a new listener. *)
Handle ==
  LET m == Head(mailbox) IN
  /\ mailbox # <<>> /\ mailbox' = Tail(mailbox)
  /\ \/ /\ m.op = "Enter" /\ userProject' = Add(m.project, m.user)
        /\ UpdateListeners /\ UNCHANGED listeners
     \/ /\ m.op = "Leave" /\ userProject' = Remove(m.project, m.user)
        /\ UpdateListeners /\ UNCHANGED listeners
     \/ /\ m.op = "Add" /\ listeners' = listeners \cup {m.session}
        /\ updates' = [updates EXCEPT ![m.session] = @ + 1]
        /\ UNCHANGED userProject
  /\ UNCHANGED <<sessions, project, shown>>

(* What a viewer can show for its project: the set; or, while the dispatcher *)
(* works on a message that changes it, any part of what it was and becomes;  *)
(* or, while the map grows by another project and is rehashed, nothing, or   *)
(* what it shows already (contains, then get finds None: render throws).     *)
Visible(s) ==
  LET p == project[s]
      m == Head(mailbox) IN
  IF mailbox = <<>> \/ m.op = "Add" THEN {userProject[p]}
  ELSE IF m.project = p THEN SUBSET (userProject[p] \cup {m.user})
  ELSE IF m.op = "Enter" /\ userProject[m.project] = {} THEN {userProject[p], {}, shown[s]}
  ELSE {userProject[p]}

(* Mutant: userProject = list, and no reRender. *)
KeepUpdate(s) ==
  /\ updates[s] > 0
  /\ updates' = [updates EXCEPT ![s] = @ - 1]
  /\ UNCHANGED <<sessions, mailbox, dispatcher, project, shown>>

(* InProjectViewer.lowPriority: userProject = list; reRender(). *)
ReRender(s) ==
  /\ updates[s] > 0
  /\ updates' = [updates EXCEPT ![s] = @ - 1]
  /\ \E seen \in Visible(s) : shown' = [shown EXCEPT ![s] = seen]
  /\ UNCHANGED <<sessions, mailbox, dispatcher, project>>

Next == \/ \E s \in Sessions, p \in Projects : OpenPage(s, p) \/ ShutDown(s, p) \/ Leave(s, p)
        \/ \E s \in Sessions : Register(s) \/ ReRender(s)
        \/ Handle

Spec == Init /\ [][Next]_vars

(* Actors run; nobody need open a page, and a page may stay open for ever. *)
FairSpec == /\ Spec /\ WF_vars(Handle)
            /\ \A s \in Sessions : WF_vars(Register(s)) /\ WF_vars(ReRender(s))
            /\ \A k \in Keys : WF_vars(Leave(k[1], k[2]))

-----------------------------------------------------------------------------
(* Nobody stays listed who has left for good: who is listed in a project    *)
(* has a notifier there, or its 'Leave is on its way, however the messages  *)
(* of several sessions of one user are mixed.                               *)
NoGhosts ==
  \A p \in Projects : \A u \in userProject[p] : Held(u, p) \/ Queued(LeaveOf(u, p))

(* Who has a page of a project open is listed there or will be by a message *)
(* on its way, unless another notifier of the same user and project was     *)
(* still about when it entered: the 'Leave of that one removes the user.    *)
MissingAfterOverlapOnly ==
  \A s \in Sessions, p \in Projects :
    <<s, p>> \in live => \/ user[s] \in userProject[p]
                         \/ <<user[s], p>> \in overlapped
                         \/ Queued(EnterOf(user[s], p))

(* When the dispatcher and a viewer have nothing more to do, the page shows *)
(* the users of the viewer's project, although the map it rendered from was *)
(* shared with, and changed by, another thread.                             *)
ViewsConverge ==
  \A s \in listeners :
    mailbox = <<>> /\ updates[s] = 0 => shown[s] = userProject[project[s]]

(* Liveness: again and again, and for good once nobody opens or leaves      *)
(* pages, each viewer shows each user with a page of its project open,      *)
(* but for those whose notifiers overlapped.                                *)
EveryoneIsSeen ==
  []<>(\A k \in live, s \in Sessions :
         project[s] = k[2] => \/ user[k[1]] \in shown[s]
                              \/ <<user[k[1]], k[2]>> \in overlapped)

-----------------------------------------------------------------------------
(* What makes these inductive.  Behind an 'Enter waits the 'Leave of its    *)
(* notifier, if that is not still to be sent;                               *)
GhostInv ==
  /\ NoGhosts
  /\ \A u \in Users, p \in Projects : \A k \in 1..Len(mailbox) :
       mailbox[k] = EnterOf(u, p) =>
         Held(u, p) \/ \E n \in (k + 1)..Len(mailbox) : mailbox[n] = LeaveOf(u, p)

(* without overlap a user has one notifier at most, and behind a 'Leave of  *)
(* its predecessor waits the 'Enter of the one that lives;                  *)
OverlapInv ==
  /\ MissingAfterOverlapOnly
  /\ \A s, t \in Sessions, p \in Projects :
       <<s, p>> \in live /\ user[s] = user[t] /\ <<user[s], p>> \notin overlapped =>
         leaving[<<t, p>>] = 0 /\ (<<t, p>> \in live => s = t)
  /\ \A s \in Sessions, p \in Projects :
       <<s, p>> \in live /\ <<user[s], p>> \notin overlapped =>
         \A k \in 1..Len(mailbox) : mailbox[k] = LeaveOf(user[s], p) =>
           \E n \in (k + 1)..Len(mailbox) : mailbox[n] = EnterOf(user[s], p)

(* a page without an update on its way is right, or the dispatcher is at    *)
(* work on a message that will send one.                                    *)
ViewInv ==
  /\ ViewsConverge
  /\ \A s \in listeners :
       updates[s] = 0 => \/ shown[s] = userProject[project[s]]
                         \/ (mailbox # <<>> /\ Head(mailbox).op # "Add")

(* Only a viewer with a project registers.                                  *)
RegisterInv ==
  \A s \in Sessions :
    s \in listeners \/ Queued(AddOf(s)) \/ updates[s] > 0 => project[s] # None

IInv == TypeOK /\ RegisterInv /\ GhostInv /\ OverlapInv /\ ViewInv
=============================================================================

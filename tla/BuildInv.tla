------------------------------ MODULE BuildInv ------------------------------
(***************************************************************************)
(* The inductive invariant behind the safety properties of Build.  What a  *)
(* serial user relies on is that its one unfinished build owns box,        *)
(* archive and link until Messager has destroyed them; the rest says where *)
(* a notification can be, and that nothing is left unpacked.               *)
(***************************************************************************)
EXTENDS Build

(* A request is counted among the builds only by Put, after its zip. *)
RequestInv ==
  \A b \in Builds :
    /\ req[b] \in {"idle", "zipping", "putting"} => runner[b] = "none"
    /\ req[b] = "putting" \/ runner[b] # "none" => zipped[project[b]] # None

(* Messager works on one notification, and has its log once it is loaded. *)
CurrentInv ==
  /\ pc \in MessagerSteps \cup {"dead"} => cur \in Builds
  /\ HasLog => log \in Logs

(* Without a server no RunCompiler is alive. *)
ServerInv == ~up => \A b \in Builds : ~Active(b)

(* A notification is in the mailbox or being handled, never twice, and its  *)
(* sender waits for it (or was killed meanwhile).                           *)
Notified(b) == runner[b] = "awaiting" \/ (runner[b] = "dead" /\ owner[b] \notin serial)
Unanswered == pc \in {"fetching", "loading", "deleting", "replying"}
NotificationInv ==
  /\ \A i \in 1..Len(mailbox) : Notified(mailbox[i])
  /\ \A i, j \in 1..Len(mailbox) : mailbox[i] = mailbox[j] => i = j
  /\ Unanswered => Notified(cur) /\ \A i \in 1..Len(mailbox) : mailbox[i] # cur

(* What lies in compiled_projects belongs to the notification at hand. *)
UnpackedInv ==
  \A u \in Users :
    pc # "dead" /\ ~(HasLog /\ owner[cur] = u) => extracted[u] = {}

Busy(b) == runner[b] \notin {"none", "done"}
Clean(u) == box[u] = NoBox /\ archive[u] = {}
Destroyed(b) == pc = "replying" /\ cur = b
BoxSteps == {"copying", "listing", "reading", "executing", "parsing", "archiving",
             "notifying", "awaiting"}

(* The unfinished build of a serial user is the only one; when there is     *)
(* none, nothing is left; and while there is one, it alone fills the box    *)
(* and the archive that are keyed by the user.                              *)
Alone(u) ==
  \A b, c \in Builds : owner[b] = u /\ owner[c] = u /\ Busy(b) /\ Busy(c) => b = c
Over(u) ==
  (\A b \in Builds : owner[b] = u => ~Busy(b)) => Clean(u) /\ links[u] = None
Owns(b) ==
  LET u == owner[b] IN
  /\ runner[b] # "stuck"
  /\ runner[b] = "boxing" \/ Destroyed(b) => Clean(u)
  /\ Destroyed(b) => links[u] = None
  /\ runner[b] \in RunnerSteps /\ ~Destroyed(b) => links[u] = b
  /\ runner[b] \in BoxSteps /\ ~Destroyed(b) => box[u].dir
  /\ runner[b] = "copying" => box[u].src = {}
  /\ runner[b] = "reading" => box[u].made
  /\ runner[b] = "archiving" => box[u].xml # {}
  /\ runner[b] \in {"notifying", "awaiting"} /\ ~Destroyed(b) => archive[u] # {}
  /\ \A r \in box[u].raw : r.by = b
  /\ \A l \in box[u].xml \cup archive[u] : l.by = b
  /\ runner[b] = "dead" => \E r \in box[u].raw : r.by = b /\ r.out = "malformed"
SerialInv ==
  \A u \in serial :
    Alone(u) /\ Over(u) /\ \A b \in Builds : owner[b] = u /\ Busy(b) => Owns(b)

(* Messager has the archive, then the log, of the build it works for. *)
MessagerInv ==
  /\ pc = "loading" /\ owner[cur] \in serial =>
       fetched[owner[cur]] # {} /\ \A l \in fetched[owner[cur]] : l.by = cur
  /\ SerialLogIsOwn
  /\ MessagerSurvivesSerial

TInv == TypeOK /\ RequestInv /\ CurrentInv
OwnInv == ServerInv /\ NotificationInv /\ UnpackedInv /\ SerialInv /\ MessagerInv
IInv == TInv /\ OwnInv

-----------------------------------------------------------------------------
(* What is in the files of a build: the sources it was asked for, in a      *)
(* version no older than the request, and the verdict of its own scalac.    *)
Wanted(b, S) == \A s \in S : s[1] = project[b] /\ s[2] >= asked[b]
Tells(b, l) ==
  Wanted(b, l.srcs) /\ (b \notin Rejected => (l.verdict = "success" <=> exit[b] = "ok"))

(* Versions only grow, from the edit to the archive of the project. *)
VersionInv ==
  /\ \A p \in Projects : zipped[p] # None => zipped[p] <= edits[p]
  /\ \A b \in Builds :
       /\ asked[b] <= edits[project[b]]
       /\ req[b] = "putting" \/ runner[b] # "none" => zipped[project[b]] >= asked[b]
       /\ runner[b] = "none" => files[b] = {}

BeforeScalac == {"boxing", "copying", "listing", "reading", "executing"}
Content(b) ==
  LET u == owner[b] IN
  /\ Wanted(b, box[u].src \cup box[u].list \cup files[b])
  /\ \A r \in box[u].raw :
       /\ Wanted(b, r.srcs)
       /\ b \notin Rejected /\ r.out # "malformed" => (r.out = "clean" <=> exit[b] = "ok")
  /\ runner[b] \in BeforeScalac => box[u].raw = {} /\ box[u].xml \cup archive[u] = {}
  /\ b \notin Rejected /\ runner[b] = "parsing" => box[u].raw # {}
  /\ \A l \in box[u].xml \cup archive[u] : Tells(b, l)

BoxesInv == \A b \in Builds : owner[b] \in serial /\ Busy(b) => Content(b)
PickedInv ==
  /\ pc = "loading" /\ owner[cur] \in serial => \A l \in fetched[owner[cur]] : Tells(cur, l)
  /\ pc \in {"forwarding", "cleaning"} /\ owner[cur] \in serial => runner[cur] = "done"
  /\ HandlesSerial => Tells(cur, log)
CInv == VersionInv /\ BoxesInv /\ PickedInv

-----------------------------------------------------------------------------
(* Where a log can still come from: each build that was put gives one log   *)
(* at most, and each request that was answered has used one up.             *)
Compiling(b) == runner[b] \in (RunnerSteps \ {"awaiting"}) \cup {"stuck"}
Handling == pc \in {"fetching", "loading", "deleting", "replying", "forwarding"}
Started == {b \in Builds : req[b] # "idle"}
PutBuilds == {b \in Builds : runner[b] # "none"}
CompilingBuilds == {b \in Builds : Compiling(b)}
Reached == {b \in Builds : inbox[b] # <<>> \/ myLog[b] # None}
InHand == IF Handling THEN 1 ELSE 0
Pending == Cardinality(CompilingBuilds) + Len(mailbox) + InHand + Len(wire)

StartedInv ==
  /\ IsFiniteSet(Started)
  /\ \A b \in Builds : b \in Reached \/ messager[b] # "none" => b \in Started
  /\ rest # None => messager[rest] # "none"
  /\ \A b \in Builds : req[b] = "replied" => b \in Reached
  /\ \A b \in PutBuilds : req[b] \in {"waiting", "replied"}
PendingInv == Pending + Cardinality(Reached) <= Cardinality(PutBuilds)
CountInv == StartedInv /\ PendingInv

(* What a lonely request finds under way is its own. *)
NothingOf(c) == ~Compiling(c) /\ (\A i \in 1..Len(mailbox) : mailbox[i] # c) /\ (Handling => cur # c)
OnlyOf(b) ==
  /\ \A c \in Builds \ {b} : NothingOf(c)
  /\ \A i \in 1..Len(wire) : wire[i].by = b
  /\ \A i \in 1..Len(inbox[b]) : inbox[b][i].by = b
  /\ myLog[b] # None => myLog[b].by = b
AnsweredInv == \A b \in Builds : reply[b] # None => req[b] = "replied"
LoneInv ==
  /\ AnsweredInv
  /\ \A b \in Open \ accompanied : Open = {b} /\ (owner[b] \in serial => OnlyOf(b))
  /\ LonelyAnswerIsOwn
=============================================================================

------------------------------ MODULE Registry ------------------------------
(***************************************************************************)
(* The registry of links on the compile server: the object                 *)
(* model/Compilable.scala (its list of links and its list of listeners)    *)
(* and the HTTP requests of lib/FullRest.scala that change it or wait for  *)
(* it to change.  Every method of Compilable takes the object's lock, but  *)
(* a request is more than one method: POST and DELETE find the link by the *)
(* pattern Compilable(link) in one locked step and change the registry in  *)
(* a second one, and a poll of /change schedules its timeout before it     *)
(* registers its listener.  Build.tla has the same PUT and DELETE for the  *)
(* editor, which is one of the clients; here any client may come.          *)
(***************************************************************************)
EXTENDS Integers, FiniteSets

CONSTANTS
  Puts, Posts, Deletes, Polls,  \* the requests, by what they ask
  Ids,       \* the ids of links
  Numeric,   \* those Integer.parseInt accepts
  Options,   \* compiler options
  None,      \* nothing yet
  Null       \* the JNull that answers a poll after 110 seconds

Writers == Puts \cup Posts \cup Deletes
Requests == Writers \cup Polls

(* A link, with the request that wrote it: every write makes a new object.  *)
(* The path is replaced as a whole like the id and is left out.             *)
Links == [id : Ids, options : SUBSET Options, by : Puts \cup Posts]

ASSUME KindsAssumption ==
  /\ Puts \cap Posts = {} /\ Puts \cap Deletes = {} /\ Posts \cap Deletes = {}
  /\ Polls \cap Writers = {}
ASSUME NumericAssumption == Numeric \subseteq Ids
ASSUME ValuesAssumption == None \notin Links /\ Null \notin Links /\ None # Null

VARIABLES
  links,      \* Compilable.links; the order of the list is never looked at
  listeners,  \* Compilable.listeners: the polls whose function is in the list
  tasks,      \* calls of listeners handed to Schedule, <<poll, link>>
  timers,     \* polls whose timeout is scheduled
  status, found,  \* the requests' threads, and the link that was found for them
  answer,     \* what each request was answered
  due         \* history: the first change since the poll registered

vars == <<links, listeners, tasks, timers, status, found, answer, due>>

TypeOK ==
  /\ links \subseteq Links
  /\ listeners \subseteq Polls /\ timers \subseteq Polls
  /\ tasks \subseteq Polls \X Links
  /\ status \in [Requests -> {"idle", "found", "timed", "done", "missing", "failed"}]
  /\ found \in [Writers -> Links \cup {None}]
  /\ answer \in [Requests -> Links \cup {None, Null}]
  /\ due \in [Polls -> Links \cup {None}]

Init ==
  /\ links = {} /\ listeners = {} /\ tasks = {} /\ timers = {}
  /\ status = [r \in Requests |-> "idle"] /\ found = [r \in Writers |-> None]
  /\ answer = [r \in Requests |-> None] /\ due = [p \in Polls |-> None]

-----------------------------------------------------------------------------
(* Locked steps of Compilable. *)

(* Mutant: listeners = Nil before the loop over them. *)
UpdateTooLate(l) ==
  /\ listeners' = {}
  /\ tasks' = tasks \cup (listeners' \X {l})

(* updateListeners: hand every listener's call to the scheduler, forget them. *)
UpdateListeners(l) ==
  /\ tasks' = tasks \cup (listeners \X {l})
  /\ listeners' = {}

(* History: link l was written or removed. *)
Changed(l) == due' = [p \in Polls |-> IF p \in listeners /\ due[p] = None THEN l ELSE due[p]]

(* Mutant: no updateListeners. *)
AddQuietly(l) ==
  /\ links' = {k \in links : k.id # l.id} \cup {l}
  /\ Changed(l) /\ UNCHANGED <<tasks, listeners>>

(* links = link :: links.filterNot(_.id == link.id), then updateListeners. *)
Add(l) ==
  /\ links' = {k \in links : k.id # l.id} \cup {l}
  /\ Changed(l) /\ UpdateListeners(l)

(* Mutant: the pattern binds the writer of the link. *)
FindWriter(r) ==
  \E i \in Ids, l \in links :
    /\ l.id = i
    /\ found' = [found EXCEPT ![r] = l.by]
    /\ status' = [status EXCEPT ![r] = "found"]
    /\ UNCHANGED <<links, listeners, tasks, timers, answer, due>>

(* find, from the pattern Compilable(link): the link, or no match and a 404. *)
Find(r) ==
  \E i \in Ids :
    LET hits == {l \in links : l.id = i} IN
    /\ IF hits = {} THEN /\ status' = [status EXCEPT ![r] = "missing"]
                         /\ UNCHANGED found
       ELSE \E l \in hits : /\ status' = [status EXCEPT ![r] = "found"]
                            /\ found' = [found EXCEPT ![r] = l]
    /\ UNCHANGED <<links, listeners, tasks, timers, answer, due>>

-----------------------------------------------------------------------------
(* The requests of FullRest. *)

Answered(r, a) ==
  /\ status' = [status EXCEPT ![r] = "done"]
  /\ answer' = [answer EXCEPT ![r] = a]

(* PUT: compile starts a RunCompiler and adds the link in one locked step. *)
Put(r) ==
  /\ status[r] = "idle"
  /\ \E i \in Ids, o \in SUBSET Options :
       LET l == [id |-> i, options |-> o, by |-> r] IN Add(l) /\ Answered(r, l)
  /\ UNCHANGED <<timers, found>>

FindForPost(r) == status[r] = "idle" /\ Find(r)

(* POST, second step: the body is merged into the link that was found.      *)
(* Fields replace fields, arrays are united; the body may name another id   *)
(* or keep it.  A body that does not extract to a link is a 404.            *)
Post(r) ==
  /\ status[r] = "found"
  /\ \/ /\ status' = [status EXCEPT ![r] = "failed"]
        /\ UNCHANGED <<links, listeners, tasks, answer, due>>
     \/ \E i \in Ids, o \in SUBSET Options :
          LET l == [id |-> i, options |-> found[r].options \cup o, by |-> r]
          IN Add(l) /\ Answered(r, l)
  /\ UNCHANGED <<timers, found>>

FindForDelete(r) == status[r] = "idle" /\ Find(r)

(* Mutant: the answer is the link that was found, whatever was removed. *)
DeleteFound(r) ==
  LET id == found[r].id
      hits == {l \in links : l.id = id} IN
  /\ status[r] = "found"
  /\ links' = links \ hits
  /\ Answered(r, found[r])
  /\ IF hits = {} THEN UNCHANGED <<due, tasks, listeners>>
     ELSE Changed(found[r]) /\ UpdateListeners(found[r])
  /\ UNCHANGED <<timers, found>>

(* DELETE, second step.  Every link with the id goes; only then the id is   *)
(* parsed, and one that is no number throws before the listeners are told.  *)
(* No link left to remove is a 404.                                         *)
Delete(r) ==
  LET id == found[r].id
      hits == {l \in links : l.id = id} IN
  /\ status[r] = "found"
  /\ links' = links \ hits
  /\ IF hits = {}
       THEN /\ status' = [status EXCEPT ![r] = IF id \in Numeric THEN "missing" ELSE "failed"]
            /\ UNCHANGED <<answer, listeners, tasks, due>>
       ELSE \E l \in hits :
              /\ Changed(l)
              /\ IF id \in Numeric
                   THEN Answered(r, l) /\ UpdateListeners(l)
                   ELSE /\ status' = [status EXCEPT ![r] = "failed"]
                        /\ UNCHANGED <<answer, listeners, tasks>>
  /\ UNCHANGED <<timers, found>>

(* GET /compiler/link/change: schedule the answer Null, *)
ScheduleNull(p) ==
  /\ status[p] = "idle"
  /\ status' = [status EXCEPT ![p] = "timed"]
  /\ timers' = timers \cup {p}
  /\ UNCHANGED <<links, listeners, tasks, found, answer, due>>

(* then onChange: register the listener.  The thread is free, the request   *)
(* stays open.                                                              *)
OnChange(p) ==
  /\ status[p] = "timed"
  /\ status' = [status EXCEPT ![p] = "done"]
  /\ listeners' = listeners \cup {p}
  /\ UNCHANGED <<links, tasks, timers, found, answer, due>>

(* satisfyRequest: the first call answers, later ones do nothing. *)
SatisfyRequest(p, a) ==
  answer' = IF answer[p] = None THEN [answer EXCEPT ![p] = a] ELSE answer

(* The scheduler runs a call; its pool keeps no order. *)
RunTask(t) ==
  /\ t \in tasks
  /\ tasks' = tasks \ {t}
  /\ SatisfyRequest(t[1], t[2])
  /\ UNCHANGED <<links, listeners, timers, status, found, due>>

TimeOut(p) ==
  /\ p \in timers
  /\ timers' = timers \ {p}
  /\ SatisfyRequest(p, Null)
  /\ UNCHANGED <<links, listeners, tasks, status, found, due>>

Next == \/ \E r \in Puts : Put(r)
        \/ \E r \in Posts : FindForPost(r) \/ Post(r)
        \/ \E r \in Deletes : FindForDelete(r) \/ Delete(r)
        \/ \E p \in Polls : ScheduleNull(p) \/ OnChange(p) \/ TimeOut(p)
        \/ \E t \in tasks : RunTask(t)

Spec == Init /\ [][Next]_vars

(* The scheduler runs what it was handed; nothing is assumed of clients, nor *)
(* of the timeouts, which may be later than any change.                      *)
FairSpec == Spec /\ WF_vars(\E t \in tasks : RunTask(t))

-----------------------------------------------------------------------------
(* No two links share an id, although a POST may rename the link it found   *)
(* to the id of another, and may write after the link was deleted.          *)
UniqueIds == \A k, l \in links : k.id = l.id => k = l

(* Two DELETEs that both found a link do not both report its removal, and   *)
(* what one of them has removed is not in the registry any more.            *)
DeletedOnce ==
  \A d \in Deletes : answer[d] # None =>
    /\ answer[d] \notin links
    /\ \A e \in Deletes \ {d} : answer[e] # answer[d]

(* One link for an id, and a removed one is removed once and for all.       *)
LinksInv == UniqueIds /\ DeletedOnce

(* A poll is answered with the first change after it registered, or with    *)
(* the timeout's Null: never with a later change, however the scheduler     *)
(* orders the calls.  Every id a number, no change is missed.  It is what   *)
(* ImplementsLinkTable says of polls, and no run checks it beside that.     *)
FirstChangeAnswers == \A p \in Polls : answer[p] \in {None, Null, due[p]}

(* Liveness: once something has changed, the poll that waited is answered,  *)
(* without the help of its timeout.                                         *)
ChangeAnswers == \A p \in Polls : (due[p] # None) ~> (answer[p] # None)

(* The link of each id; UniqueIds says that there is one at most.           *)
LinksOf(i) == {l \in links : l.id = i}
TableOf == [i \in Ids |-> IF LinksOf(i) = {} THEN None ELSE CHOOSE l \in LinksOf(i) : TRUE]

Table == INSTANCE LinkTable WITH table <- TableOf, waiting <- listeners, first <- due

(* All of it looks to clients like a table that changes one link at a time,  *)
(* with an answer to who changed it and to all who wait: the locked steps    *)
(* in which requests find, write and remove, and the calls that the          *)
(* scheduler has not run yet, are not to be seen (every id being a number).  *)
ImplementsLinkTable == Table!Spec

-----------------------------------------------------------------------------
(* What makes the invariants inductive.  A request writes once, so a link   *)
(* that was removed never comes back as the same link;                      *)
WriterInv ==
  /\ UniqueIds
  /\ \A l \in links : status[l.by] = "done"
  /\ \A r \in Writers : status[r] = "found" => found[r] \in Links
  /\ \A d \in Deletes : answer[d] # None =>
       /\ answer[d] \in Links /\ status[d] = "done"
       /\ status[answer[d].by] = "done"
  /\ DeletedOnce

(* a poll in the list has seen no change yet, and the call that waits in    *)
(* the scheduler carries its first one.                                     *)
PollInv ==
  /\ \A p \in listeners : due[p] = None /\ status[p] = "done"
  /\ \A p \in Polls : status[p] # "done" => due[p] = None
  /\ \A t \in tasks : t[2] = due[t[1]]
  /\ FirstChangeAnswers

IInv == TypeOK /\ WriterInv
=============================================================================

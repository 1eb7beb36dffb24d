------------------------------ MODULE MobWrite ------------------------------
(***************************************************************************)
(* The MobWrite client (static/mobwrite/static/mobwrite_core.js) of each   *)
(* page that has one file open, and the gateway that holds the shared text *)
(* (not in the repository; taken from what the client sends and expects).  *)
(*                                                                         *)
(* A client keeps a shadow: the text as it was when it last agreed with    *)
(* the server.  A sync sends the difference between shadow and editor as a *)
(* delta, numbered n, and keeps it on a stack until the server has it; the *)
(* answer has a delta, numbered m, from the server's shadow to the shared  *)
(* text.  A sync without an answer is given up and done again.  Answers    *)
(* come to syncCheckAjax_, if the gateway is a path, or, if it is a URL,   *)
(* from a script to callback (remote).                                     *)
(*                                                                         *)
(* A text is the number of times it has each edit; a delta is a difference *)
(* of such numbers with the length of the text it was made for.  A patch   *)
(* always finds its place.                                                 *)
(***************************************************************************)
EXTENDS Integers, Sequences, FiniteSets

CONSTANTS
  Clients, Edits,
  author,      \* [Edits -> Clients]
  MaxSyncs,    \* bound: syncs of each client
  MaxFaults    \* bound: requests and answers lost, refused or cut

ASSUME AuthorAssumption == author \in [Edits -> Clients]
ASSUME EditsAssumption == IsFiniteSet(Edits)
ASSUME BoundsAssumption == MaxSyncs \in [Clients -> Nat] /\ MaxFaults \in Nat

Texts == [Edits -> Nat]
Empty == [e \in Edits |-> 0]
Length(t) == Cardinality(UNION {{e} \X (1..t[e]) : e \in Edits})

(* diff_main and diff_toDelta, fromDelta and patch_apply *)
Diff(t, u) == [e \in Edits |-> u[e] - t[e]]

(* Mutant: a patch that finds no place is applied all the same. *)
PatchedAnyway(t, d) == [e \in Edits |-> t[e] + d[e]]

Patched(t, d) == [e \in Edits |-> IF t[e] + d[e] < 0 THEN 0 ELSE t[e] + d[e]]
Fits(m, t) == m.of = Length(t)

VARIABLES
  file,       \* the shareObj of each client
  remote,     \* syncGateway is a URL of another server, not a path
  shared,     \* it has been given to mobwrite.share
  timer,      \* syncRunPid_ is pending
  watchdog,   \* syncKillPid_ is pending
  airborne,   \* the request waited for (syncAjaxObj_); 0 if none
  closed,     \* the page is gone
  requests,   \* on their way from each client, in order
  answers,    \* on their way to the clients, in any order
  exists, master,  \* gateway: is there a shared text; the text
  viewOf,     \* gateway: what it knows of each client
  syncs, faults,
  typed, deleted,  \* history: edits typed, edits some user deleted
  early,      \* history: edits typed before their client's first sync
  had, hadMaster,  \* history: edits that were in a text, in the shared text
  late,       \* history: clients that acted on an answer they had given up
  unsent      \* history: closed while a sync was airborne, or with a request lost since

client == <<remote, file, shared, timer, watchdog, airborne, closed, syncs>>
gateway == <<exists, master, viewOf>>
network == <<requests, answers, faults>>
history == <<typed, deleted, early, had, hadMaster, late, unsent>>
vars == <<client, gateway, network, history>>

Files == [text : Texts, shadowText : Texts, clientVersion : Nat, serverVersion : Nat,
          deltaOk : BOOLEAN, editStack : Seq([kind : {"d", "r"}, v : Nat, of : Nat,
                                              body : [Edits -> Int]])]

TypeOK ==
  /\ file \in [Clients -> Files]
  /\ shared \subseteq Clients /\ timer \subseteq Clients /\ watchdog \subseteq Clients
  /\ closed \subseteq Clients /\ \A c \in Clients : airborne[c] \in 0..syncs[c] /\ syncs[c] \in 0..MaxSyncs[c]
  /\ remote \in BOOLEAN /\ faults \in 0..MaxFaults
  /\ exists \in BOOLEAN /\ master \in Texts
  /\ \A a \in answers : a.client \in Clients /\ a.id \in 1..MaxSyncs[a.client] /\ a.kind \in {"d", "R"}
  /\ typed \subseteq Edits /\ deleted \subseteq typed /\ early \subseteq typed
  /\ late \subseteq Clients /\ unsent \subseteq Clients

NewView == [shadow |-> Empty, cv |-> 0, sv |-> 0, backup |-> Empty, bsv |-> 0]

Init ==
  /\ file = [c \in Clients |->
               [text |-> Empty, shadowText |-> Empty, clientVersion |-> 0,
                serverVersion |-> 0, deltaOk |-> FALSE, editStack |-> <<>>]]
  /\ remote \in BOOLEAN
  /\ shared = {} /\ timer = {} /\ watchdog = {} /\ closed = {}
  /\ airborne = [c \in Clients |-> 0] /\ syncs = [c \in Clients |-> 0]
  /\ requests = [c \in Clients |-> <<>>] /\ answers = {} /\ faults = 0
  /\ exists = FALSE /\ master = Empty /\ viewOf = [c \in Clients |-> NewView]
  /\ typed = {} /\ deleted = {} /\ early = {}
  /\ had = [c \in Clients |-> {}] /\ hadMaster = {} /\ late = {} /\ unsent = {}

Here(t) == {e \in Edits : t[e] > 0}

-----------------------------------------------------------------------------
(* The page. *)

(* mobwrite.share, when the page has loaded: the first sync is scheduled. *)
Share(c) ==
  /\ c \notin shared \cup closed
  /\ shared' = shared \cup {c} /\ timer' = timer \cup {c}
  /\ UNCHANGED <<remote, file, watchdog, airborne, closed, syncs, gateway, network, history>>

Type(c, e) ==
  /\ c \notin closed /\ author[e] = c /\ e \notin typed
  /\ file' = [file EXCEPT ![c].text[e] = @ + 1]
  /\ typed' = typed \cup {e} /\ had' = [had EXCEPT ![c] = @ \cup {e}]
  /\ early' = early \cup (IF syncs[c] = 0 THEN {e} ELSE {})
  /\ UNCHANGED <<remote, shared, timer, watchdog, airborne, closed, syncs, gateway, network,
                 deleted, hadMaster, late, unsent>>

Delete(c, e) ==
  /\ c \notin closed /\ file[c].text[e] > 0
  /\ file' = [file EXCEPT ![c].text[e] = 0]
  /\ deleted' = deleted \cup {e}
  /\ UNCHANGED <<remote, shared, timer, watchdog, airborne, closed, syncs, gateway, network,
                 typed, early, had, hadMaster, late, unsent>>

-----------------------------------------------------------------------------
(* Sending. *)

DeltaOf(f) ==
  [kind |-> "d", v |-> f.clientVersion, of |-> Length(f.shadowText),
   body |-> Diff(f.shadowText, f.text)]

(* Mutant: the stack has the last edit only. *)
SyncTextLastOnly(f) ==
  IF f.deltaOk
  THEN IF f.text # f.shadowText \/ f.editStack = <<>>
       THEN [f EXCEPT !.shadowText = f.text, !.clientVersion = @ + 1,
                      !.editStack = <<DeltaOf(f)>>]
       ELSE f
  ELSE [f EXCEPT !.shadowText = f.text, !.clientVersion = @ + 1, !.deltaOk = TRUE,
          !.editStack = <<[kind |-> "r", v |-> f.clientVersion + 1, of |-> 0,
                           body |-> f.text]>>]

(* shareObj.syncText: a delta, or nothing if there is no change and the stack *)
(* has something to send again; the whole text if the last delta did not fit. *)
SyncText(f) ==
  IF f.deltaOk
  THEN IF f.text # f.shadowText \/ f.editStack = <<>>
       THEN [f EXCEPT !.shadowText = f.text, !.clientVersion = @ + 1,
                      !.editStack = Append(@, DeltaOf(f))]
       ELSE f
  ELSE [f EXCEPT !.shadowText = f.text, !.clientVersion = @ + 1, !.deltaOk = TRUE,
          !.editStack = Append(@, [kind |-> "r", v |-> f.clientVersion + 1, of |-> 0,
                                   body |-> f.text])]

(* The rest of syncRun1_: the watchdog is set and the request sent. *)
SendSync(c) ==
  LET f == SyncText(file[c]) IN
  /\ syncs[c] < MaxSyncs[c] /\ syncs' = [syncs EXCEPT ![c] = @ + 1]
  /\ file' = [file EXCEPT ![c] = f]
  /\ watchdog' = watchdog \cup {c}
  /\ airborne' = [airborne EXCEPT ![c] = syncs[c] + 1]
  /\ requests' = [requests EXCEPT ![c] =
                    Append(@, [id |-> syncs[c] + 1, m |-> f.serverVersion,
                               edits |-> f.editStack])]

SyncRun1(c) ==
  /\ c \in timer \ closed /\ timer' = timer \ {c}
  /\ SendSync(c)
  /\ UNCHANGED <<remote, shared, closed, gateway, answers, faults, history>>

(* An aborted request, and one of a page that is gone, has its answer for nobody; *)
(* a script cannot be aborted.                                                    *)
Abort(c) == answers' = {a \in answers : a.client # c \/ (remote /\ c \notin closed')}

(* Mutant: the watchdog does not start a new sync. *)
SyncKillOnly(c) ==
  /\ c \in watchdog \ closed /\ watchdog' = watchdog \ {c}
  /\ airborne' = [airborne EXCEPT ![c] = 0] /\ UNCHANGED closed /\ Abort(c)
  /\ UNCHANGED <<remote, file, shared, timer, syncs, gateway, requests, faults, history>>

(* syncKill_: the request is given up and a new one made at once. *)
SyncKill(c) ==
  /\ c \in watchdog \ closed /\ watchdog' = watchdog \ {c}
  /\ airborne' = [airborne EXCEPT ![c] = 0] /\ UNCHANGED closed /\ Abort(c)
  /\ timer' = timer \cup {c}
  /\ UNCHANGED <<remote, file, shared, syncs, gateway, requests, faults, history>>

(* Mutant: no last sync. *)
UnloadQuietly(c) ==
  /\ c \notin closed /\ closed' = closed \cup {c}
  /\ unsent' = unsent \cup (IF c \in watchdog \/ c \notin shared THEN {c} ELSE {})
  /\ Abort(c)
  /\ UNCHANGED <<remote, file, watchdog, airborne, syncs, requests, shared, timer, gateway, faults,
                 typed, deleted, early, had, hadMaster, late>>

(* unload_: a last sync, unless one is airborne. *)
Unload(c) ==
  /\ c \notin closed /\ closed' = closed \cup {c}
  /\ \/ /\ c \in shared \ watchdog /\ SendSync(c)
        /\ unsent' = unsent
     \/ /\ c \in watchdog \/ c \notin shared
        /\ unsent' = unsent \cup {c}
        /\ UNCHANGED <<file, watchdog, airborne, syncs, requests>>
  /\ Abort(c)
  /\ UNCHANGED <<remote, shared, timer, gateway, faults,
                 typed, deleted, early, had, hadMaster, late>>

-----------------------------------------------------------------------------
(* The gateway: it handles the requests of a client in the order they were *)
(* sent.                                                                   *)

(* An edit of a request that says it has seen the server's m: *)
Apply(m, s, e) ==
  LET new == Patched(s.shadow, e.body) IN
  CASE e.kind = "r" /\ e.v > s.cv ->
         [s EXCEPT !.shadow = e.body, !.backup = e.body, !.cv = e.v, !.sv = m, !.bsv = m,
                   !.ok = TRUE, !.text = IF s.exists THEN @ ELSE e.body, !.exists = TRUE]
    [] e.kind = "d" /\ (m # s.sv \/ e.v > s.cv) -> [s EXCEPT !.ok = FALSE]
    [] e.kind = "d" /\ m = s.sv /\ e.v = s.cv ->
         IF ~Fits(e, s.shadow) THEN [s EXCEPT !.ok = FALSE]
         ELSE [s EXCEPT !.shadow = new, !.backup = new, !.cv = @ + 1, !.bsv = s.sv,
                        !.text = Patched(@, e.body)]
    [] OTHER -> s                                \* seen before

(* All of them, in order. *)
ApplyAll(m, start, edits) ==
  LET after[n \in 0..Len(edits)] == IF n = 0 THEN start ELSE Apply(m, after[n-1], edits[n])
  IN after[Len(edits)]

(* The last answer did not arrive if the client has not seen its m. *)
RolledBack(m, view) ==
  IF m # view.sv /\ m = view.bsv THEN [view EXCEPT !.shadow = view.backup, !.sv = view.bsv]
  ELSE view

(* The answer: what is new in the shared text; all of it if a delta did not fit. *)
AnswerTo(c, r, s) ==
  IF s.ok
  THEN [client |-> c, id |-> r.id, cv |-> s.cv, kind |-> "d", v |-> s.sv,
        of |-> Length(s.shadow), body |-> Diff(s.shadow, s.text), had |-> {}]
  ELSE [client |-> c, id |-> r.id, cv |-> s.cv + 1, kind |-> "R", v |-> s.sv,
        of |-> 0, body |-> s.text, had |-> hadMaster']

(* syncCheckAjax_ is called for the request of syncAjaxObj_ only; callback is a *)
(* script's call, whichever request the script was for.                         *)
Awaited(a) == a.client \notin closed /\ (remote \/ airborne[a.client] = a.id)

Serve(c) ==
  LET r == Head(requests[c])
      v == RolledBack(r.m, viewOf[c])
      start == [shadow |-> v.shadow, cv |-> v.cv, sv |-> v.sv, backup |-> v.backup,
                bsv |-> v.bsv, ok |-> TRUE, text |-> master, exists |-> exists]
      s == ApplyAll(r.m, start, r.edits)
  IN /\ requests[c] # <<>> /\ requests' = [requests EXCEPT ![c] = Tail(@)]
     /\ master' = s.text /\ exists' = s.exists
     /\ hadMaster' = hadMaster \cup Here(s.text)
     /\ answers' = answers \cup {a \in {AnswerTo(c, r, s)} : Awaited(a)}
     /\ viewOf' = [viewOf EXCEPT ![c] =
          [shadow |-> s.text, backup |-> s.backup, bsv |-> s.bsv,
           cv |-> IF s.ok THEN s.cv ELSE s.cv + 1, sv |-> IF s.ok THEN s.sv + 1 ELSE s.sv]]
     /\ UNCHANGED <<client, faults, typed, deleted, early, had, late, unsent>>

-----------------------------------------------------------------------------
(* Faults of the network. *)

Fault == faults < MaxFaults /\ faults' = faults + 1

LoseRequest(c) ==
  /\ Fault /\ requests[c] # <<>>
  /\ requests' = [requests EXCEPT ![c] = Tail(@)]
  /\ unsent' = unsent \cup ({c} \cap closed)
  /\ UNCHANGED <<client, gateway, answers, typed, deleted, early, had, hadMaster, late>>

LoseAnswer(a) ==
  /\ Fault /\ answers' = answers \ {a}
  /\ UNCHANGED <<client, gateway, requests, history>>

-----------------------------------------------------------------------------
(* Receiving. *)

(* The edits of a stack that the server has not seen. *)
Unseen(edits, cv) ==
  LET unseen[n \in 0..Len(edits)] ==
        IF n = 0 THEN <<>>
        ELSE IF edits[n].v > cv THEN Append(unseen[n-1], edits[n]) ELSE unseen[n-1]
  IN unseen[Len(edits)]

(* Mutant: the stack is kept. *)
FileLineOnly(f, a) == [f EXCEPT !.deltaOk = TRUE]

(* The F line: what the server has seen leaves the stack. *)
FileLine(f, a) ==
  [f EXCEPT !.deltaOk = TRUE, !.editStack = Unseen(@, a.cv)]

(* The R line: the server could not use the delta and sends its text. *)
RawLine(f, a) ==
  [f EXCEPT !.shadowText = a.body, !.clientVersion = a.cv, !.serverVersion = a.v,
            !.editStack = <<>>, !.text = a.body]

(* Mutant: what was seen already is applied again. *)
DeltaLineAgain(f, a) ==
  IF a.cv # f.clientVersion \/ a.v > f.serverVersion THEN [f EXCEPT !.deltaOk = FALSE]
  ELSE [f EXCEPT !.serverVersion = @ + 1, !.shadowText = Patched(@, a.body),
                 !.text = Patched(@, a.body)]

(* Mutant: the shadow is not patched. *)
DeltaLineTextOnly(f, a) ==
  IF a.cv # f.clientVersion \/ a.v > f.serverVersion THEN [f EXCEPT !.deltaOk = FALSE]
  ELSE IF a.v < f.serverVersion THEN f
  ELSE IF ~Fits(a, f.shadowText) THEN [f EXCEPT !.deltaOk = FALSE]
  ELSE [f EXCEPT !.serverVersion = @ + 1, !.text = Patched(@, a.body)]

(* The d line: for another shadow than ours, seen before, or applied to both *)
(* the shadow and the user's text.                                           *)
DeltaLine(f, a) ==
  IF a.cv # f.clientVersion \/ a.v > f.serverVersion THEN [f EXCEPT !.deltaOk = FALSE]
  ELSE IF a.v < f.serverVersion THEN f
  ELSE IF ~Fits(a, f.shadowText) THEN [f EXCEPT !.deltaOk = FALSE]
  ELSE [f EXCEPT !.serverVersion = @ + 1, !.shadowText = Patched(@, a.body),
                 !.text = Patched(@, a.body)]

(* The end of syncRun2_: the next sync is scheduled, the watchdog cleared. *)
EndSync(c) ==
  /\ timer' = timer \cup {c} /\ watchdog' = watchdog \ {c}
  /\ airborne' = [airborne EXCEPT ![c] = 0]

SyncRun2(a) ==
  LET c == a.client
      f == FileLine(file[c], a)
      g == IF a.kind = "R" THEN RawLine(f, a) ELSE DeltaLine(f, a)
  IN /\ answers' = answers \ {a}
     /\ file' = [file EXCEPT ![c] = g]
     /\ had' = [had EXCEPT ![c] = (IF a.kind = "R" THEN a.had ELSE @) \cup Here(g.text)]
     /\ late' = late \cup (IF a.id = airborne[c] THEN {} ELSE {c})
     /\ EndSync(c)
     /\ UNCHANGED <<remote, shared, closed, syncs, gateway, requests, faults,
                    typed, deleted, early, hadMaster, unsent>>

(* An answer that is cut off has no lines. *)
SyncRun2Truncated(a) ==
  /\ Fault /\ ~remote /\ answers' = answers \ {a}
  /\ EndSync(a.client)
  /\ UNCHANGED <<remote, file, shared, closed, syncs, gateway, requests, history>>

(* A status that is not 200: the watchdog will see to it. *)
SyncFailed(a) ==
  /\ Fault /\ ~remote /\ answers' = answers \ {a}
  /\ airborne' = [airborne EXCEPT ![a.client] = 0]
  /\ UNCHANGED <<remote, file, shared, timer, watchdog, closed, syncs, gateway, requests,
                 history>>

Next ==
  \/ \E c \in Clients :
       \/ Share(c) \/ SyncRun1(c) \/ SyncKill(c) \/ Unload(c)
       \/ \E e \in Edits : Type(c, e) \/ Delete(c, e)
       \/ Serve(c) \/ LoseRequest(c)
  \/ \E a \in answers :
       \/ LoseAnswer(a) \/ SyncRun2(a) \/ SyncRun2Truncated(a) \/ SyncFailed(a)

Spec == Init /\ [][Next]_vars

-----------------------------------------------------------------------------
(* Properties. *)

(* A page that shares its file has exactly one of the two timers pending, so  *)
(* that it goes on syncing whatever is lost (mobwrite_core.js:482, 821, 869). *)
SyncingGoesOn ==
  \A c \in shared \ closed : (c \in timer) # (c \in watchdog)

(* Client and server have the same shadow whenever they have the same version *)
(* numbers: this is what lets a delta be applied without looking at the text. *)
(* A late answer may break it: "<=" (:701) then takes edits off the stack     *)
(* that the server has not seen.                                              *)
SameVersionSameShadow ==
  \A c \in shared \ late :
    file[c].clientVersion = viewOf[c].cv /\ file[c].serverVersion = viewOf[c].sv
      => file[c].shadowText = viewOf[c].shadow

(* With the types: numbers stay in their bounds, and shadows agree. *)
ShadowsInv == TypeOK /\ SameVersionSameShadow

(* Whatever is lost, sent again or answered twice, no edit is in a text twice. *)
NoEditTwice ==
  \A e \in Edits : master[e] <= 1 /\ \A c \in Clients : file[c].text[e] <= 1

(* What was typed after the first sync and deleted by nobody stays in its     *)
(* author's text, and in every text once, unless the client acted on a late   *)
(* answer: a raw text, with "any changes since the last postback being wiped  *)
(* out" (:402), is needed for no other reason.                                *)
TypedStaysOnce ==
  /\ NoEditTwice
  /\ \A e \in typed \ (deleted \cup early) :
       author[e] \in late \/ file[author[e]].text[e] = 1

(* A page that is closed between two syncs leaves nothing behind (unload_),   *)
(* if its last request is not lost.                                           *)
ClosingSendsTheRest ==
  \A c \in closed \ (unsent \cup late) :
    requests[c] = <<>> =>
      \A e \in typed \ (deleted \cup early) : author[e] = c => e \in hadMaster

(* Never in the text, there, or gone from it; early edits are left out, they  *)
(* may be replaced by the shared text when the client joins.                  *)
ValueIn(t, ever) ==
  [e \in Edits |-> IF e \in early THEN 0 ELSE IF t[e] > 0 THEN 1 ELSE IF e \in ever THEN 2 ELSE 0]

(* The texts that MobWrite keeps are those of SharedText. *)
Abstract == INSTANCE SharedText WITH
  shared <- ValueIn(master, hadMaster),
  texts <- [c \in Clients |-> ValueIn(file[c].text, had[c])]

(* Every step is one of SharedText or leaves its texts alone, as long as no   *)
(* client acted on a late answer: edits that such a client took off its stack *)
(* are missing from the next delta, which the server may then apply to        *)
(* another text that happens to be as long (:701, :729).                      *)
ImplementsSharedText ==
  Abstract!Init /\ [][Abstract!Next \/ late' # {}]_<<ValueIn(master, hadMaster),
                                                   [c \in Clients |-> ValueIn(file[c].text, had[c])]>>
=============================================================================

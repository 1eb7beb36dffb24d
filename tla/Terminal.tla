------------------------------ MODULE Terminal ------------------------------
(***************************************************************************)
(* The terminal of the IDE: a page (shellinabox/shell_in_a_box.js) and the *)
(* daemon that runs a shell for each session (shellinaboxd.c, session.c).  *)
(*                                                                         *)
(* The page always has one request open that waits for output (a poll) and *)
(* sends keys in requests of their own, one at a time.  The daemon keeps   *)
(* what nobody waits for in a buffer.  Requests travel on connections of   *)
(* their own: they may overtake each other.  When a connection breaks, the *)
(* page is told (status 0) and so is the daemon, in any order.             *)
(*                                                                         *)
(* Keys and pieces of output are numbered.  What the screen does with them *)
(* (vt100.js), sizes and the SSL menu are left out.                        *)
(***************************************************************************)
EXTENDS Integers, Sequences, FiniteSets, FiniteSetsExt, SequencesExt, Functions

CONSTANTS
  MaxSessions,   \* bound: sessions the daemon starts
  MaxReconnects, \* bound: times the user asks for a new session
  MaxEvents,     \* bound: keys typed and pieces of output of the shells, together
  MaxResponse,   \* MAX_RESPONSE, in pieces
  MaxFaults      \* bound: connections that break

Sessions == 1..MaxSessions
None == 0        \* undefined or null

ASSUME BoundsAssumption ==
  /\ MaxReconnects \in Nat /\ MaxEvents \in Nat /\ MaxFaults \in Nat
  /\ MaxResponse \in Nat \ {0}
  /\ MaxSessions \in Nat /\ MaxSessions > MaxReconnects + MaxFaults

VARIABLES
  session, connected, pendingKeys, keysInFlight, button,  \* the page; its reconnect button
  screen,      \* what the page has shown of each session
  requests,    \* on their way to the daemon
  replies,     \* on their way to the page
  state,       \* of each session: "none", "live", "done" (out of the server's loop), "gone"
  http,        \* the poll a session keeps: "none", "open", or "broken" and not yet noticed
  buffered,    \* output that no poll has taken
  unread,      \* output in the pty
  exited,      \* shells that have ended, of which the daemon still reads the pty
  input,       \* keys the shell got
  outputs,     \* pieces a shell has put out
  typed, events, reconnects, faults,  \* counters: keys, keys and pieces of output, ...
  forSession,  \* history: the session each key was typed for
  lostKeys,    \* history: keys of a request that was lost
  spoiled,     \* history: sessions of which a reply was lost, or that were ended unheard
  overtaken    \* history: the user asked for a new session while keys were in flight

page == <<session, connected, pendingKeys, keysInFlight, button, screen>>
wire == <<requests, replies>>
daemon == <<state, http, buffered, input>>
shells == <<unread, exited, outputs>>
bounds == <<typed, events, reconnects, faults>>
history == <<forSession, lostKeys, spoiled, overtaken>>
vars == <<page, wire, daemon, shells, bounds, history>>

Keys == 1..MaxEvents
Pieces == Seq(1..MaxEvents)

TypeOK ==
  /\ session \in Sessions \cup {None} /\ connected \in BOOLEAN /\ keysInFlight \in BOOLEAN
  /\ button \in BOOLEAN /\ pendingKeys \in Seq(Keys) /\ screen \in [Sessions -> Pieces]
  /\ \A r \in requests : r.session \in Sessions \cup {None} /\ r.keys \in Seq(Keys)
  /\ \A a \in replies : a.status \in {0, 200, 400} /\ a.data \in Seq(Nat)
  /\ state \in [Sessions -> {"none", "live", "done", "gone"}]
  /\ http \in [Sessions -> {"none", "open", "broken"}]
  /\ \A s \in Sessions : http[s] # "none" => state[s] = "live" /\ buffered[s] = <<>>
  /\ buffered \in [Sessions -> Pieces] /\ unread \in [Sessions -> Pieces]
  /\ exited \subseteq Sessions /\ input \in [Sessions -> Seq(Keys)]
  /\ outputs \in [Sessions -> 0..MaxEvents] /\ typed \in 0..MaxEvents /\ events \in 0..MaxEvents
  /\ reconnects \in 0..MaxReconnects /\ faults \in 0..MaxFaults
  /\ spoiled \subseteq Sessions /\ lostKeys \subseteq Keys /\ overtaken \in BOOLEAN

Poll(s) == [kind |-> "poll", session |-> s, keys |-> <<>>]
KeyPress(s, ks) == [kind |-> "keys", session |-> s, keys |-> ks]
Reply(k, st, s, d) == [kind |-> k, status |-> st, session |-> s, data |-> d]
OfKind(k, M) == {m \in M : m.kind = k}

(* The constructor: the first poll. *)
Init ==
  /\ session = None /\ connected = FALSE /\ pendingKeys = <<>> /\ keysInFlight = FALSE
  /\ button = FALSE /\ screen = [s \in Sessions |-> <<>>]
  /\ requests = {Poll(None)} /\ replies = {}
  /\ state = [s \in Sessions |-> "none"] /\ http = [s \in Sessions |-> "none"]
  /\ buffered = [s \in Sessions |-> <<>>] /\ input = [s \in Sessions |-> <<>>]
  /\ unread = [s \in Sessions |-> <<>>] /\ exited = {} /\ outputs = [s \in Sessions |-> 0]
  /\ typed = 0 /\ events = 0 /\ reconnects = 0 /\ faults = 0
  /\ forSession = [k \in Keys |-> None] /\ lostKeys = {} /\ spoiled = {} /\ overtaken = FALSE

-----------------------------------------------------------------------------
(* The page. *)

(* Mutant: nobody waits for the answer to the keys before. *)
SendKeysAtOnce(busy, ks) ==
  /\ keysInFlight' = TRUE
  /\ pendingKeys' = <<>> /\ requests' = requests \cup {KeyPress(session, pendingKeys \o ks)}

(* Mutant: the keys that waited are forgotten. *)
SendKeysNew(busy, ks) ==
  /\ keysInFlight' = TRUE
  /\ IF busy
     THEN pendingKeys' = pendingKeys \o ks /\ UNCHANGED requests
     ELSE pendingKeys' = <<>> /\ requests' = requests \cup {KeyPress(session, ks)}

(* sendKeys, connected.  `busy` is keysInFlight; a page that is connected has a session. *)
SendKeys(busy, ks) ==
  /\ keysInFlight' = TRUE
  /\ IF busy
     THEN pendingKeys' = pendingKeys \o ks /\ UNCHANGED requests
     ELSE pendingKeys' = <<>> /\ requests' = requests \cup {KeyPress(session, pendingKeys \o ks)}

TypeKey ==
  /\ connected /\ events < MaxEvents /\ events' = events + 1
  /\ typed' = typed + 1 /\ forSession' = [forSession EXCEPT ![typed + 1] = session]
  /\ SendKeys(keysInFlight, <<typed + 1>>)
  /\ UNCHANGED <<session, connected, button, screen, replies, daemon, shells, reconnects,
                 faults, lostKeys, spoiled, overtaken>>

(* Mutant: the keys that wait are left to the next key. *)
KeyPressReadyStateChangeLater ==
  \E a \in OfKind("keys", replies) :
    /\ replies' = replies \ {a} /\ keysInFlight' = FALSE
    /\ UNCHANGED <<pendingKeys, requests, session, connected, button, screen, daemon, shells,
                   bounds, history>>

(* keyPressReadyStateChange, whatever the status is. *)
KeyPressReadyStateChange ==
  \E a \in OfKind("keys", replies) :
    /\ replies' = replies \ {a}
    /\ IF connected /\ pendingKeys # <<>>
       THEN SendKeys(FALSE, <<>>)
       ELSE keysInFlight' = FALSE /\ UNCHANGED <<pendingKeys, requests>>
    /\ UNCHANGED <<session, connected, button, screen, daemon, shells, bounds, history>>

(* Mutant: a poll goes out after the session is closed, too. *)
SendRequestAlways(closed, s) == requests' = requests \cup {Poll(s)}

SendRequest(closed, s) == requests' = IF closed THEN requests ELSE requests \cup {Poll(s)}

(* onReadyStateChange of a poll, and sessionClosed. *)
OnReadyStateChange ==
  \E a \in OfKind("poll", replies) :
    LET ok == a.status = 200
        closed == a.status = 400 \/ (ok /\ session \notin {None, a.session})
    IN /\ replies' = replies \ {a}
       /\ screen' = IF ok THEN [screen EXCEPT ![a.session] = @ \o a.data] ELSE screen
       /\ session' = IF closed THEN None ELSE IF ok THEN a.session ELSE session
       /\ connected' = (~closed /\ (connected \/ ok))
       /\ button' = (button \/ closed)
       /\ SendRequest(closed, session')
       /\ UNCHANGED <<pendingKeys, keysInFlight, daemon, shells, bounds, history>>

(* Mutant: the keys of the session that ended are kept. *)
ReconnectWithKeys ==
  /\ button /\ reconnects < MaxReconnects
  /\ button' = FALSE /\ keysInFlight' = FALSE
  /\ requests' = requests \cup {Poll(None)}
  /\ reconnects' = reconnects + 1 /\ overtaken' = (overtaken \/ keysInFlight)
  /\ UNCHANGED <<session, connected, pendingKeys, screen, replies, daemon, shells, typed, events, faults,
                 forSession, lostKeys, spoiled>>

(* The button: reconnect. *)
Reconnect ==
  /\ button /\ reconnects < MaxReconnects
  /\ button' = FALSE /\ pendingKeys' = <<>> /\ keysInFlight' = FALSE
  /\ requests' = requests \cup {Poll(None)}
  /\ reconnects' = reconnects + 1 /\ overtaken' = (overtaken \/ keysInFlight)
  /\ UNCHANGED <<session, connected, screen, replies, daemon, shells, typed, events, faults,
                 forSession, lostKeys, spoiled>>

-----------------------------------------------------------------------------
(* The daemon. *)

(* Mutant: new output takes the place of what is in the buffer. *)
OutputNewOnly(s, more) == IF more = <<>> THEN buffered[s] ELSE more

OutputOf(s, more) == buffered[s] \o more

(* completePendingRequest of session s, whose poll is h, with `more` output, at most  *)
(* `max` of it; `over` is session->done.  A is the rest of the replies.               *)
CompletePendingRequest(s, h, more, max, over, A) ==
  LET all == OutputOf(s, more)
      n == IF h = "none" THEN 0 ELSE Min({max, Len(all)})
      rest == SubSeq(all, n + 1, Len(all))
  IN /\ buffered' = [buffered EXCEPT ![s] = rest]
     /\ http' = [http EXCEPT ![s] = "none"]
     /\ replies' = IF h = "open" THEN A \cup {Reply("poll", 200, s, SubSeq(all, 1, n))} ELSE A
     /\ spoiled' = IF h = "broken" /\ n > 0 THEN spoiled \cup {s} ELSE spoiled
     /\ state' = [state EXCEPT ![s] = IF ~over THEN "live" ELSE IF rest = <<>> THEN "gone" ELSE "done"]

(* dataHandler, a poll: of a page without a session, of a session that is gone, with    *)
(* output in the buffer, and without.                                                   *)
NewSession(r) ==
  /\ r.session = None
  /\ \E s \in Sessions :
       /\ state[s] = "none" /\ \A t \in 1..(s - 1) : state[t] # "none"
       /\ CompletePendingRequest(s, "open", <<>>, MaxResponse, FALSE, replies)

NoSession(r) ==
  /\ r.session # None /\ state[r.session] = "gone"
  /\ replies' = replies \cup {Reply("poll", 400, None, <<>>)}
  /\ UNCHANGED <<state, http, buffered, spoiled>>

(* Mutant: a poll waits for output that is new, though the buffer has some. *)
AnswerPollLater(r) ==
  /\ r.session # None /\ state[r.session] # "gone" /\ buffered[r.session] # <<>>
  /\ http' = [http EXCEPT ![r.session] = "open"]
  /\ UNCHANGED <<replies, state, buffered, spoiled>>

AnswerPoll(r) ==
  /\ r.session # None /\ state[r.session] # "gone" /\ buffered[r.session] # <<>>
  /\ CompletePendingRequest(r.session, "open", <<>>, MaxResponse, state[r.session] = "done", replies)

KeepPoll(r) ==
  /\ r.session # None /\ state[r.session] # "gone" /\ buffered[r.session] = <<>>
  /\ http' = [http EXCEPT ![r.session] = "open"]
  /\ UNCHANGED <<replies, state, buffered, spoiled>>

HandlePoll(r) ==
  /\ NewSession(r) \/ NoSession(r) \/ AnswerPoll(r) \/ KeepPoll(r)
  /\ requests' = requests \ {r}
  /\ UNCHANGED <<page, input, shells, bounds, forSession, lostKeys, overtaken>>

(* dataHandler, keys: to the shell if it is there. *)
HandleKeys(r) ==
  /\ requests' = requests \ {r}
  /\ replies' = replies \cup
       {Reply("keys", IF state[r.session] = "gone" THEN 400 ELSE 200, r.session, r.keys)}
  /\ input' = IF state[r.session] = "live" THEN [input EXCEPT ![r.session] = @ \o r.keys] ELSE input
  /\ UNCHANGED <<page, state, http, buffered, shells, bounds, history>>

(* handleSession with POLLIN.  It listens to the pty while the buffer has room. *)
ReadPty(s) ==
  /\ state[s] = "live" /\ unread[s] # <<>> /\ Len(buffered[s]) < MaxResponse
  /\ LET n == Min({Len(unread[s]), MaxResponse - Len(buffered[s])})
     IN /\ CompletePendingRequest(s, http[s], SubSeq(unread[s], 1, n), MaxResponse, FALSE, replies)
        /\ unread' = [unread EXCEPT ![s] = SubSeq(@, n + 1, Len(@))]
  /\ UNCHANGED <<page, requests, input, exited, outputs, bounds, forSession, lostKeys, overtaken>>

(* handleSession at the end of the shell's output, and sessionDone. *)
SessionDone(s) ==
  /\ state[s] = "live" /\ s \in exited /\ unread[s] = <<>> /\ Len(buffered[s]) < MaxResponse
  /\ CompletePendingRequest(s, http[s], <<>>, MaxEvents, TRUE, replies)
  /\ exited' = exited \ {s}
  /\ UNCHANGED <<page, requests, input, unread, outputs, bounds, forSession, lostKeys, overtaken>>

(* handleSession after AJAX_TIMEOUT: a poll gets an empty answer... *)
TimeOut(s) ==
  /\ http[s] # "none"
  /\ CompletePendingRequest(s, http[s], <<>>, MaxResponse, FALSE, replies)
  /\ UNCHANGED <<page, requests, input, shells, bounds, forSession, lostKeys, overtaken>>

ClosePty(s) == unread' = [unread EXCEPT ![s] = <<>>] /\ exited' = exited \ {s}

(* ...and a session without one is done. *)
Abandon(s) ==
  /\ state[s] = "live" /\ http[s] = "none" /\ spoiled' = spoiled \cup {s}
  /\ state' = [state EXCEPT ![s] = IF buffered[s] = <<>> THEN "gone" ELSE "done"]
  /\ ClosePty(s)
  /\ UNCHANGED <<page, wire, http, buffered, input, outputs, bounds, forSession, lostKeys, overtaken>>

(* checkGraveyard: a session that has been done for AJAX_TIMEOUT. *)
Bury(s) ==
  /\ state[s] = "done" /\ state' = [state EXCEPT ![s] = "gone"] /\ spoiled' = spoiled \cup {s}
  /\ buffered' = [buffered EXCEPT ![s] = <<>>]
  /\ UNCHANGED <<page, wire, http, input, shells, bounds, forSession, lostKeys, overtaken>>

(* invalidatePendingHttpSession: the daemon sees that the poll it keeps is cut off. *)
NoticeClose(s) ==
  /\ http[s] = "broken" /\ http' = [http EXCEPT ![s] = "none"]
  /\ state' = [state EXCEPT ![s] = "gone"] /\ spoiled' = spoiled \cup {s}
  /\ ClosePty(s)
  /\ UNCHANGED <<page, wire, buffered, input, outputs, bounds, forSession, lostKeys, overtaken>>

-----------------------------------------------------------------------------
(* The shell and the network. *)

Output(s) ==
  /\ state[s] = "live" /\ s \notin exited /\ events < MaxEvents /\ events' = events + 1
  /\ outputs' = [outputs EXCEPT ![s] = @ + 1]
  /\ unread' = [unread EXCEPT ![s] = Append(@, outputs[s] + 1)]
  /\ UNCHANGED <<page, wire, daemon, exited, typed, reconnects, faults, history>>

Exit(s) ==
  /\ state[s] = "live" /\ s \notin exited /\ exited' = exited \cup {s}
  /\ UNCHANGED <<page, wire, daemon, unread, outputs, bounds, history>>

(* A connection breaks before the request arrives, with the poll that the daemon keeps, or   *)
(* before the answer to a poll arrives.  The status of an answer to keys makes no difference. *)
Cut ==
  /\ faults < MaxFaults /\ faults' = faults + 1
  /\ \/ \E r \in requests :
          /\ requests' = requests \ {r}
          /\ replies' = replies \cup {Reply(r.kind, 0, r.session, r.keys)}
          /\ lostKeys' = lostKeys \cup ToSet(r.keys) /\ UNCHANGED <<http, spoiled>>
     \/ \E s \in Sessions :
          /\ http[s] = "open" /\ http' = [http EXCEPT ![s] = "broken"]
          /\ replies' = replies \cup {Reply("poll", 0, s, <<>>)}
          /\ UNCHANGED <<requests, lostKeys, spoiled>>
     \/ \E a \in OfKind("poll", replies) :
          /\ a.status = 200 /\ spoiled' = spoiled \cup {a.session}
          /\ replies' = (replies \ {a}) \cup {Reply("poll", 0, a.session, <<>>)}
          /\ UNCHANGED <<requests, http, lostKeys>>
  /\ UNCHANGED <<page, state, buffered, input, shells, typed, events, reconnects, forSession, overtaken>>

Next ==
  \/ TypeKey \/ KeyPressReadyStateChange \/ OnReadyStateChange \/ Reconnect \/ Cut
  \/ \E r \in OfKind("poll", requests) : HandlePoll(r)
  \/ \E r \in OfKind("keys", requests) : HandleKeys(r)
  \/ \E s \in Sessions :
       \/ ReadPty(s) \/ SessionDone(s) \/ TimeOut(s) \/ Abandon(s) \/ Bury(s) \/ NoticeClose(s)
       \/ Output(s) \/ Exit(s)

Spec == Init /\ [][Next]_vars

(* Browser and daemon go on: each answers what it gets and reads the ptys.  Nobody has to type, *)
(* to reconnect, to put anything out or to time out.                                            *)
FairSpec ==
  /\ Spec /\ WF_vars(OnReadyStateChange)
  /\ WF_vars(\E r \in OfKind("poll", requests) : HandlePoll(r))
  /\ WF_vars(\E s \in Sessions : ReadPty(s))

-----------------------------------------------------------------------------
(* The page has exactly one poll open, on the way there, kept by the daemon, or answered, *)
(* and none while it offers to reconnect: after no break is a session polled twice, which *)
(* would show output out of order, or no longer, which would leave the terminal silent.   *)
OnePoll ==
  Cardinality(OfKind("poll", requests)) + Cardinality({s \in Sessions : http[s] = "open"})
    + Cardinality(OfKind("poll", replies)) = IF button THEN 0 ELSE 1

(* With the types: a poll is kept only by a live session that has nothing to say. *)
PollInv == TypeOK /\ OnePoll

(* A shell gets the keys that were typed to it, whichever sessions end in between, each   *)
(* once and in order: keysInFlight sees to that on connections that overtake each other.  *)
(* It cannot keep the order after reconnect, which resets it: the answer to keys of the   *)
(* session before lets two requests of the new session out at once.                       *)
ShellGetsItsKeys ==
  \A s \in Sessions : \A i \in DOMAIN input[s] :
    /\ forSession[input[s][i]] = s
    /\ \A j \in DOMAIN input[s] : i < j =>
         IF overtaken THEN input[s][i] # input[s][j] ELSE input[s][i] < input[s][j]

(* A key typed to a session that is still live is with the shell, on its way or waiting,  *)
(* unless the connection broke that carried it: the page does not send such keys again.   *)
(* And keys wait only for an answer that will come.                                       *)
NoKeyIsLost ==
  /\ \A k \in 1..typed :
       LET s == forSession[k]
       IN \/ state[s] # "live" \/ session # s \/ k \in lostKeys
          \/ k \in ToSet(input[s]) \cup ToSet(pendingKeys)
               \cup UNION {ToSet(r.keys) : r \in OfKind("keys", requests)}
  /\ connected /\ pendingKeys # <<>> => keysInFlight
  /\ keysInFlight => OfKind("keys", requests \cup replies) # {}

(* Screen, answer, buffer and pty hold the shell's output, whole and in order, if no answer *)
(* was lost and the session was not ended by a time-out or a cut connection.                *)
OutputIsWhole ==
  \A s \in Sessions \ spoiled :
    LET answered == {a \in OfKind("poll", replies) : a.session = s}
        data == IF answered = {} THEN <<>> ELSE (CHOOSE a \in answered : TRUE).data
    IN screen[s] \o data \o buffered[s] \o unread[s] = [i \in 1..outputs[s] |-> i]

(* What a shell puts out is shown, also if it is more than a response, came while no poll was *)
(* open, or the shell has ended: no wake-up is lost between the buffer, the pty and the poll. *)
OutputArrives == []<>(\A s \in Sessions \ spoiled : Len(screen[s]) = outputs[s])
=============================================================================

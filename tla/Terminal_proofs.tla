--------------------------- MODULE Terminal_proofs ---------------------------
(***************************************************************************)
(* Theorems about Terminal for any number of sessions, keys, pieces of     *)
(* output, reconnections and broken connections, and any size of answers.  *)
(***************************************************************************)
EXTENDS Terminal, SequenceTheorems, FiniteSetTheorems, TLAPS

-----------------------------------------------------------------------------
(* The inductive invariant. *)

(* What TypeOK says, with the shape of requests and answers, and the counters *)
(* that bound the keys and the pieces.                                        *)
TypeInv ==
  /\ TypeOK
  /\ forSession \in [Keys -> Sessions \cup {None}]
  /\ typed <= events /\ \A s \in Sessions : outputs[s] <= events
  /\ \A r \in requests :
       \/ r.kind = "poll" /\ r.keys = <<>>
       \/ r.kind = "keys" /\ r.keys # <<>> /\ r.session # None
  /\ \A a \in replies :
       \/ a.kind = "keys"
       \/ /\ a.kind = "poll" /\ a.data \in Pieces
          /\ IF a.status = 200 THEN a.session \in Sessions ELSE a.data = <<>>

Polls == OfKind("poll", requests)
Kept == {s \in Sessions : http[s] = "open"}
Answers == OfKind("poll", replies)

(* The poll the page has open, by where it is. *)
PollIsSomewhere ==
  IF button THEN Polls = {} /\ Kept = {} /\ Answers = {}
  ELSE \/ Kept = {} /\ Answers = {} /\ \E r \in requests : Polls = {r}
       \/ Polls = {} /\ Answers = {} /\ \E s \in Sessions : Kept = {s}
       \/ Polls = {} /\ Kept = {} /\ \E a \in replies : Answers = {a}

(* Whose poll it is.  A session the page does not know of yet has had no keys. *)
SessionInv ==
  /\ connected <=> session # None
  /\ button => session = None
  /\ session # None => state[session] # "none"
  /\ \A r \in Polls : r.session = session
  /\ \A s \in Kept : s = session
  /\ \A a \in Answers : a.status = 200 =>
       /\ session \in {None, a.session} /\ state[a.session] # "none"
       /\ session = None => \A k \in 1..typed : forSession[k] # a.session
  /\ \A s \in Sessions : state[s] = "done" => buffered[s] # <<>>
  /\ \A k \in 1..typed : forSession[k] \in Sessions /\ state[forSession[k]] # "none"

PollsInv == TypeInv /\ PollIsSomewhere /\ SessionInv

Increasing(q) == \A i, j \in DOMAIN q : i < j => q[i] < q[j]
Distinct(q) == \A i, j \in DOMAIN q : q[i] = q[j] => i = j
Sent == OfKind("keys", requests)
Answered == OfKind("keys", replies)

(* Where a key can be, it is once, was typed, and was typed for the session it goes to. *)
KeyPlaces ==
  /\ \A s \in Sessions : \A k \in Range(input[s]) : k <= typed /\ forSession[k] = s
  /\ \A r \in Sent : \A k \in Range(r.keys) : k <= typed /\ forSession[k] = r.session
  /\ \A k \in Range(pendingKeys) : k <= typed /\ (connected => forSession[k] = session)
  /\ ~connected /\ ~button => pendingKeys = <<>>

KeysOnce ==
  /\ \A s \in Sessions : Distinct(input[s])
  /\ Increasing(pendingKeys) /\ \A r \in Sent : Increasing(r.keys)
  /\ \A r \in Sent : Range(r.keys) \cap Range(pendingKeys) = {}
  /\ \A r1, r2 \in Sent : r1 # r2 => Range(r1.keys) \cap Range(r2.keys) = {}
  /\ \A s \in Sessions :
       /\ Range(input[s]) \cap Range(pendingKeys) = {}
       /\ \A r \in Sent : Range(input[s]) \cap Range(r.keys) = {}

(* As long as nobody reconnected too early, one request is in flight, what the *)
(* shells have is older than its keys, and those are older than what waits.    *)
KeysInOrder ==
  ~overtaken =>
    /\ \A x, y \in Sent : x = y
    /\ \A x, y \in Answered : x = y
    /\ Sent = {} \/ Answered = {}
    /\ Sent \cup Answered # {} => keysInFlight
    /\ \A s \in Sessions :
         /\ Increasing(input[s])
         /\ \A k \in Range(input[s]) :
              /\ \A l \in Range(pendingKeys) : k < l
              /\ \A r \in Sent : \A l \in Range(r.keys) : k < l
    /\ \A r \in Sent : \A k \in Range(r.keys), l \in Range(pendingKeys) : k < l

KeysInv == PollsInv /\ KeyPlaces /\ KeysOnce /\ KeysInOrder

-----------------------------------------------------------------------------
(* Operators of the model. *)

LEMMA SessionFacts == None \notin Sessions /\ Sessions \subseteq Nat
BY BoundsAssumption DEF Sessions, None

LEMMA NothingIsASequence == <<>> \in Seq(Keys) /\ <<>> \in Pieces /\ <<>> \in Seq(Nat)
BY EmptySeq DEF Pieces

LEMMA MinOfTwo ==
  ASSUME NEW m \in Nat, NEW n \in Nat
  PROVE  Min({m, n}) = IF m <= n THEN m ELSE n
BY DEF Min

LEMMA SplitInTwo ==
  ASSUME NEW all \in Pieces, NEW n \in Nat, n <= Len(all)
  PROVE  /\ SubSeq(all, 1, n) \in Pieces /\ SubSeq(all, n + 1, Len(all)) \in Pieces
         /\ SubSeq(all, 1, n) \o SubSeq(all, n + 1, Len(all)) = all
         /\ (SubSeq(all, 1, n) # <<>>) = (n > 0)
<1>1. Len(all) \in Nat /\ \A i \in 1..Len(all) : all[i] \in 1..MaxEvents
  BY ElementOfSeq, LenProperties DEF Pieces
<1>2. /\ SubSeq(all, 1, n) \in Seq(1..MaxEvents)
      /\ Len(SubSeq(all, 1, n)) = IF 1 <= n THEN n - 1 + 1 ELSE 0
  <2>1. \A i \in 1..n : all[i] \in 1..MaxEvents
    BY <1>1
  <2> QED BY <2>1, SubSeqProperties
<1>3. SubSeq(all, n + 1, Len(all)) \in Seq(1..MaxEvents)
  <2>1. \A i \in (n + 1)..Len(all) : all[i] \in 1..MaxEvents
    BY <1>1
  <2> QED BY <2>1, <1>1, SubSeqProperties
<1>4. SubSeq(all, 1, n) \o SubSeq(all, n + 1, Len(all)) = SubSeq(all, 1, Len(all))
  <2>1. /\ 1 \in 1..Len(all) + 1 /\ n \in (1 - 1)..Len(all) /\ Len(all) \in n..Len(all)
        /\ all \in Seq(1..MaxEvents)
    BY <1>1 DEF Pieces
  <2> QED BY <2>1, ConcatAdjacentSubSeq
<1>5. SubSeq(all, 1, Len(all)) = all
  BY SubSeqFull DEF Pieces
<1>6. (SubSeq(all, 1, n) # <<>>) = (n > 0)
  BY <1>2
<1> QED BY <1>2, <1>3, <1>4, <1>5, <1>6 DEF Pieces

(* handleSession reads as much as the buffer has room for. *)
LEMMA SplitPty ==
  ASSUME NEW u \in Pieces, NEW b \in Pieces, Len(b) < MaxResponse
  PROVE  LET n == Min({Len(u), MaxResponse - Len(b)})
         IN /\ SubSeq(u, 1, n) \in Pieces /\ SubSeq(u, n + 1, Len(u)) \in Pieces
            /\ SubSeq(u, 1, n) \o SubSeq(u, n + 1, Len(u)) = u
            /\ MaxResponse \in Nat
<1> DEFINE n == Min({Len(u), MaxResponse - Len(b)})
<1>1. /\ Len(u) \in Nat /\ Len(b) \in Nat /\ MaxResponse \in Nat
      /\ MaxResponse - Len(b) \in Nat
  BY BoundsAssumption, LenProperties DEF Pieces
<1>2. n = IF Len(u) <= MaxResponse - Len(b) THEN Len(u) ELSE MaxResponse - Len(b)
  BY <1>1, MinOfTwo
<1>3. n \in Nat /\ n <= Len(u)
  <2> HIDE DEF n
  <2> QED BY <1>1, <1>2
<1> HIDE DEF n
<1>4. /\ SubSeq(u, 1, n) \in Pieces /\ SubSeq(u, n + 1, Len(u)) \in Pieces
      /\ SubSeq(u, 1, n) \o SubSeq(u, n + 1, Len(u)) = u
  BY <1>3, SplitInTwo
<1> QED BY <1>1, <1>4 DEF n

(* completePendingRequest splits what there is into what it sends and the rest. *)
Completes(s, h, more, over, A, data, rest) ==
  /\ data \o rest = buffered[s] \o more
  /\ h = "none" => data = <<>>
  /\ buffered' = [buffered EXCEPT ![s] = rest]
  /\ http' = [http EXCEPT ![s] = "none"]
  /\ replies' = IF h = "open" THEN A \cup {Reply("poll", 200, s, data)} ELSE A
  /\ spoiled' = IF h = "broken" /\ data # <<>> THEN spoiled \cup {s} ELSE spoiled
  /\ state' = [state EXCEPT
                 ![s] = IF ~over THEN "live" ELSE IF rest = <<>> THEN "gone" ELSE "done"]

LEMMA Complete ==
  ASSUME NEW s \in Sessions, NEW h, NEW more \in Pieces, NEW max \in Nat, NEW over \in BOOLEAN, NEW A,
         buffered[s] \in Pieces, CompletePendingRequest(s, h, more, max, over, A)
  PROVE  \E data, rest \in Pieces : Completes(s, h, more, over, A, data, rest)
<1> DEFINE all == OutputOf(s, more)
           n == IF h = "none" THEN 0 ELSE Min({max, Len(all)})
           data == SubSeq(all, 1, n)
           rest == SubSeq(all, n + 1, Len(all))
<1>1. all \in Pieces /\ all = buffered[s] \o more /\ Len(all) \in Nat
  BY DEF OutputOf, Pieces
<1>2. n \in Nat /\ n <= Len(all) /\ (h = "none" => n = 0)
  <2>1. Min({max, Len(all)}) = IF max <= Len(all) THEN max ELSE Len(all)
    BY <1>1, MinOfTwo
  <2> QED BY <1>1, <2>1
<1>3. /\ data \in Pieces /\ rest \in Pieces /\ data \o rest = all
      /\ (data # <<>>) = (n > 0)
  <2> HIDE DEF all, n
  <2> QED BY <1>1, <1>2, SplitInTwo
<1>4. h = "none" => data = <<>>
  BY <1>2, <1>3
<1>5. /\ buffered' = [buffered EXCEPT ![s] = rest]
      /\ http' = [http EXCEPT ![s] = "none"]
      /\ replies' = IF h = "open" THEN A \cup {Reply("poll", 200, s, data)} ELSE A
      /\ spoiled' = IF h = "broken" /\ n > 0 THEN spoiled \cup {s} ELSE spoiled
      /\ state' = [state EXCEPT
                     ![s] = IF ~over THEN "live" ELSE IF rest = <<>> THEN "gone" ELSE "done"]
  BY DEF CompletePendingRequest
<1> HIDE DEF all, n, data, rest
<1> QED BY <1>1, <1>3, <1>4, <1>5 DEF Completes

-----------------------------------------------------------------------------
(* One poll. *)

LEMMA PollKinds ==
  /\ \A s, ks : KeyPress(s, ks).kind = "keys" /\ KeyPress(s, ks).session = s
                 /\ KeyPress(s, ks).keys = ks
  /\ \A s : Poll(s).kind = "poll" /\ Poll(s).session = s /\ Poll(s).keys = <<>>
  /\ \A k, st, s, d : LET a == Reply(k, st, s, d)
                      IN a.kind = k /\ a.status = st /\ a.session = s /\ a.data = d
BY DEF KeyPress, Poll, Reply

LEMMA ThePoll ==
  ASSUME PollIsSomewhere, NEW r \in Polls
  PROVE  ~button /\ Polls = {r} /\ Kept = {} /\ Answers = {}
BY DEF PollIsSomewhere

LEMMA TheAnswer ==
  ASSUME PollIsSomewhere, NEW a \in Answers
  PROVE  ~button /\ Polls = {} /\ Kept = {} /\ Answers = {a}
BY DEF PollIsSomewhere

LEMMA TheKept ==
  ASSUME PollIsSomewhere, NEW s \in Kept
  PROVE  ~button /\ Polls = {} /\ Kept = {s} /\ Answers = {}
BY DEF PollIsSomewhere

LEMMA RequestTypes ==
  ASSUME PollsInv
  PROVE  \A r \in requests : r.session \in Sessions \cup {None} /\ r.keys \in Seq(Keys)
BY DEF PollsInv, TypeInv, TypeOK

LEMMA ReplyTypes ==
  ASSUME PollsInv
  PROVE  \A a \in replies : a.status \in {0, 200, 400} /\ a.data \in Seq(Nat)
BY DEF PollsInv, TypeInv, TypeOK

LEMMA InitPolls == Init => PollsInv
<1> SUFFICES ASSUME Init PROVE PollsInv
  OBVIOUS
<1>1. TypeInv
  <2>1. \A r \in requests : r = Poll(None)
    BY DEF Init
  <2>2. \A r \in requests : r.kind = "poll" /\ r.session = None /\ r.keys = <<>>
    BY <2>1, PollKinds
  <2>3. TypeOK
    <3>1. /\ 0 \in 0..MaxEvents /\ 0 \in 0..MaxReconnects /\ 0 \in 0..MaxFaults
      BY BoundsAssumption
    <3>2. /\ screen \in [Sessions -> Pieces] /\ input \in [Sessions -> Seq(Keys)]
          /\ buffered \in [Sessions -> Pieces] /\ unread \in [Sessions -> Pieces]
          /\ state \in [Sessions -> {"none", "live", "done", "gone"}]
          /\ http \in [Sessions -> {"none", "open", "broken"}]
          /\ outputs \in [Sessions -> 0..MaxEvents]
          /\ \A s \in Sessions : http[s] = "none"
      BY <3>1, NothingIsASequence DEF Init
    <3>3. \A r \in requests : r.session \in Sessions \cup {None} /\ r.keys \in Seq(Keys)
      BY <2>2, NothingIsASequence
    <3>4. /\ session = None /\ connected = FALSE /\ keysInFlight = FALSE /\ button = FALSE
          /\ pendingKeys \in Seq(Keys) /\ replies = {} /\ exited = {} /\ spoiled = {}
          /\ lostKeys = {} /\ overtaken = FALSE
          /\ typed = 0 /\ events = 0 /\ reconnects = 0 /\ faults = 0
      BY NothingIsASequence DEF Init
    <3> QED BY <3>1, <3>2, <3>3, <3>4 DEF TypeOK
  <2> QED BY <2>2, <2>3 DEF Init, TypeInv
<1>2. Polls = {Poll(None)} /\ Kept = {} /\ Answers = {}
  BY PollKinds DEF Init, Polls, Kept, Answers, OfKind
<1>3. PollIsSomewhere
  BY <1>2 DEF Init, PollIsSomewhere
<1>4. SessionInv
  BY <1>2, PollKinds, BoundsAssumption DEF Init, SessionInv, None
<1> QED BY <1>1, <1>3, <1>4 DEF PollsInv

(* Requests with keys, and their answers, do not touch the poll. *)
LEMMA KeepPolls ==
  ASSUME PollsInv, TypeInv', Polls' = Polls, Answers' = Answers,
         UNCHANGED <<session, connected, button, http, state, buffered, typed, forSession>>
  PROVE  PollsInv'
<1>1. Kept' = Kept
  BY DEF Kept
<1>2. PollIsSomewhere'
  <2>1. \A r \in Polls : r \in requests'
    BY DEF Polls, OfKind
  <2>2. \A a \in Answers : a \in replies'
    BY DEF Answers, OfKind
  <2> QED BY <1>1, <2>1, <2>2 DEF PollsInv, PollIsSomewhere
<1>3. SessionInv'
  BY <1>1 DEF PollsInv, SessionInv
<1> QED BY <1>2, <1>3 DEF PollsInv

LEMMA SendKeysTypes ==
  ASSUME PollsInv, connected, NEW busy \in BOOLEAN, NEW ks \in Seq(Keys), ks # <<>> \/ pendingKeys # <<>>,
         SendKeys(busy, ks)
  PROVE  /\ keysInFlight' \in BOOLEAN /\ pendingKeys' \in Seq(Keys) /\ Polls' = Polls
         /\ \A r \in requests' : r \in requests \/ r = KeyPress(session, pendingKeys \o ks)
         /\ KeyPress(session, pendingKeys \o ks).session \in Sessions
         /\ pendingKeys \o ks \in Seq(Keys) /\ pendingKeys \o ks # <<>>
<1>1. pendingKeys \in Seq(Keys) /\ session \in Sessions
  BY DEF PollsInv, TypeInv, TypeOK, SessionInv
<1>2. pendingKeys \o ks \in Seq(Keys) /\ pendingKeys \o ks # <<>>
  BY <1>1, ConcatProperties, ConcatSimplifications
<1> DEFINE new == KeyPress(session, pendingKeys \o ks)
<1>3. new.session = session /\ new.kind = "keys"
  BY PollKinds
<1>4. \/ pendingKeys' = pendingKeys \o ks /\ requests' = requests
      \/ pendingKeys' = <<>> /\ requests' = requests \cup {new}
  BY DEF SendKeys
<1> HIDE DEF new
<1>5. Polls' = Polls
  BY <1>3, <1>4 DEF Polls, OfKind
<1>6. keysInFlight' \in BOOLEAN
  BY DEF SendKeys
<1>7. pendingKeys' \in Seq(Keys) /\ \A r \in requests' : r \in requests \/ r = new
  BY <1>2, <1>4, NothingIsASequence
<1> QED BY <1>1, <1>2, <1>3, <1>5, <1>6, <1>7 DEF new

LEMMA TypeKeyPolls == PollsInv /\ TypeKey => PollsInv'
<1> SUFFICES ASSUME PollsInv, TypeKey PROVE PollsInv'
  OBVIOUS
<1>1. /\ session \in Sessions /\ keysInFlight \in BOOLEAN
      /\ typed \in Nat /\ typed + 1 \in Keys /\ typed + 1 <= MaxEvents
  BY BoundsAssumption DEF PollsInv, TypeInv, TypeOK, SessionInv, TypeKey, Keys
<1>2. <<typed + 1>> \in Seq(Keys) /\ <<typed + 1>> # <<>>
  BY <1>1
<1>3. SendKeys(keysInFlight, <<typed + 1>>) /\ connected
  BY DEF TypeKey
<1> DEFINE new == KeyPress(session, pendingKeys \o <<typed + 1>>)
<1>4. /\ keysInFlight' \in BOOLEAN /\ pendingKeys' \in Seq(Keys) /\ Polls' = Polls
      /\ \A r \in requests' : r \in requests \/ r = new
      /\ new.session \in Sessions /\ new.keys \in Seq(Keys) /\ new.keys # <<>> /\ new.kind = "keys"
  <2>1. new.kind = "keys" /\ new.keys = pendingKeys \o <<typed + 1>>
    BY DEF KeyPress
  <2> QED BY <1>1, <1>2, <1>3, <2>1, SendKeysTypes
<1> HIDE DEF new
<1>5. /\ typed' = typed + 1 /\ events' = events + 1 /\ events < MaxEvents
      /\ forSession' = [forSession EXCEPT ![typed + 1] = session]
      /\ UNCHANGED <<session, connected, button, screen, replies, daemon, shells, reconnects,
                     faults, lostKeys, spoiled, overtaken>>
  BY DEF TypeKey
<1>6. TypeInv'
  <2>1. TypeOK'
    BY <1>1, <1>4, <1>5, BoundsAssumption DEF PollsInv, TypeInv, TypeOK, daemon, shells
  <2>2. \A r \in requests' : \/ r.kind = "poll" /\ r.keys = <<>>
                             \/ r.kind = "keys" /\ r.keys # <<>> /\ r.session # None
    BY <1>4, SessionFacts DEF PollsInv, TypeInv
  <2>3. forSession' \in [Keys -> Sessions \cup {None}] /\ typed' <= events'
        /\ \A s \in Sessions : outputs'[s] <= events'
    BY <1>1, <1>5 DEF PollsInv, TypeInv, TypeOK, shells
  <2> QED BY <1>5, <2>1, <2>2, <2>3 DEF PollsInv, TypeInv
<1>7. PollIsSomewhere'
  BY <1>4, <1>5 DEF PollsInv, PollIsSomewhere, Polls, Kept, Answers, OfKind, daemon
<1>8. SessionInv'
  <2>1. \A k \in 1..typed' : forSession'[k] = IF k = typed + 1 THEN session ELSE forSession[k]
    BY <1>1, <1>5 DEF PollsInv, TypeInv, Keys
  <2>2. \A k \in 1..typed' : k = typed + 1 \/ k \in 1..typed
    BY <1>1, <1>5
  <2>3. Kept' = Kept /\ Answers' = Answers
    BY <1>5 DEF Kept, Answers, daemon
  <2>4. session # None
    BY <1>1, SessionFacts
  <2> QED BY <1>1, <1>3, <1>4, <1>5, <2>1, <2>2, <2>3, <2>4 DEF PollsInv, SessionInv, daemon
<1> QED BY <1>6, <1>7, <1>8 DEF PollsInv

LEMMA KeyPressReadyStateChangePolls == PollsInv /\ KeyPressReadyStateChange => PollsInv'
<1> SUFFICES ASSUME PollsInv, KeyPressReadyStateChange PROVE PollsInv'
  OBVIOUS
<1>1. PICK a \in OfKind("keys", replies) :
        /\ replies' = replies \ {a}
        /\ IF connected /\ pendingKeys # <<>>
           THEN SendKeys(FALSE, <<>>)
           ELSE keysInFlight' = FALSE /\ UNCHANGED <<pendingKeys, requests>>
        /\ UNCHANGED <<session, connected, button, screen, daemon, shells, bounds, history>>
  BY DEF KeyPressReadyStateChange
<1>2. Answers' = Answers
  BY <1>1 DEF Answers, OfKind
<1>3. /\ Polls' = Polls /\ keysInFlight' \in BOOLEAN /\ pendingKeys' \in Seq(Keys)
      /\ \A r \in requests' :
           \/ r \in requests
           \/ r.session \in Sessions /\ r.keys \in Seq(Keys) /\ r.keys # <<>> /\ r.kind = "keys"
  <2>1. CASE connected /\ pendingKeys # <<>>
    <3> DEFINE new == KeyPress(session, pendingKeys \o <<>>)
    <3>1. new.kind = "keys" /\ new.keys = pendingKeys \o <<>>
      BY PollKinds
    <3>2. SendKeys(FALSE, <<>>)
      BY <1>1, <2>1
    <3> QED BY <2>1, <3>1, <3>2, SendKeysTypes, NothingIsASequence
  <2>2. CASE ~(connected /\ pendingKeys # <<>>)
    <3>1. keysInFlight' = FALSE /\ pendingKeys' = pendingKeys /\ requests' = requests
      BY <1>1, <2>2
    <3> QED BY <3>1 DEF PollsInv, TypeInv, TypeOK, Polls, OfKind
  <2> QED BY <2>1, <2>2
<1>4. TypeOK'
  BY <1>1, <1>3 DEF PollsInv, TypeInv, TypeOK, daemon, shells, bounds, history
<1>5. TypeInv'
  BY <1>1, <1>3, <1>4, SessionFacts DEF PollsInv, TypeInv, TypeOK, daemon, shells, bounds, history
<1> QED BY <1>1, <1>2, <1>3, <1>5, KeepPolls DEF daemon, bounds, history

(* An answer to a poll: 400 closes the session, 200 is the session's own. *)
AnswerEffect(a) ==
  LET ok == a.status = 200
      closed == a.status = 400
  IN /\ a \in replies /\ a.kind = "poll" /\ a.status \in {0, 200, 400} /\ a.data \in Pieces
     /\ ok => /\ a.session \in Sessions /\ session \in {None, a.session} /\ state[a.session] # "none"
              /\ a.session # None
     /\ replies' = replies \ {a}
     /\ screen' = IF ok THEN [screen EXCEPT ![a.session] = @ \o a.data] ELSE screen
     /\ session' = IF closed THEN None ELSE IF ok THEN a.session ELSE session
     /\ connected' = (~closed /\ (connected \/ ok))
     /\ button' = closed
     /\ requests' = IF closed THEN requests ELSE requests \cup {Poll(session')}
     /\ UNCHANGED <<pendingKeys, keysInFlight, daemon, shells, bounds, history>>
     /\ ~button /\ Polls = {} /\ Kept = {} /\ Answers = {a}

LEMMA OnReadyStateChangeEffect ==
  ASSUME PollsInv, OnReadyStateChange
  PROVE  \E a \in Answers : AnswerEffect(a)
<1>1. PICK a \in Answers :
        LET ok == a.status = 200
            closed == a.status = 400 \/ (ok /\ session \notin {None, a.session})
        IN /\ replies' = replies \ {a}
           /\ screen' = IF ok THEN [screen EXCEPT ![a.session] = @ \o a.data] ELSE screen
           /\ session' = IF closed THEN None ELSE IF ok THEN a.session ELSE session
           /\ connected' = (~closed /\ (connected \/ ok))
           /\ button' = (button \/ closed)
           /\ SendRequest(closed, session')
           /\ UNCHANGED <<pendingKeys, keysInFlight, daemon, shells, bounds, history>>
  BY DEF OnReadyStateChange, Answers
<1> DEFINE ok == a.status = 200
           closed == a.status = 400
<1>2. ~button /\ Polls = {} /\ Kept = {} /\ Answers = {a}
  BY TheAnswer DEF PollsInv
<1>3. /\ a \in replies /\ a.kind = "poll" /\ a.status \in {0, 200, 400} /\ a.data \in Pieces
      /\ ok => a.session \in Sessions /\ session \in {None, a.session} /\ state[a.session] # "none"
      /\ ok => a.session # None
  BY SessionFacts DEF PollsInv, TypeInv, TypeOK, SessionInv, Answers, OfKind
<1>4. ok /\ session \notin {None, a.session} <=> FALSE
  BY <1>3
<1>5. /\ replies' = replies \ {a}
      /\ screen' = IF ok THEN [screen EXCEPT ![a.session] = @ \o a.data] ELSE screen
      /\ session' = IF closed THEN None ELSE IF ok THEN a.session ELSE session
      /\ connected' = (~closed /\ (connected \/ ok))
      /\ UNCHANGED <<pendingKeys, keysInFlight, daemon, shells, bounds, history>>
  BY <1>1, <1>4
<1>6. button' = closed
  BY <1>1, <1>2, <1>4
<1>7. requests' = IF closed THEN requests ELSE requests \cup {Poll(session')}
  BY <1>1, <1>4 DEF SendRequest
<1> QED BY <1>2, <1>3, <1>5, <1>6, <1>7 DEF AnswerEffect

LEMMA OnReadyStateChangePolls == PollsInv /\ OnReadyStateChange => PollsInv'
<1> SUFFICES ASSUME PollsInv, OnReadyStateChange PROVE PollsInv'
  OBVIOUS
<1>1. PICK a \in Answers : AnswerEffect(a)
  BY OnReadyStateChangeEffect
<1> DEFINE ok == a.status = 200
           closed == a.status = 400
<1>2. ~button /\ Polls = {} /\ Kept = {} /\ Answers = {a}
  BY <1>1 DEF AnswerEffect
<1>3. /\ a \in replies /\ a.kind = "poll" /\ a.status \in {0, 200, 400} /\ a.data \in Pieces
      /\ ok => a.session \in Sessions /\ session \in {None, a.session} /\ state[a.session] # "none"
      /\ ok => a.session # None
  BY <1>1 DEF AnswerEffect
<1>4. /\ replies' = replies \ {a}
      /\ screen' = IF ok THEN [screen EXCEPT ![a.session] = @ \o a.data] ELSE screen
      /\ session' = IF closed THEN None ELSE IF ok THEN a.session ELSE session
      /\ connected' = (~closed /\ (connected \/ ok))
      /\ button' = closed
      /\ requests' = IF closed THEN requests ELSE requests \cup {Poll(session')}
      /\ UNCHANGED <<pendingKeys, keysInFlight, daemon, shells, bounds, history>>
  BY <1>1 DEF AnswerEffect
<1>5. /\ Answers' = {} /\ Kept' = {}
      /\ Polls' = IF closed THEN {} ELSE {Poll(session')}
  <2>1. Answers' = {} /\ Kept' = {}
    BY <1>2, <1>4 DEF Answers, Kept, OfKind, daemon
  <2>2. Poll(session').kind = "poll"
    BY PollKinds
  <2> QED BY <1>2, <1>4, <2>1, <2>2 DEF Polls, OfKind
<1>6. session' \in Sessions \cup {None} /\ session \in Sessions \cup {None}
  BY <1>3, <1>4 DEF PollsInv, TypeInv, TypeOK
<1>7. TypeInv'
  <2>1. screen' \in [Sessions -> Pieces]
    BY <1>3, <1>4, ConcatProperties DEF PollsInv, TypeInv, TypeOK, Pieces
  <2>2. \A r \in requests' :
          \/ r \in requests
          \/ r.session \in Sessions \cup {None} /\ r.keys = <<>> /\ r.kind = "poll"
    <3> DEFINE p == Poll(session')
    <3>1. p.session = session' /\ p.keys = <<>> /\ p.kind = "poll"
      BY DEF Poll
    <3> HIDE DEF p
    <3>2. \A r \in requests' : r \in requests \/ r = p
      BY <1>4 DEF p
    <3> QED BY <1>6, <3>1, <3>2
  <2>3. connected' \in BOOLEAN /\ button' \in BOOLEAN
    BY <1>4
  <2>4. \A r \in requests' : r.session \in Sessions \cup {None} /\ r.keys \in Seq(Keys)
    BY <2>2, NothingIsASequence, RequestTypes
  <2>5. TypeOK'
    BY <1>4, <1>6, <2>1, <2>3, <2>4
    DEF PollsInv, TypeInv, TypeOK, daemon, shells, bounds, history
  <2> QED BY <1>4, <2>2, <2>5 DEF PollsInv, TypeInv, daemon, shells, bounds, history
<1>8. PollIsSomewhere'
  <2>1. CASE closed
    BY <1>4, <1>5, <2>1 DEF PollIsSomewhere
  <2>2. CASE ~closed
    <3>1. Poll(session') \in requests' /\ Polls' = {Poll(session')} /\ ~button'
      BY <1>4, <1>5, <2>2
    <3> QED BY <1>5, <3>1 DEF PollIsSomewhere
  <2> QED BY <2>1, <2>2
<1>9. SessionInv'
  <2>1. \A r \in Polls' : r.session = session'
    BY <1>5, PollKinds
  <2>2. /\ connected <=> session # None
        /\ session # None => state[session] # "none"
        /\ \A s \in Sessions : state[s] = "done" => buffered[s] # <<>>
        /\ \A k \in 1..typed : forSession[k] \in Sessions /\ state[forSession[k]] # "none"
    BY DEF PollsInv, SessionInv
  <2>3. /\ connected' <=> session' # None
        /\ button' => session' = None
        /\ session' # None => state[session'] # "none"
    BY <1>3, <1>4, <2>2
  <2> HIDE DEF closed, ok
  <2>4. UNCHANGED <<state, buffered, forSession, typed>>
    BY <1>4 DEF daemon, bounds, history
  <2> QED BY <1>5, <2>1, <2>2, <2>3, <2>4 DEF SessionInv
<1> QED BY <1>7, <1>8, <1>9 DEF PollsInv

LEMMA ReconnectPolls == PollsInv /\ Reconnect => PollsInv'
<1> SUFFICES ASSUME PollsInv, Reconnect PROVE PollsInv'
  OBVIOUS
<1>1. /\ button /\ reconnects < MaxReconnects
      /\ button' = FALSE /\ pendingKeys' = <<>> /\ keysInFlight' = FALSE
      /\ requests' = requests \cup {Poll(None)}
      /\ reconnects' = reconnects + 1 /\ overtaken' = (overtaken \/ keysInFlight)
      /\ UNCHANGED <<session, connected, screen, replies, daemon, shells, typed, events, faults,
                     forSession, lostKeys, spoiled>>
  BY DEF Reconnect
<1>2. Poll(None).kind = "poll" /\ Poll(None).session = None /\ Poll(None).keys = <<>>
  BY PollKinds
<1>3. Polls = {} /\ Kept = {} /\ Answers = {} /\ session = None
  BY <1>1 DEF PollsInv, PollIsSomewhere, SessionInv
<1>4. Polls' = {Poll(None)} /\ Kept' = {} /\ Answers' = {}
  BY <1>1, <1>2, <1>3 DEF Polls, Kept, Answers, OfKind, daemon
<1>5. TypeInv'
  <2>1. \A r \in requests' : r \in requests \/ r = Poll(None)
    BY <1>1
  <2>2. \A r \in requests' : r.session \in Sessions \cup {None} /\ r.keys \in Seq(Keys)
    BY <1>2, <2>1, NothingIsASequence, RequestTypes
  <2>3. reconnects' \in 0..MaxReconnects /\ pendingKeys' \in Seq(Keys)
    BY <1>1, BoundsAssumption, NothingIsASequence DEF PollsInv, TypeInv, TypeOK
  <2>4. TypeOK'
    BY <1>1, <2>2, <2>3 DEF PollsInv, TypeInv, TypeOK, daemon, shells
  <2> QED BY <1>1, <1>2, <2>1, <2>4 DEF PollsInv, TypeInv, daemon, shells
<1>6. PollIsSomewhere'
  BY <1>1, <1>4 DEF PollIsSomewhere
<1>7. SessionInv'
  BY <1>1, <1>2, <1>3, <1>4 DEF PollsInv, SessionInv, daemon
<1> QED BY <1>5, <1>6, <1>7 DEF PollsInv

(* What completePendingRequest does to sessions, kept polls and answers. *)
CompletedSessions(s) ==
  /\ state' \in [Sessions -> {"none", "live", "done", "gone"}]
  /\ http' \in [Sessions -> {"none", "open", "broken"}]
  /\ buffered' \in [Sessions -> Pieces] /\ spoiled' \subseteq Sessions
  /\ \A t \in Sessions : http'[t] # "none" => state'[t] = "live" /\ buffered'[t] = <<>>
  /\ \A t \in Sessions : state'[t] = "done" => buffered'[t] # <<>>
  /\ \A t \in Sessions : t = s \/ state[t] # "none" => state'[t] # "none"
  /\ Kept' = Kept \ {s}

AnswerAdded(s, a) ==
  /\ replies' = replies \cup {a} /\ Answers' = Answers \cup {a}
  /\ a.kind = "poll" /\ a.status = 200 /\ a.session = s
  /\ a.data \in Pieces /\ a.data \in Seq(Nat)

CompletedAnswers(s, h) ==
  IF h = "open" THEN \E a : AnswerAdded(s, a) ELSE replies' = replies /\ Answers' = Answers

LEMMA CompletePolls ==
  ASSUME PollsInv, NEW s \in Sessions, NEW h, NEW more \in Pieces, NEW max \in Nat,
         NEW over \in BOOLEAN, CompletePendingRequest(s, h, more, max, over, replies)
  PROVE  CompletedSessions(s) /\ CompletedAnswers(s, h)
<1>1. /\ state \in [Sessions -> {"none", "live", "done", "gone"}]
      /\ http \in [Sessions -> {"none", "open", "broken"}]
      /\ buffered \in [Sessions -> Pieces] /\ spoiled \subseteq Sessions
      /\ \A t \in Sessions : http[t] # "none" => state[t] = "live" /\ buffered[t] = <<>>
      /\ \A t \in Sessions : state[t] = "done" => buffered[t] # <<>>
  BY DEF PollsInv, TypeInv, TypeOK, SessionInv
<1>2. PICK data, rest \in Pieces : Completes(s, h, more, over, replies, data, rest)
  <2>1. buffered[s] \in Pieces
    BY <1>1
  <2> QED BY <2>1, Complete
<1> DEFINE a == Reply("poll", 200, s, data)
<1>3. /\ a.kind = "poll" /\ a.status = 200 /\ a.session = s /\ a.data = data
  BY DEF Reply
<1>4. data \in Seq(Nat)
  <2>1. 1..MaxEvents \subseteq Nat
    OBVIOUS
  <2> QED BY <2>1, SeqMonotonic DEF Pieces
<1> HIDE DEF a
<1>5. replies' = IF h = "open" THEN replies \cup {a} ELSE replies
  BY <1>2 DEF a, Completes
<1>6. Answers' = IF h = "open" THEN Answers \cup {a} ELSE Answers
  BY <1>3, <1>5 DEF Answers, OfKind
<1>7. Kept' = Kept \ {s}
  BY <1>1, <1>2 DEF Kept, Completes
<1>8. /\ state' \in [Sessions -> {"none", "live", "done", "gone"}]
      /\ http' \in [Sessions -> {"none", "open", "broken"}]
      /\ buffered' \in [Sessions -> Pieces] /\ spoiled' \subseteq Sessions
  BY <1>1, <1>2 DEF Completes
<1>9. \A t \in Sessions :
        /\ http'[t] = IF t = s THEN "none" ELSE http[t]
        /\ buffered'[t] = IF t = s THEN rest ELSE buffered[t]
        /\ t # s => state'[t] = state[t]
        /\ state'[s] \in {"live", "gone", "done"} /\ (state'[s] = "done" => rest # <<>>)
  BY <1>1, <1>2 DEF Completes
<1>10. CompletedSessions(s)
  BY <1>1, <1>7, <1>8, <1>9 DEF CompletedSessions
<1>11. CompletedAnswers(s, h)
  BY <1>3, <1>4, <1>5, <1>6 DEF CompletedAnswers, AnswerAdded
<1> QED BY <1>10, <1>11

LEMMA CompleteTypes ==
  ASSUME PollsInv, NEW s \in Sessions, NEW h, NEW more \in Pieces, NEW max \in Nat,
         NEW over \in BOOLEAN, CompletePendingRequest(s, h, more, max, over, replies),
         requests' \subseteq requests, unread' \in [Sessions -> Pieces], exited' \subseteq Sessions,
         UNCHANGED <<page, input, outputs, bounds, forSession, lostKeys, overtaken>>
  PROVE  TypeInv'
<1>1. /\ state' \in [Sessions -> {"none", "live", "done", "gone"}]
      /\ http' \in [Sessions -> {"none", "open", "broken"}]
      /\ buffered' \in [Sessions -> Pieces] /\ spoiled' \subseteq Sessions
      /\ \A t \in Sessions : http'[t] # "none" => state'[t] = "live" /\ buffered'[t] = <<>>
  BY CompletePolls DEF CompletedSessions
<1>2. \A a \in replies' :
        \/ a \in replies
        \/ /\ a.kind = "poll" /\ a.status = 200 /\ a.session \in Sessions
           /\ a.data \in Pieces /\ a.data \in Seq(Nat)
  <2>1. CompletedAnswers(s, h)
    BY CompletePolls
  <2> QED BY <2>1 DEF CompletedAnswers, AnswerAdded
<1>3. TypeOK'
  BY <1>1, <1>2 DEF PollsInv, TypeInv, TypeOK, page, bounds
<1> QED BY <1>2, <1>3 DEF PollsInv, TypeInv, bounds

(* The daemon answers the poll it kept, if it did. *)
LEMMA CompleteKept ==
  ASSUME PollsInv, NEW s \in Sessions, NEW more \in Pieces, NEW max \in Nat,
         NEW over \in BOOLEAN, CompletePendingRequest(s, http[s], more, max, over, replies),
         unread' \in [Sessions -> Pieces], exited' \subseteq Sessions,
         UNCHANGED <<page, requests, input, outputs, bounds, forSession, lostKeys, overtaken>>
  PROVE  PollsInv'
<1>1. TypeInv'
  BY CompleteTypes
<1>2. CompletedSessions(s) /\ CompletedAnswers(s, http[s])
  BY CompletePolls
<1>3. Polls' = Polls
  BY DEF Polls
<1>4. UNCHANGED <<session, connected, button, requests, typed, forSession>>
  BY DEF page, bounds
<1>5. CASE http[s] # "open"
  <2>1. Kept' = Kept /\ Answers' = Answers /\ replies' = replies
    BY <1>2, <1>5 DEF Kept, CompletedSessions, CompletedAnswers
  <2>2. PollIsSomewhere'
    BY <1>3, <1>4, <2>1 DEF PollsInv, PollIsSomewhere
  <2>3. \A a \in Answers : a.status = 200 => a.session \in Sessions
    BY DEF PollsInv, TypeInv, Answers, OfKind
  <2>4. session \in Sessions \cup {None}
    BY DEF PollsInv, TypeInv, TypeOK
  <2>5. SessionInv'
    BY <1>2, <1>3, <1>4, <2>1, <2>3, <2>4 DEF PollsInv, SessionInv, CompletedSessions
  <2> QED BY <1>1, <2>2, <2>5 DEF PollsInv
<1>6. CASE http[s] = "open"
  <2>1. ~button /\ Polls = {} /\ Kept = {s} /\ Answers = {} /\ s = session
    <3>1. s \in Kept
      BY <1>6 DEF Kept
    <3> QED BY <3>1, TheKept DEF PollsInv, SessionInv
  <2>2. PICK a : /\ replies' = replies \cup {a} /\ Answers' = {a}
                 /\ a.status = 200 /\ a.session = s
    BY <1>2, <1>6, <2>1 DEF CompletedAnswers, AnswerAdded
  <2>3. Kept' = {} /\ Polls' = {} /\ ~button' /\ a \in replies'
    BY <1>2, <1>3, <1>4, <2>1, <2>2 DEF CompletedSessions
  <2>4. PollIsSomewhere'
    BY <2>2, <2>3 DEF PollIsSomewhere
  <2>5. SessionInv'
    <3>1. \A b \in Answers' : b.session = session /\ state'[session] # "none"
      BY <1>2, <2>1, <2>2 DEF CompletedSessions
    <3> QED BY <1>2, <1>4, <2>1, <2>3, <3>1, SessionFacts
            DEF PollsInv, SessionInv, CompletedSessions
  <2> QED BY <1>1, <2>4, <2>5 DEF PollsInv
<1> QED BY <1>5, <1>6

LEMMA HandlePollPolls == ASSUME PollsInv, NEW r \in Polls, HandlePoll(r) PROVE PollsInv'
<1>1. /\ requests' = requests \ {r}
      /\ UNCHANGED <<page, input, shells, bounds, forSession, lostKeys, overtaken>>
  BY DEF HandlePoll
<1>2. ~button /\ Polls = {r} /\ Kept = {} /\ Answers = {} /\ r.session = session
  BY ThePoll DEF PollsInv, SessionInv
<1>3. Polls' = {} /\ ~button'
  BY <1>1, <1>2 DEF Polls, OfKind, page
<1>4. UNCHANGED <<session, connected, button, typed, forSession>>
  BY <1>1 DEF page, bounds
<1>5. /\ session \in Sessions \cup {None}
      /\ session # None => state[session] # "none"
      /\ connected <=> session # None
      /\ \A k \in 1..typed : forSession[k] \in Sessions /\ state[forSession[k]] # "none"
      /\ \A s \in Sessions : state[s] = "done" => buffered[s] # <<>>
      /\ state \in [Sessions -> {"none", "live", "done", "gone"}]
      /\ http \in [Sessions -> {"none", "open", "broken"}]
  BY DEF PollsInv, TypeInv, TypeOK, SessionInv
<1>6. ASSUME NEW s \in Sessions, NEW over \in BOOLEAN,
             s = session \/ (session = None /\ state[s] = "none"),
             CompletePendingRequest(s, "open", <<>>, MaxResponse, over, replies)
      PROVE  PollsInv'
  <2>1. TypeInv'
    <3>1. unread' \in [Sessions -> Pieces] /\ exited' \subseteq Sessions /\ requests' \subseteq requests
      BY <1>1 DEF PollsInv, TypeInv, TypeOK, shells
    <3>2. UNCHANGED <<page, input, outputs, bounds, forSession, lostKeys, overtaken>>
      BY <1>1 DEF shells
    <3>3. MaxResponse \in Nat
      BY BoundsAssumption
    <3> QED BY <1>6, <3>1, <3>2, <3>3, CompleteTypes, NothingIsASequence
  <2>2. CompletedSessions(s) /\ CompletedAnswers(s, "open")
    <3>1. MaxResponse \in Nat
      BY BoundsAssumption
    <3> QED BY <1>6, <3>1, CompletePolls, NothingIsASequence
  <2>3. PICK a : /\ replies' = replies \cup {a} /\ Answers' = {a}
                 /\ a.status = 200 /\ a.session = s
    BY <1>2, <2>2 DEF CompletedAnswers, AnswerAdded
  <2>4. Kept' = {} /\ a \in replies'
    BY <1>2, <2>2, <2>3 DEF CompletedSessions
  <2>5. PollIsSomewhere'
    BY <1>3, <2>3, <2>4 DEF PollIsSomewhere
  <2>6. SessionInv'
    <3>1. \A b \in Answers' :
            /\ session \in {None, b.session} /\ state'[b.session] # "none"
            /\ session = None => \A k \in 1..typed : forSession[k] # b.session
      <4>1. session = None => \A k \in 1..typed : forSession[k] # s
        BY <1>5, <1>6, SessionFacts
      <4>2. session \in {None, s} /\ state'[s] # "none"
        BY <1>6, <2>2 DEF CompletedSessions
      <4> QED BY <2>3, <4>1, <4>2
    <3>2. \A k \in 1..typed : forSession[k] \in Sessions /\ state'[forSession[k]] # "none"
      BY <1>5, <2>2 DEF CompletedSessions
    <3>3. session # None => state'[session] # "none"
      BY <1>5, <2>2 DEF CompletedSessions
    <3>4. \A t \in Sessions : state'[t] = "done" => buffered'[t] # <<>>
      BY <2>2 DEF CompletedSessions
    <3> QED BY <1>2, <1>3, <1>4, <1>5, <2>4, <3>1, <3>2, <3>3, <3>4 DEF SessionInv
  <2> QED BY <2>1, <2>5, <2>6 DEF PollsInv
<1>7. CASE NewSession(r)
  <2>1. PICK s \in Sessions : /\ state[s] = "none" /\ session = None
                             /\ CompletePendingRequest(s, "open", <<>>, MaxResponse, FALSE, replies)
    BY <1>2, <1>7 DEF NewSession
  <2> QED BY <1>6, <2>1
<1>8. CASE AnswerPoll(r)
  <2>1. PICK s \in Sessions : s = session /\ r.session = s
    BY <1>2, <1>5, <1>8 DEF AnswerPoll
  <2>2. CASE state[s] = "done"
    <3>1. CompletePendingRequest(s, "open", <<>>, MaxResponse, TRUE, replies)
      BY <1>8, <2>1, <2>2 DEF AnswerPoll, CompletePendingRequest
    <3>2. s = session \/ (session = None /\ state[s] = "none")
      BY <2>1
    <3> QED BY <1>6, <3>1, <3>2
  <2>3. CASE state[s] # "done"
    <3>1. CompletePendingRequest(s, "open", <<>>, MaxResponse, FALSE, replies)
      BY <1>8, <2>1, <2>3 DEF AnswerPoll, CompletePendingRequest
    <3>2. s = session \/ (session = None /\ state[s] = "none")
      BY <2>1
    <3> QED BY <1>6, <3>1, <3>2
  <2> QED BY <2>2, <2>3
<1>9. CASE NoSession(r)
  <2>1. /\ replies' = replies \cup {Reply("poll", 400, None, <<>>)}
        /\ UNCHANGED <<state, http, buffered, spoiled>>
    BY <1>9 DEF NoSession
  <2> DEFINE a == Reply("poll", 400, None, <<>>)
  <2>2. a.kind = "poll" /\ a.status = 400 /\ a.data = <<>>
    BY DEF Reply
  <2> HIDE DEF a
  <2>3. replies' = replies \cup {a}
    BY <2>1 DEF a
  <2>4. Answers' = {a} /\ Kept' = {}
    BY <1>2, <2>1, <2>2, <2>3 DEF Answers, Kept, OfKind
  <2>5. TypeOK'
    <3>1. \A b \in replies' : b.status \in {0, 200, 400} /\ b.data \in Seq(Nat)
      <4>1. a.status \in {0, 200, 400}
        BY <2>2
      <4>2. a.data \in Seq(Nat)
        BY <2>2, NothingIsASequence
      <4> QED BY <2>3, <4>1, <4>2, ReplyTypes
    <3> QED BY <1>1, <2>1, <3>1 DEF PollsInv, TypeInv, TypeOK, page, shells, bounds
  <2>6. TypeInv'
    BY <1>1, <2>2, <2>3, <2>5, NothingIsASequence DEF PollsInv, TypeInv, bounds, shells
  <2>7. PollIsSomewhere'
    BY <1>3, <2>3, <2>4 DEF PollIsSomewhere
  <2>8. SessionInv'
    <3>1. \A b \in Answers' : b.status # 200
      BY <2>2, <2>4
    <3> QED BY <1>2, <1>3, <1>4, <1>5, <2>1, <2>4, <3>1 DEF SessionInv
  <2> QED BY <2>6, <2>7, <2>8 DEF PollsInv
<1>10. CASE KeepPoll(r)
  <2>1. /\ session \in Sessions /\ state[session] # "gone" /\ buffered[session] = <<>>
        /\ http' = [http EXCEPT ![session] = "open"]
        /\ UNCHANGED <<replies, state, buffered, spoiled>>
    <3>1. r.session \in Sessions /\ r.session # None /\ state[r.session] # "gone"
      BY <1>2, <1>5, <1>10 DEF KeepPoll
    <3> QED BY <1>2, <1>10, <3>1 DEF KeepPoll
  <2>2. state[session] = "live"
    BY <1>5, <2>1, SessionFacts
  <2>3. Answers' = {} /\ Kept' = {session}
    BY <1>2, <1>5, <2>1 DEF Answers, Kept, OfKind
  <2>4. TypeOK'
    BY <1>1, <2>1, <2>2 DEF PollsInv, TypeInv, TypeOK, page, shells, bounds
  <2>5. TypeInv'
    BY <1>1, <2>1, <2>4 DEF PollsInv, TypeInv, bounds, shells
  <2>6. PollIsSomewhere'
    BY <1>3, <2>1, <2>3 DEF PollIsSomewhere
  <2>7. SessionInv'
    BY <1>2, <1>3, <1>4, <1>5, <2>1, <2>3 DEF SessionInv
  <2> QED BY <2>5, <2>6, <2>7 DEF PollsInv
<1> QED BY <1>7, <1>8, <1>9, <1>10 DEF HandlePoll

LEMMA HandleKeysPolls == ASSUME PollsInv, NEW r \in Sent, HandleKeys(r) PROVE PollsInv'
<1> DEFINE a == Reply("keys", IF state[r.session] = "gone" THEN 400 ELSE 200, r.session, r.keys)
<1>1. /\ requests' = requests \ {r} /\ replies' = replies \cup {a}
      /\ input' = IF state[r.session] = "live" THEN [input EXCEPT ![r.session] = @ \o r.keys] ELSE input
      /\ UNCHANGED <<page, state, http, buffered, shells, bounds, history>>
  BY DEF HandleKeys
<1>2. /\ r \in requests /\ r.kind = "keys" /\ r.session \in Sessions /\ r.keys \in Seq(Keys)
  BY DEF PollsInv, TypeInv, TypeOK, Sent, OfKind
<1>3. /\ a.kind = "keys" /\ a.status \in {400, 200} /\ a.data = r.keys /\ r.keys \in Seq(Nat)
  <2>1. Keys \subseteq Nat
    BY DEF Keys
  <2> QED BY <1>2, <2>1, SeqMonotonic DEF Reply
<1> HIDE DEF a
<1>4. Polls' = Polls /\ Answers' = Answers
  BY <1>1, <1>2, <1>3 DEF Polls, Answers, OfKind
<1>5. input' \in [Sessions -> Seq(Keys)]
  BY <1>1, <1>2, ConcatProperties DEF PollsInv, TypeInv, TypeOK
<1>6. \A b \in replies' : b.status \in {0, 200, 400} /\ b.data \in Seq(Nat)
  BY <1>1, <1>3, ReplyTypes
<1>7. TypeOK'
  BY <1>1, <1>5, <1>6 DEF PollsInv, TypeInv, TypeOK, page, shells, bounds, history
<1>8. TypeInv'
  BY <1>1, <1>3, <1>7 DEF PollsInv, TypeInv, shells, bounds, history
<1> QED BY <1>1, <1>4, <1>8, KeepPolls DEF page, bounds, history

LEMMA ReadPtyPolls == ASSUME PollsInv, NEW s \in Sessions, ReadPty(s) PROVE PollsInv'
<1> DEFINE n == Min({Len(unread[s]), MaxResponse - Len(buffered[s])})
<1>1. /\ Len(buffered[s]) < MaxResponse /\ unread[s] # <<>>
      /\ CompletePendingRequest(s, http[s], SubSeq(unread[s], 1, n), MaxResponse, FALSE, replies)
      /\ unread' = [unread EXCEPT ![s] = SubSeq(@, n + 1, Len(@))]
      /\ UNCHANGED <<page, requests, input, exited, outputs, bounds, forSession, lostKeys, overtaken>>
  BY DEF ReadPty
<1>2. /\ unread \in [Sessions -> Pieces] /\ buffered[s] \in Pieces /\ unread[s] \in Pieces
      /\ exited \subseteq Sessions
  BY DEF PollsInv, TypeInv, TypeOK
<1>3. /\ SubSeq(unread[s], 1, n) \in Pieces /\ SubSeq(unread[s], n + 1, Len(unread[s])) \in Pieces
      /\ MaxResponse \in Nat
  BY <1>1, <1>2, SplitPty
<1> HIDE DEF n
<1>4. unread' \in [Sessions -> Pieces] /\ exited' \subseteq Sessions
  BY <1>1, <1>2, <1>3
<1> QED BY <1>1, <1>3, <1>4, CompleteKept

LEMMA SessionDonePolls == ASSUME PollsInv, NEW s \in Sessions, SessionDone(s) PROVE PollsInv'
<1>1. /\ CompletePendingRequest(s, http[s], <<>>, MaxEvents, TRUE, replies)
      /\ exited' = exited \ {s}
      /\ UNCHANGED <<page, requests, input, unread, outputs, bounds, forSession, lostKeys, overtaken>>
  BY DEF SessionDone
<1>2. unread' \in [Sessions -> Pieces] /\ exited' \subseteq Sessions /\ MaxEvents \in Nat
  BY <1>1, BoundsAssumption DEF PollsInv, TypeInv, TypeOK
<1> QED BY <1>1, <1>2, CompleteKept, NothingIsASequence

LEMMA TimeOutPolls == ASSUME PollsInv, NEW s \in Sessions, TimeOut(s) PROVE PollsInv'
<1>1. /\ CompletePendingRequest(s, http[s], <<>>, MaxResponse, FALSE, replies)
      /\ UNCHANGED <<page, requests, input, shells, bounds, forSession, lostKeys, overtaken>>
  BY DEF TimeOut
<1>2. /\ unread' \in [Sessions -> Pieces] /\ exited' \subseteq Sessions /\ MaxResponse \in Nat
      /\ outputs' = outputs
  BY <1>1, BoundsAssumption DEF PollsInv, TypeInv, TypeOK, shells
<1> QED BY <1>1, <1>2, CompleteKept, NothingIsASequence

(* The daemon ends a session whose poll is not there, or cut off; the shell goes on. *)
LEMMA SessionEnds ==
  ASSUME PollsInv, NEW s \in Sessions, state[s] # "none", http[s] # "open",
         state' \in [Sessions -> {"none", "live", "done", "gone"}],
         state'[s] \in {"done", "gone"}, \A t \in Sessions \ {s} : state'[t] = state[t],
         http' = [http EXCEPT ![s] = "none"],
         buffered' \in [Sessions -> Pieces], \A t \in Sessions \ {s} : buffered'[t] = buffered[t],
         state'[s] = "done" => buffered'[s] # <<>>,
         unread' \in [Sessions -> Pieces], exited' \subseteq Sessions, spoiled' \subseteq Sessions,
         UNCHANGED <<page, wire, input, outputs, bounds, forSession, lostKeys, overtaken>>
  PROVE  PollsInv'
<1>1. http \in [Sessions -> {"none", "open", "broken"}]
  BY DEF PollsInv, TypeInv, TypeOK
<1>2. /\ http' \in [Sessions -> {"none", "open", "broken"}]
      /\ \A t \in Sessions : http'[t] # "none" => state'[t] = "live" /\ buffered'[t] = <<>>
  BY <1>1 DEF PollsInv, TypeInv, TypeOK
<1>3. TypeOK'
  BY <1>2 DEF PollsInv, TypeInv, TypeOK, page, wire, bounds
<1>4. TypeInv'
  BY <1>3 DEF PollsInv, TypeInv, wire, bounds
<1>5. Polls' = Polls /\ Answers' = Answers /\ Kept' = Kept
  BY <1>1 DEF Polls, Kept, Answers, wire
<1>6. PollIsSomewhere'
  BY <1>5 DEF PollsInv, PollIsSomewhere, page, wire
<1>7. SessionInv'
  <2>1. \A t \in Sessions : state[t] # "none" => state'[t] # "none"
    OBVIOUS
  <2>2. \A t \in Sessions : state'[t] = "done" => buffered'[t] # <<>>
    BY DEF PollsInv, SessionInv
  <2>3. session \in Sessions \cup {None} /\ \A a \in Answers : a.status = 200 => a.session \in Sessions
    BY DEF PollsInv, TypeInv, TypeOK, Answers, OfKind
  <2> QED BY <1>5, <2>1, <2>2, <2>3 DEF PollsInv, SessionInv, page, bounds
<1> QED BY <1>4, <1>6, <1>7 DEF PollsInv

LEMMA ClosePtyTypes ==
  ASSUME PollsInv, NEW s \in Sessions, ClosePty(s)
  PROVE  unread' \in [Sessions -> Pieces] /\ exited' \subseteq Sessions
BY NothingIsASequence DEF PollsInv, TypeInv, TypeOK, ClosePty

LEMMA SessionTypes ==
  ASSUME PollsInv
  PROVE  /\ state \in [Sessions -> {"none", "live", "done", "gone"}]
         /\ http \in [Sessions -> {"none", "open", "broken"}]
         /\ buffered \in [Sessions -> Pieces] /\ unread \in [Sessions -> Pieces]
         /\ exited \subseteq Sessions /\ spoiled \subseteq Sessions
         /\ outputs \in [Sessions -> 0..MaxEvents] /\ input \in [Sessions -> Seq(Keys)]
         /\ \A t \in Sessions : http[t] # "none" => state[t] = "live" /\ buffered[t] = <<>>
         /\ \A t \in Sessions : state[t] = "done" => buffered[t] # <<>>
BY DEF PollsInv, TypeInv, TypeOK, SessionInv

LEMMA AbandonPolls == ASSUME PollsInv, NEW s \in Sessions, Abandon(s) PROVE PollsInv'
<1>1. /\ state[s] = "live" /\ http[s] = "none" /\ spoiled' = spoiled \cup {s}
      /\ state' = [state EXCEPT ![s] = IF buffered[s] = <<>> THEN "gone" ELSE "done"]
      /\ ClosePty(s)
      /\ UNCHANGED <<page, wire, http, buffered, input, outputs, bounds, forSession, lostKeys, overtaken>>
  BY DEF Abandon
<1>2. /\ http' = [http EXCEPT ![s] = "none"] /\ spoiled' \subseteq Sessions
      /\ state' \in [Sessions -> {"none", "live", "done", "gone"}]
      /\ state'[s] = IF buffered[s] = <<>> THEN "gone" ELSE "done"
      /\ \A t \in Sessions \ {s} : state'[t] = state[t]
  BY <1>1, SessionTypes
<1>3. buffered' \in [Sessions -> Pieces]
  BY <1>1, SessionTypes
<1> QED BY <1>1, <1>2, <1>3, ClosePtyTypes, SessionEnds

LEMMA BuryPolls == ASSUME PollsInv, NEW s \in Sessions, Bury(s) PROVE PollsInv'
<1>1. /\ state[s] = "done" /\ state' = [state EXCEPT ![s] = "gone"] /\ spoiled' = spoiled \cup {s}
      /\ buffered' = [buffered EXCEPT ![s] = <<>>]
      /\ UNCHANGED <<page, wire, http, input, shells, bounds, forSession, lostKeys, overtaken>>
  BY DEF Bury
<1>2. /\ http[s] = "none" /\ http' = [http EXCEPT ![s] = "none"] /\ spoiled' \subseteq Sessions
      /\ state' \in [Sessions -> {"none", "live", "done", "gone"}] /\ state'[s] = "gone"
      /\ \A t \in Sessions \ {s} : state'[t] = state[t] /\ buffered'[t] = buffered[t]
      /\ buffered' \in [Sessions -> Pieces]
  BY <1>1, SessionTypes, NothingIsASequence
<1>3. unread' \in [Sessions -> Pieces] /\ exited' \subseteq Sessions /\ UNCHANGED outputs
  BY <1>1, SessionTypes DEF shells
<1> QED BY <1>1, <1>2, <1>3, SessionEnds

LEMMA NoticeClosePolls == ASSUME PollsInv, NEW s \in Sessions, NoticeClose(s) PROVE PollsInv'
<1>1. /\ http[s] = "broken" /\ http' = [http EXCEPT ![s] = "none"]
      /\ state' = [state EXCEPT ![s] = "gone"] /\ spoiled' = spoiled \cup {s}
      /\ ClosePty(s)
      /\ UNCHANGED <<page, wire, buffered, input, outputs, bounds, forSession, lostKeys, overtaken>>
  BY DEF NoticeClose
<1>2. /\ state[s] = "live" /\ spoiled' \subseteq Sessions
      /\ state' \in [Sessions -> {"none", "live", "done", "gone"}] /\ state'[s] = "gone"
      /\ \A t \in Sessions \ {s} : state'[t] = state[t]
      /\ buffered' \in [Sessions -> Pieces]
  BY <1>1, SessionTypes
<1> QED BY <1>1, <1>2, ClosePtyTypes, SessionEnds

LEMMA OutputPolls == ASSUME PollsInv, NEW s \in Sessions, Output(s) PROVE PollsInv'
<1>1. /\ events < MaxEvents /\ events' = events + 1
      /\ outputs' = [outputs EXCEPT ![s] = @ + 1]
      /\ unread' = [unread EXCEPT ![s] = Append(@, outputs[s] + 1)]
      /\ UNCHANGED <<page, wire, daemon, exited, typed, reconnects, faults, history>>
  BY DEF Output
<1>2. /\ outputs[s] \in Nat /\ outputs[s] <= events /\ events \in Nat /\ MaxEvents \in Nat
      /\ typed <= events /\ \A t \in Sessions : outputs[t] <= events
      /\ typed \in 0..MaxEvents
  BY BoundsAssumption DEF PollsInv, TypeInv, TypeOK
<1>3. /\ outputs[s] + 1 \in 1..MaxEvents /\ events' \in 0..MaxEvents
      /\ outputs' \in [Sessions -> 0..MaxEvents]
      /\ typed' <= events' /\ \A t \in Sessions : outputs'[t] <= events'
  BY <1>1, <1>2, SessionTypes
<1>4. unread' \in [Sessions -> Pieces]
  BY <1>1, <1>3, SessionTypes, AppendProperties DEF Pieces
<1>5. TypeOK'
  BY <1>1, <1>3, <1>4 DEF PollsInv, TypeInv, TypeOK, page, wire, daemon, history
<1>6. TypeInv'
  BY <1>1, <1>3, <1>5 DEF PollsInv, TypeInv, wire, history
<1> QED BY <1>1, <1>6, KeepPolls DEF page, wire, daemon, history, Polls, Answers

LEMMA ExitPolls == ASSUME PollsInv, NEW s \in Sessions, Exit(s) PROVE PollsInv'
<1>1. /\ exited' = exited \cup {s}
      /\ UNCHANGED <<page, wire, daemon, unread, outputs, bounds, history>>
  BY DEF Exit
<1>2. TypeOK'
  BY <1>1 DEF PollsInv, TypeInv, TypeOK, page, wire, daemon, bounds, history
<1>3. TypeInv'
  BY <1>1, <1>2 DEF PollsInv, TypeInv, wire, bounds, history
<1> QED BY <1>1, <1>3, KeepPolls DEF page, wire, daemon, bounds, history, Polls, Answers

(* A request, a kept poll or an answer is lost; the page gets an answer of status 0. *)
CutRequest(r) ==
  /\ requests' = requests \ {r}
  /\ replies' = replies \cup {Reply(r.kind, 0, r.session, r.keys)}
  /\ lostKeys' = lostKeys \cup ToSet(r.keys) /\ UNCHANGED <<http, spoiled>>

CutKept(s) ==
  /\ http[s] = "open" /\ http' = [http EXCEPT ![s] = "broken"]
  /\ replies' = replies \cup {Reply("poll", 0, s, <<>>)}
  /\ UNCHANGED <<requests, lostKeys, spoiled>>

CutAnswer(a) ==
  /\ a.status = 200 /\ spoiled' = spoiled \cup {a.session}
  /\ replies' = (replies \ {a}) \cup {Reply("poll", 0, a.session, <<>>)}
  /\ UNCHANGED <<requests, http, lostKeys>>

CutRest ==
  /\ faults < MaxFaults /\ faults' = faults + 1
  /\ UNCHANGED <<page, state, buffered, input, shells, typed, events, reconnects, forSession, overtaken>>

LEMMA CutCases ==
  Cut => /\ CutRest
         /\ \/ \E r \in requests : CutRequest(r)
            \/ \E s \in Sessions : CutKept(s)
            \/ \E a \in Answers : CutAnswer(a)
BY DEF Cut, CutRest, CutRequest, CutKept, CutAnswer, Answers

LEMMA ToSetIsRange == \A q : ToSet(q) = Range(q)
BY DEF ToSet, Range

(* The types after a cut, if the answer that takes the place of what is lost is one. *)
LEMMA CutTypes ==
  ASSUME PollsInv, CutRest, NEW a,
         a.status = 0, a.data \in Seq(Nat), a.kind = "keys" \/ (a.kind = "poll" /\ a.data = <<>>),
         requests' \subseteq requests, replies' \subseteq replies \cup {a},
         http' \in [Sessions -> {"none", "open", "broken"}], spoiled' \subseteq Sessions,
         \A t \in Sessions : http'[t] # "none" => http[t] # "none",
         lostKeys' \subseteq Keys
  PROVE  TypeInv'
<1>1. faults' \in 0..MaxFaults
  BY BoundsAssumption DEF PollsInv, TypeInv, TypeOK, CutRest
<1>2. \A b \in replies' : b.status \in {0, 200, 400} /\ b.data \in Seq(Nat)
  BY ReplyTypes
<1>3. TypeOK'
  <2>1. \A t \in Sessions : http'[t] # "none" => state'[t] = "live" /\ buffered'[t] = <<>>
    BY SessionTypes DEF CutRest
  <2>2. \A r \in requests' : r.session \in Sessions \cup {None} /\ r.keys \in Seq(Keys)
    BY RequestTypes
  <2>3. UNCHANGED <<page, state, buffered, input, shells, typed, events, reconnects, overtaken>>
    BY DEF CutRest
  <2>4. TypeOK
    BY DEF PollsInv, TypeInv
  <2> QED BY <1>1, <1>2, <2>1, <2>2, <2>3, <2>4 DEF TypeOK, page, shells
<1> QED BY <1>3, NothingIsASequence DEF PollsInv, TypeInv, CutRest, shells

LEMMA CutRequestPolls == ASSUME PollsInv, CutRest, NEW r \in requests, CutRequest(r) PROVE PollsInv'
<1> DEFINE a == Reply(r.kind, 0, r.session, r.keys)
<1>1. /\ requests' = requests \ {r} /\ replies' = replies \cup {a}
      /\ lostKeys' = lostKeys \cup ToSet(r.keys) /\ UNCHANGED <<http, spoiled>>
  BY DEF CutRequest
<1>2. r.keys \in Seq(Keys) /\ r.keys \in Seq(Nat) /\ Range(r.keys) \subseteq Keys
  <2>1. Keys \subseteq Nat
    BY DEF Keys
  <2> QED BY <2>1, RequestTypes, SeqMonotonic, RangeOfSeq
<1>3. a.kind = r.kind /\ a.status = 0 /\ a.session = r.session /\ a.data = r.keys
  BY DEF Reply
<1> HIDE DEF a
<1>4. r.kind = "keys" \/ (r.kind = "poll" /\ r.keys = <<>>)
  BY DEF PollsInv, TypeInv
<1>5. TypeInv'
  <2>1. lostKeys' \subseteq Keys
    BY <1>1, <1>2, ToSetIsRange DEF PollsInv, TypeInv, TypeOK
  <2> QED BY <1>1, <1>2, <1>3, <1>4, <2>1, CutTypes, SessionTypes
<1>6. CASE r.kind = "keys"
  <2>1. Polls' = Polls /\ Answers' = Answers
    BY <1>1, <1>3, <1>6 DEF Polls, Answers, OfKind
  <2> QED BY <1>1, <1>5, <2>1, KeepPolls DEF CutRest, page
<1>7. CASE r.kind = "poll"
  <2>1. ~button /\ Polls = {r} /\ Kept = {} /\ Answers = {}
    <3>1. r \in Polls
      BY <1>7 DEF Polls, OfKind
    <3> QED BY <3>1, ThePoll DEF PollsInv
  <2>2. Polls' = {} /\ Kept' = {} /\ Answers' = {a} /\ ~button'
    BY <1>1, <1>3, <1>7, <2>1 DEF Polls, Kept, Answers, OfKind, CutRest, page
  <2>3. PollIsSomewhere'
    BY <1>1, <2>2 DEF PollIsSomewhere
  <2>4. SessionInv'
    BY <1>1, <1>3, <2>2 DEF PollsInv, SessionInv, CutRest, page
  <2> QED BY <1>5, <2>3, <2>4 DEF PollsInv
<1> QED BY <1>4, <1>6, <1>7

LEMMA CutPollPolls ==
  ASSUME PollsInv, CutRest, NEW s \in Sessions,
         CutKept(s) \/ \E a \in Answers : a.session = s /\ CutAnswer(a)
  PROVE  PollsInv'
<1> DEFINE b == Reply("poll", 0, s, <<>>)
<1>1. b.kind = "poll" /\ b.status = 0 /\ b.session = s /\ b.data = <<>>
  BY DEF Reply
<1>2. CASE CutKept(s)
  <2>1. /\ http[s] = "open" /\ http' = [http EXCEPT ![s] = "broken"] /\ replies' = replies \cup {b}
        /\ UNCHANGED <<requests, lostKeys, spoiled>>
    BY <1>2 DEF CutKept
  <2> HIDE DEF b
  <2>2. ~button /\ Polls = {} /\ Kept = {s} /\ Answers = {}
    <3>1. s \in Kept
      BY <2>1 DEF Kept
    <3> QED BY <3>1, TheKept DEF PollsInv
  <2>3. Polls' = {} /\ Kept' = {} /\ Answers' = {b} /\ ~button'
    BY <1>1, <2>1, <2>2, SessionTypes DEF Polls, Kept, Answers, OfKind, CutRest, page
  <2>4. TypeInv'
    <3>1. /\ http' \in [Sessions -> {"none", "open", "broken"}]
          /\ \A t \in Sessions : http'[t] # "none" => http[t] # "none"
      BY <2>1, SessionTypes
    <3>2. lostKeys' \subseteq Keys
      BY <2>1 DEF PollsInv, TypeInv, TypeOK
    <3>3. b.data \in Seq(Nat) /\ spoiled' \subseteq Sessions
      BY <1>1, <2>1, SessionTypes, NothingIsASequence
    <3>4. requests' \subseteq requests /\ replies' \subseteq replies \cup {b}
      BY <2>1
    <3> QED BY <1>1, <3>1, <3>2, <3>3, <3>4, CutTypes
  <2>5. PollIsSomewhere'
    BY <2>1, <2>3 DEF PollIsSomewhere
  <2>6. SessionInv'
    BY <1>1, <2>1, <2>3 DEF PollsInv, SessionInv, CutRest, page
  <2> QED BY <2>4, <2>5, <2>6 DEF PollsInv
<1>3. ASSUME NEW a \in Answers, a.session = s, CutAnswer(a) PROVE PollsInv'
  <2>1. /\ replies' = (replies \ {a}) \cup {b} /\ spoiled' = spoiled \cup {s}
        /\ UNCHANGED <<requests, http, lostKeys>>
    BY <1>3 DEF CutAnswer
  <2> HIDE DEF b
  <2>2. ~button /\ Polls = {} /\ Kept = {} /\ Answers = {a}
    BY TheAnswer DEF PollsInv
  <2>3. Polls' = {} /\ Kept' = {} /\ Answers' = {b} /\ ~button'
    BY <1>1, <2>1, <2>2 DEF Polls, Kept, Answers, OfKind, CutRest, page
  <2>4. TypeInv'
    <3>1. lostKeys' \subseteq Keys
      BY <2>1 DEF PollsInv, TypeInv, TypeOK
    <3> QED BY <1>1, <2>1, <3>1, CutTypes, SessionTypes, NothingIsASequence
  <2>5. PollIsSomewhere'
    BY <2>1, <2>3 DEF PollIsSomewhere
  <2>6. SessionInv'
    BY <1>1, <2>1, <2>3 DEF PollsInv, SessionInv, CutRest, page
  <2> QED BY <2>4, <2>5, <2>6 DEF PollsInv
<1> QED BY <1>2, <1>3

LEMMA CutPolls == PollsInv /\ Cut => PollsInv'
<1> SUFFICES ASSUME PollsInv, Cut PROVE PollsInv'
  OBVIOUS
<1>1. \A a \in Answers : CutAnswer(a) => a.session \in Sessions
  BY DEF PollsInv, TypeInv, Answers, OfKind, CutAnswer
<1> QED BY <1>1, CutCases, CutRequestPolls, CutPollPolls

LEMMA StutterPolls == PollsInv /\ UNCHANGED vars => PollsInv'
<1> SUFFICES ASSUME PollsInv, UNCHANGED vars PROVE PollsInv'
  OBVIOUS
<1>1. TypeOK'
  BY DEF PollsInv, TypeInv, TypeOK, vars, page, wire, daemon, shells, bounds, history
<1>2. TypeInv'
  BY <1>1 DEF PollsInv, TypeInv, vars, page, wire, daemon, shells, bounds, history
<1> QED BY <1>2, KeepPolls DEF vars, page, wire, daemon, shells, bounds, history, Polls, Answers

LEMMA NextPolls == PollsInv /\ [Next]_vars => PollsInv'
<1> SUFFICES ASSUME PollsInv, [Next]_vars PROVE PollsInv'
  OBVIOUS
<1>1. ASSUME TypeKey \/ KeyPressReadyStateChange \/ OnReadyStateChange \/ Reconnect \/ Cut
      PROVE  PollsInv'
  BY <1>1, TypeKeyPolls, KeyPressReadyStateChangePolls, OnReadyStateChangePolls, ReconnectPolls, CutPolls
<1>2. ASSUME NEW r \in OfKind("poll", requests), HandlePoll(r) PROVE PollsInv'
  BY <1>2, HandlePollPolls DEF Polls
<1>3. ASSUME NEW r \in OfKind("keys", requests), HandleKeys(r) PROVE PollsInv'
  BY <1>3, HandleKeysPolls DEF Sent
<1>4. ASSUME NEW s \in Sessions, ReadPty(s) \/ SessionDone(s) \/ TimeOut(s) \/ Abandon(s)
      PROVE  PollsInv'
  BY <1>4, ReadPtyPolls, SessionDonePolls, TimeOutPolls, AbandonPolls
<1>5. ASSUME NEW s \in Sessions, Bury(s) \/ NoticeClose(s) \/ Output(s) \/ Exit(s)
      PROVE  PollsInv'
  BY <1>5, BuryPolls, NoticeClosePolls, OutputPolls, ExitPolls
<1> QED BY <1>1, <1>2, <1>3, <1>4, <1>5, StutterPolls DEF Next

LEMMA PollsAreCounted == PollsInv => PollInv
<1> SUFFICES ASSUME PollsInv PROVE OnePoll
  BY DEF PollInv, PollsInv, TypeInv
<1>1. Cardinality({}) = 0 /\ \A x : Cardinality({x}) = 1
  BY FS_EmptySet, FS_Singleton
<1>2. Cardinality(Polls) + Cardinality(Kept) + Cardinality(Answers) = IF button THEN 0 ELSE 1
  <2>1. CASE button
    <3>1. Polls = {} /\ Kept = {} /\ Answers = {}
      BY <2>1 DEF PollsInv, PollIsSomewhere
    <3> QED BY <1>1, <2>1, <3>1
  <2>2. CASE ~button
    <3>1. \/ Kept = {} /\ Answers = {} /\ \E r \in requests : Polls = {r}
          \/ Polls = {} /\ Answers = {} /\ \E s \in Sessions : Kept = {s}
          \/ Polls = {} /\ Kept = {} /\ \E a \in replies : Answers = {a}
      BY <2>2 DEF PollsInv, PollIsSomewhere
    <3>2. \/ Cardinality(Kept) = 0 /\ Cardinality(Answers) = 0 /\ Cardinality(Polls) = 1
          \/ Cardinality(Polls) = 0 /\ Cardinality(Answers) = 0 /\ Cardinality(Kept) = 1
          \/ Cardinality(Polls) = 0 /\ Cardinality(Kept) = 0 /\ Cardinality(Answers) = 1
      BY <1>1, <3>1
    <3> QED BY <2>2, <3>2
  <2> QED BY <2>1, <2>2
<1> QED BY <1>2 DEF OnePoll, Polls, Kept, Answers

LEMMA PollsInvariant == Spec => []PollsInv
BY InitPolls, NextPolls, PTL DEF Spec

(* The page has exactly one poll open, on its way, kept or answered, and none while it *)
(* offers to reconnect (onReadyStateChange, dataHandler, handleSession), whatever       *)
(* breaks; and every variable has its type.                                             *)
THEOREM OnePollIsOpen == Spec => []PollInv
BY PollsInvariant, PollsAreCounted, PTL

-----------------------------------------------------------------------------
(* Keys. *)

LEMMA IncreasingConcat ==
  ASSUME NEW q \in Seq(Keys), NEW w \in Seq(Keys), Increasing(q), Increasing(w),
         \A k \in Range(q), l \in Range(w) : k < l
  PROVE  Increasing(q \o w) /\ q \o w \in Seq(Keys) /\ Range(q \o w) = Range(q) \cup Range(w)
<1>1. /\ q \o w \in Seq(Keys) /\ Len(q \o w) = Len(q) + Len(w)
      /\ \A i \in 1..Len(q) + Len(w) : (q \o w)[i] = IF i <= Len(q) THEN q[i] ELSE w[i - Len(q)]
  BY ConcatProperties
<1>2. /\ Len(q) \in Nat /\ DOMAIN q = 1..Len(q)
      /\ Len(w) \in Nat /\ DOMAIN w = 1..Len(w)
      /\ DOMAIN (q \o w) = 1..Len(q) + Len(w)
  BY <1>1, LenProperties
<1>3. /\ \A i \in 1..Len(q) : q[i] \in Range(q)
      /\ \A i \in 1..Len(w) : w[i] \in Range(w)
  BY RangeEquality
<1>4. ASSUME NEW i \in 1..Len(q) + Len(w), NEW j \in 1..Len(q) + Len(w), i < j
      PROVE  (q \o w)[i] < (q \o w)[j]
  <2>1. CASE j <= Len(q)
    BY <1>1, <1>2, <1>4, <2>1 DEF Increasing
  <2>2. CASE i <= Len(q) /\ j > Len(q)
    <3>1. (q \o w)[i] = q[i] /\ (q \o w)[j] = w[j - Len(q)] /\ j - Len(q) \in 1..Len(w)
      BY <1>1, <1>2, <2>2
    <3> QED BY <1>2, <1>3, <2>2, <3>1
  <2>3. CASE i > Len(q)
    <3>1. (q \o w)[i] = w[i - Len(q)] /\ (q \o w)[j] = w[j - Len(q)]
      BY <1>1, <1>2, <1>4, <2>3
    <3>2. i - Len(q) \in 1..Len(w) /\ j - Len(q) \in 1..Len(w) /\ i - Len(q) < j - Len(q)
      BY <1>2, <1>4, <2>3
    <3> QED BY <1>2, <3>1, <3>2 DEF Increasing
  <2> QED BY <1>2, <2>1, <2>2, <2>3
<1>5. Increasing(q \o w)
  BY <1>2, <1>4 DEF Increasing
<1> QED BY <1>1, <1>5, RangeConcatenation

LEMMA DistinctConcat ==
  ASSUME NEW q \in Seq(Keys), NEW w \in Seq(Keys), Distinct(q), Distinct(w),
         Range(q) \cap Range(w) = {}
  PROVE  Distinct(q \o w) /\ q \o w \in Seq(Keys) /\ Range(q \o w) = Range(q) \cup Range(w)
<1>1. /\ q \o w \in Seq(Keys) /\ Len(q \o w) = Len(q) + Len(w)
      /\ \A i \in 1..Len(q) + Len(w) : (q \o w)[i] = IF i <= Len(q) THEN q[i] ELSE w[i - Len(q)]
  BY ConcatProperties
<1>2. /\ Len(q) \in Nat /\ DOMAIN q = 1..Len(q)
      /\ Len(w) \in Nat /\ DOMAIN w = 1..Len(w)
      /\ DOMAIN (q \o w) = 1..Len(q) + Len(w)
  BY <1>1, LenProperties
<1>3. /\ \A i \in 1..Len(q) : q[i] \in Range(q)
      /\ \A i \in 1..Len(w) : w[i] \in Range(w)
  BY RangeEquality
<1>4. ASSUME NEW i \in 1..Len(q) + Len(w), NEW j \in 1..Len(q) + Len(w), i < j
      PROVE  (q \o w)[i] # (q \o w)[j]
  <2>1. CASE j <= Len(q)
    BY <1>1, <1>2, <1>4, <2>1 DEF Distinct
  <2>2. CASE i <= Len(q) /\ j > Len(q)
    <3>1. (q \o w)[i] = q[i] /\ (q \o w)[j] = w[j - Len(q)] /\ j - Len(q) \in 1..Len(w)
      BY <1>1, <1>2, <2>2
    <3> QED BY <1>2, <1>3, <2>2, <3>1
  <2>3. CASE i > Len(q)
    <3>1. (q \o w)[i] = w[i - Len(q)] /\ (q \o w)[j] = w[j - Len(q)]
      BY <1>1, <1>2, <1>4, <2>3
    <3>2. i - Len(q) \in 1..Len(w) /\ j - Len(q) \in 1..Len(w) /\ i - Len(q) # j - Len(q)
      BY <1>2, <1>4, <2>3
    <3> QED BY <1>2, <3>1, <3>2 DEF Distinct
  <2> QED BY <1>2, <2>1, <2>2, <2>3
<1>5. Distinct(q \o w)
  <2>1. ASSUME NEW i \in 1..Len(q) + Len(w), NEW j \in 1..Len(q) + Len(w), i # j
        PROVE  (q \o w)[i] # (q \o w)[j]
    <3>1. CASE i < j
      BY <1>4, <3>1
    <3>2. CASE j < i
      BY <1>4, <3>2
    <3> QED BY <1>2, <2>1, <3>1, <3>2
  <2> QED BY <1>2, <2>1 DEF Distinct
<1> QED BY <1>1, <1>5, RangeConcatenation

LEMMA IncreasingIsDistinct ==
  ASSUME NEW q \in Seq(Keys), Increasing(q) PROVE Distinct(q)
<1>1. DOMAIN q = 1..Len(q) /\ Len(q) \in Nat /\ \A i \in DOMAIN q : q[i] \in Nat
  <2>1. DOMAIN q = 1..Len(q) /\ Len(q) \in Nat
    BY LenProperties
  <2>2. \A i \in 1..Len(q) : q[i] \in Keys
    BY ElementOfSeq
  <2> QED BY <2>1, <2>2 DEF Keys
<1> SUFFICES ASSUME NEW i \in DOMAIN q, NEW j \in DOMAIN q, q[i] = q[j] PROVE i = j
  BY DEF Distinct
<1>2. ~(i < j) /\ ~(j < i)
  BY <1>1 DEF Increasing
<1> QED BY <1>1, <1>2

LEMMA ShortSequences ==
  /\ Range(<<>>) = {} /\ Increasing(<<>>) /\ Distinct(<<>>)
  /\ \A k \in Keys : <<k>> \in Seq(Keys) /\ Range(<<k>>) = {k} /\ Increasing(<<k>>)
BY DEF Range, Increasing, Distinct

LEMMA KeyTypes ==
  ASSUME PollsInv
  PROVE  /\ input \in [Sessions -> Seq(Keys)] /\ pendingKeys \in Seq(Keys)
         /\ \A s \in Sessions : Range(input[s]) \subseteq Keys
         /\ Range(pendingKeys) \subseteq Keys
         /\ \A r \in Sent : /\ r.keys \in Seq(Keys) /\ Range(r.keys) \subseteq Keys
                           /\ r.session \in Sessions /\ r.keys # <<>>
         /\ typed \in Nat /\ keysInFlight \in BOOLEAN /\ overtaken \in BOOLEAN
<1>1. input \in [Sessions -> Seq(Keys)] /\ pendingKeys \in Seq(Keys)
  BY DEF PollsInv, TypeInv, TypeOK
<1>2. \A r \in Sent : r.keys \in Seq(Keys) /\ r.session \in Sessions /\ r.keys # <<>>
  BY DEF PollsInv, TypeInv, TypeOK, Sent, OfKind
<1>3. typed \in Nat /\ keysInFlight \in BOOLEAN /\ overtaken \in BOOLEAN
  BY BoundsAssumption DEF PollsInv, TypeInv, TypeOK
<1> QED BY <1>1, <1>2, <1>3, RangeOfSeq

LEMMA InitKeys == Init => KeysInv
<1> SUFFICES ASSUME Init PROVE KeysInv
  OBVIOUS
<1>1. Sent = {} /\ Answered = {}
  BY PollKinds DEF Init, Sent, Answered, OfKind
<1>2. /\ pendingKeys = <<>> /\ \A s \in Sessions : input[s] = <<>>
      /\ ~connected
  BY DEF Init
<1> QED BY <1>1, <1>2, InitPolls, ShortSequences DEF KeysInv, KeyPlaces, KeysOnce, KeysInOrder

(* The steps of the daemon and the shells, and what breaks, leave keys alone; what is over stays so. *)
NothingRevives == \A s \in Sessions : state[s] # "none" /\ state'[s] = "live" => state[s] = "live"

LeavesKeys ==
  /\ UNCHANGED <<session, connected, button, pendingKeys, keysInFlight, input, typed,
                 forSession, lostKeys, overtaken>>
  /\ Sent' = Sent /\ Answered' = Answered /\ NothingRevives

LEMMA KeepKeys == ASSUME KeysInv, PollsInv', LeavesKeys PROVE KeysInv'
BY DEF KeysInv, KeyPlaces, KeysOnce, KeysInOrder, LeavesKeys

(* The keys that wait, and those just typed, go out in a request of their own. *)
LEMMA SendKeysNow ==
  ASSUME KeysInv, PollsInv', connected, NEW q \in Seq(Keys), NEW n,
         q # <<>>, Increasing(q),
         \A k \in Range(q) : k \in Range(pendingKeys) \/ (k = typed + 1 /\ typed' = typed + 1),
         typed' = typed \/ typed' = typed + 1,
         \A k \in 1..typed : forSession'[k] = forSession[k],
         \A k \in Range(q) : k <= typed' /\ forSession'[k] = session,
         n = KeyPress(session, q), requests' = requests \cup {n}, pendingKeys' = <<>>,
         Answered' \subseteq Answered, keysInFlight' = TRUE, ~overtaken => Sent = {} /\ Answered' = {},
         UNCHANGED <<session, connected, button, input, overtaken>>
  PROVE  KeysInv'
<1>1. /\ n.kind = "keys" /\ n.session = session /\ n.keys = q /\ session \in Sessions
  <2>1. session \in Sessions
    BY DEF KeysInv, PollsInv, TypeInv, TypeOK, SessionInv
  <2> QED BY <2>1 DEF KeyPress
<1>2. Sent' = Sent \cup {n}
  BY <1>1 DEF Sent, OfKind
<1>3. PollsInv /\ typed \in Nat /\ Range(pendingKeys) \subseteq Keys
  BY KeyTypes DEF KeysInv
<1>4. \A s \in Sessions : \A k \in Range(input[s]) : k \in 1..typed /\ forSession[k] = s
  BY <1>3, KeyTypes DEF KeysInv, KeyPlaces, Keys
<1>5. \A r \in Sent : \A k \in Range(r.keys) : k \in 1..typed /\ forSession[k] = r.session
  BY <1>3, KeyTypes DEF KeysInv, KeyPlaces, Keys
<1>6. Range(pendingKeys') = {} /\ Increasing(pendingKeys')
  BY ShortSequences
<1>7. KeyPlaces'
  <2>1. \A s \in Sessions : \A k \in Range(input'[s]) : k <= typed' /\ forSession'[k] = s
    BY <1>3, <1>4
  <2>2. \A r \in Sent : \A k \in Range(r.keys) : k <= typed' /\ forSession'[k] = r.session
    BY <1>3, <1>5
  <2>3. \A r \in Sent' : \A k \in Range(r.keys) : k <= typed' /\ forSession'[k] = r.session
    BY <1>1, <1>2, <2>2
  <2> QED BY <1>6, <2>1, <2>3 DEF KeyPlaces
<1>8. \A s \in Sessions : Range(input[s]) \cap Range(q) = {}
  BY <1>3, <1>4 DEF KeysInv, KeysOnce
<1>9. \A r \in Sent : Range(r.keys) \cap Range(q) = {}
  BY <1>3, <1>5 DEF KeysInv, KeysOnce
<1>10. KeysOnce'
  <2>1. \A r \in Sent' : Increasing(r.keys) /\ \A s \in Sessions : Range(input[s]) \cap Range(r.keys) = {}
    BY <1>1, <1>2, <1>8 DEF KeysInv, KeysOnce
  <2>2. \A r1, r2 \in Sent' : r1 # r2 => Range(r1.keys) \cap Range(r2.keys) = {}
    BY <1>1, <1>2, <1>9 DEF KeysInv, KeysOnce
  <2> QED BY <1>6, <2>1, <2>2 DEF KeysInv, KeysOnce
<1>11. KeysInOrder'
  <2> SUFFICES ASSUME ~overtaken PROVE KeysInOrder'
    BY DEF KeysInOrder
  <2>1. Sent' = {n} /\ Answered' = {}
    BY <1>2
  <2>2. \A s \in Sessions : \A k \in Range(input[s]), l \in Range(q) : k < l
    BY <1>3, <1>4 DEF KeysInv, KeysInOrder
  <2> QED BY <1>1, <1>6, <2>1, <2>2 DEF KeysInv, KeysInOrder
<1> QED BY <1>7, <1>10, <1>11 DEF KeysInv

LEMMA TypeKeyKeys == KeysInv /\ TypeKey => KeysInv'
<1> SUFFICES ASSUME KeysInv, TypeKey PROVE KeysInv'
  OBVIOUS
<1> DEFINE k == typed + 1
           q == pendingKeys \o <<k>>
<1>1. /\ connected /\ typed' = typed + 1 /\ forSession' = [forSession EXCEPT ![k] = session]
      /\ SendKeys(keysInFlight, <<k>>)
      /\ UNCHANGED <<session, connected, button, screen, replies, daemon, shells, reconnects,
                     faults, lostKeys, spoiled, overtaken>>
  BY DEF TypeKey
<1>2. PollsInv /\ PollsInv' /\ Answered' = Answered
  BY <1>1, TypeKeyPolls DEF KeysInv, Answered
<1>3. /\ k \in Keys /\ typed \in Nat
      /\ forSession'[k] = session /\ \A l \in 1..typed : forSession'[l] = forSession[l]
  <2>1. typed \in Nat /\ k \in Keys /\ forSession \in [Keys -> Sessions \cup {None}]
    BY BoundsAssumption DEF KeysInv, PollsInv, TypeInv, TypeOK, TypeKey, Keys
  <2> QED BY <1>1, <2>1 DEF Keys
<1>4. \A l \in Range(pendingKeys) : l \in 1..typed /\ forSession[l] = session
  BY <1>1, <1>2, KeyTypes DEF KeysInv, KeyPlaces, Keys
<1>5. q \in Seq(Keys) /\ Increasing(q) /\ Range(q) = Range(pendingKeys) \cup {k}
  <2>1. \A l \in Range(pendingKeys), m \in Range(<<k>>) : l < m
    BY <1>3, <1>4, ShortSequences
  <2>2. /\ pendingKeys \in Seq(Keys) /\ <<k>> \in Seq(Keys) /\ Range(<<k>>) = {k}
        /\ Increasing(pendingKeys) /\ Increasing(<<k>>)
    BY <1>2, <1>3, KeyTypes, ShortSequences DEF KeysInv, KeysOnce
  <2> HIDE DEF k
  <2> QED BY <2>1, <2>2, IncreasingConcat
<1>6. q # <<>>
  <2>1. k \in Range(q)
    BY <1>5
  <2> QED BY <2>1, ShortSequences
<1>7. UNCHANGED input
  BY <1>1 DEF daemon
<1> HIDE DEF q
<1>8. CASE keysInFlight
  <2>1. pendingKeys' = q /\ requests' = requests /\ keysInFlight' = TRUE
    BY <1>1, <1>8 DEF SendKeys, q
  <2>2. Sent' = Sent
    BY <2>1 DEF Sent
  <2>3. \A s \in Sessions : \A l \in Range(input[s]) : l \in 1..typed /\ forSession[l] = s
    BY <1>2, KeyTypes DEF KeysInv, KeyPlaces, Keys
  <2>4. \A r \in Sent : \A l \in Range(r.keys) : l \in 1..typed /\ forSession[l] = r.session
    BY <1>2, KeyTypes DEF KeysInv, KeyPlaces, Keys
  <2>5. KeyPlaces'
    BY <1>1, <1>3, <1>4, <1>5, <1>7, <2>1, <2>2, <2>3, <2>4 DEF KeyPlaces
  <2>6. KeysOnce'
    <3>1. /\ \A s \in Sessions : Range(input[s]) \cap Range(pendingKeys) = {} /\ k \notin Range(input[s])
          /\ \A r \in Sent : Range(r.keys) \cap Range(pendingKeys) = {} /\ k \notin Range(r.keys)
      <4>1. k \notin 1..typed
        BY <1>3
      <4> HIDE DEF k
      <4> QED BY <2>3, <2>4, <4>1 DEF KeysInv, KeysOnce
    <3>2. /\ \A s \in Sessions : Range(input[s]) \cap Range(q) = {}
          /\ \A r \in Sent : Range(r.keys) \cap Range(q) = {}
      <4> HIDE DEF k
      <4> QED BY <1>5, <3>1
    <3> QED BY <1>5, <1>7, <2>1, <2>2, <3>2 DEF KeysInv, KeysOnce
  <2>7. KeysInOrder'
    <3> SUFFICES ASSUME ~overtaken PROVE KeysInOrder'
      BY <1>1 DEF KeysInOrder
    <3>1. \A s \in Sessions : \A i \in Range(input[s]), l \in Range(q) : i < l
      BY <1>3, <1>5, <2>3 DEF KeysInv, KeysInOrder
    <3>2. \A r \in Sent : \A i \in Range(r.keys), l \in Range(q) : i < l
      BY <1>3, <1>5, <2>4 DEF KeysInv, KeysInOrder
    <3> QED BY <1>2, <1>7, <2>1, <2>2, <3>1, <3>2 DEF KeysInv, KeysInOrder
  <2> QED BY <1>2, <2>5, <2>6, <2>7 DEF KeysInv
<1>9. CASE ~keysInFlight
  <2> DEFINE n == KeyPress(session, q)
  <2>1. pendingKeys' = <<>> /\ requests' = requests \cup {n} /\ keysInFlight' = TRUE
    BY <1>1, <1>9 DEF SendKeys, q
  <2>2. ~overtaken => Sent = {} /\ Answered' = {}
    BY <1>2, <1>9 DEF KeysInv, KeysInOrder
  <2>3. \A l \in Range(q) : l \in Range(pendingKeys) \/ (l = typed + 1 /\ typed' = typed + 1)
    BY <1>1, <1>5
  <2>4. \A l \in Range(q) : l <= typed' /\ forSession'[l] = session
    BY <1>1, <1>3, <1>4, <1>5
  <2> HIDE DEF n
  <2>5. n = KeyPress(session, q)
    BY DEF n
  <2> QED BY <1>1, <1>2, <1>3, <1>5, <1>6, <1>7, <2>1, <2>2, <2>3, <2>4, <2>5, SendKeysNow
<1> QED BY <1>2, <1>8, <1>9, KeyTypes

LEMMA KeyPressReadyStateChangeKeys == KeysInv /\ KeyPressReadyStateChange => KeysInv'
<1> SUFFICES ASSUME KeysInv, KeyPressReadyStateChange PROVE KeysInv'
  OBVIOUS
<1>1. PollsInv /\ PollsInv'
  BY KeyPressReadyStateChangePolls DEF KeysInv
<1>2. PICK a \in Answered :
        /\ replies' = replies \ {a}
        /\ IF connected /\ pendingKeys # <<>>
           THEN SendKeys(FALSE, <<>>)
           ELSE keysInFlight' = FALSE /\ UNCHANGED <<pendingKeys, requests>>
        /\ UNCHANGED <<session, connected, button, screen, daemon, shells, bounds, history>>
  BY DEF KeyPressReadyStateChange, Answered
<1>3. Answered' = Answered \ {a}
  BY <1>2 DEF Answered, OfKind
<1>4. ~overtaken => Sent = {} /\ Answered' = {}
  BY <1>2, <1>3 DEF KeysInv, KeysInOrder
<1>5. UNCHANGED <<session, connected, button, input, typed, forSession, overtaken>>
  BY <1>2 DEF daemon, bounds, history
<1>6. CASE connected /\ pendingKeys # <<>>
  <2>1. SendKeys(FALSE, <<>>)
    BY <1>2, <1>6
  <2>2. pendingKeys \in Seq(Keys) /\ pendingKeys \o <<>> = pendingKeys
    BY <1>1, KeyTypes, ConcatEmptySeq
  <2> DEFINE n == KeyPress(session, pendingKeys)
  <2>3. keysInFlight' = TRUE /\ pendingKeys' = <<>> /\ requests' = requests \cup {n}
    BY <2>1, <2>2 DEF SendKeys
  <2>4. n = KeyPress(session, pendingKeys)
    OBVIOUS
  <2> HIDE DEF n
  <2>5. \A k \in Range(pendingKeys) : k <= typed' /\ forSession'[k] = session
    BY <1>5, <1>6 DEF KeysInv, KeyPlaces
  <2>6. Increasing(pendingKeys) /\ Answered' \subseteq Answered
    BY <1>3 DEF KeysInv, KeysOnce
  <2> QED BY <1>1, <1>4, <1>5, <1>6, <2>2, <2>3, <2>4, <2>5, <2>6, SendKeysNow
<1>7. CASE ~(connected /\ pendingKeys # <<>>)
  <2>1. keysInFlight' = FALSE /\ pendingKeys' = pendingKeys /\ requests' = requests
    BY <1>2, <1>7
  <2>2. Sent' = Sent
    BY <2>1 DEF Sent
  <2> QED BY <1>1, <1>3, <1>4, <1>5, <2>1, <2>2 DEF KeysInv, KeyPlaces, KeysOnce, KeysInOrder
<1> QED BY <1>6, <1>7

LEMMA OnReadyStateChangeKeys == KeysInv /\ OnReadyStateChange => KeysInv'
<1> SUFFICES ASSUME KeysInv, OnReadyStateChange PROVE KeysInv'
  OBVIOUS
<1>1. PollsInv /\ PollsInv' /\ (connected <=> session # None)
  BY OnReadyStateChangePolls DEF KeysInv, PollsInv, SessionInv
<1>2. PICK a \in Answers : AnswerEffect(a)
  BY <1>1, OnReadyStateChangeEffect
<1>3. Sent' = Sent
  <2>1. requests' = requests \/ requests' = requests \cup {Poll(session')}
    BY <1>2 DEF AnswerEffect
  <2>2. Poll(session').kind = "poll"
    BY PollKinds
  <2> QED BY <2>1, <2>2 DEF Sent, OfKind
<1>4. Answered' = Answered
  BY <1>2 DEF AnswerEffect, Answered, OfKind
<1>5. UNCHANGED <<pendingKeys, keysInFlight, input, typed, forSession, overtaken>>
  BY <1>2 DEF AnswerEffect, daemon, bounds, history
<1>6. /\ connected' => (connected /\ session' = session) \/ pendingKeys = <<>>
      /\ ~connected' /\ ~button' => pendingKeys = <<>>
  <2>1. ~button /\ (~connected => pendingKeys = <<>>)
    BY <1>2 DEF AnswerEffect, KeysInv, KeyPlaces
  <2>2. /\ connected' = (a.status # 400 /\ (connected \/ a.status = 200))
        /\ session' = IF a.status = 400 THEN None ELSE IF a.status = 200 THEN a.session ELSE session
        /\ button' = (a.status = 400)
        /\ a.status = 200 => session \in {None, a.session}
    BY <1>2 DEF AnswerEffect
  <2>3. connected /\ a.status = 200 => session = a.session
    BY <1>1, <2>2
  <2> QED BY <2>1, <2>2, <2>3
<1>7. KeyPlaces'
  BY <1>3, <1>5, <1>6, ShortSequences DEF KeysInv, KeyPlaces
<1> QED BY <1>1, <1>3, <1>4, <1>5, <1>7 DEF KeysInv, KeysOnce, KeysInOrder

LEMMA ReconnectKeys == KeysInv /\ Reconnect => KeysInv'
<1> SUFFICES ASSUME KeysInv, Reconnect PROVE KeysInv'
  OBVIOUS
<1>1. PollsInv /\ PollsInv'
  BY ReconnectPolls DEF KeysInv
<1>2. /\ pendingKeys' = <<>> /\ keysInFlight' = FALSE
      /\ overtaken' = (overtaken \/ keysInFlight)
      /\ requests' = requests \cup {Poll(None)} /\ replies' = replies
      /\ UNCHANGED <<session, connected, input, typed, forSession>>
  BY DEF Reconnect, daemon
<1>3. Sent' = Sent /\ Answered' = Answered
  BY <1>2, PollKinds DEF Sent, Answered, OfKind
<1>4. ~overtaken' => ~overtaken /\ Sent \cup Answered = {}
  BY <1>1, <1>2, KeyTypes DEF KeysInv, KeysInOrder
<1> QED BY <1>1, <1>2, <1>3, <1>4, ShortSequences DEF KeysInv, KeyPlaces, KeysOnce, KeysInOrder

(* A request with keys arrives or is lost; its keys come to the shell of its session or nowhere. *)
LEMMA KeysGo ==
  ASSUME KeysInv, PollsInv', NEW r \in Sent, Sent' = Sent \ {r},
         NEW a, Answered' = Answered \cup {a},
         input' = input \/ input' = [input EXCEPT ![r.session] = @ \o r.keys],
         UNCHANGED <<session, connected, button, pendingKeys, keysInFlight, typed, forSession, overtaken>>
  PROVE  KeysInv'
<1>1. PollsInv /\ input \in [Sessions -> Seq(Keys)] /\ r.session \in Sessions /\ r.keys \in Seq(Keys)
  BY KeyTypes DEF KeysInv
<1>2. PICK s \in Sessions : s = r.session
  BY <1>1
<1>3. \A t \in Sessions : t # s => input'[t] = input[t]
  BY <1>1, <1>2
<1>4. input'[s] = input[s] \/ input'[s] = input[s] \o r.keys
  BY <1>1, <1>2
<1>5. Distinct(input[s]) /\ Distinct(r.keys) /\ Range(input[s]) \cap Range(r.keys) = {}
  BY <1>1, IncreasingIsDistinct DEF KeysInv, KeysOnce
<1>6. /\ Distinct(input'[s]) /\ Range(input'[s]) \subseteq Range(input[s]) \cup Range(r.keys)
      /\ ~overtaken => Increasing(input'[s])
  <2>1. CASE input'[s] = input[s]
    BY <1>5, <2>1 DEF KeysInv, KeysInOrder
  <2>2. CASE input'[s] = input[s] \o r.keys
    <3>1. input[s] \in Seq(Keys)
      BY <1>1
    <3>2. Distinct(input'[s]) /\ Range(input'[s]) = Range(input[s]) \cup Range(r.keys)
      BY <1>1, <1>5, <2>2, <3>1, DistinctConcat
    <3>3. ASSUME ~overtaken PROVE Increasing(input'[s])
      <4>1. Increasing(input[s]) /\ Increasing(r.keys) /\ \A k \in Range(input[s]), l \in Range(r.keys) : k < l
        BY <3>3 DEF KeysInv, KeysOnce, KeysInOrder
      <4> QED BY <1>1, <2>2, <3>1, <4>1, IncreasingConcat
    <3> QED BY <3>2, <3>3
  <2> QED BY <1>4, <2>1, <2>2
<1>7. KeyPlaces'
  <2>1. \A k \in Range(input'[s]) : k <= typed /\ forSession[k] = s
    BY <1>2, <1>6 DEF KeysInv, KeyPlaces
  <2>2. \A t \in Sessions : \A k \in Range(input'[t]) : k <= typed /\ forSession[k] = t
    BY <1>3, <2>1 DEF KeysInv, KeyPlaces
  <2> QED BY <2>2 DEF KeysInv, KeyPlaces
<1>8. KeysOnce'
  <2>1. \A t \in Sessions : Distinct(input'[t])
    BY <1>3, <1>6 DEF KeysInv, KeysOnce
  <2>2. \A t \in Sessions : Range(input'[t]) \cap Range(pendingKeys) = {}
    BY <1>3, <1>6 DEF KeysInv, KeysOnce
  <2>3. ASSUME NEW n \in Sent \ {r}, NEW t \in Sessions PROVE Range(input'[t]) \cap Range(n.keys) = {}
    BY <1>3, <1>6 DEF KeysInv, KeysOnce
  <2> QED BY <2>1, <2>2, <2>3 DEF KeysInv, KeysOnce
<1>9. KeysInOrder'
  <2> SUFFICES ASSUME ~overtaken PROVE KeysInOrder'
    BY DEF KeysInOrder
  <2>1. Sent' = {} /\ Answered = {} /\ keysInFlight
    BY DEF KeysInv, KeysInOrder
  <2>2. \A t \in Sessions : Increasing(input'[t]) /\ \A k \in Range(input'[t]), l \in Range(pendingKeys) : k < l
    BY <1>3, <1>6 DEF KeysInv, KeysInOrder
  <2> QED BY <2>1, <2>2 DEF KeysInOrder
<1> QED BY <1>7, <1>8, <1>9 DEF KeysInv

LEMMA HandleKeysKeys == ASSUME KeysInv, NEW r \in Sent, HandleKeys(r) PROVE KeysInv'
<1> DEFINE a == Reply("keys", IF state[r.session] = "gone" THEN 400 ELSE 200, r.session, r.keys)
<1>1. PollsInv'
  BY HandleKeysPolls DEF KeysInv
<1>2. /\ requests' = requests \ {r} /\ replies' = replies \cup {a}
      /\ input' = input \/ input' = [input EXCEPT ![r.session] = @ \o r.keys]
      /\ UNCHANGED <<page, bounds, history>>
  BY DEF HandleKeys
<1>3. a.kind = "keys"
  BY DEF Reply
<1> HIDE DEF a
<1>4. Sent' = Sent \ {r} /\ Answered' = Answered \cup {a}
  BY <1>2, <1>3 DEF Sent, Answered, OfKind
<1>5. UNCHANGED <<session, connected, button, pendingKeys, keysInFlight, typed, forSession, overtaken>>
  BY <1>2 DEF page, bounds, history
<1> QED BY <1>1, <1>2, <1>4, <1>5, KeysGo

LEMMA CutKeptLeavesKeys == ASSUME CutRest, NEW s, CutKept(s) PROVE LeavesKeys
<1>1. Reply("poll", 0, s, <<>>).kind = "poll"
  BY DEF Reply
<1>2. Sent' = Sent /\ Answered' = Answered
  BY <1>1 DEF Sent, Answered, OfKind, CutKept
<1> QED BY <1>2 DEF LeavesKeys, NothingRevives, CutRest, CutKept, page

LEMMA CutAnswerLeavesKeys == ASSUME CutRest, NEW a \in Answers, CutAnswer(a) PROVE LeavesKeys
<1> DEFINE b == Reply("poll", 0, a.session, <<>>)
<1>1. b.kind = "poll" /\ a.kind = "poll"
  BY DEF Reply, Answers, OfKind
<1>2. replies' = (replies \ {a}) \cup {b} /\ UNCHANGED <<requests, lostKeys>>
  BY DEF CutAnswer
<1> HIDE DEF b
<1>3. Sent' = Sent /\ Answered' = Answered
  BY <1>1, <1>2 DEF Sent, Answered, OfKind
<1> QED BY <1>2, <1>3 DEF LeavesKeys, NothingRevives, CutRest, page

LEMMA CutRequestKeys == ASSUME KeysInv, CutRest, NEW r \in requests, CutRequest(r) PROVE KeysInv'
<1>1. PollsInv'
  BY CutRequestPolls DEF KeysInv
<1>2. UNCHANGED <<session, connected, button, pendingKeys, keysInFlight, input, typed, forSession, overtaken>>
  BY DEF CutRest, page
<1> DEFINE a == Reply(r.kind, 0, r.session, r.keys)
<1>3. requests' = requests \ {r} /\ replies' = replies \cup {a}
  BY DEF CutRequest
<1>4. a.kind = r.kind
  BY DEF Reply
<1> HIDE DEF a
<1>5. CASE r.kind = "keys"
  <2>1. r \in Sent /\ Sent' = Sent \ {r} /\ Answered' = Answered \cup {a}
    BY <1>3, <1>4, <1>5 DEF Sent, Answered, OfKind
  <2> QED BY <1>1, <1>2, <2>1, KeysGo
<1>6. CASE r.kind # "keys"
  <2>1. Sent' = Sent /\ Answered' = Answered
    BY <1>3, <1>4, <1>6 DEF Sent, Answered, OfKind
  <2> QED BY <1>1, <1>2, <2>1 DEF KeysInv, KeyPlaces, KeysOnce, KeysInOrder
<1> QED BY <1>5, <1>6

LEMMA CutKeys == KeysInv /\ Cut => KeysInv'
<1> SUFFICES ASSUME KeysInv, Cut PROVE KeysInv'
  OBVIOUS
<1>1. PollsInv' /\ CutRest
  BY CutPolls, CutCases DEF KeysInv
<1> QED BY <1>1, CutCases, CutRequestKeys, CutKeptLeavesKeys, CutAnswerLeavesKeys, KeepKeys

LEMMA CompleteLeavesKeys ==
  ASSUME PollsInv, NEW s \in Sessions, NEW h, NEW more \in Pieces, NEW max \in Nat,
         NEW over \in BOOLEAN, CompletePendingRequest(s, h, more, max, over, replies),
         over \/ state[s] \in {"none", "live"},
         Sent' = Sent, UNCHANGED <<page, input, bounds, forSession, lostKeys, overtaken>>
  PROVE  LeavesKeys
<1>1. CompletedAnswers(s, h)
  BY CompletePolls
<1>2. Answered' = Answered
  BY <1>1 DEF CompletedAnswers, AnswerAdded, Answered, OfKind
<1>3. NothingRevives
  <2>1. \A t \in Sessions : t # s => state'[t] = state[t]
    BY SessionTypes DEF CompletePendingRequest
  <2>2. over => state'[s] # "live"
    BY SessionTypes DEF CompletePendingRequest
  <2> QED BY <2>1, <2>2 DEF NothingRevives
<1> QED BY <1>2, <1>3 DEF LeavesKeys, page, bounds

LEMMA HandlePollLeavesKeys == ASSUME PollsInv, NEW r \in Polls, HandlePoll(r) PROVE LeavesKeys
<1>1. /\ requests' = requests \ {r}
      /\ UNCHANGED <<page, input, shells, bounds, forSession, lostKeys, overtaken>>
  BY DEF HandlePoll
<1>2. Sent' = Sent /\ MaxResponse \in Nat
  BY <1>1, BoundsAssumption DEF Sent, Polls, OfKind
<1>3. r.session = session /\ session \in Sessions \cup {None} /\ (session # None => state[session] # "none")
  BY DEF PollsInv, SessionInv, TypeInv, TypeOK
<1>4. CASE NewSession(r)
  <2>1. PICK s \in Sessions : /\ state[s] = "none"
                             /\ CompletePendingRequest(s, "open", <<>>, MaxResponse, FALSE, replies)
    BY <1>4 DEF NewSession
  <2> QED BY <1>1, <1>2, <2>1, CompleteLeavesKeys, NothingIsASequence
<1>5. CASE AnswerPoll(r)
  <2>1. PICK s \in Sessions : s = session /\ r.session = s
    BY <1>3, <1>5 DEF AnswerPoll
  <2>2. CASE state[s] = "done"
    <3>1. CompletePendingRequest(s, "open", <<>>, MaxResponse, TRUE, replies)
      BY <1>5, <2>1, <2>2 DEF AnswerPoll, CompletePendingRequest
    <3> QED BY <1>1, <1>2, <3>1, CompleteLeavesKeys, NothingIsASequence
  <2>3. CASE state[s] # "done"
    <3>1. CompletePendingRequest(s, "open", <<>>, MaxResponse, FALSE, replies)
      BY <1>5, <2>1, <2>3 DEF AnswerPoll, CompletePendingRequest
    <3>2. state[s] = "live"
      BY <1>3, <1>5, <2>1, <2>3, SessionFacts, SessionTypes DEF AnswerPoll
    <3> QED BY <1>1, <1>2, <3>1, <3>2, CompleteLeavesKeys, NothingIsASequence
  <2> QED BY <2>2, <2>3
<1>6. CASE NoSession(r) \/ KeepPoll(r)
  <2>1. state' = state /\ (replies' = replies \/ replies' = replies \cup {Reply("poll", 400, None, <<>>)})
    BY <1>6 DEF NoSession, KeepPoll
  <2>2. Reply("poll", 400, None, <<>>).kind = "poll"
    BY DEF Reply
  <2>3. Answered' = Answered
    BY <2>1, <2>2 DEF Answered, OfKind
  <2> QED BY <1>1, <1>2, <2>1, <2>3 DEF LeavesKeys, NothingRevives, page, bounds
<1> QED BY <1>4, <1>5, <1>6 DEF HandlePoll

LEMMA SessionLeavesKeys ==
  ASSUME PollsInv, NEW s \in Sessions,
         \/ ReadPty(s) \/ SessionDone(s) \/ TimeOut(s) \/ Abandon(s) \/ Bury(s) \/ NoticeClose(s)
         \/ Output(s) \/ Exit(s)
  PROVE  LeavesKeys
<1>1. MaxResponse \in Nat /\ MaxEvents \in Nat
  BY BoundsAssumption
<1>2. CASE ReadPty(s)
  <2> DEFINE n == Min({Len(unread[s]), MaxResponse - Len(buffered[s])})
             more == SubSeq(unread[s], 1, n)
  <2>1. /\ state[s] = "live" /\ Len(buffered[s]) < MaxResponse
        /\ CompletePendingRequest(s, http[s], more, MaxResponse, FALSE, replies)
        /\ UNCHANGED <<page, requests, input, bounds, forSession, lostKeys, overtaken>>
    BY <1>2 DEF ReadPty
  <2>2. more \in Pieces
    <3>1. unread[s] \in Pieces /\ buffered[s] \in Pieces
      BY SessionTypes
    <3> QED BY <2>1, <3>1, SplitPty
  <2>3. Sent' = Sent
    BY <2>1 DEF Sent
  <2> HIDE DEF n, more
  <2> QED BY <1>1, <2>1, <2>2, <2>3, CompleteLeavesKeys
<1>3. CASE SessionDone(s)
  <2>1. /\ CompletePendingRequest(s, http[s], <<>>, MaxEvents, TRUE, replies)
        /\ UNCHANGED <<page, requests, input, bounds, forSession, lostKeys, overtaken>>
    BY <1>3 DEF SessionDone
  <2>2. Sent' = Sent
    BY <2>1 DEF Sent
  <2> QED BY <1>1, <2>1, <2>2, CompleteLeavesKeys, NothingIsASequence
<1>4. CASE TimeOut(s)
  <2>1. /\ state[s] = "live" /\ CompletePendingRequest(s, http[s], <<>>, MaxResponse, FALSE, replies)
        /\ UNCHANGED <<page, requests, input, bounds, forSession, lostKeys, overtaken>>
    BY <1>4, SessionTypes DEF TimeOut
  <2>2. Sent' = Sent
    BY <2>1 DEF Sent
  <2> QED BY <1>1, <2>1, <2>2, CompleteLeavesKeys, NothingIsASequence
<1>5. CASE Abandon(s) \/ Bury(s) \/ NoticeClose(s) \/ Output(s) \/ Exit(s)
  <2>1. /\ \A t \in Sessions : state'[t] = "live" => state[t] = "live"
        /\ UNCHANGED <<page, wire, input, typed, forSession, lostKeys, overtaken>>
    BY <1>5, SessionTypes DEF Abandon, Bury, NoticeClose, Output, Exit, daemon, bounds, history
  <2>2. Sent' = Sent /\ Answered' = Answered
    BY <2>1 DEF Sent, Answered, wire
  <2> QED BY <2>1, <2>2 DEF LeavesKeys, NothingRevives, page
<1> QED BY <1>2, <1>3, <1>4, <1>5

LEMMA StutterLeavesKeys == UNCHANGED vars => LeavesKeys
BY DEF LeavesKeys, NothingRevives, Sent, Answered, vars, page, wire, daemon, bounds, history

LEMMA NextKeys == KeysInv /\ [Next]_vars => KeysInv'
<1> SUFFICES ASSUME KeysInv, [Next]_vars PROVE KeysInv'
  OBVIOUS
<1>1. PollsInv /\ PollsInv'
  BY NextPolls DEF KeysInv
<1>2. ASSUME TypeKey \/ KeyPressReadyStateChange \/ OnReadyStateChange \/ Reconnect \/ Cut
      PROVE  KeysInv'
  BY <1>2, TypeKeyKeys, KeyPressReadyStateChangeKeys, OnReadyStateChangeKeys, ReconnectKeys, CutKeys
<1>3. ASSUME NEW r \in OfKind("poll", requests), HandlePoll(r) PROVE KeysInv'
  BY <1>1, <1>3, HandlePollLeavesKeys, KeepKeys DEF Polls
<1>4. ASSUME NEW r \in OfKind("keys", requests), HandleKeys(r) PROVE KeysInv'
  BY <1>4, HandleKeysKeys DEF Sent
<1>5. ASSUME NEW s \in Sessions,
             \/ ReadPty(s) \/ SessionDone(s) \/ TimeOut(s) \/ Abandon(s) \/ Bury(s) \/ NoticeClose(s)
             \/ Output(s) \/ Exit(s)
      PROVE  KeysInv'
  BY <1>1, <1>5, SessionLeavesKeys, KeepKeys
<1>6. ASSUME UNCHANGED vars PROVE KeysInv'
  BY <1>1, <1>6, StutterLeavesKeys, KeepKeys
<1> QED BY <1>2, <1>3, <1>4, <1>5, <1>6 DEF Next

LEMMA KeysInvariant == Spec => []KeysInv
BY InitKeys, NextKeys, PTL DEF Spec

LEMMA KeysAreInOrder == KeysInv => ShellGetsItsKeys
<1> SUFFICES ASSUME KeysInv, NEW s \in Sessions, NEW i \in DOMAIN input[s]
             PROVE  /\ forSession[input[s][i]] = s
                    /\ \A j \in DOMAIN input[s] : i < j =>
                         IF overtaken THEN input[s][i] # input[s][j] ELSE input[s][i] < input[s][j]
  BY DEF ShellGetsItsKeys
<1>1. input[s] \in Seq(Keys) /\ PollsInv
  BY KeyTypes DEF KeysInv
<1>2. DOMAIN input[s] = 1..Len(input[s]) /\ input[s][i] \in Range(input[s])
  BY <1>1, LenProperties DEF Range
<1>3. forSession[input[s][i]] = s
  BY <1>2 DEF KeysInv, KeyPlaces
<1>4. ASSUME NEW j \in DOMAIN input[s], i < j PROVE input[s][i] # input[s][j]
  BY <1>2, <1>4 DEF KeysInv, KeysOnce, Distinct
<1>5. ASSUME ~overtaken, NEW j \in DOMAIN input[s], i < j PROVE input[s][i] < input[s][j]
  BY <1>5 DEF KeysInv, KeysInOrder, Increasing
<1> QED BY <1>3, <1>4, <1>5

(* A shell gets the keys typed to its own session, each once (sendKeys, dataHandler), and in    *)
(* the order they were typed (keysInFlight) unless the user reconnected with keys in flight:    *)
(* however requests overtake each other, connections break and sessions end.                    *)
THEOREM ShellGetsKeysOnce == Spec => []ShellGetsItsKeys
BY KeysInvariant, KeysAreInOrder, PTL

-----------------------------------------------------------------------------
(* No key is lost. *)

(* As in NoKeyIsLost, with the sets of keys written out. *)
KeyIsSomewhere(k) ==
  LET s == forSession[k]
  IN \/ state[s] # "live" \/ session # s \/ k \in lostKeys
     \/ k \in Range(input[s]) \/ k \in Range(pendingKeys)
     \/ \E r \in Sent : k \in Range(r.keys)

LossInv ==
  /\ \A k \in 1..typed : KeyIsSomewhere(k)
  /\ connected /\ pendingKeys # <<>> => keysInFlight
  /\ keysInFlight => Sent # {} \/ Answered # {}

LEMMA InitLoss == Init => LossInv
<1> SUFFICES ASSUME Init PROVE LossInv
  OBVIOUS
<1>1. typed = 0 /\ connected = FALSE /\ keysInFlight = FALSE
  BY DEF Init
<1> QED BY <1>1 DEF LossInv

LEMMA KeyOwners ==
  ASSUME KeysInv
  PROVE  \A k \in 1..typed : forSession[k] \in Sessions /\ state[forSession[k]] # "none" /\ forSession[k] # None
BY SessionFacts DEF KeysInv, PollsInv, SessionInv

LEMMA KeepLoss == ASSUME KeysInv, LossInv, LeavesKeys PROVE LossInv'
<1>1. /\ UNCHANGED <<session, connected, pendingKeys, keysInFlight, input, typed, forSession, lostKeys>>
      /\ Sent' = Sent /\ Answered' = Answered
      /\ \A s \in Sessions : state[s] # "none" /\ state'[s] = "live" => state[s] = "live"
  BY DEF LeavesKeys, NothingRevives
<1>2. ASSUME NEW k \in 1..typed PROVE KeyIsSomewhere(k)'
  <2>1. forSession[k] \in Sessions /\ state[forSession[k]] # "none" /\ KeyIsSomewhere(k)
    BY KeyOwners DEF LossInv
  <2> QED BY <1>1, <2>1 DEF KeyIsSomewhere
<1> QED BY <1>1, <1>2 DEF LossInv

LEMMA TypeKeyLoss == KeysInv /\ LossInv /\ TypeKey => LossInv'
<1> SUFFICES ASSUME KeysInv, LossInv, TypeKey PROVE LossInv'
  OBVIOUS
<1> DEFINE k == typed + 1
           q == pendingKeys \o <<k>>
           n == KeyPress(session, q)
<1>1. /\ connected /\ typed' = typed + 1 /\ forSession' = [forSession EXCEPT ![k] = session]
      /\ SendKeys(keysInFlight, <<k>>)
      /\ UNCHANGED <<session, connected, replies, state, input, lostKeys>>
  BY DEF TypeKey, daemon
<1>2. PollsInv /\ Answered' = Answered
  BY <1>1 DEF KeysInv, Answered
<1>3. /\ k \in Keys /\ typed \in Nat
      /\ forSession'[k] = session /\ \A l \in 1..typed : forSession'[l] = forSession[l]
      /\ \A l \in 1..typed' : l = k \/ l \in 1..typed
  <2>1. typed \in Nat /\ k \in Keys /\ forSession \in [Keys -> Sessions \cup {None}]
    BY BoundsAssumption DEF KeysInv, PollsInv, TypeInv, TypeOK, TypeKey, Keys
  <2> QED BY <1>1, <2>1 DEF Keys
<1>4. Range(q) = Range(pendingKeys) \cup {k}
  <2>1. pendingKeys \in Seq(Keys) /\ <<k>> \in Seq(Keys) /\ Range(<<k>>) = {k}
    BY <1>2, <1>3, KeyTypes, ShortSequences
  <2>2. ASSUME NEW w \in Seq(Keys) PROVE Range(pendingKeys \o w) = Range(pendingKeys) \cup Range(w)
    BY <2>1, RangeConcatenation
  <2> QED BY <2>1, <2>2
<1>5. n.kind = "keys" /\ n.keys = q
  BY DEF KeyPress
<1>6. /\ keysInFlight' = TRUE
      /\ \/ keysInFlight /\ pendingKeys' = q /\ requests' = requests
         \/ pendingKeys' = <<>> /\ requests' = requests \cup {n}
  BY <1>1 DEF SendKeys
<1> HIDE DEF q, n, k
<1>7. \/ keysInFlight /\ pendingKeys' = q /\ Sent' = Sent
      \/ pendingKeys' = <<>> /\ Sent' = Sent \cup {n}
  BY <1>5, <1>6 DEF Sent, OfKind
<1>8. Sent' # {} \/ Answered' # {}
  BY <1>2, <1>7 DEF LossInv
<1>9. \A l \in Range(q) : l \in Range(pendingKeys') \/ \E r \in Sent' : l \in Range(r.keys)
  BY <1>5, <1>7
<1>10. \A r \in Sent : r \in Sent'
  BY <1>7
<1>11. ASSUME NEW l \in 1..typed' PROVE KeyIsSomewhere(l)'
  <2>1. CASE l \in Range(q)
    BY <1>9, <2>1 DEF KeyIsSomewhere
  <2>2. CASE l \notin Range(q)
    <3>1. l \in 1..typed /\ l \notin Range(pendingKeys)
      BY <1>3, <1>4, <1>11, <2>2
    <3>2. KeyIsSomewhere(l) /\ forSession'[l] = forSession[l]
      BY <1>3, <3>1 DEF LossInv
    <3> QED BY <1>1, <1>10, <3>1, <3>2 DEF KeyIsSomewhere
  <2> QED BY <2>1, <2>2
<1> QED BY <1>6, <1>8, <1>11 DEF LossInv

LEMMA KeyPressReadyStateChangeLoss == KeysInv /\ LossInv /\ KeyPressReadyStateChange => LossInv'
<1> SUFFICES ASSUME KeysInv, LossInv, KeyPressReadyStateChange PROVE LossInv'
  OBVIOUS
<1>1. PollsInv /\ pendingKeys \in Seq(Keys)
  BY KeyTypes DEF KeysInv
<1>2. PICK a \in Answered :
        /\ replies' = replies \ {a}
        /\ IF connected /\ pendingKeys # <<>>
           THEN SendKeys(FALSE, <<>>)
           ELSE keysInFlight' = FALSE /\ UNCHANGED <<pendingKeys, requests>>
        /\ UNCHANGED <<session, connected, button, screen, daemon, shells, bounds, history>>
  BY DEF KeyPressReadyStateChange, Answered
<1>3. UNCHANGED <<session, connected, state, input, typed, forSession, lostKeys>>
  BY <1>2 DEF daemon, bounds, history
<1>4. CASE connected /\ pendingKeys # <<>>
  <2>1. SendKeys(FALSE, <<>>) /\ pendingKeys \o <<>> = pendingKeys
    BY <1>1, <1>2, <1>4, ConcatEmptySeq
  <2> DEFINE n == KeyPress(session, pendingKeys)
  <2>2. pendingKeys' = <<>> /\ requests' = requests \cup {n}
    BY <2>1 DEF SendKeys
  <2>3. n.kind = "keys" /\ n.keys = pendingKeys
    BY DEF KeyPress
  <2> HIDE DEF n
  <2>4. Sent' = Sent \cup {n}
    BY <2>2, <2>3 DEF Sent, OfKind
  <2>5. \A k \in 1..typed : KeyIsSomewhere(k)'
    BY <1>3, <2>3, <2>4 DEF LossInv, KeyIsSomewhere
  <2> QED BY <1>3, <2>2, <2>4, <2>5 DEF LossInv
<1>5. CASE ~(connected /\ pendingKeys # <<>>)
  <2>1. keysInFlight' = FALSE /\ pendingKeys' = pendingKeys /\ requests' = requests
    BY <1>2, <1>5
  <2>2. Sent' = Sent
    BY <2>1 DEF Sent
  <2> QED BY <1>3, <1>5, <2>1, <2>2 DEF LossInv, KeyIsSomewhere
<1> QED BY <1>4, <1>5

LEMMA OnReadyStateChangeLoss == KeysInv /\ LossInv /\ OnReadyStateChange => LossInv'
<1> SUFFICES ASSUME KeysInv, LossInv, OnReadyStateChange PROVE LossInv'
  OBVIOUS
<1>1. PollsInv
  BY DEF KeysInv
<1>2. PICK a \in Answers : AnswerEffect(a)
  BY <1>1, OnReadyStateChangeEffect
<1>3. Sent' = Sent
  <2>1. requests' = requests \/ requests' = requests \cup {Poll(session')}
    BY <1>2 DEF AnswerEffect
  <2>2. Poll(session').kind = "poll"
    BY PollKinds
  <2> QED BY <2>1, <2>2 DEF Sent, OfKind
<1>4. Answered' = Answered
  BY <1>2 DEF AnswerEffect, Answered, OfKind
<1>5. UNCHANGED <<pendingKeys, keysInFlight, state, input, typed, forSession, lostKeys>>
  BY <1>2 DEF AnswerEffect, daemon, bounds, history
<1>6. connected' => connected \/ pendingKeys = <<>>
  <2>1. ~button /\ (~connected => pendingKeys = <<>>)
    BY <1>2 DEF AnswerEffect, KeysInv, KeyPlaces
  <2> QED BY <2>1
<1>7. ASSUME NEW k \in 1..typed PROVE session' # session => session' # forSession[k]
  <2>1. /\ session' = IF a.status = 400 THEN None ELSE IF a.status = 200 THEN a.session ELSE session
        /\ a.status = 200 => session \in {None, a.session}
    BY <1>2 DEF AnswerEffect
  <2>2. a.status = 200 /\ session = None => forSession[k] # a.session
    BY <1>1 DEF PollsInv, SessionInv
  <2> QED BY <2>1, <2>2, KeyOwners
<1>8. \A k \in 1..typed : KeyIsSomewhere(k)'
  BY <1>3, <1>5, <1>7 DEF LossInv, KeyIsSomewhere
<1> QED BY <1>3, <1>4, <1>5, <1>6, <1>8 DEF LossInv

LEMMA ReconnectLoss == KeysInv /\ LossInv /\ Reconnect => LossInv'
<1> SUFFICES ASSUME KeysInv, LossInv, Reconnect PROVE LossInv'
  OBVIOUS
<1>1. /\ button /\ pendingKeys' = <<>> /\ keysInFlight' = FALSE
      /\ UNCHANGED <<session, typed, forSession>>
  BY DEF Reconnect
<1>2. session = None
  BY <1>1 DEF KeysInv, PollsInv, SessionInv
<1> QED BY <1>1, <1>2, KeyOwners DEF LossInv, KeyIsSomewhere

LEMMA HandleKeysLoss == ASSUME KeysInv, LossInv, NEW r \in Sent, HandleKeys(r) PROVE LossInv'
<1> DEFINE a == Reply("keys", IF state[r.session] = "gone" THEN 400 ELSE 200, r.session, r.keys)
<1>1. /\ requests' = requests \ {r} /\ replies' = replies \cup {a}
      /\ input' = IF state[r.session] = "live" THEN [input EXCEPT ![r.session] = @ \o r.keys] ELSE input
      /\ UNCHANGED <<session, connected, pendingKeys, keysInFlight, state, typed, forSession, lostKeys>>
  BY DEF HandleKeys, page, bounds, history
<1>2. a.kind = "keys"
  BY DEF Reply
<1> HIDE DEF a
<1>3. Sent' = Sent \ {r} /\ Answered' # {}
  BY <1>1, <1>2 DEF Sent, Answered, OfKind
<1>4. /\ input \in [Sessions -> Seq(Keys)] /\ r.session \in Sessions /\ r.keys \in Seq(Keys)
      /\ \A k \in Range(r.keys) : forSession[k] = r.session
  BY KeyTypes DEF KeysInv, KeyPlaces
<1>5. /\ \A s \in Sessions : \A k \in Range(input[s]) : k \in Range(input'[s])
      /\ state[r.session] = "live" => \A k \in Range(r.keys) : k \in Range(input'[r.session])
  <2>1. CASE state[r.session] = "live"
    <3>1. input'[r.session] = input[r.session] \o r.keys /\ input[r.session] \in Seq(Keys)
      BY <1>1, <1>4, <2>1
    <3>2. Range(input'[r.session]) = Range(input[r.session]) \cup Range(r.keys)
      BY <1>4, <3>1, RangeConcatenation
    <3>3. \A s \in Sessions : s # r.session => input'[s] = input[s]
      BY <1>1, <1>4, <2>1
    <3> QED BY <3>2, <3>3
  <2>2. CASE state[r.session] # "live"
    BY <1>1, <2>2
  <2> QED BY <2>1, <2>2
<1>6. ASSUME NEW k \in 1..typed PROVE KeyIsSomewhere(k)'
  <2>1. forSession[k] \in Sessions /\ KeyIsSomewhere(k)
    BY KeyOwners DEF LossInv
  <2>2. CASE k \in Range(r.keys)
    BY <1>1, <1>4, <1>5, <2>2 DEF KeyIsSomewhere
  <2>3. CASE k \notin Range(r.keys)
    BY <1>1, <1>3, <1>5, <2>1, <2>3 DEF KeyIsSomewhere
  <2> QED BY <2>2, <2>3
<1> QED BY <1>1, <1>3, <1>6 DEF LossInv

LEMMA CutRequestLoss ==
  ASSUME KeysInv, LossInv, CutRest, NEW r \in requests, CutRequest(r) PROVE LossInv'
<1> DEFINE a == Reply(r.kind, 0, r.session, r.keys)
<1>1. /\ requests' = requests \ {r} /\ replies' = replies \cup {a}
      /\ lostKeys' = lostKeys \cup Range(r.keys)
      /\ UNCHANGED <<session, connected, pendingKeys, keysInFlight, state, input, typed, forSession>>
  BY ToSetIsRange DEF CutRequest, CutRest, page
<1>2. a.kind = r.kind
  BY DEF Reply
<1> HIDE DEF a
<1>3. \A n \in Sent : n \in Sent' \/ Range(n.keys) \subseteq lostKeys'
  BY <1>1 DEF Sent, OfKind
<1>4. Sent # {} \/ Answered # {} => Sent' # {} \/ Answered' # {}
  BY <1>1, <1>2 DEF Sent, Answered, OfKind
<1>5. \A k \in 1..typed : KeyIsSomewhere(k)'
  BY <1>1, <1>3 DEF LossInv, KeyIsSomewhere
<1> QED BY <1>1, <1>4, <1>5 DEF LossInv

LEMMA CutLoss == KeysInv /\ LossInv /\ Cut => LossInv'
<1> SUFFICES ASSUME KeysInv, LossInv, Cut PROVE LossInv'
  OBVIOUS
<1>1. CutRest
  BY CutCases
<1> QED BY <1>1, CutCases, CutRequestLoss, CutKeptLeavesKeys, CutAnswerLeavesKeys, KeepLoss

LEMMA NextLoss == KeysInv /\ LossInv /\ [Next]_vars => LossInv'
<1> SUFFICES ASSUME KeysInv, LossInv, [Next]_vars PROVE LossInv'
  OBVIOUS
<1>1. PollsInv
  BY DEF KeysInv
<1>2. ASSUME TypeKey \/ KeyPressReadyStateChange \/ OnReadyStateChange \/ Reconnect \/ Cut
      PROVE  LossInv'
  BY <1>2, TypeKeyLoss, KeyPressReadyStateChangeLoss, OnReadyStateChangeLoss, ReconnectLoss, CutLoss
<1>3. ASSUME NEW r \in OfKind("poll", requests), HandlePoll(r) PROVE LossInv'
  BY <1>1, <1>3, HandlePollLeavesKeys, KeepLoss DEF Polls
<1>4. ASSUME NEW r \in OfKind("keys", requests), HandleKeys(r) PROVE LossInv'
  BY <1>4, HandleKeysLoss DEF Sent
<1>5. ASSUME NEW s \in Sessions,
             \/ ReadPty(s) \/ SessionDone(s) \/ TimeOut(s) \/ Abandon(s) \/ Bury(s) \/ NoticeClose(s)
             \/ Output(s) \/ Exit(s)
      PROVE  LossInv'
  BY <1>1, <1>5, SessionLeavesKeys, KeepLoss
<1>6. ASSUME UNCHANGED vars PROVE LossInv'
  BY <1>6, StutterLeavesKeys, KeepLoss
<1> QED BY <1>2, <1>3, <1>4, <1>5, <1>6 DEF Next

LEMMA KeysAreSomewhere == LossInv => NoKeyIsLost
<1> SUFFICES ASSUME LossInv PROVE NoKeyIsLost
  OBVIOUS
<1>1. ASSUME NEW k \in 1..typed, NEW s, s = forSession[k]
      PROVE  \/ state[s] # "live" \/ session # s \/ k \in lostKeys
             \/ k \in ToSet(input[s]) \cup ToSet(pendingKeys)
                  \cup UNION {ToSet(r.keys) : r \in OfKind("keys", requests)}
  <2>1. KeyIsSomewhere(k)
    BY DEF LossInv
  <2> QED BY <1>1, <2>1, ToSetIsRange DEF KeyIsSomewhere, Sent
<1>2. keysInFlight => OfKind("keys", requests \cup replies) # {}
  BY DEF LossInv, Sent, Answered, OfKind
<1> QED BY <1>1, <1>2 DEF NoKeyIsLost, LossInv

(* A key typed to a session that is live is with the shell, on its way or waiting, unless a *)
(* connection broke that carried it; and keys wait only for an answer that will come        *)
(* (sendKeys, keyPressReadyStateChange).                                                    *)
THEOREM KeysAreNotLost == Spec => []NoKeyIsLost
<1>1. KeysInv /\ LossInv /\ [Next]_vars => LossInv'
  BY NextLoss
<1> QED BY <1>1, KeysInvariant, InitLoss, KeysAreSomewhere, PTL DEF Spec

-----------------------------------------------------------------------------
(* No output is lost. *)

(* d is what an answer on its way carries of session s, if there is one. *)
Taken(s, d) ==
  IF \E a \in Answers : a.session = s
  THEN \E a \in Answers : a.session = s /\ d = a.data
  ELSE d = <<>>

Whole(w, d, b, u) == w \o d \o b \o u
WholeWith(s, d) == Whole(screen[s], d, buffered[s], unread[s]) = [i \in 1..outputs[s] |-> i]

OutInv == \A s \in Sessions \ spoiled : \A d \in Pieces : Taken(s, d) => WholeWith(s, d)

LEMMA InitOutput == Init => OutInv
<1> SUFFICES ASSUME Init, NEW s \in Sessions, NEW d, Taken(s, d) PROVE WholeWith(s, d)
  BY DEF OutInv
<1>1. d = <<>>
  BY DEF Init, Taken, Answers, OfKind
<1>2. screen[s] = <<>> /\ buffered[s] = <<>> /\ unread[s] = <<>> /\ outputs[s] = 0
  BY DEF Init
<1> QED BY <1>1, <1>2 DEF WholeWith, Whole

(* Nothing happens to a session that goes on. *)
SameOutput(s) ==
  /\ s \notin spoiled /\ screen'[s] = screen[s] /\ buffered'[s] = buffered[s]
  /\ unread'[s] = unread[s] /\ outputs'[s] = outputs[s]
  /\ \A d \in Pieces : Taken(s, d)' => Taken(s, d)

LEMMA KeepOutput ==
  ASSUME OutInv, NEW s \in Sessions \ spoiled', SameOutput(s), NEW d \in Pieces, Taken(s, d)'
  PROVE  WholeWith(s, d)'
BY DEF OutInv, SameOutput, WholeWith

LEMMA PieceTypes ==
  ASSUME PollsInv
  PROVE  /\ screen \in [Sessions -> Pieces] /\ buffered \in [Sessions -> Pieces]
         /\ unread \in [Sessions -> Pieces] /\ outputs \in [Sessions -> Nat]
         /\ \A a \in Answers : a.data \in Pieces /\ (a.status # 200 => a.data = <<>>)
<1>1. outputs \in [Sessions -> Nat]
  BY BoundsAssumption DEF PollsInv, TypeInv, TypeOK
<1>2. \A a \in Answers : a.data \in Pieces /\ (a.status # 200 => a.data = <<>>)
  BY DEF PollsInv, TypeInv, Answers, OfKind
<1> QED BY <1>1, <1>2 DEF PollsInv, TypeInv, TypeOK

(* \o under a name of its own: the prover is not to look at elements. *)
Cat(a, b) == a \o b

LEMMA Associate == \A a, b, c \in Pieces : Cat(Cat(a, b), c) = Cat(a, Cat(b, c))
BY ConcatAssociative DEF Pieces, Cat

LEMMA Together == \A a, b \in Pieces : Cat(a, b) \in Pieces
BY ConcatProperties DEF Pieces, Cat

LEMMA NothingAdds == \A a \in Pieces : Cat(a, <<>>) = a /\ Cat(<<>>, a) = a
BY ConcatEmptySeq DEF Pieces, Cat

LEMMA WholeIsCat == \A w, d, b, u : Whole(w, d, b, u) = Cat(Cat(Cat(w, d), b), u)
BY DEF Whole, Cat

(* Output that is cut at another place is the same output. *)
SameCut(w, d, r, b, more, v) == Cat(Cat(Cat(w, d), r), v) = Cat(Cat(w, b), Cat(more, v))

LEMMA CutElsewhere ==
  ASSUME NEW w \in Pieces, NEW b \in Pieces, NEW more \in Pieces,
         NEW d \in Pieces, NEW r \in Pieces, NEW v \in Pieces,
         Cat(d, r) = Cat(b, more)
  PROVE  SameCut(w, d, r, b, more, v)
<1>1. Cat(Cat(w, d), r) = Cat(w, Cat(d, r))
  BY Associate
<1>2. Cat(Cat(w, Cat(d, r)), v) = Cat(w, Cat(Cat(d, r), v))
  BY Associate, Together
<1>3. Cat(Cat(b, more), v) = Cat(b, Cat(more, v))
  BY Associate
<1>4. Cat(w, Cat(b, Cat(more, v))) = Cat(Cat(w, b), Cat(more, v))
  BY Associate, Together
<1> QED BY <1>1, <1>2, <1>3, <1>4 DEF SameCut

(* completePendingRequest moves output from the pty to the buffer to the answer. *)
LEMMA CompleteOutput ==
  ASSUME PollsInv, OutInv, NEW s \in Sessions, NEW h, NEW more \in Pieces, NEW max \in Nat,
         NEW over \in BOOLEAN, CompletePendingRequest(s, h, more, max, over, replies),
         h = "open" => Answers = {}, h \in {"none", "open", "broken"},
         unread' \in [Sessions -> Pieces], Cat(more, unread'[s]) = unread[s],
         \A t \in Sessions : t # s => unread'[t] = unread[t],
         UNCHANGED <<screen, outputs>>
  PROVE  OutInv'
<1>1. PICK data, rest \in Pieces : Completes(s, h, more, over, replies, data, rest)
  <2>1. buffered[s] \in Pieces
    BY PieceTypes
  <2> QED BY <2>1, Complete
<1> DEFINE b == Reply("poll", 200, s, data)
<1>2. b.kind = "poll" /\ b.session = s /\ b.data = data
  BY DEF Reply
<1> HIDE DEF b
<1>3. replies' = IF h = "open" THEN replies \cup {b} ELSE replies
  BY <1>1 DEF Completes, b
<1>4. Answers' = IF h = "open" THEN Answers \cup {b} ELSE Answers
  BY <1>2, <1>3 DEF Answers, OfKind
<1>5. /\ data \o rest = buffered[s] \o more /\ (h = "none" => data = <<>>)
      /\ buffered'[s] = rest /\ \A t \in Sessions : t # s => buffered'[t] = buffered[t]
      /\ spoiled' = IF h = "broken" /\ data # <<>> THEN spoiled \cup {s} ELSE spoiled
  BY <1>1, PieceTypes DEF Completes
<1> SUFFICES ASSUME NEW t \in Sessions \ spoiled', NEW d \in Pieces, Taken(t, d)'
             PROVE  WholeWith(t, d)'
  BY DEF OutInv
<1>6. CASE t # s
  <2>1. Taken(t, d)
    BY <1>2, <1>4, <1>6 DEF Taken
  <2>2. SameOutput(t)
    <3>1. \A e \in Pieces : Taken(t, e)' => Taken(t, e)
      BY <1>2, <1>4, <1>6 DEF Taken
    <3> QED BY <1>5, <1>6, <3>1 DEF SameOutput
  <2> QED BY <2>2, KeepOutput
<1>7. CASE t = s
  <2>1. /\ screen[s] \in Pieces /\ buffered[s] \in Pieces /\ unread[s] \in Pieces /\ unread'[s] \in Pieces
        /\ s \notin spoiled
    BY <1>5, <1>7, PieceTypes
  <2>2. Cat(data, rest) = Cat(buffered[s], more) /\ unread[s] = Cat(more, unread'[s])
    BY <1>5 DEF Cat
  <2>3. Cat(Cat(Cat(screen[s], d), rest), unread'[s]) = [i \in 1..outputs[s] |-> i] => WholeWith(s, d)'
    BY <1>5, WholeIsCat DEF WholeWith
  <2>6. \A w \in Pieces : Cat(Cat(Cat(w, data), rest), unread'[s]) = Cat(Cat(w, buffered[s]), unread[s])
    <3>1. PICK b0 \in Pieces, v \in Pieces : b0 = buffered[s] /\ v = unread'[s]
      BY <2>1
    <3>2. Cat(data, rest) = Cat(b0, more) /\ unread[s] = Cat(more, v)
      BY <2>2, <3>1
    <3>3. \A w \in Pieces : SameCut(w, data, rest, b0, more, v)
      BY <3>2, CutElsewhere
    <3> QED BY <3>1, <3>2, <3>3 DEF SameCut
  <2>4. CASE h = "open"
    <3>1. d = data
      BY <1>2, <1>4, <1>7, <2>4 DEF Taken
    <3>2. WholeWith(s, <<>>)
      BY <2>1, <2>4, NothingIsASequence DEF OutInv, Taken
    <3>3. Cat(Cat(screen[s], buffered[s]), unread[s]) = [i \in 1..outputs[s] |-> i]
      <4>1. Cat(screen[s], <<>>) = screen[s]
        BY <2>1, NothingAdds
      <4>2. Whole(screen[s], <<>>, buffered[s], unread[s]) = Cat(Cat(screen[s], buffered[s]), unread[s])
        BY <4>1, WholeIsCat
      <4> QED BY <3>2, <4>2 DEF WholeWith
    <3>4. Cat(Cat(Cat(screen[s], d), rest), unread'[s]) = Cat(Cat(screen[s], buffered[s]), unread[s])
      BY <2>1, <2>6, <3>1
    <3> QED BY <1>7, <2>3, <3>3, <3>4
  <2>5. CASE h # "open"
    <3>1. Taken(s, d)
      BY <1>4, <1>7, <2>5 DEF Taken
    <3>2. Cat(Cat(Cat(screen[s], d), buffered[s]), unread[s]) = [i \in 1..outputs[s] |-> i]
      BY <2>1, <3>1, WholeIsCat DEF OutInv, WholeWith
    <3>3. data = <<>>
      BY <1>5, <1>7, <2>5
    <3>4. Cat(screen[s], d) \in Pieces
      BY <2>1, Together
    <3>5. Cat(Cat(Cat(Cat(screen[s], d), data), rest), unread'[s])
            = Cat(Cat(Cat(screen[s], d), buffered[s]), unread[s])
      BY <2>6, <3>4
    <3>6. Cat(Cat(screen[s], d), data) = Cat(screen[s], d)
      BY <3>3, <3>4, NothingAdds
    <3> QED BY <1>7, <2>3, <3>2, <3>5, <3>6
  <2> QED BY <2>4, <2>5
<1> QED BY <1>6, <1>7

LEMMA HandlePollOutput == ASSUME PollsInv, OutInv, NEW r \in Polls, HandlePoll(r) PROVE OutInv'
<1>1. /\ UNCHANGED <<screen, unread, outputs>> /\ MaxResponse \in Nat /\ Answers = {}
      /\ r.session = session /\ session \in Sessions \cup {None}
  <2>1. Answers = {}
    BY ThePoll DEF PollsInv
  <2> QED BY <2>1, BoundsAssumption DEF HandlePoll, page, shells, PollsInv, SessionInv, TypeInv, TypeOK
<1>2. ASSUME NEW s \in Sessions, NEW over \in BOOLEAN,
             CompletePendingRequest(s, "open", <<>>, MaxResponse, over, replies)
      PROVE  OutInv'
  <2>1. unread' \in [Sessions -> Pieces] /\ Cat(<<>>, unread'[s]) = unread[s]
    BY <1>1, PieceTypes, NothingAdds
  <2> QED BY <1>1, <1>2, <2>1, CompleteOutput, NothingIsASequence
<1>3. CASE NewSession(r)
  BY <1>2, <1>3 DEF NewSession
<1>4. CASE AnswerPoll(r)
  <2>1. PICK s \in Sessions : s = r.session
    BY <1>1, <1>4 DEF AnswerPoll
  <2>2. \/ CompletePendingRequest(s, "open", <<>>, MaxResponse, TRUE, replies)
        \/ CompletePendingRequest(s, "open", <<>>, MaxResponse, FALSE, replies)
    <3>1. CASE state[s] = "done"
      BY <1>4, <2>1, <3>1 DEF AnswerPoll, CompletePendingRequest
    <3>2. CASE state[s] # "done"
      BY <1>4, <2>1, <3>2 DEF AnswerPoll, CompletePendingRequest
    <3> QED BY <3>1, <3>2
  <2> QED BY <1>2, <2>2
<1>5. CASE NoSession(r) \/ KeepPoll(r)
  <2> DEFINE b == Reply("poll", 400, None, <<>>)
  <2>1. UNCHANGED <<buffered, spoiled>> /\ (replies' = replies \/ replies' = replies \cup {b})
    BY <1>5 DEF NoSession, KeepPoll
  <2>2. b.kind = "poll" /\ b.session = None
    BY DEF Reply
  <2> HIDE DEF b
  <2>3. Answers' \subseteq {b}
    BY <1>1, <2>1, <2>2 DEF Answers, OfKind
  <2>4. \A s \in Sessions \ spoiled' : SameOutput(s)
    BY <1>1, <2>1, <2>2, <2>3, SessionFacts DEF SameOutput, Taken
  <2> QED BY <2>4, KeepOutput DEF OutInv
<1> QED BY <1>3, <1>4, <1>5 DEF HandlePoll

LEMMA KeptHasNoAnswer == ASSUME PollsInv, NEW s \in Sessions, http[s] = "open" PROVE Answers = {}
<1>1. s \in Kept
  BY DEF Kept
<1> QED BY <1>1, TheKept DEF PollsInv

LEMMA SessionOutput ==
  ASSUME PollsInv, OutInv, NEW s \in Sessions, ReadPty(s) \/ SessionDone(s) \/ TimeOut(s)
  PROVE  OutInv'
<1>1. MaxResponse \in Nat /\ MaxEvents \in Nat /\ http[s] \in {"none", "open", "broken"}
  BY BoundsAssumption, SessionTypes
<1>2. /\ UNCHANGED <<screen, outputs>> /\ unread \in [Sessions -> Pieces]
      /\ unread[s] \in Pieces /\ buffered[s] \in Pieces
  BY PieceTypes DEF ReadPty, SessionDone, TimeOut, page, shells
<1>3. CASE ReadPty(s)
  <2> DEFINE n == Min({Len(unread[s]), MaxResponse - Len(buffered[s])})
             more == SubSeq(unread[s], 1, n)
             left == SubSeq(unread[s], n + 1, Len(unread[s]))
  <2>1. /\ Len(buffered[s]) < MaxResponse
        /\ CompletePendingRequest(s, http[s], more, MaxResponse, FALSE, replies)
        /\ unread' = [unread EXCEPT ![s] = left]
    BY <1>3 DEF ReadPty
  <2>2. more \in Pieces /\ left \in Pieces /\ Cat(more, left) = unread[s]
    BY <1>2, <2>1, SplitPty DEF Cat
  <2> HIDE DEF n, more, left
  <2>3. /\ unread' \in [Sessions -> Pieces] /\ Cat(more, unread'[s]) = unread[s]
        /\ \A t \in Sessions : t # s => unread'[t] = unread[t]
    BY <1>2, <2>1, <2>2
  <2> QED BY <1>1, <1>2, <2>1, <2>2, <2>3, CompleteOutput, KeptHasNoAnswer
<1>4. CASE SessionDone(s)
  <2>1. /\ CompletePendingRequest(s, http[s], <<>>, MaxEvents, TRUE, replies)
        /\ unread' = unread
    BY <1>4 DEF SessionDone
  <2>2. Cat(<<>>, unread'[s]) = unread[s]
    BY <1>2, <2>1, NothingAdds
  <2> QED BY <1>1, <1>2, <2>1, <2>2, CompleteOutput, KeptHasNoAnswer, NothingIsASequence
<1>5. CASE TimeOut(s)
  <2>1. /\ CompletePendingRequest(s, http[s], <<>>, MaxResponse, FALSE, replies)
        /\ unread' = unread
    BY <1>5 DEF TimeOut, shells
  <2>2. Cat(<<>>, unread'[s]) = unread[s]
    BY <1>2, <2>1, NothingAdds
  <2> QED BY <1>1, <1>2, <2>1, <2>2, CompleteOutput, KeptHasNoAnswer, NothingIsASequence
<1> QED BY <1>3, <1>4, <1>5

(* A session that ends unheard is spoiled; a shell that ends has said what it said. *)
LEMMA EndOutput ==
  ASSUME PollsInv, OutInv, NEW s \in Sessions, Abandon(s) \/ Bury(s) \/ NoticeClose(s) \/ Exit(s)
  PROVE  OutInv'
<1>1. \A t \in Sessions \ spoiled' : SameOutput(t)
  <2>1. Answers' = Answers /\ UNCHANGED <<screen, outputs>>
    BY DEF Abandon, Bury, NoticeClose, Exit, Answers, page, wire, shells
  <2>2. ASSUME NEW t \in Sessions \ spoiled'
        PROVE  t \notin spoiled /\ buffered'[t] = buffered[t] /\ unread'[t] = unread[t]
    BY PieceTypes DEF Abandon, Bury, NoticeClose, Exit, ClosePty, daemon, shells, history
  <2> QED BY <2>1, <2>2 DEF SameOutput, Taken
<1> QED BY <1>1, KeepOutput DEF OutInv

LEMMA AddOne == \A q \in Pieces, e \in 1..MaxEvents : Append(q, e) = Cat(q, <<e>>)
BY AppendIsConcat DEF Pieces, Cat

LEMMA OneMore ==
  ASSUME NEW w \in Pieces, NEW n \in Nat, w = [i \in 1..n |-> i]
  PROVE  Append(w, n + 1) = [i \in 1..(n + 1) |-> i]
<1>1. Len(w) = n
  BY LenProperties DEF Pieces
<1>2. Append(w, n + 1) = [i \in 1..(n + 1) |-> IF i = n + 1 THEN n + 1 ELSE w[i]]
  BY <1>1 DEF Append
<1> QED BY <1>2

LEMMA OutputOutput == ASSUME PollsInv, OutInv, NEW s \in Sessions, Output(s) PROVE OutInv'
<1> DEFINE e == outputs[s] + 1
<1>1. /\ outputs' = [outputs EXCEPT ![s] = @ + 1] /\ unread' = [unread EXCEPT ![s] = Append(@, e)]
      /\ UNCHANGED <<screen, replies, buffered, spoiled>>
  BY DEF Output, page, wire, daemon, history
<1>2. Answers' = Answers
  BY <1>1 DEF Answers
<1> SUFFICES ASSUME NEW t \in Sessions \ spoiled', NEW d \in Pieces, Taken(t, d)'
             PROVE  WholeWith(t, d)'
  BY DEF OutInv
<1>3. Taken(t, d) /\ WholeWith(t, d)
  BY <1>1, <1>2 DEF OutInv, Taken
<1>4. CASE t # s
  BY <1>1, <1>3, <1>4, PieceTypes DEF WholeWith
<1>5. CASE t = s
  <2> DEFINE w == Cat(Cat(screen[s], d), buffered[s])
  <2>1. w \in Pieces /\ unread[s] \in Pieces /\ outputs[s] \in Nat /\ Cat(w, unread[s]) \in Pieces
    BY PieceTypes, Together
  <2>2. Cat(w, unread[s]) = [i \in 1..outputs[s] |-> i]
    BY <1>3, <1>5, WholeIsCat DEF WholeWith
  <2>3. e \in 1..MaxEvents
    BY BoundsAssumption DEF PollsInv, TypeInv, TypeOK, Output
  <2>4. Whole(screen[s], d, buffered[s], Append(unread[s], e)) = Cat(w, Append(unread[s], e))
    BY WholeIsCat
  <2> HIDE DEF w
  <2>5. Cat(w, Append(unread[s], e)) = Append(Cat(w, unread[s]), e)
    <3> HIDE DEF e
    <3>1. /\ Append(unread[s], e) = Cat(unread[s], <<e>>)
          /\ Append(Cat(w, unread[s]), e) = Cat(Cat(w, unread[s]), <<e>>)
      BY <2>1, <2>3, AddOne
    <3>2. <<e>> \in Pieces
      BY <2>3 DEF Pieces
    <3> QED BY <2>1, <3>1, <3>2, Associate
  <2>6. Append(Cat(w, unread[s]), e) = [i \in 1..e |-> i]
    BY <2>1, <2>2, OneMore
  <2>7. unread'[s] = Append(unread[s], e) /\ outputs'[s] = e
    BY <1>1, PieceTypes
  <2> QED BY <1>1, <1>5, <2>4, <2>5, <2>6, <2>7 DEF WholeWith
<1> QED BY <1>4, <1>5

LEMMA OnReadyStateChangeOutput == PollsInv /\ OutInv /\ OnReadyStateChange => OutInv'
<1> SUFFICES ASSUME PollsInv, OutInv, OnReadyStateChange PROVE OutInv'
  OBVIOUS
<1>1. PICK a \in Answers : AnswerEffect(a)
  BY OnReadyStateChangeEffect
<1>2. /\ Answers = {a} /\ a.kind = "poll" /\ replies' = replies \ {a} /\ a.data \in Pieces
      /\ screen' = IF a.status = 200 THEN [screen EXCEPT ![a.session] = @ \o a.data] ELSE screen
      /\ UNCHANGED <<buffered, unread, outputs, spoiled>>
  BY <1>1 DEF AnswerEffect, daemon, shells, history
<1>3. Answers' = {}
  BY <1>2 DEF Answers, OfKind
<1> SUFFICES ASSUME NEW t \in Sessions \ spoiled', NEW d \in Pieces, Taken(t, d)'
             PROVE  WholeWith(t, d)'
  BY DEF OutInv
<1>4. d = <<>>
  BY <1>3 DEF Taken
<1>5. screen[t] \in Pieces
  BY PieceTypes
<1>6. CASE a.session = t
  <2>1. Taken(t, a.data)
    BY <1>2, <1>6 DEF Taken
  <2>2. WholeWith(t, a.data)
    BY <1>2, <2>1 DEF OutInv
  <2>3. screen'[t] = Cat(screen[t], a.data)
    <3>1. CASE a.status = 200
      BY <1>2, <1>6, <3>1, PieceTypes DEF Cat
    <3>2. CASE a.status # 200
      BY <1>2, <1>5, <3>2, PieceTypes, NothingAdds
    <3> QED BY <3>1, <3>2
  <2>4. Cat(screen'[t], d) = Cat(screen[t], a.data)
    BY <1>2, <1>4, <1>5, <2>3, Together, NothingAdds
  <2>5. Whole(screen'[t], d, buffered[t], unread[t]) = Whole(screen[t], a.data, buffered[t], unread[t])
    BY <2>4, WholeIsCat
  <2> QED BY <1>2, <2>2, <2>5 DEF WholeWith
<1>7. CASE a.session # t
  <2>1. Taken(t, d)
    BY <1>2, <1>4, <1>7 DEF Taken
  <2>2. WholeWith(t, d)
    BY <1>2, <2>1 DEF OutInv
  <2>3. screen'[t] = screen[t]
    <3>1. PICK n : screen' = [screen EXCEPT ![a.session] = n] \/ screen' = screen
      BY <1>2
    <3> QED BY <1>7, <3>1, PieceTypes
  <2>4. UNCHANGED <<buffered, unread, outputs>>
    BY <1>2
  <2> QED BY <2>2, <2>3, <2>4 DEF WholeWith
<1> QED BY <1>6, <1>7

LEMMA CutOutput == PollsInv /\ OutInv /\ Cut => OutInv'
<1> SUFFICES ASSUME PollsInv, OutInv, Cut PROVE OutInv'
  OBVIOUS
<1>1. UNCHANGED <<screen, buffered, unread, outputs>>
  BY CutCases DEF CutRest, page, shells
<1>2. ASSUME NEW r \in requests, CutRequest(r) PROVE \A s \in Sessions \ spoiled' : SameOutput(s)
  <2> DEFINE b == Reply(r.kind, 0, r.session, r.keys)
  <2>1. replies' = replies \cup {b} /\ spoiled' = spoiled
    BY <1>2 DEF CutRequest
  <2>2. b.kind = r.kind /\ b.data = r.keys
    BY DEF Reply
  <2> HIDE DEF b
  <2>3. CASE r.kind = "poll"
    <3>1. r.keys = <<>>
      BY <2>3 DEF PollsInv, TypeInv
    <3>2. Answers = {}
      <4>1. r \in Polls
        BY <2>3 DEF Polls, OfKind
      <4> QED BY <4>1, ThePoll DEF PollsInv
    <3>3. Answers' = {b}
      BY <2>1, <2>2, <2>3, <3>2 DEF Answers, OfKind
    <3> QED BY <1>1, <2>1, <2>2, <3>1, <3>2, <3>3 DEF SameOutput, Taken
  <2>4. CASE r.kind # "poll"
    <3>1. Answers' = Answers
      BY <2>1, <2>2, <2>4 DEF Answers, OfKind
    <3> QED BY <1>1, <2>1, <3>1 DEF SameOutput, Taken
  <2> QED BY <2>3, <2>4
<1>3. ASSUME NEW s \in Sessions, CutKept(s) PROVE \A t \in Sessions \ spoiled' : SameOutput(t)
  <2> DEFINE b == Reply("poll", 0, s, <<>>)
  <2>1. http[s] = "open" /\ replies' = replies \cup {b} /\ spoiled' = spoiled
    BY <1>3 DEF CutKept
  <2>2. b.kind = "poll" /\ b.data = <<>>
    BY DEF Reply
  <2> HIDE DEF b
  <2>3. Answers = {} /\ Answers' = {b}
    BY <2>1, <2>2, KeptHasNoAnswer DEF Answers, OfKind
  <2> QED BY <1>1, <2>1, <2>2, <2>3 DEF SameOutput, Taken
<1>4. ASSUME NEW a \in Answers, CutAnswer(a) PROVE \A t \in Sessions \ spoiled' : SameOutput(t)
  <2> DEFINE b == Reply("poll", 0, a.session, <<>>)
  <2>1. replies' = (replies \ {a}) \cup {b} /\ spoiled' = spoiled \cup {a.session}
    BY <1>4 DEF CutAnswer
  <2>2. b.kind = "poll" /\ b.session = a.session
    BY DEF Reply
  <2> HIDE DEF b
  <2>3. Answers = {a}
    BY TheAnswer DEF PollsInv
  <2>4. Answers' = {b}
    BY <2>1, <2>2, <2>3 DEF Answers, OfKind
  <2> QED BY <1>1, <2>1, <2>2, <2>3, <2>4 DEF SameOutput, Taken
<1>5. \A t \in Sessions \ spoiled' : SameOutput(t)
  BY <1>2, <1>3, <1>4, CutCases
<1> QED BY <1>5, KeepOutput DEF OutInv

(* What the page does with keys, and the daemon with them, has nothing to do with output. *)
LEMMA KeysOutput ==
  ASSUME PollsInv, OutInv,
         \/ TypeKey \/ KeyPressReadyStateChange \/ Reconnect \/ UNCHANGED vars
         \/ \E r \in Sent : HandleKeys(r)
  PROVE  OutInv'
<1>1. UNCHANGED <<screen, buffered, unread, outputs, spoiled>>
  BY DEF TypeKey, KeyPressReadyStateChange, Reconnect, HandleKeys, vars, page, daemon, shells, history
<1>2. Answers' = Answers
  <2>1. CASE TypeKey \/ Reconnect \/ UNCHANGED vars
    BY <2>1 DEF TypeKey, Reconnect, vars, wire, Answers
  <2>2. CASE KeyPressReadyStateChange
    BY <2>2 DEF KeyPressReadyStateChange, Answers, OfKind
  <2>3. ASSUME NEW r \in Sent, HandleKeys(r) PROVE Answers' = Answers
    <3> DEFINE b == Reply("keys", IF state[r.session] = "gone" THEN 400 ELSE 200, r.session, r.keys)
    <3>1. replies' = replies \cup {b}
      BY <2>3 DEF HandleKeys
    <3>2. b.kind = "keys"
      BY DEF Reply
    <3> HIDE DEF b
    <3> QED BY <3>1, <3>2 DEF Answers, OfKind
  <2> QED BY <2>1, <2>2, <2>3
<1>3. \A t \in Sessions \ spoiled' : SameOutput(t)
  BY <1>1, <1>2 DEF SameOutput, Taken
<1> QED BY <1>3, KeepOutput DEF OutInv

LEMMA NextOutput == PollsInv /\ OutInv /\ [Next]_vars => OutInv'
<1> SUFFICES ASSUME PollsInv, OutInv, [Next]_vars PROVE OutInv'
  OBVIOUS
<1>1. ASSUME TypeKey \/ KeyPressReadyStateChange \/ OnReadyStateChange \/ Reconnect \/ Cut
      PROVE  OutInv'
  BY <1>1, KeysOutput, OnReadyStateChangeOutput, CutOutput
<1>2. ASSUME NEW r \in OfKind("poll", requests), HandlePoll(r) PROVE OutInv'
  BY <1>2, HandlePollOutput DEF Polls
<1>3. ASSUME NEW r \in OfKind("keys", requests), HandleKeys(r) PROVE OutInv'
  BY <1>3, KeysOutput DEF Sent
<1>4. ASSUME NEW s \in Sessions, ReadPty(s) \/ SessionDone(s) \/ TimeOut(s) PROVE OutInv'
  BY <1>4, SessionOutput
<1>5. ASSUME NEW s \in Sessions, Abandon(s) \/ Bury(s) \/ NoticeClose(s) \/ Exit(s) PROVE OutInv'
  BY <1>5, EndOutput
<1>6. ASSUME NEW s \in Sessions, Output(s) PROVE OutInv'
  BY <1>6, OutputOutput
<1> QED BY <1>1, <1>2, <1>3, <1>4, <1>5, <1>6, KeysOutput DEF Next

LEMMA AllOutputIsThere == PollsInv /\ OutInv => OutputIsWhole
<1> DEFINE A(s) == {a \in Answers : a.session = s}
           D(s) == IF A(s) = {} THEN <<>> ELSE (CHOOSE a \in A(s) : TRUE).data
<1> SUFFICES ASSUME PollsInv, OutInv, NEW s \in Sessions \ spoiled PROVE WholeWith(s, D(s))
  BY DEF OutputIsWhole, WholeWith, Whole, Answers
<1>1. \E d \in Pieces : d = D(s) /\ Taken(s, d)
  <2>1. CASE A(s) = {}
    BY <2>1, NothingIsASequence DEF Taken
  <2>2. CASE A(s) # {}
    <3>1. PICK a \in A(s) : D(s) = a.data
      BY <2>2
    <3>2. a \in Answers /\ a.session = s /\ a.data \in Pieces
      BY <3>1, PieceTypes
    <3>3. Taken(s, a.data)
      BY <3>2 DEF Taken
    <3> HIDE DEF D
    <3> QED BY <3>1, <3>2, <3>3
  <2> QED BY <2>1, <2>2
<1> HIDE DEF D
<1> QED BY <1>1 DEF OutInv

(* Screen, answer, buffer and pty hold what the shell has put out, whole and in order         *)
(* (completePendingRequest, handleSession, onReadyStateChange), unless an answer was lost or  *)
(* the session was ended unheard.                                                             *)
THEOREM OutputIsNotLost == Spec => []OutputIsWhole
<1>1. PollsInv /\ OutInv /\ [Next]_vars => OutInv'
  BY NextOutput
<1> QED BY <1>1, PollsInvariant, InitOutput, AllOutputIsThere, PTL DEF Spec
=============================================================================

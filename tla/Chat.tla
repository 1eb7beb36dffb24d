-------------------------------- MODULE Chat --------------------------------
(***************************************************************************)
(* The chat beside each file: snippet/ChatIn.scala (one request per        *)
(* message: insert a row, send to the server, commit), the actor           *)
(* comet/ChatServer.scala (a map from rooms to buffers of messages), the   *)
(* actors comet/Chat.scala (one per open page, they render what they are   *)
(* sent) and the table FileChatMessages.                                   *)
(*                                                                         *)
(* The map is immutable, the buffers in it are not: += changes the buffer  *)
(* that earlier maps, and the views made from them, refer to.  A view is   *)
(* therefore rendered from what the buffer holds then, and an update is    *)
(* the set of rooms its map has.                                           *)
(***************************************************************************)
EXTENDS Integers, Sequences, SequencesExt

CONSTANTS
  Clients,     \* Chat actors
  Posts,       \* messages users send
  Rooms,       \* projectId + filename
  room,        \* the room of each client and each message
  EarlyPosts,  \* TRUE: a user may post before the page's actor has registered
  MaxCrashes   \* bound

ASSUME RoomAssumption == room \in [Clients \cup Posts -> Rooms]
ASSUME BoundsAssumption == EarlyPosts \in BOOLEAN /\ MaxCrashes \in Nat
ASSUME NamesAssumption == Clients \cap Posts = {}

VARIABLES
  up, crashes,
  rows,       \* inserted rows in the order of their ids
  committed,  \* messages whose request has ended
  posting,    \* the request of each message
  loaded,     \* has the object ChatServer been initialised?
  msgs,       \* [Rooms -> messages]: the buffers; rooms without one are not in the map
  inbox,      \* of ChatServer: messages, and clients that register
  listeners,
  chat,       \* the Chat actors: "none", "created", "registered"
  updates,    \* [Clients -> updates on their way]
  shown       \* [Clients -> messages on the page]

disk == <<rows, committed>>
server == <<loaded, msgs, inbox, listeners>>
views == <<chat, updates, shown>>
vars == <<up, crashes, disk, posting, server, views>>

Updates == SUBSET Rooms   \* the rooms that have a buffer

TypeOK ==
  /\ up \in BOOLEAN /\ crashes \in 0..MaxCrashes
  /\ rows \in Seq(Posts) /\ committed \subseteq Posts
  /\ posting \in [Posts -> {"idle", "saved", "sent", "done", "lost"}]
  /\ loaded \in BOOLEAN /\ msgs \in [Rooms -> Seq(Posts)]
  /\ inbox \in Seq(Clients \cup Posts) /\ listeners \subseteq Clients
  /\ chat \in [Clients -> {"none", "created", "registered"}]
  /\ updates \in [Clients -> Seq(Updates)]
  /\ shown \in [Clients -> Seq(Posts)]

NoMessages == [r \in Rooms |-> <<>>]
NoViews == /\ chat' = [c \in Clients |-> "none"] /\ updates' = [c \in Clients |-> <<>>]
           /\ shown' = [c \in Clients |-> <<>>]

Init ==
  /\ up = TRUE /\ crashes = 0 /\ rows = <<>> /\ committed = {}
  /\ posting = [p \in Posts |-> "idle"]
  /\ loaded = FALSE /\ msgs = NoMessages /\ inbox = <<>> /\ listeners = {}
  /\ chat = [c \in Clients |-> "none"] /\ updates = [c \in Clients |-> <<>>]
  /\ shown = [c \in Clients |-> <<>>]

-----------------------------------------------------------------------------
(* The members of S among q's, in q's order (SelectSeq, which has no theorems). *)
Only(q, S) ==
  LET only[n \in 0..Len(q)] ==
        IF n = 0 THEN <<>>
        ELSE IF q[n] \in S THEN Append(only[n-1], q[n]) ELSE only[n-1]
  IN only[Len(q)]

InRoom(r) == {p \in Posts : room[p] = r}

(* Mutant: the buffer of a room starts anew with every row. *)
LoadLast(visible) ==
  [r \in Rooms |-> LET mine == Only(rows, visible \cap InRoom(r))
                   IN IF mine = <<>> THEN mine ELSE <<Last(mine)>>]

(* Mutant: the rows are not told apart by their rooms. *)
LoadEveryRoom(visible) == [r \in Rooms |-> Only(rows, visible)]

(* FileChatMessage.findAll(), row by row into the room's buffer. *)
Load(visible) == [r \in Rooms |-> Only(rows, visible \cap InRoom(r))]

(* The first thread to touch the object ChatServer initialises it: with the *)
(* rows its own transaction can see.                                        *)
Touch(visible) ==
  /\ loaded' = TRUE
  /\ msgs' = IF loaded THEN msgs ELSE Load(visible)

(* The editor page creates its Chat actor. *)
OpenPage(c) ==
  /\ up /\ chat[c] = "none"
  /\ chat' = [chat EXCEPT ![c] = "created"]
  /\ UNCHANGED <<up, crashes, disk, posting, server, updates, shown>>

(* Mutant: every page loads the table again. *)
RegisterWithLoad(c) ==
  /\ chat[c] = "created"
  /\ chat' = [chat EXCEPT ![c] = "registered"]
  /\ loaded' = TRUE
  /\ msgs' = [r \in Rooms |-> msgs[r] \o Load(committed)[r]]
  /\ inbox' = Append(inbox, c)
  /\ UNCHANGED <<up, crashes, disk, posting, listeners, updates, shown>>

(* The actor sets itself up: registerWith ChatServer. *)
Register(c) ==
  /\ chat[c] = "created"
  /\ chat' = [chat EXCEPT ![c] = "registered"]
  /\ Touch(committed)
  /\ inbox' = Append(inbox, c)
  /\ UNCHANGED <<up, crashes, disk, posting, listeners, updates, shown>>

(* ChatIn.processMessage: the row is inserted, uncommitted, *)
Save(p) ==
  /\ posting[p] = "idle"
  /\ \E c \in Clients : /\ room[c] = room[p]
                        /\ chat[c] = "registered" \/ (EarlyPosts /\ chat[c] = "created")
  /\ posting' = [posting EXCEPT ![p] = "saved"]
  /\ rows' = Append(rows, p)
  /\ UNCHANGED <<up, crashes, committed, server, views>>

(* then ChatServer ! message, *)
Send(p) ==
  /\ posting[p] = "saved"
  /\ posting' = [posting EXCEPT ![p] = "sent"]
  /\ Touch(committed \cup {p})
  /\ inbox' = Append(inbox, p)
  /\ UNCHANGED <<up, crashes, disk, listeners, views>>

(* and the request's transaction ends. *)
Commit(p) ==
  /\ posting[p] = "sent"
  /\ posting' = [posting EXCEPT ![p] = "done"]
  /\ committed' = committed \cup {p}
  /\ UNCHANGED <<up, crashes, rows, server, views>>

(* createUpdate: the map as it is now. *)
Update(m) == {r \in Rooms : m[r] # <<>>}

(* ListenerManager adds the listener and sends it an update. *)
AddAListener ==
  /\ inbox # <<>> /\ Head(inbox) \in Clients
  /\ LET c == Head(inbox) IN
       /\ listeners' = listeners \cup {c}
       /\ updates' = [updates EXCEPT ![c] = Append(@, Update(msgs))]
  /\ inbox' = Tail(inbox)
  /\ UNCHANGED <<up, crashes, disk, posting, loaded, msgs, chat, shown>>

(* Mutant: the newest message comes first. *)
ReceiveOnTop ==
  /\ inbox # <<>> /\ Head(inbox) \in Posts
  /\ msgs' = [msgs EXCEPT ![room[Head(inbox)]] = <<Head(inbox)>> \o @]
  /\ updates' = [c \in Clients |-> IF c \in listeners THEN Append(updates[c], Update(msgs'))
                                   ELSE updates[c]]
  /\ inbox' = Tail(inbox)
  /\ UNCHANGED <<up, crashes, disk, posting, loaded, listeners, chat, shown>>

(* Mutant: no updateListeners(). *)
ReceiveQuietly ==
  /\ inbox # <<>> /\ Head(inbox) \in Posts
  /\ msgs' = [msgs EXCEPT ![room[Head(inbox)]] = Append(@, Head(inbox))]
  /\ inbox' = Tail(inbox)
  /\ UNCHANGED <<up, crashes, disk, posting, loaded, listeners, views>>

(* ChatServer.lowPriority: append in place, updateListeners(). *)
ReceivePost ==
  /\ inbox # <<>> /\ Head(inbox) \in Posts
  /\ msgs' = [msgs EXCEPT ![room[Head(inbox)]] = Append(@, Head(inbox))]
  /\ updates' = [c \in Clients |-> IF c \in listeners THEN Append(updates[c], Update(msgs'))
                                   ELSE updates[c]]
  /\ inbox' = Tail(inbox)
  /\ UNCHANGED <<up, crashes, disk, posting, loaded, listeners, chat, shown>>

(* Chat.lowPriority: msgs = v.getOrElse(name, ArrayBuffer()); reRender(). *)
ReRender(c) ==
  /\ updates[c] # <<>>
  /\ shown' = [shown EXCEPT ![c] = IF room[c] \in Head(updates[c]) THEN msgs[room[c]] ELSE <<>>]
  /\ updates' = [updates EXCEPT ![c] = Tail(@)]
  /\ UNCHANGED <<up, crashes, disk, posting, server, chat>>

(* The editor's JVM stops: the actors are gone and so are the sessions, open *)
(* transactions are rolled back.                                             *)
Crash ==
  /\ up /\ crashes < MaxCrashes
  /\ up' = FALSE /\ crashes' = crashes + 1
  /\ rows' = Only(rows, committed)
  /\ posting' = [p \in Posts |-> IF posting[p] \in {"saved", "sent"} THEN "lost" ELSE posting[p]]
  /\ loaded' = FALSE /\ msgs' = NoMessages /\ inbox' = <<>> /\ listeners' = {}
  /\ NoViews /\ UNCHANGED committed

Restart == ~up /\ up' = TRUE /\ UNCHANGED <<crashes, disk, posting, server, views>>

Act == AddAListener \/ ReceivePost
Next == \/ \E c \in Clients : OpenPage(c) \/ Register(c) \/ ReRender(c)
        \/ \E p \in Posts : Save(p) \/ Send(p) \/ Commit(p)
        \/ Act \/ Crash \/ Restart

Spec == Init /\ [][Next]_vars

(* Actors and request threads run; users need not open pages or post. *)
FairSpec == /\ Spec /\ WF_vars(Act)
            /\ \A c \in Clients : WF_vars(Register(c)) /\ WF_vars(ReRender(c))
            /\ \A p \in Posts : WF_vars(Send(p)) /\ WF_vars(Commit(p))

-----------------------------------------------------------------------------
(* A page never takes back or reorders what it has shown: with buffers      *)
(* shared and updates late, each view still only grows.                     *)
ViewsGrow ==
  [][\A c \in Clients : up' => IsPrefix(shown[c], shown'[c])]_vars

(* All pages of a room show the same conversation, some of them less of it. *)
ViewsAgree ==
  \A c, d \in Clients : room[c] = room[d] =>
    IsPrefix(shown[c], shown[d]) \/ IsPrefix(shown[d], shown[c])

(* A message is in its room once: not both loaded from the table and        *)
(* received, whatever the restarts; users post after their page registered. *)
NoMessageTwice ==
  \A r \in Rooms : \A k, l \in 1..Len(msgs[r]) : msgs[r][k] = msgs[r][l] => k = l

(* The rooms are right: typed, each message in its room once, and every     *)
(* page with as much of the same conversation as it has rendered.           *)
RoomsInv == TypeOK /\ ViewsAgree /\ NoMessageTwice

(* A committed message is in its room, or about to be, across restarts.     *)
SavedIsInItsRoom ==
  loaded => \A p \in committed : p \in ToSet(msgs[room[p]]) \cup ToSet(inbox)

(* Liveness: every page that has registered comes to show every message of  *)
(* its room, those sent before it was opened too, unless the server stops.  *)
EveryoneSeesEverything ==
  \A p \in Posts, c \in Clients : room[p] = room[c] =>
    (posting[p] = "done" /\ chat[c] = "registered")
      ~> (p \in ToSet(shown[c]) \/ chat[c] # "registered")

-----------------------------------------------------------------------------
(* The conversation of each room: the buffer or, until ChatServer is touched, *)
(* what it will be.                                                           *)
Said == IF loaded THEN msgs ELSE Load(committed)

Talk == INSTANCE Conversation WITH said <- Said, kept <- committed, seen <- shown

(* Actors, shared buffers, late updates and restarts look like that: every    *)
(* step says, keeps or shows a message, or changes nothing that can be seen.  *)
ImplementsConversation == Talk!Spec
=============================================================================

-------------------------- MODULE Presence_proofs --------------------------
(* Theorems about Presence for every set of sessions, users and projects. *)
EXTENDS Presence, SequenceTheorems, TLAPS

LEMMA MessageKinds ==
  ASSUME NEW u \in Users, NEW p \in Projects, NEW s \in Sessions
  PROVE  /\ EnterOf(u, p) \in Messages /\ LeaveOf(u, p) \in Messages /\ AddOf(s) \in Messages
         /\ EnterOf(u, p).op = "Enter" /\ LeaveOf(u, p).op = "Leave" /\ AddOf(s).op = "Add"
         /\ EnterOf(u, p).user = u /\ LeaveOf(u, p).user = u /\ AddOf(s).session = s
         /\ EnterOf(u, p).project = p /\ LeaveOf(u, p).project = p
BY DEF EnterOf, LeaveOf, AddOf, Messages, Enters, Leaves, Adds

LEMMA MessageForms ==
  ASSUME NEW m \in Messages
  PROVE  \/ \E u \in Users, p \in Projects : m = EnterOf(u, p)
         \/ \E u \in Users, p \in Projects : m = LeaveOf(u, p)
         \/ \E s \in Sessions : m = AddOf(s)
<1>1. CASE m \in Enters
  <2>1. m = EnterOf(m.user, m.project) /\ m.user \in Users /\ m.project \in Projects
    BY <1>1 DEF Enters, EnterOf
  <2> QED BY <2>1
<1>2. CASE m \in Leaves
  <2>1. m = LeaveOf(m.user, m.project) /\ m.user \in Users /\ m.project \in Projects
    BY <1>2 DEF Leaves, LeaveOf
  <2> QED BY <2>1
<1>3. CASE m \in Adds
  <2>1. m = AddOf(m.session) /\ m.session \in Sessions
    BY <1>3 DEF Adds, AddOf
  <2> QED BY <2>1
<1> QED BY <1>1, <1>2, <1>3 DEF Messages

LEMMA Grows ==
  ASSUME NEW q \in Seq(Messages), NEW m \in Messages
  PROVE  /\ Append(q, m) \in Seq(Messages) /\ Append(q, m) # <<>>
         /\ Len(q) \in Nat /\ Len(Append(q, m)) = Len(q) + 1
         /\ \A k \in 1..Len(q) : Append(q, m)[k] = q[k]
         /\ Append(q, m)[Len(q) + 1] = m
         /\ q # <<>> => Head(Append(q, m)) = Head(q)
<1>1. /\ Append(q, m) \in Seq(Messages) /\ Append(q, m) # <<>>
      /\ Len(q) \in Nat /\ Len(Append(q, m)) = Len(q) + 1
      /\ \A k \in 1..Len(q) : Append(q, m)[k] = q[k]
      /\ Append(q, m)[Len(q) + 1] = m
  BY AppendProperties, LenProperties
<1>2. q # <<>> => Head(Append(q, m)) = Head(q)
  BY <1>1, EmptySeq, HeadTailProperties
<1> QED BY <1>1, <1>2

LEMMA Shrinks ==
  ASSUME NEW q \in Seq(Messages), q # <<>>
  PROVE  /\ Tail(q) \in Seq(Messages) /\ Head(q) \in Messages /\ Head(q) = q[1]
         /\ Len(q) \in Nat /\ Len(q) > 0 /\ Len(Tail(q)) = Len(q) - 1
         /\ \A k \in 1..Len(Tail(q)) : Tail(q)[k] = q[k + 1]
         /\ \A k \in 1..Len(q) : k # 1 => k - 1 \in 1..Len(Tail(q)) /\ Tail(q)[k - 1] = q[k]
<1>1. /\ Tail(q) \in Seq(Messages) /\ Head(q) \in Messages /\ Head(q) = q[1]
      /\ Len(q) \in Nat /\ Len(q) > 0 /\ Len(Tail(q)) = Len(q) - 1
      /\ \A k \in 1..Len(Tail(q)) : Tail(q)[k] = q[k + 1]
  BY HeadTailProperties, LenProperties, EmptySeq
<1> QED BY <1>1

-----------------------------------------------------------------------------
LEMMA TypeInit == Init => TypeOK /\ RegisterInv
BY BoundsAssumption DEF Init, TypeOK, Keys, RegisterInv, Queued

(* What a viewer shows are users. *)
LEMMA VisibleUsers ==
  ASSUME TypeOK, NEW s \in Sessions, project[s] \in Projects, NEW seen \in Visible(s)
  PROVE  seen \subseteq Users
<1>1. userProject[project[s]] \subseteq Users /\ shown[s] \subseteq Users
  BY DEF TypeOK
<1>2. CASE mailbox = <<>>
  BY <1>1, <1>2 DEF Visible
<1>3. CASE mailbox # <<>>
  <2>1. Head(mailbox) \in Messages
    BY <1>3, Shrinks DEF TypeOK
  <2>2. Head(mailbox).op # "Add" => Head(mailbox).user \in Users
    BY <2>1 DEF Messages, Enters, Leaves, Adds
  <2> QED BY <1>1, <2>2 DEF Visible
<1> QED BY <1>2, <1>3

(* A step of the dispatcher, by the message it takes. *)
LEMMA HandleCases ==
  ASSUME TypeOK, Handle
  PROVE  /\ mailbox # <<>> /\ mailbox' = Tail(mailbox)
         /\ UNCHANGED <<sessions, project, shown>>
         /\ \/ \E u \in Users, p \in Projects :
                 /\ Head(mailbox) = EnterOf(u, p) /\ userProject' = Add(p, u)
                 /\ UpdateListeners /\ UNCHANGED listeners
            \/ \E u \in Users, p \in Projects :
                 /\ Head(mailbox) = LeaveOf(u, p) /\ userProject' = Remove(p, u)
                 /\ UpdateListeners /\ UNCHANGED listeners
            \/ \E s \in Sessions :
                 /\ Head(mailbox) = AddOf(s) /\ listeners' = listeners \cup {s}
                 /\ updates' = [updates EXCEPT ![s] = @ + 1] /\ UNCHANGED userProject
<1>1. mailbox # <<>> /\ mailbox' = Tail(mailbox) /\ UNCHANGED <<sessions, project, shown>>
  BY DEF Handle
<1>2. Head(mailbox) \in Messages
  BY <1>1, Shrinks DEF TypeOK
<1>3. CASE \E u \in Users, p \in Projects : Head(mailbox) = EnterOf(u, p)
  <2>1. PICK u \in Users, p \in Projects : Head(mailbox) = EnterOf(u, p)
    BY <1>3
  <2>2. Head(mailbox).op = "Enter" /\ Head(mailbox).user = u /\ Head(mailbox).project = p
    BY <2>1 DEF EnterOf
  <2>3. userProject' = Add(p, u) /\ UpdateListeners /\ UNCHANGED listeners
    BY <2>2 DEF Handle
  <2> QED BY <1>1, <2>1, <2>3
<1>4. CASE \E u \in Users, p \in Projects : Head(mailbox) = LeaveOf(u, p)
  <2>1. PICK u \in Users, p \in Projects : Head(mailbox) = LeaveOf(u, p)
    BY <1>4
  <2>2. Head(mailbox).op = "Leave" /\ Head(mailbox).user = u /\ Head(mailbox).project = p
    BY <2>1 DEF LeaveOf
  <2>3. userProject' = Remove(p, u) /\ UpdateListeners /\ UNCHANGED listeners
    BY <2>2 DEF Handle
  <2> QED BY <1>1, <2>1, <2>3
<1>5. CASE \E s \in Sessions : Head(mailbox) = AddOf(s)
  <2>1. PICK s \in Sessions : Head(mailbox) = AddOf(s)
    BY <1>5
  <2>2. Head(mailbox).op = "Add" /\ Head(mailbox).session = s
    BY <2>1 DEF AddOf
  <2>3. /\ listeners' = listeners \cup {s}
        /\ updates' = [updates EXCEPT ![s] = @ + 1] /\ UNCHANGED userProject
    BY <2>2 DEF Handle
  <2> QED BY <1>1, <2>1, <2>3
<1> QED BY <1>2, <1>3, <1>4, <1>5, MessageForms

LEMMA TypeStep == TypeOK /\ RegisterInv /\ [Next]_vars => TypeOK'
<1> SUFFICES ASSUME TypeOK, RegisterInv, [Next]_vars PROVE TypeOK'
  OBVIOUS
<1> USE UserAssumption, BoundsAssumption DEF TypeOK
<1>1. ASSUME NEW s \in Sessions, NEW p \in Projects, OpenPage(s, p)
      PROVE  TypeOK'
  <2>1. user[s] \in Users /\ <<s, p>> \in Keys /\ opens + 1 \in 0..MaxOpens
    BY <1>1 DEF Keys, OpenPage
  <2>2. Append(mailbox, EnterOf(user[s], p)) \in Seq(Messages)
    BY <2>1, Grows, MessageKinds
  <2>3. mailbox' \in Seq(Messages) /\ live' \subseteq Keys
    BY <1>1, <2>1, <2>2 DEF OpenPage
  <2>4. overlapped' \subseteq Users \X Projects
    BY <1>1, <2>1 DEF OpenPage
  <2> QED BY <1>1, <2>1, <2>3, <2>4 DEF OpenPage, dispatcher
<1>2. ASSUME NEW s \in Sessions, NEW p \in Projects, ShutDown(s, p)
      PROVE  TypeOK'
  BY <1>2 DEF ShutDown, dispatcher, viewers, Keys
<1>3. ASSUME NEW s \in Sessions, NEW p \in Projects, Leave(s, p)
      PROVE  TypeOK'
  <2>1. user[s] \in Users /\ <<s, p>> \in Keys
    BY DEF Keys
  <2>2. mailbox' \in Seq(Messages)
    BY <1>3, <2>1, Grows, MessageKinds DEF Leave
  <2>3. leaving[<<s, p>>] - 1 \in Nat
    BY <1>3, <2>1 DEF Leave
  <2> QED BY <1>3, <2>1, <2>2, <2>3 DEF Leave, dispatcher, viewers
<1>4. ASSUME NEW s \in Sessions, Register(s)
      PROVE  TypeOK'
  BY <1>4, Grows, MessageKinds DEF Register, sessions, dispatcher, viewers
<1>5. ASSUME NEW s \in Sessions, ReRender(s)
      PROVE  TypeOK'
  <2>1. PICK seen \in Visible(s) : shown' = [shown EXCEPT ![s] = seen]
    BY <1>5 DEF ReRender
  <2>2. project[s] \in Projects
    BY <1>5 DEF ReRender, RegisterInv
  <2>3. seen \in SUBSET Users
    BY <2>1, <2>2, VisibleUsers
  <2>4. updates[s] - 1 \in Nat
    BY <1>5 DEF ReRender
  <2> QED BY <1>5, <2>1, <2>3, <2>4 DEF ReRender, sessions, dispatcher
<1>6. CASE Handle
  <2>1. mailbox' \in Seq(Messages)
    BY <1>6, HandleCases, Shrinks
  <2>2. userProject' \in [Projects -> SUBSET Users]
    BY <1>6, HandleCases DEF Add, Remove
  <2>3. listeners' \subseteq Sessions /\ updates' \in [Sessions -> Nat]
    <3>1. CASE UpdateListeners /\ UNCHANGED listeners
      BY <3>1 DEF UpdateListeners
    <3>2. CASE \E s \in Sessions : /\ listeners' = listeners \cup {s}
                                   /\ updates' = [updates EXCEPT ![s] = @ + 1]
      BY <3>2
    <3> QED BY <1>6, <3>1, <3>2, HandleCases
  <2> QED BY <1>6, <2>1, <2>2, <2>3 DEF Handle, sessions
<1> QED BY <1>1, <1>2, <1>3, <1>4, <1>5, <1>6
     DEF Next, vars, sessions, dispatcher, viewers

LEMMA RegisterStep == TypeOK /\ RegisterInv /\ [Next]_vars => RegisterInv'
<1> SUFFICES ASSUME TypeOK, RegisterInv, [Next]_vars, NEW v \in Sessions,
                    (v \in listeners \/ Queued(AddOf(v)) \/ updates[v] > 0)'
             PROVE  project'[v] # None
  BY DEF RegisterInv
<1> USE DEF TypeOK, RegisterInv
<1>0. v \in listeners \/ Queued(AddOf(v)) \/ updates[v] > 0 => project[v] # None
  OBVIOUS
<1>1. ASSUME NEW s \in Sessions, NEW p \in Projects, OpenPage(s, p)
      PROVE  project'[v] # None
  <2>1. CASE v = s
    BY <1>1, <2>1, NoneAssumption DEF OpenPage
  <2>2. CASE v # s
    <3>1. project'[v] = project[v] /\ UNCHANGED <<listeners, updates>>
      BY <1>1, <2>2 DEF OpenPage, dispatcher
    <3>2. ASSUME Queued(AddOf(v))'
          PROVE  Queued(AddOf(v))
      <4>1. CASE UNCHANGED mailbox
        BY <3>2, <4>1 DEF Queued, AddOf
      <4>2. CASE mailbox' = Append(mailbox, EnterOf(user[s], p))
        BY <3>2, <4>2, Grows, MessageKinds, UserAssumption DEF Queued, AddOf
      <4> QED BY <1>1, <4>1, <4>2 DEF OpenPage
    <3> QED BY <1>0, <3>1, <3>2
  <2> QED BY <2>1, <2>2
<1>2. ASSUME NEW s \in Sessions, NEW p \in Projects, ShutDown(s, p)
      PROVE  project'[v] # None
  BY <1>0, <1>2 DEF ShutDown, dispatcher, viewers, Queued, AddOf
<1>3. ASSUME NEW s \in Sessions, NEW p \in Projects, Leave(s, p)
      PROVE  project'[v] # None
  <2>1. ASSUME Queued(AddOf(v))'
        PROVE  Queued(AddOf(v))
    BY <1>3, <2>1, Grows, MessageKinds, UserAssumption DEF Leave, Queued, AddOf
  <2> QED BY <1>0, <1>3, <2>1 DEF Leave, dispatcher, viewers
<1>4. ASSUME NEW s \in Sessions, Register(s)
      PROVE  project'[v] # None
  <2>1. CASE v = s
    BY <1>4, <2>1 DEF Register, viewers
  <2>2. CASE v # s
    <3>1. AddOf(v) # AddOf(s)
      BY <2>2, MessageKinds DEF AddOf
    <3>2. ASSUME Queued(AddOf(v))'
          PROVE  Queued(AddOf(v))
      BY <1>4, <3>1, <3>2, Grows, MessageKinds DEF Register, Queued, AddOf
    <3> QED BY <1>0, <1>4, <3>2 DEF Register, dispatcher, viewers
  <2> QED BY <2>1, <2>2
<1>5. ASSUME NEW s \in Sessions, ReRender(s)
      PROVE  project'[v] # None
  BY <1>0, <1>5 DEF ReRender, sessions, dispatcher, Queued, AddOf
<1>6. CASE Handle
  <2>1. project' = project /\ mailbox # <<>> /\ mailbox' = Tail(mailbox)
    BY <1>6, HandleCases
  <2>2. ASSUME Queued(AddOf(v))'
        PROVE  Queued(AddOf(v))
    BY <2>1, <2>2, Shrinks DEF Queued, AddOf
  <2>3. CASE UpdateListeners /\ UNCHANGED listeners
    BY <1>0, <2>1, <2>2, <2>3 DEF UpdateListeners
  <2>4. CASE \E s \in Sessions : /\ Head(mailbox) = AddOf(s)
                                 /\ listeners' = listeners \cup {s}
                                 /\ updates' = [updates EXCEPT ![s] = @ + 1]
    <3>1. PICK s \in Sessions : /\ Head(mailbox) = AddOf(s)
                                /\ listeners' = listeners \cup {s}
                                /\ updates' = [updates EXCEPT ![s] = @ + 1]
      BY <2>4
    <3>2. Queued(AddOf(s))
      BY <2>1, <3>1, Shrinks DEF Queued
    <3> QED BY <1>0, <2>1, <2>2, <3>1, <3>2
  <2> QED BY <1>6, <2>3, <2>4, HandleCases
<1> QED BY <1>0, <1>1, <1>2, <1>3, <1>4, <1>5, <1>6
     DEF Next, vars, sessions, dispatcher, viewers, Queued, AddOf

LEMMA TypeInvariant == Spec => [](TypeOK /\ RegisterInv)
BY TypeInit, TypeStep, RegisterStep, PTL DEF Spec

(* In every run the dispatcher's map has users only, each message names a   *)
(* user and a project, and a page lists users.                              *)
THEOREM TypeCorrect == Spec => []TypeOK
BY TypeInvariant, PTL

-----------------------------------------------------------------------------
(* Different messages are told apart. *)
LEMMA MessagesDiffer ==
  ASSUME NEW u \in Users, NEW p \in Projects, NEW v \in Users, NEW q \in Projects
  PROVE  /\ EnterOf(u, p) # LeaveOf(v, q)
         /\ \A s \in Sessions : AddOf(s) # EnterOf(u, p) /\ AddOf(s) # LeaveOf(u, p)
         /\ (EnterOf(u, p) = EnterOf(v, q) \/ LeaveOf(u, p) = LeaveOf(v, q)) => u = v /\ p = q
<1>1. EnterOf(u, p) # LeaveOf(v, q)
  BY DEF EnterOf, LeaveOf
<1>2. \A s \in Sessions : AddOf(s) # EnterOf(u, p) /\ AddOf(s) # LeaveOf(u, p)
  BY MessageKinds, "Add" # "Enter", "Add" # "Leave"
<1>3. (EnterOf(u, p) = EnterOf(v, q) \/ LeaveOf(u, p) = LeaveOf(v, q)) => u = v /\ p = q
  BY DEF EnterOf, LeaveOf
<1> QED BY <1>1, <1>2, <1>3

(* Message m is appended: what was queued stays, behind what it was behind. *)
LEMMA QueueAppend ==
  ASSUME TypeOK, NEW m \in Messages, mailbox' = Append(mailbox, m)
  PROVE  /\ mailbox' \in Seq(Messages) /\ Len(mailbox) \in Nat
         /\ Len(mailbox') = Len(mailbox) + 1 /\ mailbox'[Len(mailbox) + 1] = m
         /\ \A k \in 1..Len(mailbox) : mailbox'[k] = mailbox[k]
         /\ \A k \in 1..Len(mailbox') : k \in 1..Len(mailbox) \/ k = Len(mailbox) + 1
BY Grows DEF TypeOK

(* The head is taken: what was behind it is queued, each one place earlier. *)
LEMMA QueueTail ==
  ASSUME TypeOK, mailbox # <<>>, mailbox' = Tail(mailbox)
  PROVE  /\ Len(mailbox) \in Nat /\ Len(mailbox) > 0 /\ Head(mailbox) = mailbox[1]
         /\ Len(mailbox') = Len(mailbox) - 1
         /\ \A k \in 1..Len(mailbox') : mailbox'[k] = mailbox[k + 1]
         /\ \A k \in 1..Len(mailbox) :
              k # 1 => k - 1 \in 1..Len(mailbox') /\ mailbox'[k - 1] = mailbox[k]
BY Shrinks DEF TypeOK

LEMMA GhostStep == TypeOK /\ GhostInv /\ [Next]_vars => GhostInv'
<1> SUFFICES ASSUME TypeOK, GhostInv, [Next]_vars PROVE GhostInv'
  OBVIOUS
<1> USE UserAssumption
<1> DEFINE Behind(k, u, p) == \E n \in (k + 1)..Len(mailbox) : mailbox[n] = LeaveOf(u, p)
<1>0. /\ \A p \in Projects : userProject[p] \subseteq Users
      /\ \A p \in Projects : \A u \in userProject[p] : Held(u, p) \/ Queued(LeaveOf(u, p))
      /\ \A u \in Users, p \in Projects : \A k \in 1..Len(mailbox) :
           mailbox[k] = EnterOf(u, p) => Held(u, p) \/ Behind(k, u, p)
  BY DEF TypeOK, GhostInv, NoGhosts
<1>1. ASSUME NEW s \in Sessions, NEW p \in Projects, OpenPage(s, p)
      PROVE  GhostInv'
  <2>1. userProject' = userProject /\ \A u \in Users, q \in Projects : Held(u, q) => Held(u, q)'
    BY <1>1 DEF OpenPage, dispatcher, Held
  <2>2. CASE UNCHANGED mailbox
    BY <1>0, <2>1, <2>2 DEF GhostInv, NoGhosts, Queued, LeaveOf, EnterOf
  <2>3. CASE mailbox' = Append(mailbox, EnterOf(user[s], p)) /\ live' = live \cup {<<s, p>>}
    <3>1. Held(user[s], p)'
      BY <2>3 DEF Held
    <3>2. NoGhosts'
      BY <1>0, <2>1, <2>3, QueueAppend, MessageKinds DEF NoGhosts, Queued, LeaveOf
    <3>3. ASSUME NEW u \in Users, NEW q \in Projects, NEW k \in 1..Len(mailbox'),
                 mailbox'[k] = EnterOf(u, q)
          PROVE  Held(u, q)' \/ Behind(k, u, q)'
      <4>1. CASE k \in 1..Len(mailbox)
        BY <1>0, <2>1, <2>3, <3>3, <4>1, QueueAppend, MessageKinds DEF LeaveOf
      <4>2. CASE k = Len(mailbox) + 1
        BY <2>3, <3>1, <3>3, <4>2, QueueAppend, MessageKinds, MessagesDiffer
      <4> QED BY <2>3, <3>3, <4>1, <4>2, QueueAppend, MessageKinds
    <3> QED BY <3>2, <3>3 DEF GhostInv, EnterOf, LeaveOf
  <2> QED BY <1>1, <2>2, <2>3 DEF OpenPage
<1>2. ASSUME NEW s \in Sessions, NEW p \in Projects, ShutDown(s, p)
      PROVE  GhostInv'
  <2>1. userProject' = userProject /\ mailbox' = mailbox
    BY <1>2 DEF ShutDown, dispatcher
  <2>2. ASSUME NEW u \in Users, NEW q \in Projects, Held(u, q)
        PROVE  Held(u, q)'
    <3>1. PICK t \in Sessions : user[t] = u /\ (<<t, q>> \in live \/ leaving[<<t, q>>] > 0)
      BY <2>2 DEF Held
    <3>2. CASE <<t, q>> = <<s, p>>
      <4>1. leaving[<<t, q>>] \in Nat /\ leaving'[<<t, q>>] = leaving[<<t, q>>] + 1
        BY <1>2, <3>2 DEF ShutDown, TypeOK, Keys
      <4>2. leaving'[<<t, q>>] > 0
        BY <4>1
      <4> QED BY <3>1, <4>2 DEF Held
    <3>3. CASE <<t, q>> # <<s, p>>
      <4>1. leaving'[<<t, q>>] = leaving[<<t, q>>] /\ (<<t, q>> \in live => <<t, q>> \in live')
        BY <1>2, <3>3 DEF ShutDown, TypeOK, Keys
      <4> QED BY <3>1, <4>1 DEF Held
    <3> QED BY <3>2, <3>3
  <2> QED BY <1>0, <2>1, <2>2 DEF GhostInv, NoGhosts, Queued, LeaveOf, EnterOf
<1>3. ASSUME NEW s \in Sessions, NEW p \in Projects, Leave(s, p)
      PROVE  GhostInv'
  <2>1. userProject' = userProject /\ mailbox' = Append(mailbox, LeaveOf(user[s], p))
    BY <1>3 DEF Leave, dispatcher
  <2>2. ASSUME NEW u \in Users, NEW q \in Projects, Held(u, q), ~(u = user[s] /\ q = p)
        PROVE  Held(u, q)'
    <3>1. PICK t \in Sessions : user[t] = u /\ (<<t, q>> \in live \/ leaving[<<t, q>>] > 0)
      BY <2>2 DEF Held
    <3>2. <<t, q>> # <<s, p>>
      BY <2>2, <3>1
    <3>3. leaving'[<<t, q>>] = leaving[<<t, q>>] /\ live' = live
      BY <1>3, <3>2 DEF Leave, TypeOK, Keys
    <3> QED BY <3>1, <3>3 DEF Held
  <2>3. mailbox'[Len(mailbox) + 1] = LeaveOf(user[s], p) /\ Queued(LeaveOf(user[s], p))'
    BY <2>1, QueueAppend, MessageKinds DEF Queued, LeaveOf
  <2>4. \A u \in Users, q \in Projects : Queued(LeaveOf(u, q)) => Queued(LeaveOf(u, q))'
    BY <2>1, QueueAppend, MessageKinds DEF Queued, LeaveOf
  <2>5. NoGhosts'
    BY <1>0, <2>1, <2>2, <2>3, <2>4 DEF NoGhosts
  <2>6. ASSUME NEW u \in Users, NEW q \in Projects, NEW k \in 1..Len(mailbox'),
               mailbox'[k] = EnterOf(u, q)
        PROVE  Held(u, q)' \/ Behind(k, u, q)'
    <3>1. k \in 1..Len(mailbox) /\ mailbox[k] = EnterOf(u, q)
      BY <2>1, <2>3, <2>6, QueueAppend, MessageKinds, MessagesDiffer
    <3>2. Behind(k, u, q) => Behind(k, u, q)'
      BY <2>1, <3>1, QueueAppend, MessageKinds DEF LeaveOf
    <3>3. CASE u = user[s] /\ q = p
      BY <2>1, <2>3, <3>1, <3>3, QueueAppend, MessageKinds DEF LeaveOf
    <3> QED BY <1>0, <2>2, <3>1, <3>2, <3>3
  <2> QED BY <2>5, <2>6 DEF GhostInv, EnterOf, LeaveOf
<1>4. ASSUME NEW s \in Sessions, Register(s)
      PROVE  GhostInv'
  <2>1. userProject' = userProject /\ mailbox' = Append(mailbox, AddOf(s))
    BY <1>4 DEF Register, dispatcher
  <2>2. \A u \in Users, q \in Projects : Held(u, q) => Held(u, q)'
    BY <1>4 DEF Register, sessions, Held
  <2>3. NoGhosts'
    BY <1>0, <2>1, <2>2, QueueAppend, MessageKinds DEF NoGhosts, Queued, LeaveOf
  <2>4. ASSUME NEW u \in Users, NEW q \in Projects, NEW k \in 1..Len(mailbox'),
               mailbox'[k] = EnterOf(u, q)
        PROVE  Held(u, q)' \/ Behind(k, u, q)'
    <3>1. k \in 1..Len(mailbox) /\ mailbox[k] = EnterOf(u, q)
      BY <2>1, <2>4, QueueAppend, MessageKinds, MessagesDiffer
    <3> QED BY <1>0, <2>1, <2>2, <3>1, QueueAppend, MessageKinds DEF LeaveOf
  <2> QED BY <2>3, <2>4 DEF GhostInv, EnterOf, LeaveOf
<1>5. CASE (\E s \in Sessions : ReRender(s)) \/ UNCHANGED vars
  <2>1. UNCHANGED <<live, leaving, mailbox, userProject>>
    BY <1>5 DEF ReRender, vars, sessions, dispatcher
  <2>2. \A u \in Users, q \in Projects : Held(u, q) => Held(u, q)'
    BY <2>1 DEF Held
  <2> QED BY <1>0, <2>1, <2>2 DEF GhostInv, NoGhosts, Queued, LeaveOf, EnterOf
<1>6. CASE Handle
  <2>1. mailbox # <<>> /\ mailbox' = Tail(mailbox) /\ UNCHANGED sessions
    BY <1>6, HandleCases
  <2>2. \A u \in Users, q \in Projects : Held(u, q) => Held(u, q)'
    BY <2>1 DEF sessions, Held
  <2>3. ASSUME NEW u \in Users, NEW q \in Projects, Queued(LeaveOf(u, q)),
               Head(mailbox) # LeaveOf(u, q)
        PROVE  Queued(LeaveOf(u, q))'
    BY <2>1, <2>3, QueueTail DEF Queued, LeaveOf
  <2>4. ASSUME NEW p \in Projects, NEW u \in userProject'[p]
        PROVE  Held(u, p)' \/ Queued(LeaveOf(u, p))'
    <3>1. CASE \E v \in Users, q \in Projects :
                 Head(mailbox) = EnterOf(v, q) /\ userProject' = Add(q, v)
      <4>1. PICK v \in Users, q \in Projects :
                   Head(mailbox) = EnterOf(v, q) /\ userProject' = Add(q, v)
        BY <3>1
      <4>2. CASE u \in userProject[p]
        <5>1. u \in Users /\ (Held(u, p) \/ Queued(LeaveOf(u, p)))
          BY <1>0, <4>2
        <5>2. Head(mailbox) # LeaveOf(u, p)
          BY <4>1, <5>1, MessagesDiffer
        <5> QED BY <2>2, <2>3, <5>1, <5>2
      <4>3. CASE u \notin userProject[p]
        <5>1. u = v /\ p = q
          BY <2>4, <4>1, <4>3 DEF Add, TypeOK
        <5>2. Held(u, p) \/ Behind(1, u, p)
          BY <1>0, <2>1, <4>1, <5>1, QueueTail
        <5>3. ASSUME Behind(1, u, p) PROVE Queued(LeaveOf(u, p))'
          <6>1. PICK n \in (1 + 1)..Len(mailbox) : mailbox[n] = LeaveOf(u, p)
            BY <5>3
          <6>2. n \in 1..Len(mailbox) /\ n # 1
            BY <2>1, <6>1, QueueTail
          <6>3. n - 1 \in 1..Len(mailbox') /\ mailbox'[n - 1] = LeaveOf(u, p)
            BY <2>1, <6>1, <6>2, QueueTail
          <6> QED BY <6>3 DEF Queued, LeaveOf
        <5> QED BY <2>2, <5>1, <5>2, <5>3
      <4> QED BY <4>2, <4>3
    <3>2. CASE \E v \in Users, q \in Projects :
                 Head(mailbox) = LeaveOf(v, q) /\ userProject' = Remove(q, v)
      <4>1. PICK v \in Users, q \in Projects :
                   Head(mailbox) = LeaveOf(v, q) /\ userProject' = Remove(q, v)
        BY <3>2
      <4>2. u \in userProject[p] /\ ~(u = v /\ p = q)
        BY <2>4, <4>1 DEF Remove, TypeOK
      <4>3. u \in Users /\ (Held(u, p) \/ Queued(LeaveOf(u, p)))
        BY <1>0, <4>2
      <4>4. Head(mailbox) # LeaveOf(u, p)
        BY <4>1, <4>2, <4>3, MessagesDiffer
      <4> QED BY <2>2, <2>3, <4>3, <4>4
    <3>3. CASE \E s \in Sessions : Head(mailbox) = AddOf(s) /\ UNCHANGED userProject
      <4>1. u \in Users /\ (Held(u, p) \/ Queued(LeaveOf(u, p)))
        BY <1>0, <2>4, <3>3
      <4>2. Head(mailbox) # LeaveOf(u, p)
        BY <3>3, <4>1, MessagesDiffer
      <4> QED BY <2>2, <2>3, <4>1, <4>2
    <3> QED BY <1>6, <3>1, <3>2, <3>3, HandleCases
  <2>5. ASSUME NEW u \in Users, NEW q \in Projects, NEW k \in 1..Len(mailbox'),
               mailbox'[k] = EnterOf(u, q)
        PROVE  Held(u, q)' \/ Behind(k, u, q)'
    <3>1. k + 1 \in 1..Len(mailbox) /\ mailbox[k + 1] = EnterOf(u, q)
      BY <2>1, <2>5, QueueTail
    <3>2. Behind(k + 1, u, q) => Behind(k, u, q)'
      BY <2>1, <2>5, QueueTail DEF LeaveOf
    <3> QED BY <1>0, <2>2, <3>1, <3>2
  <2> QED BY <2>4, <2>5 DEF GhostInv, NoGhosts, EnterOf, LeaveOf
<1> QED BY <1>1, <1>2, <1>3, <1>4, <1>5, <1>6 DEF Next

(* Nobody stays listed in a project who has left it for good. *)
THEOREM NobodyHaunts == Spec => []NoGhosts
<1>1. Init => GhostInv
  BY DEF Init, GhostInv, NoGhosts
<1>2. TypeOK /\ RegisterInv /\ GhostInv /\ [Next]_vars => GhostInv'
  BY GhostStep
<1>3. GhostInv => NoGhosts
  BY DEF GhostInv
<1> QED BY <1>1, <1>2, <1>3, TypeInvariant, PTL DEF Spec

-----------------------------------------------------------------------------
LEMMA ViewStep == TypeOK /\ RegisterInv /\ ViewInv /\ [Next]_vars => ViewInv'
<1> DEFINE Busy == mailbox # <<>> /\ Head(mailbox).op # "Add"
           Right(s) == updates[s] = 0 => shown[s] = userProject[project[s]] \/ Busy
<1>0. (\A s \in listeners' : Right(s)') => ViewInv'
  BY DEF ViewInv, ViewsConverge
<1> SUFFICES ASSUME TypeOK, RegisterInv, ViewInv, [Next]_vars, NEW v \in listeners'
             PROVE  Right(v)'
  BY <1>0
<1> USE UserAssumption DEF TypeOK
<1>1. v \in listeners => Right(v) /\ project[v] # None
  BY DEF ViewInv, RegisterInv
<1>2. ASSUME NEW m \in Messages, mailbox' = Append(mailbox, m), Busy
      PROVE  Busy'
  BY <1>2, Grows
<1>3. ASSUME NEW s \in Sessions, NEW p \in Projects, OpenPage(s, p)
      PROVE  Right(v)'
  <2>1. /\ UNCHANGED <<userProject, listeners, updates, shown>>
        /\ project'[v] = project[v]
    BY <1>1, <1>3 DEF OpenPage, dispatcher
  <2>2. Busy => Busy'
    BY <1>2, <1>3, MessageKinds DEF OpenPage
  <2> QED BY <1>1, <2>1, <2>2
<1>4. ASSUME NEW s \in Sessions, NEW p \in Projects, ShutDown(s, p)
      PROVE  Right(v)'
  BY <1>1, <1>4 DEF ShutDown, dispatcher, viewers
<1>5. ASSUME NEW s \in Sessions, NEW p \in Projects, Leave(s, p)
      PROVE  Right(v)'
  <2>1. Busy => Busy'
    BY <1>2, <1>5, MessageKinds DEF Leave
  <2> QED BY <1>1, <1>5, <2>1 DEF Leave, dispatcher, viewers
<1>6. ASSUME NEW s \in Sessions, Register(s)
      PROVE  Right(v)'
  <2>1. Busy => Busy'
    BY <1>2, <1>6, MessageKinds DEF Register
  <2> QED BY <1>1, <1>6, <2>1 DEF Register, dispatcher, viewers
<1>7. ASSUME NEW s \in Sessions, ReRender(s)
      PROVE  Right(v)'
  <2>1. PICK seen \in Visible(s) : shown' = [shown EXCEPT ![s] = seen]
    BY <1>7 DEF ReRender
  <2>2. UNCHANGED <<mailbox, userProject, listeners, project>>
    BY <1>7 DEF ReRender, dispatcher
  <2>3. CASE v = s
    <3>1. ~Busy => seen = userProject[project[s]]
      BY <2>1 DEF Visible
    <3> QED BY <2>1, <2>2, <2>3, <3>1
  <2>4. CASE v # s
    <3>1. shown'[v] = shown[v] /\ updates'[v] = updates[v]
      BY <1>7, <2>1, <2>4 DEF ReRender
    <3> QED BY <1>1, <2>2, <3>1
  <2> QED BY <2>3, <2>4
<1>8. CASE Handle
  <2>1. CASE UpdateListeners /\ UNCHANGED listeners
    <3>1. updates'[v] = updates[v] + 1 /\ updates[v] \in Nat
      BY <2>1 DEF UpdateListeners
    <3> QED BY <3>1
  <2>2. ASSUME NEW s \in Sessions, Head(mailbox) = AddOf(s), listeners' = listeners \cup {s},
               updates' = [updates EXCEPT ![s] = @ + 1], UNCHANGED userProject
        PROVE  Right(v)'
    <3>1. CASE v = s
      <4>1. updates'[v] = updates[v] + 1 /\ updates[v] \in Nat
        BY <2>2, <3>1
      <4> QED BY <4>1
    <3>2. CASE v # s
      <4>1. updates'[v] = updates[v] /\ v \in listeners
        BY <2>2, <3>2
      <4>2. ~Busy
        BY <2>2, MessageKinds DEF AddOf
      <4> QED BY <1>1, <1>8, <2>2, <4>1, <4>2, HandleCases
    <3> QED BY <3>1, <3>2
  <2> QED BY <1>8, <2>1, <2>2, HandleCases
<1>9. CASE UNCHANGED vars
  BY <1>1, <1>9 DEF vars, dispatcher, viewers
<1> QED BY <1>3, <1>4, <1>5, <1>6, <1>7, <1>8, <1>9 DEF Next

(* When dispatcher and viewer are idle the page shows what the map holds.   *)
(* The invariant lets a page be wrong while the dispatcher is at work on a  *)
(* message that changes the map: it will send an update after it.           *)
THEOREM IdleViewsAreRight == Spec => []ViewsConverge
<1>1. Init => ViewInv
  BY DEF Init, ViewInv, ViewsConverge
<1>2. ViewInv => ViewsConverge
  BY DEF ViewInv
<1> QED BY <1>1, <1>2, ViewStep, TypeInvariant, PTL DEF Spec

-----------------------------------------------------------------------------
(* The invariant of one session s with a notifier for project p whose user  *)
(* never had two of them at a time.                                         *)
LEMMA OverlapStep == TypeOK /\ RegisterInv /\ OverlapInv /\ [Next]_vars => OverlapInv'
<1> DEFINE Alone(s, p) == \A t \in Sessions :
             user[s] = user[t] => leaving[<<t, p>>] = 0 /\ (<<t, p>> \in live => s = t)
           Behind(s, p) == \A k \in 1..Len(mailbox) : mailbox[k] = LeaveOf(user[s], p) =>
             \E n \in (k + 1)..Len(mailbox) : mailbox[n] = EnterOf(user[s], p)
           Entered(s, p) == user[s] \in userProject[p] \/ Queued(EnterOf(user[s], p))
           Good(s, p) == Alone(s, p) /\ Behind(s, p) /\ Entered(s, p)
           Only(s, p) == <<s, p>> \in live /\ <<user[s], p>> \notin overlapped
<1>a. (\A s \in Sessions, p \in Projects : Only(s, p)' => Good(s, p)') => OverlapInv'
  BY DEF OverlapInv, MissingAfterOverlapOnly, Queued, EnterOf, LeaveOf
<1>b. OverlapInv => \A s \in Sessions, p \in Projects : Only(s, p) => Good(s, p)
  BY DEF OverlapInv, MissingAfterOverlapOnly
<1> SUFFICES ASSUME TypeOK, RegisterInv, OverlapInv, [Next]_vars,
                    NEW v \in Sessions, NEW q \in Projects, Only(v, q)'
             PROVE  Good(v, q)'
  BY <1>a
<1> USE UserAssumption DEF TypeOK
<1>0. Only(v, q) => Good(v, q)
  BY <1>b
<1>c. user[v] \in Users /\ EnterOf(user[v], q) \in Messages /\ LeaveOf(user[v], q) \in Messages
  BY MessageKinds DEF EnterOf
<1>1. ASSUME NEW m \in Messages, mailbox' = Append(mailbox, m), UNCHANGED userProject,
             m # LeaveOf(user[v], q), Behind(v, q), Entered(v, q)
      PROVE  Behind(v, q)' /\ Entered(v, q)'
  <2>1. Entered(v, q)'
    BY <1>1, QueueAppend DEF Queued, EnterOf
  <2>2. ASSUME NEW k \in 1..Len(mailbox'), mailbox'[k] = LeaveOf(user[v], q)
        PROVE  \E n \in (k + 1)..Len(mailbox') : mailbox'[n] = EnterOf(user[v], q)
    <3>1. k \in 1..Len(mailbox) /\ mailbox[k] = LeaveOf(user[v], q)
      BY <1>1, <2>2, QueueAppend
    <3>2. PICK n \in (k + 1)..Len(mailbox) : mailbox[n] = EnterOf(user[v], q)
      BY <1>1, <3>1
    <3>3. n \in (k + 1)..Len(mailbox') /\ mailbox'[n] = EnterOf(user[v], q)
      BY <1>1, <3>1, <3>2, QueueAppend
    <3> QED BY <3>3
  <2> QED BY <2>1, <2>2 DEF EnterOf, LeaveOf
<1>2. ASSUME NEW s \in Sessions, NEW p \in Projects, OpenPage(s, p)
      PROVE  Good(v, q)'
  <2>1. user[s] \in Users /\ UNCHANGED <<leaving, userProject>>
    BY <1>2 DEF OpenPage, dispatcher
  <2>2. CASE UNCHANGED <<live, mailbox, overlapped>>
    BY <1>0, <2>1, <2>2 DEF Queued, EnterOf, LeaveOf
  <2>3. CASE /\ <<s, p>> \notin live /\ live' = live \cup {<<s, p>>}
             /\ mailbox' = Append(mailbox, EnterOf(user[s], p))
             /\ overlapped' = overlapped \cup
                  (IF Held(user[s], p) THEN {<<user[s], p>>} ELSE {})
    <3>1. <<user[v], q>> \notin overlapped
      BY <2>3
    <3>2. EnterOf(user[s], p) \in Messages /\ EnterOf(user[s], p) # LeaveOf(user[v], q)
      BY <1>c, <2>1, MessageKinds, MessagesDiffer
    <3>3. CASE user[v] = user[s] /\ q = p
      <4>1. ~Held(user[s], p)
        BY <2>3, <3>3
      <4>2. \A t \in Sessions : user[s] = user[t] =>
              <<t, p>> \notin live /\ leaving[<<t, p>>] = 0
        <5>1. \A t \in Sessions : leaving[<<t, p>>] \in Nat
          BY DEF Keys
        <5>2. \A t \in Sessions : user[t] = user[s] =>
                <<t, p>> \notin live /\ ~(leaving[<<t, p>>] > 0)
          BY <4>1 DEF Held
        <5>3. \A n \in Nat : ~(n > 0) => n = 0
          OBVIOUS
        <5> QED BY <5>1, <5>2, <5>3
      <4>3. v = s
        BY <2>3, <3>3, <4>2
      <4>4. Alone(v, q)'
        BY <2>1, <2>3, <3>3, <4>2, <4>3
      <4>5. mailbox'[Len(mailbox) + 1] = EnterOf(user[v], q) /\ Len(mailbox) + 1 = Len(mailbox')
        BY <2>3, <3>2, <3>3, QueueAppend
      <4>6. Entered(v, q)'
        BY <2>3, <3>2, <4>5, QueueAppend DEF Queued, EnterOf
      <4>7. Behind(v, q)'
        <5>1. ASSUME NEW k \in 1..Len(mailbox'), mailbox'[k] = LeaveOf(user[v], q)
              PROVE  Len(mailbox') \in (k + 1)..Len(mailbox')
          BY <2>3, <3>2, <4>5, <5>1, QueueAppend
        <5> QED BY <4>5, <5>1 DEF EnterOf, LeaveOf
      <4> QED BY <4>4, <4>6, <4>7
    <3>4. CASE ~(user[v] = user[s] /\ q = p)
      <4>1. <<v, q>> \in live
        BY <2>3, <3>4
      <4>2. Good(v, q)
        BY <1>0, <3>1, <4>1
      <4>3. Alone(v, q)'
        BY <2>1, <2>3, <3>4, <4>2
      <4> QED BY <1>1, <2>1, <2>3, <3>2, <4>2, <4>3
    <3> QED BY <3>3, <3>4
  <2> QED BY <1>2, <2>2, <2>3 DEF OpenPage
<1>3. ASSUME NEW s \in Sessions, NEW p \in Projects, ShutDown(s, p)
      PROVE  Good(v, q)'
  <2>1. UNCHANGED <<mailbox, userProject, overlapped>> /\ live' = live \ {<<s, p>>}
    BY <1>3 DEF ShutDown, dispatcher
  <2>2. Good(v, q) /\ <<s, p>> \in live /\ <<v, q>> # <<s, p>>
    BY <1>0, <1>3, <2>1 DEF ShutDown
  <2>3. \A t \in Sessions : user[v] = user[t] => <<t, q>> # <<s, p>>
    BY <2>2
  <2>4. \A t \in Sessions : user[v] = user[t] => leaving'[<<t, q>>] = leaving[<<t, q>>]
    BY <1>3, <2>3 DEF ShutDown, Keys
  <2>5. Alone(v, q)'
    BY <2>1, <2>2, <2>4
  <2> QED BY <2>1, <2>2, <2>5 DEF Queued, EnterOf, LeaveOf
<1>4. ASSUME NEW s \in Sessions, NEW p \in Projects, Leave(s, p)
      PROVE  Good(v, q)'
  <2>1. UNCHANGED <<live, userProject, overlapped>>
        /\ mailbox' = Append(mailbox, LeaveOf(user[s], p))
    BY <1>4 DEF Leave, dispatcher
  <2>2. Good(v, q) /\ leaving[<<s, p>>] > 0
    BY <1>0, <1>4, <2>1 DEF Leave
  <2>3. ~(user[v] = user[s] /\ q = p)
    BY <2>2
  <2>4. LeaveOf(user[s], p) \in Messages /\ LeaveOf(user[s], p) # LeaveOf(user[v], q)
    BY <1>c, <2>3, MessageKinds, MessagesDiffer
  <2>5. \A t \in Sessions : user[v] = user[t] => leaving'[<<t, q>>] = leaving[<<t, q>>]
    <3>1. \A t \in Sessions : user[v] = user[t] => <<t, q>> # <<s, p>>
      BY <2>3
    <3> QED BY <1>4, <3>1 DEF Leave, Keys
  <2>6. Alone(v, q)'
    BY <2>1, <2>2, <2>5
  <2> QED BY <1>1, <2>1, <2>2, <2>4, <2>6
<1>5. ASSUME NEW s \in Sessions, Register(s)
      PROVE  Good(v, q)'
  <2>1. UNCHANGED <<live, leaving, userProject, overlapped>>
        /\ mailbox' = Append(mailbox, AddOf(s))
    BY <1>5 DEF Register, sessions, dispatcher
  <2>2. AddOf(s) \in Messages /\ AddOf(s) # LeaveOf(user[v], q)
    BY <1>c, MessageKinds, MessagesDiffer
  <2>3. Good(v, q)
    BY <1>0, <2>1
  <2> QED BY <1>1, <2>1, <2>2, <2>3
<1>6. CASE (\E s \in Sessions : ReRender(s)) \/ UNCHANGED vars
  <2>1. UNCHANGED <<live, leaving, overlapped, mailbox, userProject>>
    BY <1>6 DEF ReRender, vars, sessions, dispatcher
  <2> QED BY <1>0, <2>1 DEF Queued, EnterOf, LeaveOf
<1>7. CASE Handle
  <2>1. UNCHANGED <<live, leaving, overlapped>> /\ mailbox # <<>> /\ mailbox' = Tail(mailbox)
    BY <1>7, HandleCases DEF sessions
  <2>2. Good(v, q)
    BY <1>0, <2>1
  <2>3. ASSUME NEW k \in 1..Len(mailbox'), mailbox'[k] = LeaveOf(user[v], q)
        PROVE  \E n \in (k + 1)..Len(mailbox') : mailbox'[n] = EnterOf(user[v], q)
    <3>1. k + 1 \in 1..Len(mailbox) /\ mailbox[k + 1] = LeaveOf(user[v], q)
      BY <2>1, <2>3, QueueTail
    <3>2. PICK n \in (k + 1 + 1)..Len(mailbox) : mailbox[n] = EnterOf(user[v], q)
      BY <2>2, <3>1
    <3>3. n - 1 \in (k + 1)..Len(mailbox') /\ mailbox'[n - 1] = EnterOf(user[v], q)
      BY <2>1, <3>1, <3>2, QueueTail
    <3> QED BY <3>3
  <2>4. ASSUME Queued(EnterOf(user[v], q)), Head(mailbox) # EnterOf(user[v], q)
        PROVE  Queued(EnterOf(user[v], q))'
    BY <2>1, <2>4, QueueTail DEF Queued, EnterOf
  <2>5. Entered(v, q)'
    <3>1. CASE \E u \in Users, p \in Projects :
                 Head(mailbox) = EnterOf(u, p) /\ userProject' = Add(p, u)
      <4>1. PICK u \in Users, p \in Projects :
                   Head(mailbox) = EnterOf(u, p) /\ userProject' = Add(p, u)
        BY <3>1
      <4>2. CASE u = user[v] /\ p = q
        BY <4>1, <4>2 DEF Add
      <4>3. CASE ~(u = user[v] /\ p = q)
        <5>1. Head(mailbox) # EnterOf(user[v], q)
          BY <1>c, <4>1, <4>3, MessagesDiffer
        <5>2. user[v] \in userProject[q] => user[v] \in userProject'[q]
          BY <4>1 DEF Add
        <5> QED BY <2>2, <2>4, <5>1, <5>2
      <4> QED BY <4>2, <4>3
    <3>2. CASE \E u \in Users, p \in Projects :
                 Head(mailbox) = LeaveOf(u, p) /\ userProject' = Remove(p, u)
      <4>1. PICK u \in Users, p \in Projects :
                   Head(mailbox) = LeaveOf(u, p) /\ userProject' = Remove(p, u)
        BY <3>2
      <4>2. Head(mailbox) # EnterOf(user[v], q)
        BY <1>c, <4>1, MessagesDiffer
      <4>3. CASE u = user[v] /\ p = q
        <5>1. 1 \in 1..Len(mailbox) /\ mailbox[1] = LeaveOf(user[v], q)
          BY <2>1, <4>1, <4>3, QueueTail
        <5>2. PICK n \in (1 + 1)..Len(mailbox) : mailbox[n] = EnterOf(user[v], q)
          BY <2>2, <5>1
        <5>3. n - 1 \in 1..Len(mailbox') /\ mailbox'[n - 1] = EnterOf(user[v], q)
          BY <2>1, <5>2, QueueTail
        <5> QED BY <5>3 DEF Queued, EnterOf
      <4>4. CASE ~(u = user[v] /\ p = q)
        <5>1. user[v] \in userProject[q] => user[v] \in userProject'[q]
          BY <4>1, <4>4 DEF Remove
        <5> QED BY <2>2, <2>4, <4>2, <5>1
      <4> QED BY <4>3, <4>4
    <3>3. CASE \E s \in Sessions : Head(mailbox) = AddOf(s) /\ UNCHANGED userProject
      <4>1. Head(mailbox) # EnterOf(user[v], q)
        BY <1>c, <3>3, MessagesDiffer
      <4> QED BY <2>2, <2>4, <3>3, <4>1
    <3> QED BY <1>7, <3>1, <3>2, <3>3, HandleCases
  <2> QED BY <2>1, <2>2, <2>3, <2>5 DEF EnterOf, LeaveOf
<1> QED BY <1>2, <1>3, <1>4, <1>5, <1>6, <1>7 DEF Next

(* A user with a page of a project open is missing from it only on account  *)
(* of a notifier of the same user and project that was about when the page  *)
(* was opened.  Without such an overlap the notifier that lives is the      *)
(* user's only one, and an older 'Leave in the queue has its 'Enter behind. *)
THEOREM OnlyOverlapsHide == Spec => []MissingAfterOverlapOnly
<1>1. Init => OverlapInv
  BY DEF Init, OverlapInv, MissingAfterOverlapOnly
<1>2. OverlapInv => MissingAfterOverlapOnly
  BY DEF OverlapInv
<1> QED BY <1>1, <1>2, OverlapStep, TypeInvariant, PTL DEF Spec
=============================================================================

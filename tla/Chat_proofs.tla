----------------------------- MODULE Chat_proofs -----------------------------
(***************************************************************************)
(* Theorems about Chat for any number of rooms, pages, messages and        *)
(* crashes.                                                                *)
(***************************************************************************)
EXTENDS Chat, SequenceTheorems, WellFoundedInduction, TLAPS

-----------------------------------------------------------------------------
(* What Only returns, by induction on the length of its sequence.           *)

Distinct(q) == \A i, j \in 1..Len(q) : q[i] = q[j] => i = j

LEMMA NatHasLeast ==
  ASSUME NEW T \in SUBSET Nat, T # {}
  PROVE  \E n \in T : \A m \in T : n <= m
<1> DEFINE R == {mn \in Nat \X Nat : mn[1] < mn[2]}
<1>1. IsWellFoundedOn(R, Nat)
  BY NatLessThanWellFounded DEF OpToRel
<1>2. PICK n \in T : \A m \in T : <<m, n>> \notin R
  <2> HIDE DEF R
  <2> QED BY <1>1, WFMin
<1>3. \A m \in T : ~(m < n)
  BY <1>2
<1> QED BY <1>3

LEMMA NatInduct ==
  ASSUME NEW S, 0 \in S, \A n \in Nat : n \in S => n + 1 \in S
  PROVE  Nat \subseteq S
<1> SUFFICES ASSUME ~(Nat \subseteq S) PROVE FALSE
  OBVIOUS
<1> DEFINE T == {n \in Nat : n \notin S}
<1>1. PICK n \in T : \A m \in T : n <= m
  BY NatHasLeast
<1>2. n # 0 /\ n - 1 \in Nat /\ n - 1 \in S
  BY <1>1
<1> QED BY <1>1, <1>2

(* The members of S among the first n of q, from those among the first n - 1. *)
Further(q, S, f, n) ==
  IF n = 0 THEN <<>>
  ELSE IF q[n] \in S THEN Append(f[n-1], q[n]) ELSE f[n-1]

LEMMA OnlyExists ==
  ASSUME NEW q, NEW S
  PROVE  \A m \in Nat : \E f : f = [n \in 0..m |-> Further(q, S, f, n)]
<1> DEFINE M == {m \in Nat : \E f : f = [n \in 0..m |-> Further(q, S, f, n)]}
<1>1. 0 \in M
  <2> DEFINE g == [n \in 0..0 |-> <<>>]
  <2>1. g = [n \in 0..0 |-> Further(q, S, g, n)]
    BY DEF Further
  <2> QED BY <2>1
<1>2. ASSUME NEW m \in Nat, m \in M PROVE m + 1 \in M
  <2>1. PICK g : g = [n \in 0..m |-> Further(q, S, g, n)]
    BY <1>2
  <2> DEFINE h == [n \in 0..(m+1) |-> IF n = m + 1 THEN Further(q, S, g, n) ELSE g[n]]
  <2>2. ASSUME NEW n \in 0..(m+1) PROVE h[n] = Further(q, S, h, n)
    <3>1. CASE n = 0
      <4>1. h[n] = g[0] /\ g[0] = Further(q, S, g, 0)
        BY <2>1, <3>1
      <4> QED BY <3>1, <4>1 DEF Further
    <3>2. CASE n # 0
      <4>1. n - 1 \in 0..(m+1) /\ n - 1 # m + 1
        BY <3>2
      <4>2. h[n-1] = g[n-1]
        BY <4>1
      <4>3. h[n] = Further(q, S, g, n)
        <5>1. CASE n = m + 1
          BY <5>1
        <5>2. CASE n # m + 1
          <6>1. n \in 0..m
            BY <5>2
          <6>2. h[n] = g[n]
            BY <5>2
          <6> QED BY <2>1, <6>1, <6>2
        <5> QED BY <5>1, <5>2
      <4> HIDE DEF h
      <4> QED BY <3>2, <4>2, <4>3 DEF Further
    <3> QED BY <3>1, <3>2
  <2>3. h = [n \in 0..(m+1) |-> Further(q, S, h, n)]
    <3>1. h = [n \in 0..(m+1) |-> h[n]]
      OBVIOUS
    <3> HIDE DEF h
    <3> QED BY <2>2, <3>1
  <2> HIDE DEF h
  <2> QED BY <2>3
<1> HIDE DEF M
<1>3. Nat \subseteq M
  BY <1>1, <1>2, NatInduct
<1> QED BY <1>3 DEF M

LEMMA OnlyIs ==
  ASSUME NEW A, NEW q \in Seq(A), NEW S
  PROVE  \E f : f = [n \in 0..Len(q) |-> Further(q, S, f, n)] /\ Only(q, S) = f[Len(q)]
<1> DEFINE f == CHOOSE f : f = [n \in 0..Len(q) |-> Further(q, S, f, n)]
<1>1. \E g : g = [n \in 0..Len(q) |-> Further(q, S, g, n)]
  <2>1. Len(q) \in Nat
    BY LenProperties
  <2> QED BY <2>1, OnlyExists, Zenon
<1>2. f = [n \in 0..Len(q) |-> Further(q, S, f, n)]
  BY <1>1
<1>3. Only(q, S) = f[Len(q)]
  BY DEF Only, Further
<1> QED BY <1>2, <1>3

(* Only keeps the order, and so no member twice that is once in q. *)
LEMMA OnlyMembers ==
  ASSUME NEW A, NEW q \in Seq(A), NEW S
  PROVE  /\ Only(q, S) \in Seq(A)
         /\ ToSet(Only(q, S)) = ToSet(q) \cap S
         /\ Distinct(q) => Distinct(Only(q, S))
<1>1. PICK f : f = [n \in 0..Len(q) |-> Further(q, S, f, n)] /\ Only(q, S) = f[Len(q)]
  BY OnlyIs
<1> DEFINE Holds(n) == /\ f[n] \in Seq(A)
                       /\ ToSet(f[n]) = {q[i] : i \in 1..n} \cap S
                       /\ Distinct(q) => Distinct(f[n])
           M == {n \in Nat : n <= Len(q) => Holds(n)}
<1>2. 0 \in M
  <2>1. f[0] = <<>>
    BY <1>1 DEF Further
  <2>2. <<>> \in Seq(A) /\ ToSet(<<>>) = {} /\ Distinct(<<>>)
    BY DEF ToSet, Distinct
  <2>3. {q[i] : i \in 1..0} = {}
    OBVIOUS
  <2> QED BY <2>1, <2>2, <2>3
<1>3. ASSUME NEW n \in Nat, n \in M PROVE n + 1 \in M
  <2> SUFFICES ASSUME n + 1 <= Len(q) PROVE Holds(n+1)
    OBVIOUS
  <2>1. Holds(n)
    BY <1>3
  <2>2. q[n+1] \in A
    BY ElementOfSeq
  <2>3. f[n+1] = Further(q, S, f, n+1)
    BY <1>1
  <2>4. {q[i] : i \in 1..(n+1)} = {q[i] : i \in 1..n} \cup {q[n+1]}
    OBVIOUS
  <2> HIDE DEF Holds
  <2>5. CASE q[n+1] \notin S
    <3>1. f[n+1] = f[n]
      BY <2>3, <2>5 DEF Further
    <3> QED BY <2>1, <2>4, <2>5, <3>1 DEF Holds
  <2>6. CASE q[n+1] \in S
    <3> DEFINE g == f[n]
    <3>1. f[n+1] = Append(g, q[n+1])
      BY <2>3, <2>6 DEF Further
    <3>2. g \in Seq(A) /\ ToSet(g) = {q[i] : i \in 1..n} \cap S /\ (Distinct(q) => Distinct(g))
      BY <2>1 DEF Holds
    <3> HIDE DEF g
    <3>3. ToSet(Append(g, q[n+1])) = ToSet(g) \cup {q[n+1]}
      BY <2>2, <3>2, AppendProperties DEF ToSet
    <3>4. ASSUME Distinct(q) PROVE Distinct(Append(g, q[n+1]))
      <4>1. \A k \in 1..Len(g) : g[k] \in ToSet(g)
        BY <3>2, LenProperties DEF ToSet
      <4>2. \A k \in 1..Len(g) : \E i \in 1..n : g[k] = q[i]
        BY <3>2, <4>1
      <4>3. \A i \in 1..n : q[i] # q[n+1]
        <5>1. n + 1 \in 1..Len(q) /\ Len(q) \in Nat
          BY LenProperties
        <5>2. \A i \in 1..n : i \in 1..Len(q) /\ i # n + 1
          BY <5>1
        <5> QED BY <3>4, <5>1, <5>2 DEF Distinct
      <4>5. \A k \in 1..Len(g) : g[k] # q[n+1]
        BY <4>2, <4>3
      <4> QED BY <2>2, <3>2, <3>4, <4>5, AppendProperties DEF Distinct
    <3>5. Append(g, q[n+1]) \in Seq(A)
      BY <2>2, <3>2
    <3> QED BY <2>4, <2>6, <3>1, <3>2, <3>3, <3>4, <3>5 DEF Holds
  <2> QED BY <2>5, <2>6
<1>4. Len(q) \in M
  <2> HIDE DEF M
  <2> QED BY <1>2, <1>3, NatInduct
<1>5. ToSet(q) = {q[i] : i \in 1..Len(q)}
  BY LenProperties DEF ToSet
<1> QED BY <1>1, <1>4, <1>5

-----------------------------------------------------------------------------
(* Types. *)

LEMMA LoadTypes ==
  ASSUME rows \in Seq(Posts), NEW visible
  PROVE  Load(visible) \in [Rooms -> Seq(Posts)]
BY OnlyMembers DEF Load

LEMMA RoomTypes == (\A c \in Clients : room[c] \in Rooms) /\ (\A p \in Posts : room[p] \in Rooms)
BY RoomAssumption

LEMMA TouchTypes ==
  ASSUME TypeOK, NEW visible, Touch(visible)
  PROVE  loaded' \in BOOLEAN /\ msgs' \in [Rooms -> Seq(Posts)]
BY LoadTypes DEF Touch, TypeOK

LEMMA HeadOfInbox ==
  ASSUME TypeOK, inbox # <<>>
  PROVE  /\ Head(inbox) \in Clients \cup Posts
         /\ Tail(inbox) \in Seq(Clients \cup Posts)
BY HeadTailProperties DEF TypeOK

LEMMA InitTypes == Init => TypeOK
<1> SUFFICES ASSUME Init PROVE TypeOK
  OBVIOUS
<1>1. crashes \in 0..MaxCrashes
  BY BoundsAssumption DEF Init
<1>2. <<>> \in Seq(Posts) /\ <<>> \in Seq(Updates) /\ <<>> \in Seq(Clients \cup Posts)
  OBVIOUS
<1> QED BY <1>1, <1>2 DEF Init, TypeOK, NoMessages

LEMMA NextTypes == TypeOK /\ [Next]_vars => TypeOK'
<1> SUFFICES ASSUME TypeOK, [Next]_vars PROVE TypeOK'
  OBVIOUS
<1> USE DEF disk, server, views
<1>1. ASSUME NEW c \in Clients, OpenPage(c) PROVE TypeOK'
  BY <1>1 DEF TypeOK, OpenPage
<1>2. ASSUME NEW c \in Clients, Register(c) PROVE TypeOK'
  <2>1. loaded' \in BOOLEAN /\ msgs' \in [Rooms -> Seq(Posts)]
    BY <1>2, TouchTypes DEF Register
  <2> QED BY <1>2, <2>1, AppendProperties DEF TypeOK, Register
<1>3. ASSUME NEW c \in Clients, ReRender(c) PROVE TypeOK'
  <2>1. Tail(updates[c]) \in Seq(Updates)
    BY <1>3, HeadTailProperties DEF TypeOK, ReRender
  <2>2. updates' \in [Clients -> Seq(Updates)]
    BY <1>3, <2>1 DEF TypeOK, ReRender
  <2>3. \A x \in Seq(Posts) : [shown EXCEPT ![c] = x] \in [Clients -> Seq(Posts)]
    BY DEF TypeOK
  <2>4. msgs[room[c]] \in Seq(Posts) /\ <<>> \in Seq(Posts)
    BY RoomTypes DEF TypeOK
  <2>5. shown' \in [Clients -> Seq(Posts)]
    BY <1>3, <2>3, <2>4 DEF ReRender
  <2> QED BY <1>3, <2>2, <2>5 DEF TypeOK, ReRender
<1>4. ASSUME NEW p \in Posts, Save(p) PROVE TypeOK'
  BY <1>4, AppendProperties DEF TypeOK, Save
<1>5. ASSUME NEW p \in Posts, Send(p) PROVE TypeOK'
  <2>1. loaded' \in BOOLEAN /\ msgs' \in [Rooms -> Seq(Posts)]
    BY <1>5, TouchTypes DEF Send
  <2> QED BY <1>5, <2>1, AppendProperties DEF TypeOK, Send
<1>6. ASSUME NEW p \in Posts, Commit(p) PROVE TypeOK'
  BY <1>6 DEF TypeOK, Commit
<1>7. CASE AddAListener
  <2>1. Head(inbox) \in Clients /\ Tail(inbox) \in Seq(Clients \cup Posts)
    BY <1>7, HeadOfInbox DEF AddAListener
  <2>2. Update(msgs) \in Updates
    BY DEF Update, Updates
  <2>3. updates' \in [Clients -> Seq(Updates)]
    BY <1>7, <2>1, <2>2, AppendProperties DEF TypeOK, AddAListener
  <2> QED BY <1>7, <2>1, <2>3 DEF TypeOK, AddAListener
<1>8. CASE ReceivePost
  <2>1. Head(inbox) \in Posts /\ Tail(inbox) \in Seq(Clients \cup Posts)
    BY <1>8, HeadOfInbox DEF ReceivePost
  <2>2. Update(msgs') \in Updates
    BY DEF Update, Updates
  <2>3. updates' \in [Clients -> Seq(Updates)]
    <3>1. \A c \in Clients : /\ updates[c] \in Seq(Updates)
                             /\ Append(updates[c], Update(msgs')) \in Seq(Updates)
      BY <2>2, AppendProperties DEF TypeOK
    <3> QED BY <1>8, <3>1 DEF ReceivePost
  <2>4. msgs' \in [Rooms -> Seq(Posts)]
    <3>1. room[Head(inbox)] \in Rooms
      BY <2>1, RoomTypes
    <3>2. Append(msgs[room[Head(inbox)]], Head(inbox)) \in Seq(Posts)
      BY <2>1, <3>1, AppendProperties DEF TypeOK
    <3> QED BY <1>8, <3>1, <3>2 DEF TypeOK, ReceivePost
  <2> QED BY <1>8, <2>1, <2>3, <2>4 DEF TypeOK, ReceivePost
<1>9. CASE Crash
  <2>1. rows' \in Seq(Posts)
    BY <1>9, OnlyMembers DEF TypeOK, Crash
  <2>2. crashes' \in 0..MaxCrashes
    BY <1>9, BoundsAssumption DEF TypeOK, Crash
  <2>3. <<>> \in Seq(Posts) /\ <<>> \in Seq(Updates) /\ <<>> \in Seq(Clients \cup Posts)
    OBVIOUS
  <2>4. posting' \in [Posts -> {"idle", "saved", "sent", "done", "lost"}]
    BY <1>9 DEF TypeOK, Crash
  <2>5. loaded' \in BOOLEAN /\ up' \in BOOLEAN /\ committed' \subseteq Posts /\ listeners' \subseteq Clients
    BY <1>9 DEF TypeOK, Crash
  <2>6. msgs' \in [Rooms -> Seq(Posts)] /\ inbox' \in Seq(Clients \cup Posts)
    BY <1>9, <2>3 DEF Crash, NoMessages
  <2>7. /\ chat' \in [Clients -> {"none", "created", "registered"}]
        /\ updates' \in [Clients -> Seq(Updates)] /\ shown' \in [Clients -> Seq(Posts)]
    BY <1>9, <2>3 DEF Crash, NoViews
  <2> QED BY <2>1, <2>2, <2>4, <2>5, <2>6, <2>7 DEF TypeOK
<1>10. CASE Restart
  BY <1>10 DEF TypeOK, Restart
<1>11. CASE UNCHANGED vars
  BY <1>11 DEF TypeOK, vars
<1> QED BY <1>1, <1>2, <1>3, <1>4, <1>5, <1>6, <1>7, <1>8, <1>9, <1>10, <1>11 DEF Next, Act

-----------------------------------------------------------------------------
(* The inductive invariants. *)

(* Until somebody touches ChatServer there is nothing to be seen of it. *)
QuietInv ==
  ~loaded =>
    /\ inbox = <<>> /\ msgs = NoMessages
    /\ \A c \in Clients : chat[c] # "registered" /\ updates[c] = <<>> /\ shown[c] = <<>>
    /\ \A p \in Posts : posting[p] # "sent"

(* What a page shows is the beginning of its room's buffer, and once the room *)
(* is in an update, or on the page, it is in all the updates behind.          *)
ViewInv(c) ==
  /\ IsPrefix(shown[c], msgs[room[c]])
  /\ \A k \in 1..Len(updates[c]) :
       /\ room[c] \in updates[c][k] => msgs[room[c]] # <<>>
       /\ shown[c] # <<>> => room[c] \in updates[c][k]
       /\ \A l \in k..Len(updates[c]) : room[c] \in updates[c][k] => room[c] \in updates[c][l]

(* The table holds each message once, those saved and not rolled back. *)
RowsInv ==
  /\ Distinct(rows)
  /\ ToSet(rows) = {p \in Posts : posting[p] \in {"saved", "sent", "done"}}
  /\ committed = {p \in Posts : posting[p] = "done"}

(* A message sent is in the inbox or in its room. *)
PlacesInv ==
  loaded => \A p \in Posts : posting[p] \in {"sent", "done"} =>
              p \in ToSet(msgs[room[p]]) \cup ToSet(inbox)

(* It is there once, provided pages register before their users post: then no *)
(* message is in the table before ChatServer has loaded it, except committed.  *)
OnceInv ==
  /\ \A p \in Posts : posting[p] = "saved" => loaded
  /\ \A r \in Rooms : Distinct(msgs[r])
  /\ \A r \in Rooms : \A p \in ToSet(msgs[r]) :
       room[p] = r /\ posting[p] \in {"sent", "done"} /\ p \notin ToSet(inbox)
  /\ \A k, l \in 1..Len(inbox) : inbox[k] \in Posts /\ inbox[k] = inbox[l] => k = l
  /\ \A p \in ToSet(inbox) \cap Posts : posting[p] \in {"sent", "done"}

ViewsInv == TypeOK /\ QuietInv /\ \A c \in Clients : ViewInv(c)
SavedInv == ViewsInv /\ RowsInv /\ PlacesInv
ChatInv == SavedInv /\ (~EarlyPosts => OnceInv)

-----------------------------------------------------------------------------
(* Prefixes. *)

LEMMA PrefixIs ==
  ASSUME NEW A, NEW s \in Seq(A), NEW t \in Seq(A)
  PROVE  IsPrefix(s, t) <=> Len(s) <= Len(t) /\ \A i \in 1..Len(s) : s[i] = t[i]
<1>1. Len(s) \in Nat /\ Len(t) \in Nat
  BY LenProperties
<1>2. SubSeq(s, 1, Len(s)) = s
  BY SubSeqFull
<1>3. ASSUME Len(s) <= Len(t)
      PROVE  SubSeq(t, 1, Len(s)) \in Seq(A) /\ Len(SubSeq(t, 1, Len(s))) = Len(s)
             /\ \A i \in 1..Len(s) : SubSeq(t, 1, Len(s))[i] = t[i]
  <2>1. \A i \in 1..Len(s) : t[i] \in A
    BY <1>1, <1>3, ElementOfSeq
  <2> QED BY <1>1, <1>3, <2>1, SubSeqProperties
<1>4. ASSUME NEW u \in Seq(A), Len(u) = Len(s), \A i \in 1..Len(s) : s[i] = u[i] PROVE s = u
  BY <1>4, SeqEqual
<1> QED BY <1>1, <1>2, <1>3, <1>4 DEF IsPrefix

LEMMA PrefixFacts ==
  ASSUME NEW A, NEW t \in Seq(A)
  PROVE  /\ IsPrefix(t, t) /\ IsPrefix(<<>>, t)
         /\ \A s \in Seq(A), x \in A : IsPrefix(s, t) => IsPrefix(s, Append(t, x))
         /\ \A s \in Seq(A) : s # <<>> /\ IsPrefix(s, t) => t # <<>>
         /\ \A s, u \in Seq(A) : IsPrefix(s, t) /\ IsPrefix(u, t) =>
                                 IsPrefix(s, u) \/ IsPrefix(u, s)
<1>1. Len(t) \in Nat /\ <<>> \in Seq(A) /\ Len(<<>>) = 0
  BY LenProperties
<1>2. IsPrefix(t, t) /\ IsPrefix(<<>>, t)
  <2>1. IsPrefix(t, t)
    BY <1>1, PrefixIs
  <2>2. Len(<<>>) <= Len(t) /\ \A i \in 1..Len(<<>>) : <<>>[i] = t[i]
    BY <1>1
  <2>3. PICK e \in Seq(A) : e = <<>>
    BY <1>1
  <2>4. IsPrefix(e, t)
    BY <2>2, <2>3, PrefixIs
  <2> QED BY <2>1, <2>3, <2>4
<1>3. ASSUME NEW s \in Seq(A), NEW x \in A, IsPrefix(s, t) PROVE IsPrefix(s, Append(t, x))
  <2>1. Len(s) \in Nat
    BY LenProperties
  <2>2. /\ Append(t, x) \in Seq(A) /\ Len(Append(t, x)) = Len(t) + 1
        /\ \A i \in 1..Len(t) : Append(t, x)[i] = t[i]
    BY AppendProperties
  <2>3. Len(s) <= Len(t) /\ \A i \in 1..Len(s) : s[i] = t[i]
    BY <1>3, PrefixIs
  <2>4. Len(s) <= Len(Append(t, x)) /\ \A i \in 1..Len(s) : s[i] = Append(t, x)[i]
    BY <1>1, <2>1, <2>2, <2>3
  <2>5. PICK u \in Seq(A) : u = Append(t, x)
    BY <2>2
  <2> QED BY <2>4, <2>5, PrefixIs
<1>4. ASSUME NEW s \in Seq(A), s # <<>>, IsPrefix(s, t) PROVE t # <<>>
  <2>1. Len(s) <= Len(t) /\ Len(s) \in Nat /\ Len(s) # 0
    BY <1>4, PrefixIs, LenProperties, EmptySeq
  <2> QED BY <1>1, <2>1
<1>5. ASSUME NEW s \in Seq(A), NEW u \in Seq(A), IsPrefix(s, t), IsPrefix(u, t)
      PROVE  IsPrefix(s, u) \/ IsPrefix(u, s)
  <2>1. Len(s) \in Nat /\ Len(u) \in Nat
    BY LenProperties
  <2>2. Len(s) <= Len(t) /\ Len(u) <= Len(t)
    BY <1>5, PrefixIs
  <2>3. (\A i \in 1..Len(s) : s[i] = t[i]) /\ (\A i \in 1..Len(u) : u[i] = t[i])
    BY <1>5, PrefixIs
  <2>4. CASE Len(s) <= Len(u)
    <3>1. \A i \in 1..Len(s) : s[i] = u[i]
      BY <2>1, <2>3, <2>4
    <3> QED BY <2>4, <3>1, PrefixIs
  <2>5. CASE Len(u) <= Len(s)
    <3>1. \A i \in 1..Len(u) : u[i] = s[i]
      BY <2>1, <2>3, <2>5
    <3> QED BY <2>5, <3>1, PrefixIs
  <2> QED BY <2>1, <2>4, <2>5
<1> QED BY <1>2, <1>3, <1>4, <1>5

LEMMA AppendMembers ==
  ASSUME NEW A, NEW q \in Seq(A), NEW x \in A
  PROVE  ToSet(Append(q, x)) = ToSet(q) \cup {x}
<1>1. /\ Append(q, x) \in Seq(A) /\ Len(Append(q, x)) = Len(q) + 1 /\ Len(q) \in Nat
      /\ Append(q, x)[Len(q) + 1] = x /\ \A i \in 1..Len(q) : Append(q, x)[i] = q[i]
  BY AppendProperties, LenProperties
<1>2. /\ ToSet(q) = {q[i] : i \in 1..Len(q)}
      /\ ToSet(Append(q, x)) = {Append(q, x)[i] : i \in 1..(Len(q) + 1)}
  BY <1>1, LenProperties DEF ToSet
<1>3. 1..(Len(q) + 1) = 1..Len(q) \cup {Len(q) + 1}
  BY <1>1
<1> QED BY <1>1, <1>2, <1>3

LEMMA HeadMembers ==
  ASSUME NEW A, NEW q \in Seq(A), q # <<>>
  PROVE  ToSet(q) = {Head(q)} \cup ToSet(Tail(q))
<1>1. /\ Len(q) \in Nat /\ Len(q) # 0 /\ Tail(q) \in Seq(A) /\ Head(q) = q[1]
      /\ Len(Tail(q)) = Len(q) - 1 /\ \A i \in 1..Len(Tail(q)) : Tail(q)[i] = q[i+1]
  BY HeadTailProperties, LenProperties, EmptySeq
<1>2. ToSet(q) = {q[i] : i \in 1..Len(q)} /\ ToSet(Tail(q)) = {Tail(q)[i] : i \in 1..Len(Tail(q))}
  BY <1>1, LenProperties DEF ToSet
<1>3. ASSUME NEW i \in 1..Len(q), i # 1 PROVE q[i] \in ToSet(Tail(q))
  <2>1. PICK j \in 1..Len(Tail(q)) : j + 1 = i
    <3>1. i - 1 \in 1..Len(Tail(q)) /\ (i - 1) + 1 = i
      BY <1>1, <1>3
    <3> QED BY <3>1
  <2>2. Tail(q)[j] = q[i]
    BY <1>1, <2>1
  <2> QED BY <1>2, <2>1, <2>2
<1>4. ASSUME NEW i \in 1..Len(Tail(q)) PROVE i + 1 \in 1..Len(q) /\ Tail(q)[i] = q[i+1]
  BY <1>1
<1>5. ToSet(q) \subseteq {Head(q)} \cup ToSet(Tail(q))
  BY <1>1, <1>2, <1>3
<1>6. 1 \in 1..Len(q)
  BY <1>1
<1> QED BY <1>1, <1>2, <1>4, <1>5, <1>6

LEMMA NoMembers ==
  ASSUME NEW A, NEW q \in Seq(A), ToSet(q) = {}
  PROVE  q = <<>>
<1>1. SUFFICES ASSUME q # <<>> PROVE FALSE
  OBVIOUS
<1>2. Head(q) \in ToSet(q)
  BY <1>1, HeadMembers
<1> QED BY <1>2

-----------------------------------------------------------------------------
(* Pages and buffers. *)

LEMMA InitViews == Init => ViewsInv
<1> SUFFICES ASSUME Init PROVE ViewsInv
  OBVIOUS
<1>1. TypeOK
  BY InitTypes
<1>2. QuietInv
  BY DEF Init, QuietInv
<1>3. ASSUME NEW c \in Clients PROVE ViewInv(c)
  <2>1. shown[c] = <<>> /\ updates[c] = <<>> /\ msgs[room[c]] \in Seq(Posts)
    BY <1>1, RoomTypes DEF Init, TypeOK
  <2>2. IsPrefix(<<>>, msgs[room[c]])
    BY <2>1, PrefixFacts
  <2> QED BY <2>1, <2>2 DEF ViewInv
<1> QED BY <1>1, <1>2, <1>3 DEF ViewsInv

LEMMA KeepView ==
  ASSUME NEW c \in Clients, ViewInv(c), shown'[c] = shown[c], updates'[c] = updates[c],
         msgs'[room[c]] = msgs[room[c]]
  PROVE  ViewInv(c)'
BY DEF ViewInv

(* A page that shows nothing and has no updates to come. *)
LEMMA EmptyView ==
  ASSUME TypeOK', NEW c \in Clients, shown'[c] = <<>>, updates'[c] = <<>>
  PROVE  ViewInv(c)'
<1>1. msgs'[room[c]] \in Seq(Posts)
  BY RoomTypes DEF TypeOK
<1>2. IsPrefix(<<>>, msgs'[room[c]])
  BY <1>1, PrefixFacts
<1> QED BY <1>2 DEF ViewInv

(* Loading the table, if it was not loaded, and no page shows anything then. *)
LEMMA TouchView ==
  ASSUME ViewsInv, TypeOK', NEW visible, Touch(visible), UNCHANGED <<updates, shown>>,
         NEW c \in Clients
  PROVE  ViewInv(c)'
<1>1. CASE loaded
  <2>1. msgs' = msgs
    BY <1>1 DEF Touch
  <2> QED BY <2>1, KeepView DEF ViewsInv
<1>2. CASE ~loaded
  <2>1. shown'[c] = <<>> /\ updates'[c] = <<>>
    BY <1>2 DEF ViewsInv, QuietInv
  <2> QED BY <2>1, EmptyView
<1> QED BY <1>1, <1>2

(* A buffer may grow before the page is told. *)
LEMMA GrowView ==
  ASSUME ViewsInv, TypeOK', NEW c \in Clients, shown'[c] = shown[c], updates'[c] = updates[c],
         \/ msgs'[room[c]] = msgs[room[c]]
         \/ \E x \in Posts : msgs'[room[c]] = Append(msgs[room[c]], x)
  PROVE  ViewInv(c)'
<1>1. ViewInv(c) /\ msgs[room[c]] \in Seq(Posts) /\ shown[c] \in Seq(Posts)
  BY RoomTypes DEF ViewsInv, TypeOK
<1>2. IsPrefix(shown[c], msgs[room[c]])
  BY <1>1 DEF ViewInv
<1>3. \A x \in Posts : /\ IsPrefix(shown[c], Append(msgs[room[c]], x))
                       /\ Append(msgs[room[c]], x) # <<>>
  <2>1. ASSUME NEW x \in Posts PROVE Append(msgs[room[c]], x) # <<>>
    BY <1>1, AppendProperties
  <2> QED BY <1>1, <1>2, <2>1, PrefixFacts
<1>4. IsPrefix(shown[c], msgs'[room[c]]) /\ (msgs[room[c]] # <<>> => msgs'[room[c]] # <<>>)
  BY <1>2, <1>3
<1> QED BY <1>1, <1>4 DEF ViewInv

(* An update that tells of the buffers as they are goes behind the others. *)
LEMMA UpdateView ==
  ASSUME ViewsInv, TypeOK', NEW c \in Clients, shown'[c] = shown[c],
         updates'[c] = Append(updates[c], Update(msgs')),
         \/ msgs'[room[c]] = msgs[room[c]]
         \/ \E x \in Posts : msgs'[room[c]] = Append(msgs[room[c]], x)
  PROVE  ViewInv(c)'
<1> DEFINE r == room[c]
           u == updates[c]
           v == updates'[c]
<1>1. r \in Rooms /\ msgs[r] \in Seq(Posts) /\ shown[c] \in Seq(Posts)
  BY RoomTypes DEF ViewsInv, TypeOK
<1>2. u \in Seq(Updates) /\ Update(msgs') \in Updates
  BY DEF ViewsInv, TypeOK, Update, Updates
<1>3. /\ Len(u) \in Nat /\ Len(v) = Len(u) + 1 /\ v[Len(u) + 1] = Update(msgs')
      /\ \A k \in 1..Len(u) : v[k] = u[k]
  BY <1>2, AppendProperties, LenProperties
<1>4. ViewInv(c)
  BY DEF ViewsInv
<1>5. IsPrefix(shown[c], msgs'[r]) /\ (msgs[r] # <<>> => msgs'[r] # <<>>)
  <2>1. IsPrefix(shown[c], msgs[r])
    BY <1>4 DEF ViewInv
  <2>2. \A x \in Posts : IsPrefix(shown[c], Append(msgs[r], x)) /\ Append(msgs[r], x) # <<>>
    <3>1. ASSUME NEW x \in Posts PROVE Append(msgs[r], x) # <<>>
      BY <1>1, AppendProperties
    <3> QED BY <1>1, <2>1, <3>1, PrefixFacts
  <2> QED BY <2>1, <2>2
<1>6. r \in Update(msgs') <=> msgs'[r] # <<>>
  BY <1>1 DEF Update
<1>7. shown[c] # <<>> => msgs[r] # <<>>
  BY <1>1, <1>4, PrefixFacts DEF ViewInv
<1> DEFINE n == Len(u)
           s == shown[c]
           m == msgs[r]
           w == msgs'[r]
<1>8. /\ \A k \in 1..n : r \in u[k] => m # <<>>
      /\ \A k \in 1..n : s # <<>> => r \in u[k]
      /\ \A k \in 1..n : \A l \in k..n : r \in u[k] => r \in u[l]
  BY <1>4 DEF ViewInv
<1>9. \A k \in 1..(n+1) : k \in 1..n \/ k = n + 1
  BY <1>3
<1> HIDE DEF n, s, m, w, r, u, v
<1>10. ASSUME NEW k \in 1..(n+1)
       PROVE  /\ r \in v[k] => w # <<>>
              /\ s # <<>> => r \in v[k]
              /\ \A l \in k..(n+1) : r \in v[k] => r \in v[l]
  <2>1. CASE k = n + 1
    <3>1. \A l \in k..(n+1) : l = k
      BY <1>3, <2>1 DEF n
    <3> QED BY <1>3, <1>5, <1>6, <1>7, <2>1, <3>1 DEF n, s, m, w
  <2>2. CASE k \in 1..n
    <3>1. v[k] = u[k]
      BY <1>3, <2>2 DEF n
    <3>2. r \in v[k] => w # <<>>
      BY <1>5, <1>8, <2>2, <3>1 DEF m, w
    <3>3. ASSUME NEW l \in k..(n+1), r \in v[k] PROVE r \in v[l]
      <4>1. CASE l = n + 1
        BY <1>3, <1>6, <3>2, <3>3, <4>1 DEF n, w
      <4>2. CASE l # n + 1
        <5>1. l \in k..n /\ l \in 1..n
          BY <1>3, <2>2, <4>2 DEF n
        <5> QED BY <1>3, <1>8, <2>2, <3>1, <3>3, <5>1 DEF n
      <4> QED BY <4>1, <4>2
    <3> QED BY <1>8, <2>2, <3>1, <3>2, <3>3
  <2> QED BY <1>9, <2>1, <2>2
<1> USE DEF n, s, m, w, r, u, v
<1> QED BY <1>3, <1>5, <1>10 DEF ViewInv

LEMMA ReRenderView ==
  ASSUME ViewsInv, TypeOK', NEW c \in Clients, ReRender(c)
  PROVE  ViewInv(c)' /\ IsPrefix(shown[c], shown'[c])
<1> DEFINE r == room[c]
           u == updates[c]
           v == updates'[c]
           m == msgs[r]
<1>1. r \in Rooms /\ m \in Seq(Posts) /\ shown[c] \in Seq(Posts) /\ u \in Seq(Updates)
  BY RoomTypes DEF ViewsInv, TypeOK
<1>2. u # <<>> /\ v = Tail(u) /\ msgs' = msgs
  BY DEF ReRender, ViewsInv, TypeOK, server
<1>3. shown'[c] = IF r \in Head(u) THEN m ELSE <<>>
  BY DEF ReRender, ViewsInv, TypeOK
<1>4. /\ Len(u) \in Nat \ {0} /\ Head(u) = u[1] /\ Len(v) = Len(u) - 1
      /\ \A k \in 1..Len(v) : v[k] = u[k+1]
  BY <1>1, <1>2, HeadTailProperties, LenProperties, EmptySeq
<1>5. ViewInv(c)
  BY DEF ViewsInv
<1> DEFINE n == Len(v)
           s == shown[c]
<1>6. /\ \A k \in 1..(n+1) : r \in u[k] => m # <<>>
      /\ \A k \in 1..(n+1) : s # <<>> => r \in u[k]
      /\ \A k \in 1..(n+1) : \A l \in k..(n+1) : r \in u[k] => r \in u[l]
      /\ IsPrefix(s, m) /\ n \in Nat
  BY <1>4, <1>5 DEF ViewInv
<1> HIDE DEF n, s, m, r, u, v
<1>7. 1 \in 1..(n+1) /\ \A k \in 1..n : k \in 1..(n+1) /\ k + 1 \in 1..(n+1)
  BY <1>6
<1>8. /\ r \in u[1] => shown'[c] = m
      /\ r \notin u[1] => s = <<>> /\ shown'[c] = <<>>
  BY <1>3, <1>4, <1>6, <1>7
<1>9. IsPrefix(shown'[c], m) /\ IsPrefix(s, shown'[c])
  <2>1. IsPrefix(m, m) /\ IsPrefix(<<>>, m)
    BY <1>1, PrefixFacts
  <2>2. IsPrefix(<<>>, <<>>)
    <3>1. <<>> \in Seq(Posts)
      OBVIOUS
    <3>2. PICK e \in Seq(Posts) : e = <<>>
      BY <3>1
    <3>3. IsPrefix(e, e)
      BY PrefixFacts
    <3> QED BY <3>2, <3>3
  <2> QED BY <1>6, <1>8, <2>1, <2>2
<1>10. ASSUME NEW k \in 1..n
       PROVE  /\ r \in v[k] => m # <<>>
              /\ shown'[c] # <<>> => r \in v[k]
              /\ \A l \in k..n : r \in v[k] => r \in v[l]
  <2>1. v[k] = u[k+1]
    BY <1>4 DEF n
  <2>2. shown'[c] # <<>> => r \in u[1]
    BY <1>8
  <2>3. r \in u[1] => r \in u[k+1]
    <3>1. k + 1 \in 1..(n+1)
      BY <1>7
    <3> QED BY <1>6, <1>7, <3>1
  <2>4. ASSUME NEW l \in k..n, r \in v[k] PROVE r \in v[l]
    <3>1. l \in 1..n /\ l + 1 \in (k+1)..(n+1) /\ k + 1 \in 1..(n+1)
      BY <1>6
    <3>2. v[l] = u[l+1]
      BY <1>4, <3>1 DEF n
    <3> QED BY <1>6, <2>1, <2>4, <3>1, <3>2
  <2> QED BY <1>6, <1>7, <2>1, <2>2, <2>3, <2>4
<1> USE DEF n, s, m, r, u, v
<1> QED BY <1>2, <1>9, <1>10 DEF ViewInv

LEMMA NextViews == ViewsInv /\ [Next]_vars => ViewsInv'
<1> SUFFICES ASSUME ViewsInv, [Next]_vars PROVE ViewsInv'
  OBVIOUS
<1>0. TypeOK /\ TypeOK' /\ QuietInv /\ \A c \in Clients : ViewInv(c)
  BY NextTypes DEF ViewsInv
<1> USE DEF disk, server, views
<1>1. ASSUME NEW d \in Clients, OpenPage(d) PROVE ViewsInv'
  <2>1. QuietInv'
    BY <1>0, <1>1 DEF OpenPage, QuietInv, TypeOK
  <2>2. \A c \in Clients : ViewInv(c)'
    BY <1>0, <1>1, KeepView DEF OpenPage
  <2> QED BY <1>0, <2>1, <2>2 DEF ViewsInv
<1>2. ASSUME NEW d \in Clients, Register(d) PROVE ViewsInv'
  <2>1. QuietInv'
    BY <1>2 DEF Register, Touch, QuietInv
  <2>2. \A c \in Clients : ViewInv(c)'
    BY <1>0, <1>2, TouchView DEF Register
  <2> QED BY <1>0, <2>1, <2>2 DEF ViewsInv
<1>3. ASSUME NEW d \in Clients, ReRender(d) PROVE ViewsInv'
  <2>1. QuietInv'
    <3>1. loaded
      BY <1>0, <1>3 DEF ReRender, QuietInv
    <3> QED BY <1>3, <3>1 DEF ReRender, QuietInv
  <2>2. ASSUME NEW c \in Clients PROVE ViewInv(c)'
    <3>1. CASE c = d
      BY <1>0, <1>3, <3>1, ReRenderView
    <3>2. CASE c # d
      BY <1>0, <1>3, <3>2, KeepView DEF ReRender, TypeOK
    <3> QED BY <3>1, <3>2
  <2> QED BY <1>0, <2>1, <2>2 DEF ViewsInv
<1>4. ASSUME NEW p \in Posts, Save(p) PROVE ViewsInv'
  <2>1. QuietInv'
    BY <1>0, <1>4 DEF Save, QuietInv, TypeOK
  <2>2. \A c \in Clients : ViewInv(c)'
    BY <1>0, <1>4, KeepView DEF Save
  <2> QED BY <1>0, <2>1, <2>2 DEF ViewsInv
<1>5. ASSUME NEW p \in Posts, Send(p) PROVE ViewsInv'
  <2>1. QuietInv'
    BY <1>5 DEF Send, Touch, QuietInv
  <2>2. \A c \in Clients : ViewInv(c)'
    BY <1>0, <1>5, TouchView DEF Send
  <2> QED BY <1>0, <2>1, <2>2 DEF ViewsInv
<1>6. ASSUME NEW p \in Posts, Commit(p) PROVE ViewsInv'
  <2>1. QuietInv'
    BY <1>0, <1>6 DEF Commit, QuietInv, TypeOK
  <2>2. \A c \in Clients : ViewInv(c)'
    BY <1>0, <1>6, KeepView DEF Commit
  <2> QED BY <1>0, <2>1, <2>2 DEF ViewsInv
<1>7. CASE AddAListener
  <2>1. QuietInv'
    <3>1. loaded
      BY <1>0, <1>7 DEF AddAListener, QuietInv
    <3> QED BY <1>7, <3>1 DEF AddAListener, QuietInv
  <2>2. ASSUME NEW c \in Clients PROVE ViewInv(c)'
    <3>1. CASE c = Head(inbox)
      <4>1. updates'[c] = Append(updates[c], Update(msgs')) /\ msgs' = msgs /\ shown' = shown
        BY <1>0, <1>7, <3>1 DEF AddAListener, TypeOK, Update
      <4> QED BY <1>0, <4>1, UpdateView
    <3>2. CASE c # Head(inbox)
      BY <1>0, <1>7, <3>2, KeepView DEF AddAListener, TypeOK
    <3> QED BY <3>1, <3>2
  <2> QED BY <1>0, <2>1, <2>2 DEF ViewsInv
<1>8. CASE ReceivePost
  <2>1. QuietInv'
    <3>1. loaded
      BY <1>0, <1>8 DEF ReceivePost, QuietInv
    <3> QED BY <1>8, <3>1 DEF ReceivePost, QuietInv
  <2>0. loaded
    BY <1>0, <1>8 DEF ReceivePost, QuietInv
  <2>2. ASSUME NEW c \in Clients PROVE ViewInv(c)'
    <3>1. shown'[c] = shown[c]
      BY <1>8 DEF ReceivePost
    <3>2. \/ msgs'[room[c]] = msgs[room[c]]
          \/ \E x \in Posts : msgs'[room[c]] = Append(msgs[room[c]], x)
      BY <1>0, <1>8, RoomTypes DEF ReceivePost, TypeOK
    <3>3. CASE c \in listeners
      <4>1. updates'[c] = Append(updates[c], Update(msgs'))
        BY <1>8, <3>3 DEF ReceivePost
      <4> QED BY <1>0, <3>1, <3>2, <4>1, UpdateView
    <3>4. CASE c \notin listeners
      <4>1. updates'[c] = updates[c]
        BY <1>8, <3>4 DEF ReceivePost
      <4> QED BY <1>0, <3>1, <3>2, <4>1, GrowView
    <3> QED BY <3>3, <3>4
  <2> QED BY <1>0, <2>1, <2>2 DEF ViewsInv
<1>9. CASE Crash
  <2>1. QuietInv'
    BY <1>9 DEF Crash, NoViews, QuietInv
  <2>2. ASSUME NEW c \in Clients PROVE ViewInv(c)'
    <3>1. shown'[c] = <<>> /\ updates'[c] = <<>>
      BY <1>9 DEF Crash, NoViews
    <3> QED BY <1>0, <3>1, EmptyView
  <2> QED BY <1>0, <2>1, <2>2 DEF ViewsInv
<1>10. CASE Restart \/ UNCHANGED vars
  <2>1. QuietInv'
    BY <1>0, <1>10 DEF Restart, vars, QuietInv
  <2>2. \A c \in Clients : ViewInv(c)'
    BY <1>0, <1>10, KeepView DEF Restart, vars
  <2> QED BY <1>0, <2>1, <2>2 DEF ViewsInv
<1> QED BY <1>1, <1>2, <1>3, <1>4, <1>5, <1>6, <1>7, <1>8, <1>9, <1>10 DEF Next, Act

LEMMA ViewsInvariant == Spec => []ViewsInv
BY InitViews, NextViews, PTL DEF Spec

(* ViewsGrow: whatever the rooms, pages and messages, and however late updates *)
(* are rendered, a page shows at least what it showed while the server is up.  *)
THEOREM PagesOnlyGrow == Spec => ViewsGrow
<1>1. ASSUME ViewsInv, [Next]_vars, NEW c \in Clients, up' PROVE IsPrefix(shown[c], shown'[c])
  <2>1. TypeOK /\ TypeOK' /\ shown[c] \in Seq(Posts)
    BY <1>1, NextTypes DEF ViewsInv, TypeOK
  <2>2. CASE shown'[c] = shown[c]
    BY <2>1, <2>2, PrefixFacts
  <2>3. CASE shown'[c] # shown[c]
    <3>1. ReRender(c)
      BY <1>1, <2>1, <2>3 DEF Next, Act, OpenPage, Register, ReRender, Save, Send, Commit,
         AddAListener, ReceivePost, Crash, Restart, views, vars, TypeOK
    <3> QED BY <1>1, <2>1, <3>1, ReRenderView
  <2> QED BY <2>2, <2>3
<1>2. ViewsInv /\ [Next]_vars => [\A c \in Clients : up' => IsPrefix(shown[c], shown'[c])]_vars
  BY <1>1
<1> QED BY <1>2, ViewsInvariant, PTL DEF Spec, ViewsGrow

-----------------------------------------------------------------------------
(* The table, the inbox and the buffers. *)

LEMMA DistinctAppend ==
  ASSUME NEW A, NEW q \in Seq(A), Distinct(q), NEW x \in A, x \notin ToSet(q)
  PROVE  Distinct(Append(q, x))
<1>1. /\ Len(Append(q, x)) = Len(q) + 1 /\ Len(q) \in Nat
      /\ Append(q, x)[Len(q) + 1] = x /\ \A i \in 1..Len(q) : Append(q, x)[i] = q[i]
  BY AppendProperties, LenProperties
<1>2. \A i \in 1..Len(q) : q[i] # x
  BY LenProperties DEF ToSet
<1> QED BY <1>1, <1>2 DEF Distinct

LEMMA InboxMembers ==
  ASSUME TypeOK, NEW x \in Clients \cup Posts
  PROVE  ToSet(Append(inbox, x)) = ToSet(inbox) \cup {x}
<1>1. inbox \in Seq(Clients \cup Posts)
  BY DEF TypeOK
<1> QED BY <1>1, AppendMembers

LEMMA InitSaved == Init => RowsInv /\ PlacesInv /\ OnceInv
<1> SUFFICES ASSUME Init PROVE RowsInv /\ PlacesInv /\ OnceInv
  OBVIOUS
<1>1. ToSet(<<>>) = {} /\ Distinct(<<>>)
  BY DEF ToSet, Distinct
<1>2. RowsInv /\ PlacesInv
  BY <1>1 DEF Init, RowsInv, PlacesInv
<1>3. \A r \in Rooms : msgs[r] = <<>>
  BY DEF Init, NoMessages
<1>4. inbox = <<>> /\ Len(<<>>) = 0 /\ \A p \in Posts : posting[p] = "idle"
  BY DEF Init
<1> QED BY <1>1, <1>2, <1>3, <1>4 DEF OnceInv

LEMMA NextRows == TypeOK /\ RowsInv /\ [Next]_vars => RowsInv'
<1> SUFFICES ASSUME TypeOK, RowsInv, [Next]_vars PROVE RowsInv'
  OBVIOUS
<1> USE DEF disk, server, views
<1>1. CASE UNCHANGED <<rows, committed, posting>>
  BY <1>1 DEF RowsInv
<1>2. ASSUME NEW p \in Posts, Save(p) PROVE RowsInv'
  <2>1. p \notin ToSet(rows) /\ rows' = Append(rows, p) /\ committed' = committed
    BY <1>2 DEF RowsInv, Save
  <2>2. ToSet(rows') = ToSet(rows) \cup {p} /\ Distinct(rows')
    BY <2>1, AppendMembers, DistinctAppend DEF TypeOK, RowsInv
  <2>3. /\ posting[p] = "idle" /\ posting'[p] = "saved"
        /\ \A x \in Posts \ {p} : posting'[x] = posting[x]
    BY <1>2 DEF TypeOK, Save
  <2>4. /\ {x \in Posts : posting'[x] = "done"} = {x \in Posts : posting[x] = "done"}
        /\ {x \in Posts : posting'[x] \in {"saved", "sent", "done"}}
             = {x \in Posts : posting[x] \in {"saved", "sent", "done"}} \cup {p}
    BY <2>3
  <2> QED BY <2>1, <2>2, <2>4 DEF RowsInv
<1>3. ASSUME NEW p \in Posts, Send(p) PROVE RowsInv'
  <2>1. /\ posting[p] = "saved" /\ posting'[p] = "sent" /\ rows' = rows /\ committed' = committed
        /\ \A x \in Posts \ {p} : posting'[x] = posting[x]
    BY <1>3 DEF TypeOK, Send
  <2>2. /\ {x \in Posts : posting'[x] = "done"} = {x \in Posts : posting[x] = "done"}
        /\ {x \in Posts : posting'[x] \in {"saved", "sent", "done"}}
             = {x \in Posts : posting[x] \in {"saved", "sent", "done"}}
    BY <2>1
  <2> QED BY <2>1, <2>2 DEF RowsInv
<1>4. ASSUME NEW p \in Posts, Commit(p) PROVE RowsInv'
  <2>1. /\ posting[p] = "sent" /\ posting'[p] = "done" /\ rows' = rows
        /\ committed' = committed \cup {p}
        /\ \A x \in Posts \ {p} : posting'[x] = posting[x]
    BY <1>4 DEF TypeOK, Commit
  <2>2. /\ {x \in Posts : posting'[x] = "done"} = {x \in Posts : posting[x] = "done"} \cup {p}
        /\ {x \in Posts : posting'[x] \in {"saved", "sent", "done"}}
             = {x \in Posts : posting[x] \in {"saved", "sent", "done"}}
    BY <2>1
  <2> QED BY <2>1, <2>2 DEF RowsInv
<1>5. CASE Crash
  <2>1. rows' = Only(rows, committed) /\ committed' = committed
    BY <1>5 DEF Crash
  <2>2. ToSet(rows') = committed /\ Distinct(rows')
    <3>1. committed \subseteq ToSet(rows)
      BY DEF RowsInv
    <3>2. rows \in Seq(Posts) /\ Distinct(rows)
      BY DEF TypeOK, RowsInv
    <3>3. ToSet(Only(rows, committed)) = ToSet(rows) \cap committed /\ Distinct(Only(rows, committed))
      BY <3>2, OnlyMembers
    <3> QED BY <2>1, <3>1, <3>3
  <2>3. \A x \in Posts : /\ posting'[x] = "done" <=> posting[x] = "done"
                         /\ posting'[x] \notin {"saved", "sent"}
    BY <1>5 DEF Crash
  <2>4. /\ {x \in Posts : posting'[x] = "done"} = {x \in Posts : posting[x] = "done"}
        /\ {x \in Posts : posting'[x] \in {"saved", "sent", "done"}}
             = {x \in Posts : posting'[x] = "done"}
    BY <2>3
  <2> QED BY <2>1, <2>2, <2>4 DEF RowsInv
<1> QED BY <1>1, <1>2, <1>3, <1>4, <1>5 DEF Next, Act, OpenPage, Register, ReRender, AddAListener,
           ReceivePost, Restart, vars

(* What ChatServer loads: the rows of each room, once, if they are visible. *)
LEMMA LoadMembers ==
  ASSUME TypeOK, RowsInv, NEW visible, NEW r \in Rooms
  PROVE  /\ Distinct(Load(visible)[r])
         /\ ToSet(Load(visible)[r]) = {p \in ToSet(rows) \cap visible : room[p] = r}
<1>1. Load(visible)[r] = Only(rows, visible \cap InRoom(r))
  BY DEF Load
<1>2. /\ Distinct(Load(visible)[r])
      /\ ToSet(Load(visible)[r]) = ToSet(rows) \cap (visible \cap InRoom(r))
  BY <1>1, OnlyMembers DEF TypeOK, RowsInv
<1>3. ToSet(rows) \subseteq Posts
  BY DEF RowsInv
<1> QED BY <1>2, <1>3 DEF InRoom

LEMMA NextPlaces == ViewsInv /\ RowsInv /\ PlacesInv /\ [Next]_vars => PlacesInv'
<1> SUFFICES ASSUME ViewsInv, RowsInv, PlacesInv, [Next]_vars PROVE PlacesInv'
  OBVIOUS
<1> USE DEF disk, server, views
<1>0. TypeOK /\ QuietInv /\ TypeOK'
  BY NextTypes DEF ViewsInv
<1>1. CASE UNCHANGED <<loaded, msgs, inbox, posting>>
  BY <1>1 DEF PlacesInv
<1>2. ASSUME NEW c \in Clients, Register(c) PROVE PlacesInv'
  <2>1. ToSet(inbox') = ToSet(inbox) \cup {c} /\ posting' = posting
    BY <1>0, <1>2, InboxMembers DEF Register
  <2>2. CASE loaded
    BY <1>2, <2>1, <2>2 DEF Register, Touch, PlacesInv
  <2>3. CASE ~loaded
    <3>1. msgs' = Load(committed) /\ \A p \in Posts : posting[p] # "sent"
      BY <1>0, <1>2, <2>3 DEF Register, Touch, QuietInv
    <3>2. ASSUME NEW p \in Posts, posting[p] = "done" PROVE p \in ToSet(msgs'[room[p]])
      <4>1. p \in ToSet(rows) \cap committed
        BY <3>2 DEF RowsInv
      <4> QED BY <1>0, <3>1, <4>1, RoomTypes, LoadMembers
    <3> QED BY <2>1, <3>1, <3>2 DEF PlacesInv
  <2> QED BY <2>2, <2>3
<1>3. ASSUME NEW p \in Posts, Save(p) PROVE PlacesInv'
  <2>1. \A x \in Posts : posting'[x] \in {"sent", "done"} => posting[x] \in {"sent", "done"}
    BY <1>0, <1>3 DEF Save, TypeOK
  <2> QED BY <1>3, <2>1 DEF Save, PlacesInv
<1>4. ASSUME NEW p \in Posts, Send(p) PROVE PlacesInv'
  <2>1. ToSet(inbox') = ToSet(inbox) \cup {p}
    BY <1>0, <1>4, InboxMembers DEF Send
  <2>2. \A x \in Posts \ {p} : posting'[x] = posting[x]
    BY <1>0, <1>4 DEF Send, TypeOK
  <2>3. CASE loaded
    BY <1>4, <2>1, <2>2, <2>3 DEF Send, Touch, PlacesInv
  <2>4. CASE ~loaded
    <3>1. msgs' = Load(committed \cup {p}) /\ \A x \in Posts : posting[x] # "sent"
      BY <1>0, <1>4, <2>4 DEF Send, Touch, QuietInv
    <3>2. ASSUME NEW x \in Posts, posting[x] = "done" PROVE x \in ToSet(msgs'[room[x]])
      <4>1. x \in ToSet(rows) \cap (committed \cup {p})
        BY <3>2 DEF RowsInv
      <4> QED BY <1>0, <3>1, <4>1, RoomTypes, LoadMembers
    <3> QED BY <2>1, <2>2, <3>1, <3>2 DEF PlacesInv
  <2> QED BY <2>3, <2>4
<1>5. ASSUME NEW p \in Posts, Commit(p) PROVE PlacesInv'
  <2>1. \A x \in Posts : posting'[x] \in {"sent", "done"} => posting[x] \in {"sent", "done"}
    BY <1>0, <1>5 DEF Commit, TypeOK
  <2> QED BY <1>5, <2>1 DEF Commit, PlacesInv
<1>6. CASE AddAListener
  <2>1. ToSet(inbox) = {Head(inbox)} \cup ToSet(inbox') /\ Head(inbox) \notin Posts
    BY <1>0, <1>6, HeadMembers, NamesAssumption DEF AddAListener, TypeOK
  <2> QED BY <1>6, <2>1 DEF AddAListener, PlacesInv
<1>7. CASE ReceivePost
  <2> DEFINE h == Head(inbox)
  <2>1. ToSet(inbox) = {h} \cup ToSet(inbox')
    BY <1>0, <1>7, HeadMembers DEF ReceivePost, TypeOK
  <2>2. h \in Posts /\ room[h] \in Rooms /\ msgs[room[h]] \in Seq(Posts)
    BY <1>0, <1>7, RoomTypes DEF ReceivePost, TypeOK
  <2>3. /\ msgs'[room[h]] = Append(msgs[room[h]], h)
        /\ \A r \in Rooms \ {room[h]} : msgs'[r] = msgs[r]
    BY <1>0, <1>7, <2>2 DEF ReceivePost, TypeOK
  <2>4. ToSet(msgs'[room[h]]) = ToSet(msgs[room[h]]) \cup {h}
    BY <2>2, <2>3, AppendMembers
  <2>5. \A r \in Rooms : ToSet(msgs[r]) \subseteq ToSet(msgs'[r])
    BY <2>3, <2>4
  <2>6. loaded' = loaded /\ posting' = posting
    BY <1>7 DEF ReceivePost
  <2> QED BY <2>1, <2>2, <2>4, <2>5, <2>6, RoomTypes DEF PlacesInv
<1>8. CASE Crash
  BY <1>8 DEF Crash, PlacesInv
<1> QED BY <1>1, <1>2, <1>3, <1>4, <1>5, <1>6, <1>7, <1>8 DEF Next, Act, OpenPage, ReRender,
           Restart, vars

LEMMA NextOnce ==
  ~EarlyPosts /\ ViewsInv /\ RowsInv /\ OnceInv /\ [Next]_vars => OnceInv'
<1> SUFFICES ASSUME ~EarlyPosts, ViewsInv, RowsInv, OnceInv, [Next]_vars PROVE OnceInv'
  OBVIOUS
<1> USE DEF disk, server, views
<1>0. TypeOK /\ QuietInv /\ TypeOK'
  BY NextTypes DEF ViewsInv
<1>1. CASE UNCHANGED <<loaded, msgs, inbox, posting>>
  BY <1>1 DEF OnceInv
<1>2. ASSUME NEW c \in Clients, Register(c) PROVE OnceInv'
  <2>1. ToSet(inbox') = ToSet(inbox) \cup {c} /\ posting' = posting /\ loaded'
    BY <1>0, <1>2, InboxMembers DEF Register, Touch
  <2>2. c \notin Posts
    BY NamesAssumption
  <2>3. \A k, l \in 1..Len(inbox') : inbox'[k] \in Posts /\ inbox'[k] = inbox'[l] => k = l
    <3>1. /\ Len(inbox') = Len(inbox) + 1 /\ Len(inbox) \in Nat
          /\ inbox'[Len(inbox) + 1] = c /\ \A i \in 1..Len(inbox) : inbox'[i] = inbox[i]
      BY <1>0, <1>2, AppendProperties, LenProperties DEF Register, TypeOK
    <3> QED BY <2>2, <3>1 DEF OnceInv
  <2>4. CASE loaded
    <3>1. msgs' = msgs
      BY <1>2, <2>4 DEF Register, Touch
    <3>2. \A r \in Rooms : ToSet(msgs[r]) \subseteq Posts
      BY <1>0, LenProperties, ElementOfSeq DEF TypeOK, ToSet
    <3>3. ToSet(inbox') \cap Posts = ToSet(inbox) \cap Posts
      BY <2>1, <2>2
    <3>4. \A r \in Rooms : \A p \in ToSet(msgs[r]) :
            room[p] = r /\ posting[p] \in {"sent", "done"} /\ p \notin ToSet(inbox')
      BY <3>2, <3>3 DEF OnceInv
    <3>5. \A p \in ToSet(inbox') \cap Posts : posting[p] \in {"sent", "done"}
      BY <3>3 DEF OnceInv
    <3>6. \A r \in Rooms : Distinct(msgs[r])
      BY DEF OnceInv
    <3> QED BY <2>1, <2>3, <3>1, <3>4, <3>5, <3>6 DEF OnceInv
  <2>5. CASE ~loaded
    <3>1. msgs' = Load(committed) /\ inbox = <<>>
      BY <1>0, <1>2, <2>5 DEF Register, Touch, QuietInv
    <3>2. ToSet(inbox) = {}
      BY <3>1 DEF ToSet
    <3>3. ASSUME NEW r \in Rooms
          PROVE  /\ Distinct(msgs'[r])
                 /\ \A p \in ToSet(msgs'[r]) : room[p] = r /\ posting[p] = "done" /\ p \in Posts
      BY <1>0, <3>1, LoadMembers DEF RowsInv
    <3> QED BY <2>1, <2>2, <2>3, <3>2, <3>3 DEF OnceInv
  <2> QED BY <2>4, <2>5
<1>3. ASSUME NEW p \in Posts, Save(p) PROVE OnceInv'
  <2>1. loaded
    BY <1>0, <1>3 DEF Save, QuietInv
  <2>2. /\ posting[p] = "idle" /\ \A x \in Posts \ {p} : posting'[x] = posting[x]
        /\ UNCHANGED <<loaded, msgs, inbox>>
    BY <1>0, <1>3 DEF Save, TypeOK
  <2>3. \A r \in Rooms : ToSet(msgs[r]) \subseteq Posts
    BY <1>0, LenProperties, ElementOfSeq DEF TypeOK, ToSet
  <2>4. /\ \A r \in Rooms : \A x \in ToSet(msgs[r]) : x # p
        /\ \A x \in ToSet(inbox) \cap Posts : x # p
    BY <2>2 DEF OnceInv
  <2> QED BY <2>1, <2>2, <2>3, <2>4 DEF OnceInv
<1>4. ASSUME NEW p \in Posts, Send(p) PROVE OnceInv'
  <2>1. loaded
    BY <1>4 DEF Send, OnceInv
  <2>2. /\ posting[p] = "saved" /\ posting'[p] = "sent"
        /\ \A x \in Posts \ {p} : posting'[x] = posting[x]
        /\ loaded' = loaded /\ msgs' = msgs
    BY <1>0, <1>4, <2>1 DEF Send, TypeOK, Touch
  <2>3. \A r \in Rooms : ToSet(msgs[r]) \subseteq Posts
    BY <1>0, LenProperties, ElementOfSeq DEF TypeOK, ToSet
  <2>4. /\ \A r \in Rooms : \A x \in ToSet(msgs[r]) : x # p
        /\ p \notin ToSet(inbox)
    BY <2>2 DEF OnceInv
  <2>5. ToSet(inbox') = ToSet(inbox) \cup {p}
    BY <1>0, <1>4, InboxMembers DEF Send
  <2>6. \A k, l \in 1..Len(inbox') : inbox'[k] \in Posts /\ inbox'[k] = inbox'[l] => k = l
    <3>1. /\ Len(inbox') = Len(inbox) + 1 /\ Len(inbox) \in Nat
          /\ inbox'[Len(inbox) + 1] = p /\ \A i \in 1..Len(inbox) : inbox'[i] = inbox[i]
      BY <1>0, <1>4, AppendProperties, LenProperties DEF Send, TypeOK
    <3>2. \A i \in 1..Len(inbox) : inbox[i] # p
      BY <1>0, <2>4, LenProperties DEF TypeOK, ToSet
    <3> QED BY <3>1, <3>2 DEF OnceInv
  <2> QED BY <2>1, <2>2, <2>3, <2>4, <2>5, <2>6 DEF OnceInv
<1>5. ASSUME NEW p \in Posts, Commit(p) PROVE OnceInv'
  <2>1. /\ \A x \in Posts : posting[x] \in {"sent", "done"} => posting'[x] \in {"sent", "done"}
        /\ \A x \in Posts : posting'[x] = "saved" => posting[x] = "saved"
    BY <1>0, <1>5 DEF Commit, TypeOK
  <2>2. \A r \in Rooms : ToSet(msgs[r]) \subseteq Posts
    BY <1>0, LenProperties, ElementOfSeq DEF TypeOK, ToSet
  <2>3. UNCHANGED <<loaded, msgs, inbox>>
    BY <1>5 DEF Commit
  <2> QED BY <2>1, <2>2, <2>3 DEF OnceInv
<1>6. ASSUME inbox # <<>>, inbox' = Tail(inbox)
      PROVE  /\ ToSet(inbox) = {Head(inbox)} \cup ToSet(inbox')
             /\ \A k, l \in 1..Len(inbox') : inbox'[k] \in Posts /\ inbox'[k] = inbox'[l] => k = l
             /\ Head(inbox) \in Posts => Head(inbox) \notin ToSet(inbox')
  <2>1. /\ Len(inbox) \in Nat /\ Len(inbox) # 0 /\ Head(inbox) = inbox[1]
        /\ Tail(inbox) \in Seq(Clients \cup Posts) /\ Len(Tail(inbox)) = Len(inbox) - 1
        /\ \A i \in 1..Len(Tail(inbox)) : Tail(inbox)[i] = inbox[i+1]
    BY <1>0, <1>6, HeadTailProperties, LenProperties, EmptySeq DEF TypeOK
  <2>2. ToSet(inbox) = {Head(inbox)} \cup ToSet(inbox')
    BY <1>0, <1>6, HeadMembers DEF TypeOK
  <2>3. \A i \in 1..Len(inbox') : i + 1 \in 1..Len(inbox) /\ inbox'[i] = inbox[i+1]
    BY <1>6, <2>1
  <2>4. 1 \in 1..Len(inbox)
    BY <2>1
  <2>5. \A k, l \in 1..Len(inbox') : inbox'[k] \in Posts /\ inbox'[k] = inbox'[l] => k = l
    <3>1. ASSUME NEW k \in 1..Len(inbox'), NEW l \in 1..Len(inbox'),
                 inbox'[k] \in Posts, inbox'[k] = inbox'[l]
          PROVE  k = l
      <4>1. k + 1 = l + 1
        BY <2>3, <3>1 DEF OnceInv
      <4> QED BY <4>1
    <3> QED BY <3>1
  <2>6. ASSUME Head(inbox) \in Posts PROVE Head(inbox) \notin ToSet(inbox')
    <3>1. \A i \in 1..Len(inbox') : i + 1 # 1
      OBVIOUS
    <3>2. \A i \in 1..Len(inbox') : inbox'[i] # Head(inbox)
      BY <2>1, <2>3, <2>4, <2>6, <3>1 DEF OnceInv
    <3>3. ToSet(inbox') = {inbox'[i] : i \in 1..Len(inbox')}
      BY <1>6, <2>1, LenProperties DEF ToSet
    <3> QED BY <3>2, <3>3
  <2> QED BY <2>2, <2>5, <2>6
<1>7. CASE AddAListener
  <2>1. inbox # <<>> /\ inbox' = Tail(inbox) /\ UNCHANGED <<loaded, msgs, posting>>
    BY <1>7 DEF AddAListener
  <2> QED BY <1>6, <2>1 DEF OnceInv
<1>8. CASE ReceivePost
  <2> DEFINE h == Head(inbox)
             m == msgs[room[h]]
  <2>1. inbox # <<>> /\ inbox' = Tail(inbox) /\ UNCHANGED <<loaded, posting>>
    BY <1>8 DEF ReceivePost
  <2>2. h \in Posts /\ room[h] \in Rooms /\ m \in Seq(Posts)
    BY <1>0, <1>8, RoomTypes DEF ReceivePost, TypeOK
  <2>3. /\ msgs'[room[h]] = Append(m, h)
        /\ \A r \in Rooms \ {room[h]} : msgs'[r] = msgs[r]
    BY <1>0, <1>8, <2>2 DEF ReceivePost, TypeOK
  <2>4. /\ ToSet(inbox) = {h} \cup ToSet(inbox') /\ h \notin ToSet(inbox')
        /\ \A k, l \in 1..Len(inbox') : inbox'[k] \in Posts /\ inbox'[k] = inbox'[l] => k = l
    BY <1>6, <2>1, <2>2
  <2>5. h \notin ToSet(m) /\ posting[h] \in {"sent", "done"}
    BY <2>2, <2>4 DEF OnceInv
  <2>6. ToSet(Append(m, h)) = ToSet(m) \cup {h} /\ Distinct(Append(m, h))
    BY <2>2, <2>5, AppendMembers, DistinctAppend DEF OnceInv
  <2>7. \A r \in Rooms : Distinct(msgs'[r])
    BY <2>3, <2>6 DEF OnceInv
  <2>8. \A r \in Rooms : \A p \in ToSet(msgs'[r]) :
          room[p] = r /\ posting[p] \in {"sent", "done"} /\ p \notin ToSet(inbox')
    <3>1. ASSUME NEW r \in Rooms, NEW p \in ToSet(msgs'[r])
          PROVE  room[p] = r /\ posting[p] \in {"sent", "done"} /\ p \notin ToSet(inbox')
      <4>1. CASE p \in ToSet(msgs[r])
        BY <2>4, <4>1 DEF OnceInv
      <4>2. CASE p \notin ToSet(msgs[r])
        <5>1. r = room[h] /\ p = h
          BY <2>3, <2>6, <3>1, <4>2
        <5> QED BY <2>4, <2>5, <5>1
      <4> QED BY <4>1, <4>2
    <3> QED BY <3>1
  <2> QED BY <2>1, <2>4, <2>7, <2>8 DEF OnceInv
<1>9. CASE Crash
  <2>1. inbox' = <<>> /\ (\A r \in Rooms : msgs'[r] = <<>>) /\ \A p \in Posts : posting'[p] # "saved"
    BY <1>0, <1>9 DEF Crash, NoMessages, TypeOK
  <2>2. ToSet(<<>>) = {} /\ Distinct(<<>>) /\ Len(<<>>) = 0
    BY DEF ToSet, Distinct
  <2> QED BY <2>1, <2>2 DEF OnceInv
<1> QED BY <1>1, <1>2, <1>3, <1>4, <1>5, <1>7, <1>8, <1>9 DEF Next, Act, OpenPage, ReRender,
           Restart, vars

LEMMA SavedInvariant == Spec => []SavedInv
<1>1. Init => SavedInv
  BY InitViews, InitSaved DEF SavedInv
<1>2. SavedInv /\ [Next]_vars => SavedInv'
  BY NextViews, NextRows, NextPlaces DEF SavedInv, ViewsInv
<1> QED BY <1>1, <1>2, PTL DEF Spec

(* SavedIsInItsRoom: no committed message is missing from its room, loaded or *)
(* received, however often the server stops and whoever initialises it.       *)
THEOREM SavedMessagesAreThere == Spec => []SavedIsInItsRoom
<1>1. SavedInv => SavedIsInItsRoom
  BY DEF SavedInv, RowsInv, PlacesInv, SavedIsInItsRoom
<1> QED BY <1>1, SavedInvariant, PTL

LEMMA ChatInvariant == Spec => []ChatInv
<1>1. Init => ChatInv
  BY InitViews, InitSaved DEF ChatInv, SavedInv
<1>2. ChatInv /\ [Next]_vars => ChatInv'
  <2>1. SavedInv /\ [Next]_vars => SavedInv'
    BY NextViews, NextRows, NextPlaces DEF SavedInv, ViewsInv
  <2> QED BY <2>1, NextOnce DEF ChatInv, SavedInv
<1> QED BY <1>1, <1>2, PTL DEF Spec

(* RoomsInv: in each room the pages show the same conversation, some less of   *)
(* it, with each message once.  The last needs that users post from a page     *)
(* whose actor has registered (EarlyPosts FALSE): the first to touch the       *)
(* server is then not a post whose own row it would load and then receive.     *)
THEOREM RoomsAreRight == ~EarlyPosts => (Spec => []RoomsInv)
<1>1. ASSUME ~EarlyPosts, ChatInv PROVE RoomsInv
  <2>1. ViewsInv /\ OnceInv
    BY <1>1 DEF ChatInv, SavedInv
  <2>2. TypeOK
    BY <2>1 DEF ViewsInv
  <2>3. ViewsAgree
    <3>1. ASSUME NEW c \in Clients, NEW d \in Clients, room[c] = room[d]
          PROVE  IsPrefix(shown[c], shown[d]) \/ IsPrefix(shown[d], shown[c])
      <4>1. IsPrefix(shown[c], msgs[room[c]]) /\ IsPrefix(shown[d], msgs[room[c]])
        BY <2>1, <3>1 DEF ViewsInv, ViewInv
      <4>2. /\ shown[c] \in Seq(Posts) /\ shown[d] \in Seq(Posts)
            /\ msgs[room[c]] \in Seq(Posts)
        BY <2>2, RoomTypes DEF TypeOK
      <4> QED BY <4>1, <4>2, PrefixFacts
    <3> QED BY <3>1 DEF ViewsAgree
  <2>4. NoMessageTwice
    BY <2>1 DEF OnceInv, Distinct, NoMessageTwice
  <2> QED BY <2>2, <2>3, <2>4 DEF RoomsInv
<1>2. ~EarlyPosts => (ChatInv => RoomsInv)
  BY <1>1
<1>3. CASE EarlyPosts
  BY <1>3
<1>4. CASE ~EarlyPosts
  <2>1. ChatInv => RoomsInv
    BY <1>2, <1>4
  <2> QED BY <2>1, ChatInvariant, PTL
<1> QED BY <1>3, <1>4

-----------------------------------------------------------------------------
(* The refinement of Conversation: what each step of Chat is there. *)

TalkVars == <<Said, committed, shown>>

LEMMA SaidType == TypeOK => Said \in [Rooms -> Seq(Posts)]
BY LoadTypes DEF TypeOK, Said

LEMMA InitTalk == Init => Talk!Init
<1> SUFFICES ASSUME Init PROVE Talk!Init
  OBVIOUS
<1>1. rows = <<>> /\ committed = {} /\ loaded = FALSE
  BY DEF Init
<1>2. rows \in Seq(Posts)
  BY InitTypes DEF TypeOK
<1>3. ASSUME NEW r \in Rooms PROVE Said[r] = <<>>
  <2>1. Said[r] = Only(rows, committed \cap InRoom(r))
    BY <1>1 DEF Said, Load
  <2>a. ToSet(rows) = {}
    BY <1>1 DEF ToSet
  <2>2. Said[r] \in Seq(Posts) /\ ToSet(Said[r]) = {}
    BY <1>2, <2>a, <2>1, OnlyMembers
  <2> QED BY <2>2, NoMembers
<1>4. Said \in [Rooms -> Seq(Posts)]
  BY InitTypes, SaidType
<1>5. Said = [r \in Rooms |-> <<>>]
  BY <1>3, <1>4
<1> QED BY <1>1, <1>5 DEF Init, Talk!Init

(* A step that leaves the table's committed rows and ChatServer's buffers.   *)
LEMMA SaidStays ==
  ASSUME TypeOK, RowsInv, rows' = rows, committed' = committed, loaded' = loaded, msgs' = msgs
  PROVE  Said' = Said
BY DEF Said, Load

(* Whoever touches ChatServer first finds just what is committed: nobody has *)
(* saved a message before.                                                   *)
LEMMA TouchSaid ==
  ASSUME ChatInv, ~EarlyPosts, NEW visible, loaded \/ visible = committed, Touch(visible),
         rows' = rows, committed' = committed
  PROVE  Said' = Said
<1>1. CASE loaded
  BY <1>1 DEF Touch, Said
<1>2. CASE ~loaded
  BY <1>2 DEF Touch, Said
<1> QED BY <1>1, <1>2

(* ReceivePost says the message: it is in no buffer yet. *)
LEMMA ReceiveSays ==
  ASSUME ChatInv, ~EarlyPosts, ReceivePost
  PROVE  \E p \in Posts : Talk!Say(p)
<1>1. TypeOK /\ OnceInv /\ QuietInv
  BY DEF ChatInv, SavedInv, ViewsInv
<1>2. PICK p \in Posts : p = Head(inbox) /\ inbox # <<>>
  BY DEF ReceivePost
<1>3. loaded /\ loaded' = loaded /\ UNCHANGED <<committed, shown>>
  BY <1>1, <1>2 DEF QuietInv, ReceivePost, disk
<1>4. p \in ToSet(inbox)
  BY <1>1, <1>2, HeadMembers DEF TypeOK
<1>5. p \notin ToSet(msgs[room[p]])
  BY <1>1, <1>4, RoomTypes DEF OnceInv
<1>6. Said = msgs /\ Said' = msgs'
  BY <1>3 DEF Said
<1>7. msgs' = [msgs EXCEPT ![room[p]] = Append(@, p)]
  BY <1>2 DEF ReceivePost
<1> QED BY <1>3, <1>5, <1>6, <1>7 DEF Talk!Say, Talk!ToSet, ToSet

(* ReRender shows a page as much as its room's buffer has, or nothing yet. *)
LEMMA ReRenderSees ==
  ASSUME ChatInv, NEW c \in Clients, ReRender(c)
  PROVE  Talk!See(c)
<1>1. TypeOK /\ QuietInv /\ ViewInv(c)
  BY DEF ChatInv, SavedInv, ViewsInv
<1>2. updates[c] # <<>> /\ UNCHANGED <<loaded, msgs, rows, committed>>
  BY DEF ReRender, disk, server
<1>3. loaded
  BY <1>1, <1>2 DEF QuietInv
<1>4. Said = msgs /\ Said' = msgs
  BY <1>2, <1>3 DEF Said
<1>5. /\ shown' = [shown EXCEPT ![c] = shown'[c]]
      /\ shown'[c] = IF room[c] \in Head(updates[c]) THEN msgs[room[c]] ELSE <<>>
  BY <1>1 DEF ReRender, TypeOK
<1>6. msgs[room[c]] \in Seq(Posts)
  BY <1>1, RoomTypes DEF TypeOK
<1>7. IsPrefix(shown[c], shown'[c]) /\ IsPrefix(shown'[c], msgs[room[c]])
  <2>1. CASE room[c] \in Head(updates[c])
    BY <1>1, <1>5, <1>6, <2>1, PrefixFacts DEF ViewInv
  <2>2. CASE room[c] \notin Head(updates[c])
    <3>1. updates[c] \in Seq(Updates)
      BY <1>1 DEF TypeOK
    <3>2. 1 \in 1..Len(updates[c]) /\ Head(updates[c]) = updates[c][1]
      BY <1>2, <3>1, HeadTailProperties, EmptySeq, LenProperties
    <3>3. shown[c] = <<>>
      BY <1>1, <2>2, <3>2 DEF ViewInv
    <3>4. PICK e : e = <<>>
      OBVIOUS
    <3>5. e \in Seq(Posts)
      BY <3>4
    <3>6. IsPrefix(e, e) /\ IsPrefix(e, msgs[room[c]])
      BY <1>6, <3>4, <3>5, PrefixFacts
    <3> QED BY <1>5, <2>2, <3>3, <3>4, <3>6
  <2> QED BY <2>1, <2>2
<1> QED BY <1>2, <1>4, <1>5, <1>7 DEF Talk!See, Talk!IsPrefix, IsPrefix

(* A crash closes the pages.  What will be loaded is what is committed: the   *)
(* rows that the crash leaves, each once.                                     *)
LEMMA CrashReopens ==
  ASSUME ChatInv, Crash
  PROVE  Talk!Reopen
<1>1. TypeOK /\ RowsInv
  BY DEF ChatInv, SavedInv, ViewsInv
<1>2. TypeOK' /\ RowsInv'
  BY <1>1, NextTypes, NextRows DEF Next
<1>3. loaded' = FALSE /\ committed' = committed /\ shown' = [c \in Clients |-> <<>>]
  BY DEF Crash, NoViews
<1>4. Said' = Load(committed)'
  BY <1>3 DEF Said
<1>5. ASSUME NEW r \in Rooms
      PROVE  Talk!Once(Said'[r]) /\ ToSet(Said'[r]) = {p \in committed : room[p] = r}
  <2>1. Said'[r] = Only(rows', committed \cap InRoom(r))
    BY <1>3, <1>4 DEF Load
  <2>2. rows' \in Seq(Posts) /\ Distinct(rows')
    BY <1>2 DEF TypeOK, RowsInv
  <2>3. committed \subseteq ToSet(rows') /\ committed \subseteq Posts
    BY <1>1, <1>2, <1>3 DEF RowsInv
  <2>4. Distinct(Said'[r]) /\ ToSet(Said'[r]) = ToSet(rows') \cap (committed \cap InRoom(r))
    BY <2>1, <2>2, OnlyMembers
  <2>5. ToSet(Said'[r]) = {p \in committed : room[p] = r}
    BY <2>3, <2>4 DEF InRoom
  <2> QED BY <2>4, <2>5 DEF Talk!Once, Distinct
<1> QED BY <1>3, <1>5, Zenon DEF Talk!Reopen, Talk!ToSet, ToSet

LEMMA RegisterOrSend ==
  ASSUME ChatInv, ~EarlyPosts,
         \/ \E c \in Clients : Register(c)
         \/ \E p \in Posts : Send(p)
  PROVE  UNCHANGED TalkVars
<1>1. CASE \E c \in Clients : Register(c)
  <2>1. Touch(committed) /\ UNCHANGED <<rows, committed, shown>>
    BY <1>1 DEF Register, disk
  <2>2. Said' = Said
    BY <2>1, TouchSaid
  <2> QED BY <2>1, <2>2 DEF TalkVars
<1>2. CASE \E p \in Posts : Send(p)
  <2>1. PICK p \in Posts : Send(p)
    BY <1>2
  <2>2. Touch(committed \cup {p}) /\ UNCHANGED <<rows, committed, shown>> /\ posting[p] = "saved"
    BY <2>1 DEF Send, disk, views
  <2>3. loaded
    BY <2>2 DEF ChatInv, OnceInv
  <2>4. Said' = Said
    BY <2>2, <2>3, TouchSaid
  <2> QED BY <2>2, <2>4 DEF TalkVars
<1> QED BY <1>1, <1>2

(* Saving a row is not seen, because ChatServer is loaded then; committing it *)
(* keeps the message.                                                         *)
LEMMA SaveOrCommit ==
  ASSUME ChatInv, ~EarlyPosts, NEW p \in Posts, Save(p) \/ Commit(p)
  PROVE  Talk!Keep(p) \/ UNCHANGED TalkVars
<1>1. QuietInv /\ TypeOK
  BY DEF ChatInv, SavedInv, ViewsInv
<1>2. UNCHANGED <<loaded, msgs, shown>>
  BY DEF Save, Commit, server, views
<1>3. loaded
  <2>1. CASE Save(p)
    <3>1. \E c \in Clients : chat[c] = "registered"
      BY <2>1 DEF Save
    <3> QED BY <1>1, <3>1 DEF QuietInv
  <2>2. CASE Commit(p)
    <3>1. posting[p] = "sent"
      BY <2>2 DEF Commit
    <3> QED BY <1>1, <3>1 DEF QuietInv
  <2> QED BY <2>1, <2>2
<1>4. Said' = Said
  BY <1>2, <1>3 DEF Said
<1>5. CASE Save(p)
  BY <1>2, <1>4, <1>5 DEF Save, TalkVars
<1>6. CASE Commit(p)
  BY <1>2, <1>4, <1>6 DEF Commit, Talk!Keep
<1> QED BY <1>5, <1>6

LEMMA TalkStep ==
  ASSUME ChatInv, ~EarlyPosts, [Next]_vars
  PROVE  Talk!Next \/ UNCHANGED TalkVars
<1>1. TypeOK /\ RowsInv
  BY DEF ChatInv, SavedInv, ViewsInv
<1>2. ASSUME UNCHANGED <<rows, committed, loaded, msgs, shown>>
      PROVE  UNCHANGED TalkVars
  BY <1>1, <1>2, SaidStays DEF TalkVars
<1>3. CASE \E c \in Clients : OpenPage(c)
  BY <1>2, <1>3 DEF OpenPage, disk, server
<1>4. CASE \/ \E c \in Clients : Register(c)
           \/ \E p \in Posts : Send(p)
  BY <1>4, RegisterOrSend
<1>5. CASE \E c \in Clients : ReRender(c)
  BY <1>5, ReRenderSees DEF Talk!Next
<1>6. CASE \E p \in Posts : Save(p) \/ Commit(p)
  BY <1>6, SaveOrCommit DEF Talk!Next
<1>7. CASE AddAListener \/ Restart
  BY <1>2, <1>7 DEF AddAListener, Restart, disk, server, views
<1>8. CASE ReceivePost
  BY <1>8, ReceiveSays DEF Talk!Next
<1>9. CASE Crash
  BY <1>9, CrashReopens DEF Talk!Next
<1>10. CASE UNCHANGED vars
  BY <1>2, <1>10 DEF vars, disk, server, views
<1> QED BY <1>3, <1>4, <1>5, <1>6, <1>7, <1>8, <1>9, <1>10 DEF Next, Act

(* ImplementsConversation: with all its actors, shared buffers and restarts   *)
(* the chat is one conversation for each room, as long as users post from     *)
(* registered pages: every step of Chat is a step of Conversation or leaves   *)
(* said, kept and seen as they are.                                           *)
THEOREM ChatIsAConversation == ~EarlyPosts => (Spec => ImplementsConversation)
<1>1. ~EarlyPosts => (ChatInv /\ [Next]_vars => [Talk!Next]_<<Said, committed, shown>>)
  BY TalkStep DEF TalkVars
<1>2. CASE EarlyPosts
  BY <1>2
<1>3. CASE ~EarlyPosts
  <2>1. ChatInv /\ [Next]_vars => [Talk!Next]_<<Said, committed, shown>>
    BY <1>1, <1>3
  <2> QED BY <2>1, InitTalk, ChatInvariant, PTL DEF Spec, ImplementsConversation, Talk!Spec
<1> QED BY <1>2, <1>3
=============================================================================

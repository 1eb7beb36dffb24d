--------------------------- MODULE MobWrite_proofs ---------------------------
(***************************************************************************)
(* Theorems about MobWrite for any number of pages, edits, syncs and       *)
(* faults, and either transport.                                           *)
(***************************************************************************)
EXTENDS MobWrite, FiniteSetTheorems, SequenceTheorems, WellFoundedInduction, TLAPS

(* What makes SyncingGoesOn inductive: a page that has not shared its file *)
(* has no timer and nothing of it is on the way, so that no answer can set *)
(* one; and the last request of a page that is gone sets none, either.     *)
TimerTypes ==
  /\ shared \subseteq Clients /\ timer \subseteq Clients /\ watchdog \subseteq Clients
  /\ closed \subseteq Clients
  /\ DOMAIN requests = Clients

SharersOnly ==
  /\ timer \cup watchdog \subseteq shared
  /\ \A c \in Clients : requests[c] # <<>> => c \in shared
  /\ \A a \in answers : a.client \in shared

TimerInv == TimerTypes /\ SharersOnly /\ SyncingGoesOn

LEMMA InitTimers == Init => TimerInv
BY DEF Init, TimerInv, TimerTypes, SharersOnly, SyncingGoesOn

(* Steps that leave timers, pages and the network alone. *)
LEMMA KeepTimers ==
  TimerInv /\ UNCHANGED <<shared, timer, watchdog, closed, requests, answers>> => TimerInv'
BY DEF TimerInv, TimerTypes, SharersOnly, SyncingGoesOn

(* A sync sends something to the gateway and sets the watchdog. *)
LEMMA SendSyncTimers ==
  ASSUME NEW c \in Clients, TimerInv, c \in shared, SendSync(c)
  PROVE  /\ watchdog' = watchdog \cup {c}
         /\ DOMAIN requests' = Clients
         /\ \A d \in Clients : requests'[d] # <<>> => d \in shared
BY DEF SendSync, TimerInv, TimerTypes, SharersOnly

LEMMA ShareTimers == ASSUME NEW c \in Clients, TimerInv, Share(c) PROVE TimerInv'
BY DEF Share, network, TimerInv, TimerTypes, SharersOnly, SyncingGoesOn

LEMMA SyncRun1Timers == ASSUME NEW c \in Clients, TimerInv, SyncRun1(c) PROVE TimerInv'
<1>1. /\ c \in timer \ closed /\ timer' = timer \ {c}
      /\ shared' = shared /\ closed' = closed /\ answers' = answers
  BY DEF SyncRun1
<1>2. c \in shared
  BY <1>1 DEF TimerInv, SharersOnly
<1>3. /\ watchdog' = watchdog \cup {c}
      /\ DOMAIN requests' = Clients
      /\ \A d \in Clients : requests'[d] # <<>> => d \in shared
  BY <1>2, SendSyncTimers DEF SyncRun1
<1> QED BY <1>1, <1>2, <1>3 DEF TimerInv, TimerTypes, SharersOnly, SyncingGoesOn

LEMMA SyncKillTimers == ASSUME NEW c \in Clients, TimerInv, SyncKill(c) PROVE TimerInv'
<1>1. /\ c \in watchdog \ closed /\ watchdog' = watchdog \ {c} /\ timer' = timer \cup {c}
      /\ shared' = shared /\ closed' = closed /\ requests' = requests
      /\ answers' \subseteq answers
  BY DEF SyncKill, Abort
<1> QED BY <1>1 DEF TimerInv, TimerTypes, SharersOnly, SyncingGoesOn

LEMMA UnloadTimers == ASSUME NEW c \in Clients, TimerInv, Unload(c) PROVE TimerInv'
<1>1. /\ closed' = closed \cup {c} /\ shared' = shared /\ timer' = timer
      /\ answers' \subseteq answers
  BY DEF Unload, Abort
<1>2. \/ c \in shared /\ SendSync(c)
      \/ watchdog' = watchdog /\ requests' = requests
  BY DEF Unload
<1>3. /\ watchdog \subseteq watchdog' /\ watchdog' \subseteq watchdog \cup (shared \cap {c})
      /\ DOMAIN requests' = Clients
      /\ \A d \in Clients : requests'[d] # <<>> => d \in shared
  BY <1>2, SendSyncTimers DEF TimerInv, TimerTypes, SharersOnly
<1> QED BY <1>1, <1>3 DEF TimerInv, TimerTypes, SharersOnly, SyncingGoesOn

LEMMA ServeTimers == ASSUME NEW c \in Clients, TimerInv, Serve(c) PROVE TimerInv'
<1>1. /\ requests[c] # <<>> /\ requests' = [requests EXCEPT ![c] = Tail(@)]
      /\ UNCHANGED client
  BY DEF Serve
<1>2. \A a \in answers' : a \in answers \/ a.client = c
  <2>1. PICK s : answers' = answers \cup {a \in {AnswerTo(c, Head(requests[c]), s)} : Awaited(a)}
    BY DEF Serve
  <2> QED BY <2>1 DEF AnswerTo
<1>3. c \in shared
  BY <1>1 DEF TimerInv, SharersOnly
<1> QED BY <1>1, <1>2, <1>3 DEF client, TimerInv, TimerTypes, SharersOnly, SyncingGoesOn

LEMMA LoseRequestTimers ==
  ASSUME NEW c \in Clients, TimerInv, LoseRequest(c) PROVE TimerInv'
<1>1. /\ requests[c] # <<>> /\ requests' = [requests EXCEPT ![c] = Tail(@)]
      /\ UNCHANGED client /\ answers' = answers
  BY DEF LoseRequest
<1> QED BY <1>1 DEF client, TimerInv, TimerTypes, SharersOnly, SyncingGoesOn

(* An answer is lost, or leaves its page with a sync to come. *)
LEMMA AnswerTimers ==
  ASSUME NEW a \in answers, TimerInv,
         LoseAnswer(a) \/ SyncRun2(a) \/ SyncRun2Truncated(a) \/ SyncFailed(a)
  PROVE  TimerInv'
<1> DEFINE Goes == /\ answers' = answers \ {a} /\ requests' = requests
                   /\ shared' = shared /\ closed' = closed
           Stays == timer' = timer /\ watchdog' = watchdog
           Ends == timer' = timer \cup {a.client} /\ watchdog' = watchdog \ {a.client}
<1>1. a.client \in shared /\ a.client \in Clients
  BY DEF TimerInv, TimerTypes, SharersOnly
<1>2. Goes /\ (Stays \/ Ends)
  <2>1. CASE LoseAnswer(a)
    BY <2>1 DEF LoseAnswer, client
  <2>2. CASE SyncRun2(a)
    BY <2>2 DEF SyncRun2, EndSync
  <2>3. CASE SyncRun2Truncated(a)
    BY <2>3 DEF SyncRun2Truncated, EndSync
  <2>4. CASE SyncFailed(a)
    BY <2>4 DEF SyncFailed
  <2> QED BY <2>1, <2>2, <2>3, <2>4
<1> QED BY <1>1, <1>2 DEF TimerInv, TimerTypes, SharersOnly, SyncingGoesOn

LEMMA NextTimers == TimerInv /\ [Next]_vars => TimerInv'
<1> SUFFICES ASSUME TimerInv, [Next]_vars PROVE TimerInv'
  OBVIOUS
<1>1. ASSUME NEW c \in Clients, Share(c) \/ SyncRun1(c) \/ SyncKill(c) \/ Unload(c)
      PROVE  TimerInv'
  BY <1>1, ShareTimers, SyncRun1Timers, SyncKillTimers, UnloadTimers
<1>2. ASSUME NEW c \in Clients, NEW e \in Edits, Type(c, e) \/ Delete(c, e) PROVE TimerInv'
  BY <1>2, KeepTimers DEF Type, Delete, network
<1>3. ASSUME NEW c \in Clients, Serve(c) \/ LoseRequest(c) PROVE TimerInv'
  BY <1>3, ServeTimers, LoseRequestTimers
<1>4. ASSUME NEW a \in answers,
             LoseAnswer(a) \/ SyncRun2(a) \/ SyncRun2Truncated(a) \/ SyncFailed(a)
      PROVE  TimerInv'
  BY <1>4, AnswerTimers
<1>5. ASSUME UNCHANGED vars PROVE TimerInv'
  BY <1>5, KeepTimers DEF vars, client, network
<1> QED BY <1>1, <1>2, <1>3, <1>4, <1>5 DEF Next

(* A page that shares its file always has exactly one of the two timers     *)
(* pending, whatever is lost, late, cut or refused (syncRun2_, syncKill_):  *)
(* it never stops to sync, and never has two syncs in the air at a time     *)
(* by its own timers.                                                       *)
THEOREM PagesGoOnSyncing == Spec => []SyncingGoesOn
<1>1. TimerInv => SyncingGoesOn
  BY DEF TimerInv
<1> QED BY InitTimers, NextTimers, <1>1, PTL DEF Spec

-----------------------------------------------------------------------------
(* What ApplyAll and Unseen return, by induction on the length of the edits. *)

LEMMA NatHasLeast ==
  ASSUME NEW T \in SUBSET Nat, T # {}
  PROVE  \E n \in T : \A m \in T : n <= m
<1> DEFINE R == {mn \in Nat \X Nat : mn[1] < mn[2]}
<1>1. IsWellFoundedOn(R, Nat)
  BY NatLessThanWellFounded DEF OpToRel
<1>2. PICK n \in T : \A m \in T : <<m, n>> \notin R
  <2> HIDE DEF R
  <2> QED BY <1>1, WFMin
<1>3. \A m \in T : ~(m < n)
  BY <1>2
<1> QED BY <1>3

LEMMA NatInduct ==
  ASSUME NEW S, 0 \in S, \A n \in Nat : n \in S => n + 1 \in S
  PROVE  Nat \subseteq S
<1> SUFFICES ASSUME ~(Nat \subseteq S) PROVE FALSE
  OBVIOUS
<1> DEFINE T == {n \in Nat : n \notin S}
<1>1. PICK n \in T : \A m \in T : n <= m
  BY NatHasLeast
<1>2. n # 0 /\ n - 1 \in Nat /\ n - 1 \in S
  BY <1>1
<1> QED BY <1>1, <1>2

LEMMA LengthIsNat == ASSUME NEW t \in Texts PROVE Length(t) \in Nat
<1> DEFINE Copies(e) == {e} \X (1..t[e])
           S == {Copies(e) : e \in Edits}
           f == [e \in Edits |-> Copies(e)]
<1>1. IsFiniteSet(S)
  <2>1. f \in Surjection(Edits, S)
    BY DEF Surjection
  <2> HIDE DEF f, S
  <2> QED BY <2>1, EditsAssumption, FS_Surjection
<1>2. ASSUME NEW T \in S PROVE IsFiniteSet(T)
  <2>1. PICK e \in Edits : T = Copies(e)
    OBVIOUS
  <2>2. t[e] \in Int
    BY DEF Texts
  <2>3. IsFiniteSet({e})
    BY FS_Singleton
  <2>4. IsFiniteSet(1..t[e])
    BY <2>2, FS_Interval
  <2>5. IsFiniteSet({e} \X (1..t[e]))
    BY <2>3, <2>4, FS_Product
  <2> QED BY <2>1, <2>5
<1>3. IsFiniteSet(UNION S)
  <2> HIDE DEF S
  <2> QED BY <1>1, <1>2, FS_UNION
<1> QED BY <1>3, FS_CardinalityType DEF Length

(* What is left of the first n edits, from what is left of the first n - 1. *)
Left(E, cv, f, n) ==
  IF n = 0 THEN <<>>
  ELSE IF E[n].v > cv THEN Append(f[n-1], E[n]) ELSE f[n-1]

LEMMA UnseenExists ==
  ASSUME NEW E, NEW cv
  PROVE  \A m \in Nat : \E f : f = [n \in 0..m |-> Left(E, cv, f, n)]
<1> DEFINE M == {m \in Nat : \E f : f = [n \in 0..m |-> Left(E, cv, f, n)]}
<1>1. 0 \in M
  <2> DEFINE g == [n \in 0..0 |-> <<>>]
  <2>1. g = [n \in 0..0 |-> Left(E, cv, g, n)]
    BY DEF Left
  <2> QED BY <2>1
<1>2. ASSUME NEW m \in Nat, m \in M PROVE m + 1 \in M
  <2>1. PICK g : g = [n \in 0..m |-> Left(E, cv, g, n)]
    BY <1>2
  <2> DEFINE h == [n \in 0..(m+1) |-> IF n = m + 1 THEN Left(E, cv, g, n) ELSE g[n]]
  <2>2. ASSUME NEW n \in 0..(m+1) PROVE h[n] = Left(E, cv, h, n)
    <3>1. CASE n = 0
      <4>1. h[n] = g[0] /\ g[0] = Left(E, cv, g, 0)
        BY <2>1, <3>1
      <4> QED BY <3>1, <4>1 DEF Left
    <3>2. CASE n # 0
      <4>1. n - 1 \in 0..(m+1) /\ n - 1 # m + 1
        BY <3>2
      <4>2. h[n-1] = g[n-1]
        BY <4>1
      <4>3. h[n] = Left(E, cv, g, n)
        <5>1. CASE n = m + 1
          BY <5>1
        <5>2. CASE n # m + 1
          <6>1. n \in 0..m
            BY <5>2
          <6>2. h[n] = g[n]
            BY <5>2
          <6> QED BY <2>1, <6>1, <6>2
        <5> QED BY <5>1, <5>2
      <4> HIDE DEF h
      <4> QED BY <3>2, <4>2, <4>3 DEF Left
    <3> QED BY <3>1, <3>2
  <2>3. h = [n \in 0..(m+1) |-> Left(E, cv, h, n)]
    <3>1. h = [n \in 0..(m+1) |-> h[n]]
      OBVIOUS
    <3> HIDE DEF h
    <3> QED BY <2>2, <3>1
  <2> HIDE DEF h
  <2> QED BY <2>3
<1> HIDE DEF M
<1>3. Nat \subseteq M
  BY <1>1, <1>2, NatInduct
<1> QED BY <1>3 DEF M

LEMMA UnseenIs ==
  ASSUME NEW A, NEW E \in Seq(A), NEW cv
  PROVE  \E f : f = [n \in 0..Len(E) |-> Left(E, cv, f, n)] /\ Unseen(E, cv) = f[Len(E)]
<1> DEFINE f == CHOOSE f : f = [n \in 0..Len(E) |-> Left(E, cv, f, n)]
<1>1. \E g : g = [n \in 0..Len(E) |-> Left(E, cv, g, n)]
  <2>1. Len(E) \in Nat
    BY LenProperties
  <2> QED BY <2>1, UnseenExists, Zenon
<1>2. f = [n \in 0..Len(E) |-> Left(E, cv, f, n)]
  BY <1>1
<1>3. Unseen(E, cv) = f[Len(E)]
  BY DEF Unseen, Left
<1> QED BY <1>2, <1>3

(* The state of the gateway after n edits, from that after n - 1. *)
After(m, start, E, f, n) == IF n = 0 THEN start ELSE Apply(m, f[n-1], E[n])

HasRun(m, start, E, k) == \E f : f = [n \in 0..k |-> After(m, start, E, f, n)]

LEMMA ApplyAllExists ==
  ASSUME NEW m0, NEW start, NEW E
  PROVE  \A k \in Nat : HasRun(m0, start, E, k)
<1> DEFINE M == {m \in Nat : \E f : f = [n \in 0..m |-> After(m0, start, E, f, n)]}
<1>1. 0 \in M
  <2> DEFINE g == [n \in 0..0 |-> start]
  <2>1. g = [n \in 0..0 |-> After(m0, start, E, g, n)]
    BY DEF After
  <2> QED BY <2>1
<1>2. ASSUME NEW m \in Nat, m \in M PROVE m + 1 \in M
  <2>1. PICK g : g = [n \in 0..m |-> After(m0, start, E, g, n)]
    BY <1>2
  <2> DEFINE h == [n \in 0..(m+1) |-> IF n = m + 1 THEN After(m0, start, E, g, n) ELSE g[n]]
  <2>2. ASSUME NEW n \in 0..(m+1) PROVE h[n] = After(m0, start, E, h, n)
    <3>1. CASE n = 0
      <4>1. h[n] = g[0] /\ g[0] = After(m0, start, E, g, 0)
        BY <2>1, <3>1
      <4> QED BY <3>1, <4>1 DEF After
    <3>2. CASE n # 0
      <4>1. n - 1 \in 0..(m+1) /\ n - 1 # m + 1
        BY <3>2
      <4>2. h[n-1] = g[n-1]
        BY <4>1
      <4>3. h[n] = After(m0, start, E, g, n)
        <5>1. CASE n = m + 1
          BY <5>1
        <5>2. CASE n # m + 1
          <6>1. n \in 0..m
            BY <5>2
          <6>2. h[n] = g[n]
            BY <5>2
          <6> QED BY <2>1, <6>1, <6>2
        <5> QED BY <5>1, <5>2
      <4> HIDE DEF h
      <4> QED BY <3>2, <4>2, <4>3 DEF After
    <3> QED BY <3>1, <3>2
  <2>3. h = [n \in 0..(m+1) |-> After(m0, start, E, h, n)]
    <3>1. h = [n \in 0..(m+1) |-> h[n]]
      OBVIOUS
    <3> HIDE DEF h
    <3> QED BY <2>2, <3>1
  <2> HIDE DEF h
  <2> QED BY <2>3
<1> HIDE DEF M
<1>3. Nat \subseteq M
  BY <1>1, <1>2, NatInduct
<1> QED BY <1>3 DEF M, HasRun

IsRun(m, start, E, f) ==
  f = [n \in 0..Len(E) |-> After(m, start, E, f, n)] /\ ApplyAll(m, start, E) = f[Len(E)]

LEMMA ApplyAllIs ==
  ASSUME NEW A, NEW E \in Seq(A), NEW m, NEW start
  PROVE  \E f : IsRun(m, start, E, f)
<1> DEFINE f == CHOOSE f : f = [n \in 0..Len(E) |-> After(m, start, E, f, n)]
<1>1. \E g : g = [n \in 0..Len(E) |-> After(m, start, E, g, n)]
  <2>1. Len(E) \in Nat
    BY LenProperties
  <2>2. HasRun(m, start, E, Len(E))
    BY <2>1, ApplyAllExists, Zenon
  <2> QED BY <2>2, Zenon DEF HasRun
<1>2. f = [n \in 0..Len(E) |-> After(m, start, E, f, n)]
  BY <1>1
<1>3. ApplyAll(m, start, E) = f[Len(E)]
  BY DEF ApplyAll, After
<1> QED BY <1>2, <1>3 DEF IsRun

-----------------------------------------------------------------------------
(* Types: what TypeOK says, with the shape of what is on its way.  D are the *)
(* edits typed so far: nothing else is in a text or a difference.            *)

TextsOf(D) == {t \in Texts : \A e \in Edits \ D : t[e] = 0}
DiffsOf(D) == {d \in [Edits -> Int] : \A e \in Edits \ D : d[e] = 0}

(* The entries of a stack: differences of texts, and whole texts. *)
Entries(D) ==
  {x \in [kind : {"d", "r"}, v : Nat, of : Nat, body : DiffsOf(D)] :
     x.kind = "r" => x.body \in TextsOf(D)}

FilesOf(D) ==
  [text : TextsOf(D), shadowText : TextsOf(D), clientVersion : Nat, serverVersion : Nat,
   deltaOk : BOOLEAN, editStack : Seq(Entries(D))]
Requests(D) == [id : Nat, m : Nat, edits : Seq(Entries(D))]
Views(D) == [shadow : TextsOf(D), cv : Nat, sv : Nat, backup : TextsOf(D), bsv : Nat]
States(D) ==
  [shadow : TextsOf(D), cv : Nat, sv : Nat, backup : TextsOf(D), bsv : Nat,
   ok : BOOLEAN, text : TextsOf(D), exists : BOOLEAN]
Answers(D) ==
  {x \in [client : Clients, id : Nat, cv : Nat, kind : {"d", "R"}, v : Nat, of : Nat,
          body : DiffsOf(D), had : SUBSET D] :
     x.kind = "R" => x.body \in TextsOf(D)}

PagesT ==
  /\ file \in [Clients -> FilesOf(typed)] /\ remote \in BOOLEAN
  /\ shared \subseteq Clients /\ timer \subseteq Clients /\ watchdog \subseteq Clients
  /\ closed \subseteq Clients
SyncsT ==
  /\ syncs \in [Clients -> Nat] /\ \A c \in Clients : syncs[c] <= MaxSyncs[c]
  /\ airborne \in [Clients -> Nat] /\ \A c \in Clients : airborne[c] \in {0, syncs[c]}
GatewayT ==
  exists \in BOOLEAN /\ master \in TextsOf(typed) /\ viewOf \in [Clients -> Views(typed)]
NetworkT ==
  /\ requests \in [Clients -> Seq(Requests(typed))] /\ faults \in 0..MaxFaults
  /\ answers \subseteq Answers(typed)
  /\ \A a \in answers : a.client \notin closed /\ a.id \in 1..syncs[a.client]
  /\ \A c \in Clients : \A k \in 1..Len(requests[c]) : requests[c][k].id \in 1..syncs[c]
HistoryT ==
  /\ typed \subseteq Edits /\ deleted \subseteq typed /\ early \subseteq typed
  /\ had \in [Clients -> SUBSET typed] /\ hadMaster \subseteq typed
  /\ late \subseteq Clients /\ unsent \subseteq Clients

TInv == PagesT /\ SyncsT /\ GatewayT /\ NetworkT /\ HistoryT

LEMMA Monotone ==
  ASSUME NEW D \in SUBSET Edits, NEW D2 \in SUBSET Edits, D \subseteq D2
  PROVE  /\ TextsOf(D) \subseteq TextsOf(D2) /\ FilesOf(D) \subseteq FilesOf(D2)
         /\ Seq(Requests(D)) \subseteq Seq(Requests(D2)) /\ Views(D) \subseteq Views(D2)
         /\ Answers(D) \subseteq Answers(D2)
<1>1. TextsOf(D) \subseteq TextsOf(D2) /\ DiffsOf(D) \subseteq DiffsOf(D2)
  BY DEF TextsOf, DiffsOf
<1>2. Entries(D) \subseteq Entries(D2)
  BY <1>1 DEF Entries
<1>3. Seq(Entries(D)) \subseteq Seq(Entries(D2))
  BY <1>2
<1>4. FilesOf(D) \subseteq FilesOf(D2) /\ Views(D) \subseteq Views(D2)
  BY <1>1, <1>3 DEF FilesOf, Views
<1>5. Requests(D) \subseteq Requests(D2)
  BY <1>3 DEF Requests
<1>6. Answers(D) \subseteq Answers(D2)
  BY <1>1 DEF Answers
<1> QED BY <1>1, <1>4, <1>5, <1>6

LEMMA DiffsTyped ==
  ASSUME NEW D \in SUBSET Edits, NEW t \in TextsOf(D), NEW u \in TextsOf(D)
  PROVE  /\ Diff(t, u) \in DiffsOf(D) /\ t \in DiffsOf(D)
         /\ Length(t) \in Nat
<1>1. Diff(t, u) \in DiffsOf(D)
  BY DEF Diff, DiffsOf, TextsOf, Texts
<1>2. t \in DiffsOf(D)
  BY DEF DiffsOf, TextsOf, Texts
<1>3. Length(t) \in Nat
  BY LengthIsNat DEF TextsOf
<1> QED BY <1>1, <1>2, <1>3

LEMMA PatchedTyped ==
  ASSUME NEW D \in SUBSET Edits, NEW t \in TextsOf(D), NEW d \in DiffsOf(D)
  PROVE  Patched(t, d) \in TextsOf(D)
<1>1. \A e \in Edits : Patched(t, d)[e] \in Nat /\ (e \notin D => Patched(t, d)[e] = 0)
  BY DEF Patched, DiffsOf, TextsOf, Texts
<1> QED BY <1>1 DEF Patched, TextsOf, Texts

(* A patch brings the text it was made for to the text it was made from. *)
LEMMA PatchedDiff ==
  ASSUME NEW t \in Texts, NEW u \in Texts
  PROVE  Patched(t, Diff(t, u)) = u
BY DEF Patched, Diff, Texts

(* What is left of a stack, and that nothing is if the server has seen it all. *)
LEMMA UnseenTyped ==
  ASSUME NEW A, NEW E \in Seq(A), NEW cv
  PROVE  /\ Unseen(E, cv) \in Seq(A)
         /\ (\A i \in 1..Len(E) : ~(E[i].v > cv)) => Unseen(E, cv) = <<>>
<1>1. PICK f : f = [n \in 0..Len(E) |-> Left(E, cv, f, n)] /\ Unseen(E, cv) = f[Len(E)]
  BY UnseenIs
<1> DEFINE None == \A i \in 1..Len(E) : ~(E[i].v > cv)
           M == {n \in Nat : n \in 0..Len(E) => f[n] \in Seq(A) /\ (None => f[n] = <<>>)}
<1>2. Len(E) \in Nat /\ \A i \in 1..Len(E) : E[i] \in A
  BY LenProperties, ElementOfSeq
<1>3. 0 \in M
  <2>1. f[0] = <<>>
    BY <1>1, <1>2 DEF Left
  <2>2. <<>> \in Seq(A)
    BY EmptySeq
  <2> QED BY <2>1, <2>2
<1>4. ASSUME NEW n \in Nat, n \in M PROVE n + 1 \in M
  <2> SUFFICES ASSUME n + 1 \in 0..Len(E)
               PROVE  f[n+1] \in Seq(A) /\ (None => f[n+1] = <<>>)
    OBVIOUS
  <2>1. n \in 0..Len(E) /\ n + 1 \in 1..Len(E) /\ (n + 1) - 1 = n /\ n + 1 # 0
    BY <1>2
  <2>2. f[n] \in Seq(A) /\ (None => f[n] = <<>>)
    BY <1>4, <2>1
  <2>3. f[n+1] = Left(E, cv, f, n + 1)
    BY <1>1
  <2>4. f[n+1] = IF E[n+1].v > cv THEN Append(f[n], E[n+1]) ELSE f[n]
    BY <2>1, <2>3, Zenon DEF Left
  <2>5. E[n+1] \in A
    BY <1>2, <2>1
  <2>6. CASE E[n+1].v > cv
    <3>1. f[n+1] \in Seq(A)
      BY <2>2, <2>4, <2>5, <2>6, AppendProperties, Zenon
    <3>2. ~None
      BY <2>1, <2>6, Zenon
    <3> QED BY <3>1, <3>2
  <2>7. CASE ~(E[n+1].v > cv)
    BY <2>2, <2>4, <2>7, Zenon
  <2> QED BY <2>6, <2>7
<1> HIDE DEF M
<1>5. Nat \subseteq M
  BY <1>3, <1>4, NatInduct
<1>6. Len(E) \in M
  BY <1>2, <1>5
<1> QED BY <1>1, <1>2, <1>6 DEF M

LEMMA ApplyTyped ==
  ASSUME NEW D \in SUBSET Edits, NEW s \in States(D), NEW e \in Entries(D), NEW m \in Nat
  PROVE  Apply(m, s, e) \in States(D)
<1> DEFINE new == Patched(s.shadow, e.body)
           u == Patched(s.text, e.body)
<1>1. new \in TextsOf(D) /\ u \in TextsOf(D)
  BY PatchedTyped DEF States, Entries
<1>2. e.kind = "r" => e.body \in TextsOf(D)
  BY DEF Entries
<1>3. e.v \in Nat /\ e.kind \in {"d", "r"}
  BY DEF Entries
<1>4. CASE e.kind = "r" /\ e.v > s.cv
  BY <1>2, <1>3, <1>4 DEF Apply, States
<1>5. CASE e.kind = "d" /\ m = s.sv /\ e.v = s.cv /\ Fits(e, s.shadow)
  <2>1. Apply(m, s, e) = [s EXCEPT !.shadow = new, !.backup = new, !.cv = @ + 1, !.bsv = s.sv,
                                   !.text = u]
    BY <1>5 DEF Apply, States
  <2>2. s.sv \in Nat /\ s.cv + 1 \in Nat
    BY DEF States
  <2>3. ASSUME NEW p \in TextsOf(D), NEW q \in TextsOf(D), NEW i \in Nat, NEW j \in Nat
        PROVE  [s EXCEPT !.shadow = p, !.backup = p, !.cv = i, !.bsv = j, !.text = q] \in States(D)
    BY DEF States
  <2> HIDE DEF new, u
  <2>4. [s EXCEPT !.shadow = new, !.backup = new, !.cv = s.cv + 1, !.bsv = s.sv, !.text = u]
          \in States(D)
    BY <1>1, <2>2, <2>3, Zenon
  <2> QED BY ONLY <2>1, <2>4, Zenon
<1>6. CASE Apply(m, s, e) = s \/ Apply(m, s, e) = [s EXCEPT !.ok = FALSE]
  BY <1>6 DEF States
<1>7. Apply(m, s, e) = s \/ Apply(m, s, e) = [s EXCEPT !.ok = FALSE]
        \/ (e.kind = "r" /\ e.v > s.cv)
        \/ (e.kind = "d" /\ m = s.sv /\ e.v = s.cv /\ Fits(e, s.shadow))
  BY <1>3 DEF Apply, States
<1> QED BY <1>4, <1>5, <1>6, <1>7

LEMMA ApplyAllTyped ==
  ASSUME NEW D \in SUBSET Edits, NEW s \in States(D), NEW E \in Seq(Entries(D)), NEW m \in Nat
  PROVE  ApplyAll(m, s, E) \in States(D)
<1>1. PICK f : f = [n \in 0..Len(E) |-> After(m, s, E, f, n)] /\ ApplyAll(m, s, E) = f[Len(E)]
  BY ApplyAllIs, Zenon DEF IsRun
<1> DEFINE M == {n \in Nat : n \in 0..Len(E) => f[n] \in States(D)}
<1>2. Len(E) \in Nat /\ \A i \in 1..Len(E) : E[i] \in Entries(D)
  BY LenProperties, ElementOfSeq
<1>3. 0 \in M
  <2>1. f[0] = s
    BY <1>1, <1>2 DEF After
  <2> QED BY <2>1
<1>4. ASSUME NEW n \in Nat, n \in M PROVE n + 1 \in M
  <2> SUFFICES ASSUME n + 1 \in 0..Len(E) PROVE f[n+1] \in States(D)
    OBVIOUS
  <2>1. n \in 0..Len(E) /\ n + 1 \in 1..Len(E) /\ (n + 1) - 1 = n /\ n + 1 # 0
    BY <1>2
  <2>2. f[n+1] = After(m, s, E, f, n + 1)
    BY <1>1
  <2>3. f[n+1] = Apply(m, f[n], E[n+1])
    BY <2>1, <2>2, Zenon DEF After
  <2> QED BY <1>2, <1>4, <2>1, <2>3, ApplyTyped
<1> HIDE DEF M
<1>5. Nat \subseteq M
  BY <1>3, <1>4, NatInduct
<1> QED BY <1>1, <1>2, <1>5 DEF M

LEMMA InitTyped == Init => TInv
<1> SUFFICES ASSUME Init PROVE TInv
  OBVIOUS
<1>1. Empty \in TextsOf({})
  BY DEF Empty, TextsOf, Texts
<1>2. file \in [Clients -> FilesOf({})] /\ NewView \in Views({}) /\ typed = {}
  BY <1>1, EmptySeq DEF Init, FilesOf, Views, NewView
<1>3. PagesT
  BY <1>2 DEF Init, PagesT
<1>4. SyncsT
  BY BoundsAssumption DEF Init, SyncsT
<1>5. GatewayT
  BY <1>1, <1>2 DEF Init, GatewayT
<1>6. NetworkT
  <2>1. \A c \in Clients : requests[c] = <<>>
    BY DEF Init
  <2>2. requests \in [Clients -> Seq(Requests(typed))]
    BY <2>1, EmptySeq DEF Init
  <2>3. \A c \in Clients : Len(requests[c]) = 0
    BY <2>1, EmptySeq
  <2>4. faults \in 0..MaxFaults /\ answers = {}
    BY BoundsAssumption DEF Init
  <2> QED BY <2>2, <2>3, <2>4 DEF NetworkT
<1>7. HistoryT
  BY DEF Init, HistoryT
<1> QED BY <1>3, <1>4, <1>5, <1>6, <1>7 DEF TInv

LEMMA DeltaOfTyped ==
  ASSUME NEW D \in SUBSET Edits, NEW f \in FilesOf(D)
  PROVE  DeltaOf(f) \in Entries(D)
<1>1. Diff(f.shadowText, f.text) \in DiffsOf(D) /\ Length(f.shadowText) \in Nat
  BY DiffsTyped DEF FilesOf
<1>2. f.clientVersion \in Nat
  BY DEF FilesOf
<1> QED BY <1>1, <1>2 DEF DeltaOf, Entries

WholeOf(f) == [kind |-> "r", v |-> f.clientVersion + 1, of |-> 0, body |-> f.text]

LEMMA WholeOfTyped ==
  ASSUME NEW D \in SUBSET Edits, NEW f \in FilesOf(D)
  PROVE  WholeOf(f) \in Entries(D)
<1>1. f.text \in DiffsOf(D) /\ f.text \in TextsOf(D) /\ f.clientVersion \in Nat
  BY DEF FilesOf, TextsOf, DiffsOf, Texts
<1> QED BY <1>1 DEF WholeOf, Entries

(* A sync adds to the stack a difference, the whole text, or nothing. *)
LEMMA SyncTextIs ==
  ASSUME NEW D \in SUBSET Edits, NEW f \in FilesOf(D)
  PROVE  LET g == SyncText(f) IN
         /\ g \in FilesOf(D)
         /\ g.text = f.text /\ g.shadowText = f.text /\ g.serverVersion = f.serverVersion
         /\ g.deltaOk
         /\ \/ /\ f.deltaOk /\ g = f /\ f.editStack # <<>>
            \/ /\ f.deltaOk /\ g.clientVersion = f.clientVersion + 1
               /\ g.editStack = Append(f.editStack, DeltaOf(f))
            \/ /\ ~f.deltaOk /\ g.clientVersion = f.clientVersion + 1
               /\ g.editStack = Append(f.editStack, WholeOf(f))
<1> DEFINE With(E) == [f EXCEPT !.shadowText = f.text, !.clientVersion = @ + 1, !.deltaOk = TRUE,
                                !.editStack = E]
<1>1. f.editStack \in Seq(Entries(D)) /\ DeltaOf(f) \in Entries(D) /\ WholeOf(f) \in Entries(D)
  BY DeltaOfTyped, WholeOfTyped DEF FilesOf
<1>2. /\ Append(f.editStack, DeltaOf(f)) \in Seq(Entries(D))
      /\ Append(f.editStack, WholeOf(f)) \in Seq(Entries(D))
  BY <1>1, AppendProperties, Zenon
<1>3. ASSUME NEW E \in Seq(Entries(D))
      PROVE  /\ With(E) \in FilesOf(D) /\ With(E).text = f.text /\ With(E).shadowText = f.text
             /\ With(E).serverVersion = f.serverVersion /\ With(E).deltaOk
             /\ With(E).clientVersion = f.clientVersion + 1 /\ With(E).editStack = E
  <2>1. f.text \in TextsOf(D) /\ f.clientVersion + 1 \in Nat
    BY DEF FilesOf
  <2>2. PICK t \in TextsOf(D), n \in Nat : t = f.text /\ n = f.clientVersion + 1
    BY <2>1
  <2>3. With(E) = [f EXCEPT !.shadowText = t, !.clientVersion = n, !.deltaOk = TRUE,
                            !.editStack = E]
    BY <2>2
  <2> HIDE DEF With
  <2> QED BY <2>2, <2>3 DEF FilesOf
<1>4. CASE f.deltaOk /\ ~(f.text # f.shadowText \/ f.editStack = <<>>)
  <2>1. SyncText(f) = f
    BY <1>4 DEF SyncText
  <2> QED BY <1>4, <2>1
<1>5. CASE f.deltaOk /\ (f.text # f.shadowText \/ f.editStack = <<>>)
  <2>1. SyncText(f) = With(Append(f.editStack, DeltaOf(f)))
    <3>1. SyncText(f) = [f EXCEPT !.shadowText = f.text, !.clientVersion = @ + 1,
                                  !.editStack = Append(@, DeltaOf(f))]
      BY <1>5, Zenon DEF SyncText
    <3>2. f.deltaOk = TRUE
      BY <1>5 DEF FilesOf
    <3>3. ASSUME NEW E PROVE [f EXCEPT !.shadowText = f.text, !.clientVersion = @ + 1, !.editStack = E]
                               = With(E)
      BY <3>2 DEF FilesOf
    <3> QED BY <3>1, <3>3
  <2> HIDE DEF With
  <2> QED BY <1>2, <1>3, <1>5, <2>1
<1>6. CASE ~f.deltaOk
  <2>1. SyncText(f) = With(Append(f.editStack, WholeOf(f)))
    BY <1>6, Zenon DEF SyncText, WholeOf
  <2> HIDE DEF With
  <2> QED BY <1>2, <1>3, <1>6, <2>1
<1> QED BY <1>4, <1>5, <1>6

(* The lines of an answer. *)
LEMMA LinesTyped ==
  ASSUME NEW D \in SUBSET Edits, NEW f \in FilesOf(D), NEW a \in Answers(D)
  PROVE  /\ FileLine(f, a) \in FilesOf(D)
         /\ a.kind = "R" => RawLine(f, a) \in FilesOf(D)
         /\ DeltaLine(f, a) \in FilesOf(D)
<1>1. FileLine(f, a) \in FilesOf(D)
  <2>1. f.editStack \in Seq(Entries(D))
    BY DEF FilesOf
  <2>2. PICK E : E = Unseen(f.editStack, a.cv)
    OBVIOUS
  <2>3. E \in Seq(Entries(D))
    BY <2>1, <2>2, UnseenTyped, Zenon
  <2>4. FileLine(f, a) = [f EXCEPT !.deltaOk = TRUE, !.editStack = E]
    BY <2>2, Zenon DEF FileLine
  <2> QED BY <2>3, <2>4 DEF FilesOf
<1>2. ASSUME a.kind = "R" PROVE RawLine(f, a) \in FilesOf(D)
  <2>1. a.body \in TextsOf(D) /\ a.cv \in Nat /\ a.v \in Nat
    BY <1>2 DEF Answers
  <2>2. <<>> \in Seq(Entries(D))
    BY EmptySeq
  <2> QED BY <2>1, <2>2 DEF RawLine, FilesOf
<1>3. DeltaLine(f, a) \in FilesOf(D)
  <2>1. PICK t \in TextsOf(D), u \in TextsOf(D) :
          t = Patched(f.shadowText, a.body) /\ u = Patched(f.text, a.body)
    BY PatchedTyped DEF FilesOf, Answers
  <2>2. PICK n \in Nat : n = f.serverVersion + 1
    BY DEF FilesOf
  <2>3. \/ DeltaLine(f, a) = f \/ DeltaLine(f, a) = [f EXCEPT !.deltaOk = FALSE]
        \/ DeltaLine(f, a) = [f EXCEPT !.serverVersion = n, !.shadowText = t, !.text = u]
    BY <2>1, <2>2, Zenon DEF DeltaLine
  <2> QED BY <2>3 DEF FilesOf
<1> QED BY <1>1, <1>2, <1>3

(* A queue of requests, perhaps without its first one. *)
Shorter(q2, q) == q2 = q \/ (q # <<>> /\ q2 = Tail(q))

(* Timers, and what gets lost. *)
LEMMA KeepTyped ==
  ASSUME TInv, UNCHANGED <<file, remote, syncs, gateway, typed, deleted, early,
                           had, hadMaster, late>>,
         timer' \subseteq Clients, watchdog' \subseteq Clients, shared' \subseteq Clients,
         closed' \subseteq Clients, \A a \in answers' : a.client \notin closed',
         airborne' \in [Clients -> Nat], \A c \in Clients : airborne'[c] \in {0, airborne[c]},
         requests' \in [Clients -> Seq(Requests(typed))],
         \A c \in Clients : Shorter(requests'[c], requests[c]),
         answers' \subseteq answers, faults' \in 0..MaxFaults, unsent' \subseteq Clients
  PROVE  TInv'
<1>1. PagesT' /\ HistoryT' /\ GatewayT'
  BY DEF TInv, PagesT, HistoryT, GatewayT, history, gateway
<1>2. SyncsT'
  BY DEF TInv, SyncsT
<1>3. ASSUME NEW c \in Clients PROVE \A k \in 1..Len(requests'[c]) : requests'[c][k].id \in 1..syncs[c]
  <2>1. \A k \in 1..Len(requests[c]) : requests[c][k].id \in 1..syncs[c]
    BY DEF TInv, NetworkT
  <2>2. CASE requests'[c] = requests[c]
    BY <2>1, <2>2
  <2>3. CASE requests[c] # <<>> /\ requests'[c] = Tail(requests[c])
    <3>1. requests[c] \in Seq(Requests(typed))
      BY DEF TInv, NetworkT
    <3>2. /\ Len(Tail(requests[c])) = Len(requests[c]) - 1
          /\ \A k \in 1..Len(Tail(requests[c])) : Tail(requests[c])[k] = requests[c][k+1]
      BY <2>3, <3>1, HeadTailProperties
    <3>3. Len(requests[c]) \in Nat
      BY <3>1, LenProperties
    <3> QED BY <2>1, <2>3, <3>2, <3>3
  <2> QED BY <2>2, <2>3 DEF Shorter
<1>4. NetworkT'
  BY <1>3 DEF TInv, NetworkT, history
<1> QED BY <1>1, <1>2, <1>4 DEF TInv

LEMMA ShareTyped == ASSUME NEW c \in Clients, TInv, Share(c) PROVE TInv'
<1>1. /\ UNCHANGED <<file, remote, syncs, gateway, typed, deleted, early, had, hadMaster, late>>
      /\ UNCHANGED <<watchdog, airborne, closed, requests, answers, faults, unsent>>
      /\ shared' = shared \cup {c} /\ timer' = timer \cup {c}
  BY DEF Share, network, history
<1>2. /\ timer' \subseteq Clients /\ watchdog' \subseteq Clients /\ shared' \subseteq Clients
      /\ closed' \subseteq Clients /\ \A a \in answers' : a.client \notin closed'
      /\ airborne' \in [Clients -> Nat] /\ unsent' \subseteq Clients /\ faults' \in 0..MaxFaults
      /\ requests' \in [Clients -> Seq(Requests(typed))] /\ answers' \subseteq answers
  BY <1>1 DEF TInv, PagesT, SyncsT, NetworkT, HistoryT
<1>3. \A d \in Clients : airborne'[d] \in {0, airborne[d]} /\ Shorter(requests'[d], requests[d])
  BY <1>1 DEF Shorter
<1> QED BY <1>1, <1>2, <1>3, KeepTyped, Zenon

LEMMA SyncKillTyped == ASSUME NEW c \in Clients, TInv, SyncKill(c) PROVE TInv'
<1>1. /\ UNCHANGED <<file, remote, syncs, gateway, typed, deleted, early, had, hadMaster, late>>
      /\ UNCHANGED <<shared, closed, requests, faults, unsent>>
      /\ watchdog' = watchdog \ {c} /\ timer' = timer \cup {c} /\ answers' \subseteq answers
      /\ airborne' = [airborne EXCEPT ![c] = 0]
  BY DEF SyncKill, Abort, history
<1>2. /\ timer' \subseteq Clients /\ watchdog' \subseteq Clients /\ shared' \subseteq Clients
      /\ closed' \subseteq Clients /\ \A a \in answers' : a.client \notin closed'
      /\ airborne' \in [Clients -> Nat] /\ unsent' \subseteq Clients /\ faults' \in 0..MaxFaults
      /\ requests' \in [Clients -> Seq(Requests(typed))] /\ answers' \subseteq answers
  BY <1>1 DEF TInv, PagesT, SyncsT, NetworkT, HistoryT
<1>3. \A d \in Clients : airborne'[d] \in {0, airborne[d]} /\ Shorter(requests'[d], requests[d])
  BY <1>1 DEF Shorter, TInv, SyncsT
<1> QED BY <1>1, <1>2, <1>3, KeepTyped, Zenon

LEMMA LoseRequestTyped == ASSUME NEW c \in Clients, TInv, LoseRequest(c) PROVE TInv'
<1>1. /\ UNCHANGED <<file, remote, syncs, gateway, typed, deleted, early, had, hadMaster, late>>
      /\ UNCHANGED <<shared, timer, watchdog, airborne, closed, answers>>
      /\ requests[c] # <<>> /\ requests' = [requests EXCEPT ![c] = Tail(@)]
      /\ faults < MaxFaults /\ faults' = faults + 1
      /\ unsent' = unsent \cup ({c} \cap closed)
  BY DEF LoseRequest, Fault, client
<1>2. Tail(requests[c]) \in Seq(Requests(typed))
  BY <1>1, HeadTailProperties DEF TInv, NetworkT
<1>3. faults' \in 0..MaxFaults
  BY <1>1, BoundsAssumption DEF TInv, NetworkT
<1>4. /\ timer' \subseteq Clients /\ watchdog' \subseteq Clients /\ shared' \subseteq Clients
      /\ closed' \subseteq Clients /\ \A a \in answers' : a.client \notin closed'
      /\ airborne' \in [Clients -> Nat] /\ unsent' \subseteq Clients /\ faults' \in 0..MaxFaults
      /\ requests' \in [Clients -> Seq(Requests(typed))] /\ answers' \subseteq answers
  BY <1>1, <1>2, <1>3 DEF TInv, PagesT, SyncsT, NetworkT, HistoryT
<1>5. \A d \in Clients : airborne'[d] \in {0, airborne[d]} /\ Shorter(requests'[d], requests[d])
  BY <1>1 DEF Shorter, TInv, NetworkT
<1> QED BY <1>1, <1>4, <1>5, KeepTyped, Zenon

(* An answer that is lost, cut or refused. *)
LEMMA NoAnswerTyped ==
  ASSUME NEW a \in answers, TInv, LoseAnswer(a) \/ SyncRun2Truncated(a) \/ SyncFailed(a)
  PROVE  TInv'
<1>0. a.client \in Clients
  BY DEF TInv, NetworkT, Answers
<1>1. /\ UNCHANGED <<file, remote, syncs, gateway, typed, deleted, early, had, hadMaster, late>>
      /\ UNCHANGED <<shared, closed, requests, unsent>>
      /\ watchdog' \subseteq watchdog /\ timer' \subseteq timer \cup {a.client}
      /\ answers' \subseteq answers /\ faults < MaxFaults /\ faults' = faults + 1
      /\ airborne' = airborne \/ airborne' = [airborne EXCEPT ![a.client] = 0]
  <2>1. CASE LoseAnswer(a)
    BY <2>1 DEF LoseAnswer, Fault, client, history
  <2>2. CASE SyncRun2Truncated(a)
    BY <2>2 DEF SyncRun2Truncated, Fault, EndSync, history
  <2>3. CASE SyncFailed(a)
    BY <2>3 DEF SyncFailed, Fault, history
  <2> QED BY <2>1, <2>2, <2>3
<1>2. faults' \in 0..MaxFaults
  BY <1>1, BoundsAssumption DEF TInv, NetworkT
<1>3. airborne' \in [Clients -> Nat] /\ \A d \in Clients : airborne'[d] \in {0, airborne[d]}
  BY <1>0, <1>1 DEF TInv, SyncsT
<1>4. /\ timer' \subseteq Clients /\ watchdog' \subseteq Clients /\ shared' \subseteq Clients
      /\ closed' \subseteq Clients /\ \A b \in answers' : b.client \notin closed'
      /\ unsent' \subseteq Clients
      /\ requests' \in [Clients -> Seq(Requests(typed))] /\ answers' \subseteq answers
  BY <1>0, <1>1 DEF TInv, PagesT, NetworkT, HistoryT
<1>5. \A d \in Clients : Shorter(requests'[d], requests[d])
  BY <1>1 DEF Shorter
<1> QED BY <1>1, <1>2, <1>3, <1>4, <1>5, KeepTyped, Zenon

(* What a sync does to its page and the network. *)
LEMMA SendSyncTyped ==
  ASSUME NEW c \in Clients, TInv, SendSync(c), UNCHANGED <<remote, gateway, faults, typed, deleted,
                                                    early, had, hadMaster, late>>,
         timer' \subseteq Clients, shared' \subseteq Clients, closed' \subseteq Clients,
         unsent' \subseteq Clients,
         answers' \subseteq answers, \A a \in answers' : a.client \notin closed'
  PROVE  TInv'
<1> DEFINE g == SyncText(file[c])
           r == [id |-> syncs[c] + 1, m |-> g.serverVersion, edits |-> g.editStack]
<1>0. file[c] \in FilesOf(typed) /\ typed \in SUBSET Edits
  BY DEF TInv, PagesT, HistoryT
<1>1. g \in FilesOf(typed)
  BY <1>0, SyncTextIs, Zenon
<1>2. syncs[c] \in Nat /\ r \in Requests(typed)
  <2>1. syncs[c] \in Nat
    BY DEF TInv, SyncsT
  <2> HIDE DEF g
  <2> QED BY <1>1, <2>1 DEF FilesOf, Requests
<1>3. /\ syncs[c] < MaxSyncs[c] /\ syncs' = [syncs EXCEPT ![c] = syncs[c] + 1]
      /\ file' = [file EXCEPT ![c] = g] /\ watchdog' = watchdog \cup {c}
      /\ airborne' = [airborne EXCEPT ![c] = syncs[c] + 1]
      /\ requests' = [requests EXCEPT ![c] = Append(requests[c], r)]
  BY DEF SendSync
<1> HIDE DEF g
<1>4. PagesT'
  BY <1>1, <1>3 DEF TInv, PagesT
<1>5. SyncsT'
  <2>1. syncs[c] + 1 \in Nat /\ syncs[c] + 1 <= MaxSyncs[c]
    BY <1>2, <1>3, BoundsAssumption
  <2> QED BY <1>3, <2>1 DEF TInv, SyncsT
<1>6. GatewayT' /\ HistoryT'
  BY DEF TInv, GatewayT, HistoryT, gateway
<1>7. NetworkT'
  <2>1. requests[c] \in Seq(Requests(typed))
    BY DEF TInv, NetworkT
  <2>2. PICK r2 \in Requests(typed) : r2 = r
    BY <1>2
  <2>3. PICK q : q = Append(requests[c], r2)
    OBVIOUS
  <2>4. /\ q \in Seq(Requests(typed)) /\ Len(q) = Len(requests[c]) + 1 /\ q[Len(requests[c]) + 1] = r2
        /\ \A k \in 1..Len(requests[c]) : q[k] = requests[c][k]
    BY <2>1, <2>3, AppendProperties
  <2>5. requests' = [requests EXCEPT ![c] = q]
    BY <1>3, <2>2, <2>3, Zenon
  <2>6. r2.id = syncs[c] + 1
    BY <2>2
  <2>7. \A k \in 1..Len(q) : q[k].id \in 1..(syncs[c] + 1)
    <3>1. \A k \in 1..Len(requests[c]) : requests[c][k].id \in 1..syncs[c]
      BY DEF TInv, NetworkT
    <3>2. Len(requests[c]) \in Nat
      BY <2>1, LenProperties
    <3>3. PICK n \in Nat : n = Len(requests[c])
      BY <3>2
    <3>4. ASSUME NEW k \in 1..Len(q) PROVE q[k].id \in 1..(syncs[c] + 1)
      <4>1. CASE k = n + 1
        BY <1>2, <2>4, <2>6, <3>3, <4>1
      <4>2. CASE k # n + 1
        <5>1. k \in 1..n
          BY <2>4, <3>3, <4>2
        <5>2. q[k] = requests[c][k] /\ requests[c][k].id \in 1..syncs[c]
          BY <2>4, <3>1, <3>3, <5>1
        <5> QED BY <1>2, <5>2
      <4> QED BY <4>1, <4>2
    <3> QED BY <3>4
  <2>8. requests' \in [Clients -> Seq(Requests(typed))]
    BY <2>4, <2>5 DEF TInv, NetworkT
  <2>9. \A d \in Clients : \A k \in 1..Len(requests'[d]) : requests'[d][k].id \in 1..syncs'[d]
    <3> SUFFICES ASSUME NEW d \in Clients, NEW k \in 1..Len(requests'[d])
                 PROVE  requests'[d][k].id \in 1..syncs'[d]
      OBVIOUS
    <3>1. CASE d = c
      <4>1. requests'[d] = q /\ syncs'[d] = syncs[c] + 1
        BY <1>3, <2>5, <3>1 DEF TInv, NetworkT, SyncsT
      <4> QED BY <2>7, <4>1
    <3>2. CASE d # c
      <4>1. requests'[d] = requests[d] /\ syncs'[d] = syncs[d]
        BY <1>3, <2>5, <3>2 DEF TInv, NetworkT, SyncsT
      <4> QED BY <4>1 DEF TInv, NetworkT
    <3> QED BY <3>1, <3>2
  <2>10. \A a \in answers' : a.client \in Clients /\ a.id \in 1..syncs[a.client]
    BY DEF TInv, NetworkT, Answers
  <2>11. \A a \in answers' : a.id \in 1..syncs'[a.client]
    BY <1>2, <1>3, <2>10 DEF TInv, SyncsT
  <2> QED BY <2>8, <2>9, <2>11 DEF TInv, NetworkT
<1> QED BY <1>4, <1>5, <1>6, <1>7 DEF TInv

LEMMA SyncRun1Typed == ASSUME NEW c \in Clients, TInv, SyncRun1(c) PROVE TInv'
<1>1. /\ SendSync(c) /\ UNCHANGED <<remote, gateway, faults, typed, deleted, early, had, hadMaster, late>>
      /\ timer' = timer \ {c} /\ shared' = shared /\ closed' = closed /\ unsent' = unsent
      /\ answers' = answers
  BY DEF SyncRun1, history
<1>2. /\ timer' \subseteq Clients /\ shared' \subseteq Clients /\ closed' \subseteq Clients
      /\ unsent' \subseteq Clients /\ answers' \subseteq answers
      /\ \A a \in answers' : a.client \notin closed'
  BY <1>1 DEF TInv, PagesT, NetworkT, HistoryT
<1> QED BY <1>1, <1>2, SendSyncTyped, Zenon

LEMMA UnloadTyped == ASSUME NEW c \in Clients, TInv, Unload(c) PROVE TInv'
<1>1. /\ UNCHANGED <<remote, gateway, faults, typed, deleted, early, had, hadMaster, late>>
      /\ timer' = timer /\ shared' = shared /\ closed' = closed \cup {c}
      /\ unsent' \subseteq unsent \cup {c}
      /\ answers' = {a \in answers : a.client # c \/ (remote /\ c \notin closed')}
  BY DEF Unload, Abort
<1>2. /\ timer' \subseteq Clients /\ shared' \subseteq Clients /\ closed' \subseteq Clients
      /\ unsent' \subseteq Clients /\ answers' \subseteq answers
      /\ \A a \in answers' : a.client \notin closed'
  BY <1>1 DEF TInv, PagesT, NetworkT, HistoryT
<1>3. CASE SendSync(c)
  BY <1>1, <1>2, <1>3, SendSyncTyped, Zenon
<1>4. CASE UNCHANGED <<file, watchdog, airborne, syncs, requests>>
  <2>1. /\ watchdog' \subseteq Clients /\ airborne' \in [Clients -> Nat] /\ faults' \in 0..MaxFaults
        /\ requests' \in [Clients -> Seq(Requests(typed))]
    BY <1>1, <1>4 DEF TInv, PagesT, SyncsT, NetworkT
  <2>2. \A d \in Clients : airborne'[d] \in {0, airborne[d]} /\ Shorter(requests'[d], requests[d])
    BY <1>4 DEF Shorter
  <2>3. UNCHANGED <<file, remote, syncs, gateway, typed, deleted, early, had, hadMaster, late>>
    BY <1>1, <1>4
  <2> QED BY <1>2, <2>1, <2>2, <2>3, KeepTyped, Zenon
<1> QED BY <1>3, <1>4 DEF Unload

LEMMA TypeTyped == ASSUME NEW c \in Clients, NEW e \in Edits, TInv, Type(c, e) PROVE TInv'
<1>1. /\ c \notin closed /\ e \notin typed /\ typed' = typed \cup {e}
      /\ file' = [file EXCEPT ![c].text[e] = @ + 1]
      /\ had' = [had EXCEPT ![c] = @ \cup {e}]
      /\ early' = early \cup (IF syncs[c] = 0 THEN {e} ELSE {})
      /\ UNCHANGED <<remote, shared, timer, watchdog, airborne, closed, syncs, exists, master, viewOf,
                     requests, answers, faults, deleted, hadMaster, late, unsent>>
  BY DEF Type, gateway, network
<1>2. /\ TextsOf(typed) \subseteq TextsOf(typed') /\ FilesOf(typed) \subseteq FilesOf(typed')
      /\ Seq(Requests(typed)) \subseteq Seq(Requests(typed')) /\ Views(typed) \subseteq Views(typed')
      /\ Answers(typed) \subseteq Answers(typed')
  <2>1. typed \in SUBSET Edits /\ typed' \in SUBSET Edits /\ typed \subseteq typed'
    BY <1>1 DEF TInv, HistoryT
  <2> QED BY <2>1, Monotone, Zenon
<1>3. file' \in [Clients -> FilesOf(typed')]
  <2>1. file[c] \in FilesOf(typed')
    BY <1>2 DEF TInv, PagesT
  <2>2. PICK t : t = [file[c].text EXCEPT ![e] = @ + 1]
    OBVIOUS
  <2>3. t \in TextsOf(typed')
    BY <1>1, <2>1, <2>2 DEF FilesOf, TextsOf, Texts
  <2>4. file' = [file EXCEPT ![c] = [file[c] EXCEPT !.text = t]]
    BY <1>1, <2>2 DEF TInv, PagesT
  <2>5. [file[c] EXCEPT !.text = t] \in FilesOf(typed')
    BY <2>1, <2>3 DEF FilesOf
  <2> QED BY <1>2, <2>4, <2>5 DEF TInv, PagesT
<1>4. PagesT' /\ SyncsT'
  BY <1>1, <1>3 DEF TInv, PagesT, SyncsT
<1>5. GatewayT'
  BY <1>1, <1>2 DEF TInv, GatewayT
<1>6. NetworkT'
  BY <1>1, <1>2 DEF TInv, NetworkT
<1>7. HistoryT'
  BY <1>1 DEF TInv, HistoryT
<1> QED BY <1>4, <1>5, <1>6, <1>7 DEF TInv

LEMMA DeleteTyped == ASSUME NEW c \in Clients, NEW e \in Edits, TInv, Delete(c, e) PROVE TInv'
<1>1. /\ file[c].text[e] > 0 /\ deleted' = deleted \cup {e}
      /\ file' = [file EXCEPT ![c].text[e] = 0]
      /\ UNCHANGED <<remote, shared, timer, watchdog, airborne, closed, syncs, exists, master, viewOf,
                     requests, answers, faults, typed, early, had, hadMaster, late, unsent>>
  BY DEF Delete, gateway, network
<1>2. file[c] \in FilesOf(typed)
  BY DEF TInv, PagesT
<1>3. file' \in [Clients -> FilesOf(typed)]
  <2>1. PICK t : t = [file[c].text EXCEPT ![e] = 0]
    OBVIOUS
  <2>2. t \in TextsOf(typed)
    BY <1>2, <2>1 DEF FilesOf, TextsOf, Texts
  <2>3. file' = [file EXCEPT ![c] = [file[c] EXCEPT !.text = t]]
    BY <1>1, <2>1 DEF TInv, PagesT
  <2>4. [file[c] EXCEPT !.text = t] \in FilesOf(typed)
    BY <1>2, <2>2 DEF FilesOf
  <2> QED BY <2>3, <2>4 DEF TInv, PagesT
<1>4. PagesT' /\ SyncsT'
  BY <1>1, <1>3 DEF TInv, PagesT, SyncsT
<1>5. GatewayT' /\ NetworkT'
  BY <1>1 DEF TInv, GatewayT, NetworkT
<1>6. HistoryT'
  <2>1. e \in typed
    BY <1>1, <1>2 DEF FilesOf, TextsOf
  <2> QED BY <1>1, <2>1 DEF TInv, HistoryT
<1> QED BY <1>4, <1>5, <1>6 DEF TInv

(* What the gateway makes of a request. *)
Start(w, m, t, x) ==
  LET v == RolledBack(m, w) IN
  [shadow |-> v.shadow, cv |-> v.cv, sv |-> v.sv, backup |-> v.backup, bsv |-> v.bsv,
   ok |-> TRUE, text |-> t, exists |-> x]
Handled(w, r, t, x) == ApplyAll(r.m, Start(w, r.m, t, x), r.edits)
ViewAfter(s) ==
  [shadow |-> s.text, backup |-> s.backup, bsv |-> s.bsv,
   cv |-> IF s.ok THEN s.cv ELSE s.cv + 1, sv |-> IF s.ok THEN s.sv + 1 ELSE s.sv]

LEMMA ServeIs ==
  ASSUME NEW c \in Clients, Serve(c)
  PROVE  LET r == Head(requests[c])
             s == Handled(viewOf[c], r, master, exists)
         IN  /\ requests[c] # <<>> /\ requests' = [requests EXCEPT ![c] = Tail(@)]
             /\ master' = s.text /\ exists' = s.exists
             /\ hadMaster' = hadMaster \cup Here(s.text)
             /\ answers' = answers \cup {a \in {AnswerTo(c, r, s)} : Awaited(a)}
             /\ viewOf' = [viewOf EXCEPT ![c] = ViewAfter(s)]
             /\ UNCHANGED <<client, faults, typed, deleted, early, had, late, unsent>>
BY DEF Serve, Handled, Start, ViewAfter

LEMMA StartTyped ==
  ASSUME NEW D \in SUBSET Edits, NEW w \in Views(D), NEW m \in Nat, NEW t \in TextsOf(D),
         NEW x \in BOOLEAN
  PROVE  Start(w, m, t, x) \in States(D)
<1>1. RolledBack(m, w) \in Views(D)
  BY DEF RolledBack, Views
<1> QED BY <1>1 DEF Start, Views, States

LEMMA ServeTyped == ASSUME NEW c \in Clients, TInv, Serve(c) PROVE TInv'
<1> DEFINE r == Head(requests[c])
           s == Handled(viewOf[c], r, master, exists)
<1>0. typed \in SUBSET Edits /\ requests[c] \in Seq(Requests(typed)) /\ viewOf[c] \in Views(typed)
  BY DEF TInv, HistoryT, NetworkT, GatewayT
<1>1. /\ requests[c] # <<>> /\ requests' = [requests EXCEPT ![c] = Tail(requests[c])]
      /\ master' = s.text /\ exists' = s.exists
      /\ hadMaster' = hadMaster \cup Here(s.text)
      /\ answers' = answers \cup {a \in {AnswerTo(c, r, s)} : Awaited(a)}
      /\ viewOf' = [viewOf EXCEPT ![c] = ViewAfter(s)]
      /\ UNCHANGED <<client, faults, typed, deleted, early, had, late, unsent>>
  BY ServeIs, Zenon
<1>2. /\ r \in Requests(typed) /\ Tail(requests[c]) \in Seq(Requests(typed))
      /\ \A k \in 1..Len(Tail(requests[c])) : Tail(requests[c])[k] = requests[c][k+1]
      /\ Len(Tail(requests[c])) = Len(requests[c]) - 1 /\ Len(requests[c]) \in Nat \ {0}
      /\ r = requests[c][1]
  BY <1>0, <1>1, HeadTailProperties, LenProperties, EmptySeq
<1>3. s \in States(typed)
  <2>1. r.m \in Nat /\ r.edits \in Seq(Entries(typed))
    BY <1>2 DEF Requests
  <2>2. Start(viewOf[c], r.m, master, exists) \in States(typed)
    BY <1>0, <2>1, StartTyped DEF TInv, GatewayT
  <2> QED BY <1>0, <2>1, <2>2, ApplyAllTyped DEF Handled
<1>4. r.id \in 1..syncs[c]
  BY <1>2 DEF TInv, NetworkT
<1> HIDE DEF s, r
<1>5. GatewayT'
  <2>1. ViewAfter(s) \in Views(typed)
    BY <1>3 DEF ViewAfter, States, Views
  <2>2. s.text \in TextsOf(typed) /\ s.exists \in BOOLEAN
    BY <1>3 DEF States
  <2> QED BY <1>1, <2>1, <2>2 DEF TInv, GatewayT
<1>6. Here(s.text) \subseteq typed
  BY <1>3 DEF Here, States, TextsOf
<1>7. PagesT' /\ SyncsT' /\ HistoryT'
  BY <1>1, <1>6 DEF TInv, PagesT, SyncsT, HistoryT, client
<1>8. AnswerTo(c, r, s) \in Answers(typed) /\ AnswerTo(c, r, s).client = c
        /\ AnswerTo(c, r, s).id = r.id
  <2>1. /\ Length(s.shadow) \in Nat /\ Diff(s.shadow, s.text) \in DiffsOf(typed)
        /\ s.text \in DiffsOf(typed) /\ s.text \in TextsOf(typed)
    BY <1>0, <1>3, DiffsTyped DEF States
  <2>2. s.cv \in Nat /\ s.cv + 1 \in Nat /\ s.sv \in Nat /\ r.id \in Nat /\ hadMaster' \subseteq typed
    <3>1. hadMaster' \subseteq typed
      BY <1>1, <1>7 DEF HistoryT
    <3>2. s.cv \in Nat /\ s.sv \in Nat
      BY <1>3 DEF States
    <3>3. r.id \in Nat
      BY <1>2 DEF Requests
    <3> QED BY <3>1, <3>2, <3>3
  <2>3. CASE s.ok
    BY <2>1, <2>2, <2>3 DEF AnswerTo, Answers
  <2>4. CASE ~s.ok
    BY <2>1, <2>2, <2>4 DEF AnswerTo, Answers
  <2> QED BY <2>3, <2>4
<1>9. NetworkT'
  <2>1. requests' \in [Clients -> Seq(Requests(typed))] /\ faults' \in 0..MaxFaults
    BY <1>1, <1>2 DEF TInv, NetworkT
  <2>2. answers' \subseteq Answers(typed)
    BY <1>1, <1>8 DEF TInv, NetworkT
  <2>3. \A a \in answers' : a.client \notin closed /\ a.id \in 1..syncs[a.client]
    <3>1. \A a \in answers : a.client \notin closed /\ a.id \in 1..syncs[a.client]
      BY DEF TInv, NetworkT
    <3>2. PICK b : b = AnswerTo(c, r, s)
      OBVIOUS
    <3>3. \A a \in answers' : a \in answers \/ (a = b /\ Awaited(b))
      BY <1>1, <3>2, Zenon
    <3>4. b.client = c /\ b.id = r.id
      BY <1>8, <3>2, Zenon
    <3>5. Awaited(b) => b.client \notin closed
      BY DEF Awaited
    <3> QED BY <1>4, <3>1, <3>3, <3>4, <3>5
  <2>4. \A d \in Clients : \A k \in 1..Len(requests'[d]) : requests'[d][k].id \in 1..syncs[d]
    <3> SUFFICES ASSUME NEW d \in Clients, NEW k \in 1..Len(requests'[d])
                 PROVE  requests'[d][k].id \in 1..syncs[d]
      OBVIOUS
    <3>1. CASE d = c
      <4>1. requests'[d] = Tail(requests[c])
        BY <1>1, <3>1 DEF TInv, NetworkT
      <4>2. k + 1 \in 1..Len(requests[c])
        BY <1>2, <4>1
      <4>3. requests'[d][k] = requests[c][k+1]
        BY <1>2, <4>1
      <4> QED BY <3>1, <4>2, <4>3 DEF TInv, NetworkT
    <3>2. CASE d # c
      <4>1. requests'[d] = requests[d]
        BY <1>1, <3>2 DEF TInv, NetworkT
      <4> QED BY <4>1 DEF TInv, NetworkT
    <3> QED BY <3>1, <3>2
  <2> QED BY <1>1, <2>1, <2>2, <2>3, <2>4 DEF NetworkT, client
<1> QED BY <1>5, <1>7, <1>9 DEF TInv

(* What an answer makes of a file. *)
Received(f, a) ==
  IF a.kind = "R" THEN RawLine(FileLine(f, a), a) ELSE DeltaLine(FileLine(f, a), a)

LEMMA SyncRun2Typed == ASSUME NEW a \in answers, TInv, SyncRun2(a) PROVE TInv'
<1> DEFINE c == a.client
           g == Received(file[c], a)
<1>0. typed \in SUBSET Edits /\ a \in Answers(typed) /\ c \in Clients /\ file[c] \in FilesOf(typed)
  BY DEF TInv, HistoryT, NetworkT, PagesT, Answers
<1>1. /\ answers' = answers \ {a} /\ file' = [file EXCEPT ![c] = g]
      /\ had' = [had EXCEPT ![c] = (IF a.kind = "R" THEN a.had ELSE had[c]) \cup Here(g.text)]
      /\ late' = late \cup (IF a.id = airborne[c] THEN {} ELSE {c})
      /\ timer' = timer \cup {c} /\ watchdog' = watchdog \ {c}
      /\ airborne' = [airborne EXCEPT ![c] = 0]
      /\ UNCHANGED <<remote, shared, closed, syncs, exists, master, viewOf, requests, faults,
                     typed, deleted, early, hadMaster, unsent>>
  BY DEF SyncRun2, EndSync, Received, gateway
<1>2. g \in FilesOf(typed)
  <2>1. FileLine(file[c], a) \in FilesOf(typed)
    BY <1>0, LinesTyped, Zenon
  <2>2. a.kind = "R" => RawLine(FileLine(file[c], a), a) \in FilesOf(typed)
    BY <1>0, <2>1, LinesTyped, Zenon
  <2>3. DeltaLine(FileLine(file[c], a), a) \in FilesOf(typed)
    BY <1>0, <2>1, LinesTyped, Zenon
  <2> QED BY <2>2, <2>3, Zenon DEF Received
<1> HIDE DEF g
<1>3. PagesT'
  BY <1>0, <1>1, <1>2 DEF TInv, PagesT
<1>4. SyncsT'
  BY <1>0, <1>1 DEF TInv, SyncsT
<1>5. GatewayT'
  BY <1>1 DEF TInv, GatewayT
<1>6. NetworkT'
  BY <1>1 DEF TInv, NetworkT
<1>7. HistoryT'
  <2>1. Here(g.text) \subseteq typed
    BY <1>2 DEF Here, FilesOf, TextsOf
  <2>2. a.had \subseteq typed /\ had[c] \subseteq typed
    BY <1>0 DEF Answers, TInv, HistoryT
  <2> QED BY <1>0, <1>1, <2>1, <2>2 DEF TInv, HistoryT
<1> QED BY <1>3, <1>4, <1>5, <1>6, <1>7 DEF TInv

LEMMA NextTyped == ASSUME TInv, [Next]_vars PROVE TInv'
<1>1. ASSUME NEW c \in Clients, Share(c) \/ SyncRun1(c) \/ SyncKill(c) \/ Unload(c)
                                \/ Serve(c) \/ LoseRequest(c)
      PROVE  TInv'
  BY <1>1, ShareTyped, SyncRun1Typed, SyncKillTyped, UnloadTyped, ServeTyped, LoseRequestTyped, Zenon
<1>2. ASSUME NEW c \in Clients, NEW e \in Edits, Type(c, e) \/ Delete(c, e) PROVE TInv'
  BY <1>2, TypeTyped, DeleteTyped, Zenon
<1>3. ASSUME NEW a \in answers,
             LoseAnswer(a) \/ SyncRun2(a) \/ SyncRun2Truncated(a) \/ SyncFailed(a)
      PROVE  TInv'
  BY <1>3, NoAnswerTyped, SyncRun2Typed, Zenon
<1>4. ASSUME UNCHANGED vars PROVE TInv'
  <2>1. PagesT'
    BY <1>4 DEF vars, client, TInv, PagesT, history
  <2>2. SyncsT' /\ GatewayT'
    BY <1>4 DEF vars, client, gateway, TInv, SyncsT, GatewayT, history
  <2>3. NetworkT' /\ HistoryT'
    BY <1>4 DEF vars, client, network, history, TInv, NetworkT, HistoryT
  <2> QED BY <2>1, <2>2, <2>3 DEF TInv
<1> QED BY <1>1, <1>2, <1>3, <1>4 DEF Next

-----------------------------------------------------------------------------
(* What a client that did not act on a late answer has in common with the    *)
(* gateway.  P are its texts along the edit stack: the last one it knows the *)
(* server to have, the shadow, and those between, of which the stack has the *)
(* differences.                                                              *)

Base(f) == f.clientVersion - Len(f.editStack)
Seen(f, w) == w.cv - Base(f)

DiffEntry(x, base, P, i) ==
  /\ x.kind = "d" /\ x.v = base + i - 1
  /\ x.of = Length(P[i-1]) /\ x.body = Diff(P[i-1], P[i])
WholeEntry(x, base, P, i) ==
  x.kind = "r" /\ i = 1 /\ base = 0 /\ x.v = 1 /\ x.body = P[1] /\ P[0] = Empty

StackOf(f, P) ==
  /\ P \in [0..Len(f.editStack) -> Texts] /\ P[Len(f.editStack)] = f.shadowText
  /\ Base(f) \in Nat
  /\ \A i \in 1..Len(f.editStack) :
       DiffEntry(f.editStack[i], Base(f), P, i) \/ WholeEntry(f.editStack[i], Base(f), P, i)
  /\ ~f.deltaOk => /\ f.editStack = <<>> /\ f.clientVersion = 0 /\ f.serverVersion = 0
                   /\ f.shadowText = Empty

(* The gateway has the client's oldest text, or it has applied edits of the  *)
(* stack and answered, and keeps the last text that it made of them.         *)
Fresh(f, w, P) == w.sv = f.serverVersion /\ Seen(f, w) = 0 /\ w.shadow = P[0]
Ahead(f, w, P) ==
  /\ w.sv = f.serverVersion + 1 /\ w.bsv = f.serverVersion
  /\ Seen(f, w) \in 1..Len(f.editStack) /\ w.backup = P[Seen(f, w)]

(* A request has the stack as it was when it was sent. *)
RequestOf(f, r, n) ==
  /\ r.m = f.serverVersion /\ Len(r.edits) \in 1..Len(f.editStack)
  /\ \A i \in 1..Len(r.edits) : r.edits[i] = f.editStack[i]
  /\ r.id \in 1..n /\ (r.id = n => Len(r.edits) = Len(f.editStack))
QueueOf(f, q, n) ==
  /\ \A k \in 1..Len(q) : RequestOf(f, q[k], n)
  /\ \A j, k \in 1..Len(q) : j < k => q[j].id < q[k].id

Link(f, w, q, n, P) ==
  /\ StackOf(f, P) /\ (f.deltaOk \/ n = 0) /\ (Fresh(f, w, P) \/ Ahead(f, w, P))
  /\ QueueOf(f, q, n)

(* The answer that is waited for brings the client's shadow to the gateway's. *)
AnswerFor(f, w, q, P, a) ==
  /\ q = <<>> /\ Ahead(f, w, P) /\ Seen(f, w) = Len(f.editStack)
  /\ a.kind = "d" /\ a.cv = f.clientVersion /\ a.v = f.serverVersion
  /\ a.of = Length(f.shadowText) /\ a.body = Diff(f.shadowText, w.shadow)

Linked(c, P) ==
  /\ Link(file[c], viewOf[c], requests[c], syncs[c], P)
  /\ \A a \in answers : a.client = c /\ a.id = airborne[c] =>
       AnswerFor(file[c], viewOf[c], requests[c], P, a)

LinksInv == \A c \in Clients \ late : \E P : Linked(c, P)

(* A sync. *)
Grown(f, P) ==
  [i \in 0..Len(SyncText(f).editStack) |-> IF i <= Len(f.editStack) THEN P[i] ELSE f.text]

LEMMA GrownIs ==
  ASSUME NEW D \in SUBSET Edits, NEW f \in FilesOf(D), NEW P, StackOf(f, P)
  PROVE  LET g == SyncText(f) IN
         /\ Base(g) = Base(f) /\ Len(g.editStack) \in Nat \ {0} /\ Len(f.editStack) \in Nat
         /\ \/ Len(g.editStack) = Len(f.editStack) /\ f.text = f.shadowText
            \/ Len(g.editStack) = Len(f.editStack) + 1
         /\ \A i \in 1..Len(f.editStack) : g.editStack[i] = f.editStack[i]
         /\ \A i \in 0..Len(f.editStack) : Grown(f, P)[i] = P[i]
         /\ Grown(f, P)[Len(g.editStack)] = f.text
         /\ StackOf(g, Grown(f, P))
<1> DEFINE g == SyncText(f)
           L == Len(f.editStack)
           M == Len(g.editStack)
           Q == Grown(f, P)
<1>1. /\ g \in FilesOf(D) /\ g.shadowText = f.text /\ g.deltaOk
      /\ \/ /\ f.deltaOk /\ g = f /\ f.editStack # <<>>
         \/ /\ f.deltaOk /\ g.clientVersion = f.clientVersion + 1
            /\ g.editStack = Append(f.editStack, DeltaOf(f))
         \/ /\ ~f.deltaOk /\ g.clientVersion = f.clientVersion + 1
            /\ g.editStack = Append(f.editStack, WholeOf(f))
  BY SyncTextIs, Zenon
<1>2. /\ f.editStack \in Seq(Entries(D)) /\ g.editStack \in Seq(Entries(D)) /\ L \in Nat /\ M \in Nat
      /\ f.clientVersion \in Nat /\ f.text \in Texts /\ f.shadowText \in Texts
  BY <1>1, LenProperties DEF FilesOf, TextsOf
<1>3. DeltaOf(f) \in Entries(D) /\ WholeOf(f) \in Entries(D)
  BY DeltaOfTyped, WholeOfTyped
<1>4. ASSUME NEW x \in Entries(D), g.editStack = Append(f.editStack, x)
      PROVE  M = L + 1 /\ g.editStack[L+1] = x /\ \A i \in 1..L : g.editStack[i] = f.editStack[i]
  <2>1. PICK E : E = Append(f.editStack, x)
    OBVIOUS
  <2>2. Len(E) = L + 1 /\ E[L+1] = x /\ \A i \in 1..L : E[i] = f.editStack[i]
    BY <1>2, <2>1, AppendProperties
  <2> QED BY <1>4, <2>1, <2>2, Zenon
<1>5. \/ /\ f.deltaOk /\ g = f /\ f.editStack # <<>> /\ M = L
      \/ /\ f.deltaOk /\ g.clientVersion = f.clientVersion + 1 /\ M = L + 1
         /\ g.editStack[L+1] = DeltaOf(f) /\ \A i \in 1..L : g.editStack[i] = f.editStack[i]
      \/ /\ ~f.deltaOk /\ g.clientVersion = f.clientVersion + 1 /\ M = L + 1
         /\ g.editStack[L+1] = WholeOf(f) /\ \A i \in 1..L : g.editStack[i] = f.editStack[i]
  BY <1>1, <1>3, <1>4, Zenon
<1>6. Q = [i \in 0..M |-> IF i <= L THEN P[i] ELSE f.text]
  BY Zenon DEF Grown
<1>7. f.editStack # <<>> => L # 0
  BY <1>2, EmptySeq
<1>8. P \in [0..L -> Texts] /\ P[L] = f.shadowText /\ f.clientVersion - L \in Nat
  BY DEF StackOf, Base
<1>9. DiffEntry(DeltaOf(f), Base(f), Q, L + 1) \/ M = L
  <2> SUFFICES ASSUME M # L PROVE DiffEntry(DeltaOf(f), Base(f), Q, L + 1)
    OBVIOUS
  <2>1. Q[L] = f.shadowText /\ Q[L+1] = f.text
    <3>1. M = L + 1
      BY <1>5
    <3> HIDE DEF Q, M
    <3> QED BY <1>2, <1>6, <1>8, <3>1
  <2>2. (L + 1) - 1 = L /\ Base(f) + (L + 1) - 1 = f.clientVersion
    BY <1>2 DEF Base
  <2> HIDE DEF Q
  <2> QED BY <2>1, <2>2 DEF DeltaOf, DiffEntry
<1>10. ~f.deltaOk => WholeEntry(WholeOf(f), Base(f), Q, L + 1)
  <2> SUFFICES ASSUME ~f.deltaOk PROVE WholeEntry(WholeOf(f), Base(f), Q, L + 1)
    OBVIOUS
  <2>1. L = 0 /\ f.clientVersion = 0 /\ f.shadowText = Empty
    BY EmptySeq DEF StackOf
  <2>2. M = 1
    BY <1>5, <2>1
  <2>3. Q[0] = P[0] /\ Q[1] = f.text
    <3> HIDE DEF Q, M, L
    <3> QED BY <1>6, <2>1, <2>2
  <2>4. Base(f) = 0
    BY <2>1 DEF Base
  <2> HIDE DEF Q
  <2> QED BY <1>8, <2>1, <2>3, <2>4 DEF WholeOf, WholeEntry
<1>11. M = L \/ M = L + 1
  BY <1>5
<1>12. Base(g) = Base(f) /\ M # 0
  <2>1. Base(g) = g.clientVersion - M /\ Base(f) = f.clientVersion - L
    BY Zenon DEF Base
  <2>2. \/ g.clientVersion = f.clientVersion /\ M = L /\ L # 0
        \/ g.clientVersion = f.clientVersion + 1 /\ M = L + 1
    BY <1>5, <1>7, Zenon
  <2> HIDE DEF g, M, L
  <2> QED BY <1>2, <2>1, <2>2
<1>13. \A i \in 1..L : g.editStack[i] = f.editStack[i]
  BY <1>5
<1>14. M = L => f.text = f.shadowText
  <2>1. M = L => g = f
    BY <1>2, <1>5
  <2> QED BY <1>1, <2>1
<1>15. Q \in [0..M -> Texts] /\ (\A i \in 0..L : Q[i] = P[i]) /\ Q[M] = f.text
  <2> HIDE DEF Q, M, L
  <2> QED BY <1>2, <1>6, <1>8, <1>11, <1>14
<1>16. \A i \in 1..M : DiffEntry(g.editStack[i], Base(g), Q, i) \/ WholeEntry(g.editStack[i], Base(g), Q, i)
  <2> SUFFICES ASSUME NEW i \in 1..M
               PROVE  DiffEntry(g.editStack[i], Base(f), Q, i) \/ WholeEntry(g.editStack[i], Base(f), Q, i)
    BY <1>12
  <2>1. CASE i \in 1..L
    <3>1. DiffEntry(f.editStack[i], Base(f), P, i) \/ WholeEntry(f.editStack[i], Base(f), P, i)
      BY <2>1 DEF StackOf
    <3>2. i - 1 \in 0..L /\ i \in 0..L /\ (i = 1 => 0 \in 0..L /\ 1 \in 0..L)
      BY <1>2, <2>1
    <3>3. Q[i-1] = P[i-1] /\ Q[i] = P[i] /\ (i = 1 => Q[0] = P[0] /\ Q[1] = P[1])
      BY <1>15, <3>2, Zenon
    <3> HIDE DEF Q, g
    <3> QED BY <1>13, <2>1, <3>1, <3>3, Zenon DEF DiffEntry, WholeEntry
  <2>2. CASE i \notin 1..L
    <3>1. i = L + 1 /\ M = L + 1
      BY <1>2, <1>11, <2>2
    <3>2. M # L
      BY <1>2, <3>1
    <3>3. \/ g.editStack[L+1] = DeltaOf(f)
          \/ ~f.deltaOk /\ g.editStack[L+1] = WholeOf(f)
      BY <1>5, <3>2
    <3> HIDE DEF Q, g, L, M
    <3> QED BY <1>9, <1>10, <3>1, <3>2, <3>3
  <2> QED BY <2>1, <2>2
<1>17. StackOf(g, Q)
  <2> HIDE DEF Q, g
  <2> QED BY <1>1, <1>8, <1>12, <1>15, <1>16 DEF StackOf, Base
<1> HIDE DEF Q, g, L, M
<1> QED BY <1>2, <1>11, <1>12, <1>13, <1>14, <1>15, <1>17 DEF Q, g, L, M

LEMMA SyncTextLink ==
  ASSUME NEW D \in SUBSET Edits, NEW f \in FilesOf(D), NEW w \in Views(D),
         NEW q \in Seq(Requests(D)), NEW n \in Nat, NEW P, Link(f, w, q, n, P)
  PROVE  LET g == SyncText(f)
             r == [id |-> n + 1, m |-> g.serverVersion, edits |-> g.editStack]
         IN  Link(g, w, Append(q, r), n + 1, Grown(f, P)) /\ Seen(g, w) = Seen(f, w)
<1> DEFINE g == SyncText(f)
           L == Len(f.editStack)
           M == Len(g.editStack)
           Q == Grown(f, P)
           r == [id |-> n + 1, m |-> g.serverVersion, edits |-> g.editStack]
           p == Seen(f, w)
<1>1. /\ Base(g) = Base(f) /\ M \in Nat \ {0} /\ L \in Nat /\ (M = L \/ M = L + 1)
      /\ \A i \in 1..L : g.editStack[i] = f.editStack[i]
      /\ \A i \in 0..L : Q[i] = P[i]
      /\ StackOf(g, Q)
  BY GrownIs, Zenon DEF Link
<1>2. g \in FilesOf(D) /\ g.deltaOk /\ g.serverVersion = f.serverVersion
  BY SyncTextIs, Zenon
<1>3. p = Seen(g, w)
  <2> HIDE DEF g
  <2> QED BY <1>1 DEF Seen
<1>4. Fresh(f, w, P) => Fresh(g, w, Q)
  <2> HIDE DEF g, Q, M, L
  <2> QED BY <1>1, <1>2, <1>3 DEF Fresh
<1>5. Ahead(f, w, P) => Ahead(g, w, Q)
  <2> SUFFICES ASSUME Ahead(f, w, P) PROVE Ahead(g, w, Q)
    OBVIOUS
  <2>1. p \in 1..L /\ w.backup = P[p] /\ w.sv = f.serverVersion + 1 /\ w.bsv = f.serverVersion
    BY DEF Ahead
  <2>2. p \in 1..M /\ p \in 0..L
    <3> HIDE DEF p, M, L, g
    <3> QED BY <1>1, <2>1
  <2>3. w.backup = Q[p]
    BY <1>1, <2>1, <2>2, Zenon
  <2> HIDE DEF g, Q, p
  <2> QED BY <1>2, <1>3, <2>1, <2>2, <2>3, Zenon DEF Ahead
<1>6. PICK u : u = r
  OBVIOUS
<1>7. u \in Requests(D) /\ u.id = n + 1 /\ u.m = f.serverVersion /\ u.edits = g.editStack
  <2>1. r \in Requests(D)
    <3> HIDE DEF g
    <3> QED BY <1>2 DEF FilesOf, Requests
  <2> HIDE DEF g
  <2> QED BY <1>2, <1>6, <2>1
<1>8. PICK q2 : q2 = Append(q, u)
  OBVIOUS
<1>9. /\ Len(q) \in Nat /\ Len(q2) = Len(q) + 1 /\ q2[Len(q) + 1] = u
      /\ \A k \in 1..Len(q) : q2[k] = q[k]
  BY <1>7, <1>8, AppendProperties, LenProperties
<1>10. RequestOf(g, u, n + 1)
  <2> HIDE DEF g
  <2> QED BY <1>1, <1>2, <1>7 DEF RequestOf
<1>11. ASSUME NEW k \in 1..Len(q) PROVE RequestOf(g, q[k], n + 1) /\ q[k].id < n + 1
  <2>1. RequestOf(f, q[k], n)
    BY DEF Link, QueueOf
  <2>2. /\ q[k].m = g.serverVersion /\ Len(q[k].edits) \in 1..L
        /\ \A i \in 1..Len(q[k].edits) : q[k].edits[i] = f.editStack[i]
        /\ q[k].id \in 1..n
    BY <1>2, <2>1 DEF RequestOf
  <2>3. Len(q[k].edits) \in 1..M /\ 1..Len(q[k].edits) \subseteq 1..L
    <3> HIDE DEF g, L, M
    <3> QED BY <1>1, <2>2
  <2>4. \A i \in 1..Len(q[k].edits) : q[k].edits[i] = g.editStack[i]
    BY <1>1, <2>2, <2>3, Zenon
  <2>5. q[k].id \in 1..(n+1) /\ q[k].id < n + 1 /\ q[k].id # n + 1
    BY <2>2
  <2> HIDE DEF g
  <2> QED BY <2>2, <2>3, <2>4, <2>5 DEF RequestOf
<1>12. QueueOf(g, q2, n + 1)
  <2>1. ASSUME NEW k \in 1..Len(q2) PROVE RequestOf(g, q2[k], n + 1)
    <3> HIDE DEF g
    <3>1. CASE k = Len(q) + 1
      BY <1>9, <1>10, <3>1
    <3>2. CASE k # Len(q) + 1
      <4>1. k \in 1..Len(q)
        BY <1>9, <3>2
      <4> QED BY <1>9, <1>11, <4>1
    <3> QED BY <3>1, <3>2
  <2>2. ASSUME NEW j \in 1..Len(q2), NEW k \in 1..Len(q2), j < k PROVE q2[j].id < q2[k].id
    <3>1. j \in 1..Len(q)
      BY <1>9, <2>2
    <3>2. CASE k = Len(q) + 1
      BY <1>7, <1>9, <1>11, <3>1, <3>2
    <3>3. CASE k # Len(q) + 1
      <4>1. k \in 1..Len(q)
        BY <1>9, <3>3
      <4> QED BY <1>9, <2>2, <3>1, <4>1 DEF Link, QueueOf
    <3> QED BY <3>2, <3>3
  <2> HIDE DEF g
  <2> QED BY <2>1, <2>2 DEF QueueOf
<1>13. Link(g, w, q2, n + 1, Q)
  <2> HIDE DEF g, Q
  <2> QED BY <1>1, <1>2, <1>4, <1>5, <1>12 DEF Link
<1> HIDE DEF g, Q
<1> QED BY <1>3, <1>6, <1>8, <1>13 DEF g, Q

(* The gateway. *)
At(f, P, s, h) ==
  /\ s.ok /\ s.shadow = P[h] /\ s.cv = Base(f) + h /\ s.sv = f.serverVersion
  /\ h # 0 => s.backup = P[h] /\ s.bsv = f.serverVersion

(* The shared text after an edit of the stack that the gateway had not seen. *)
TextWith(s, e, P, i) ==
  IF e.kind = "r" THEN IF s.exists THEN s.text ELSE P[i]
  ELSE Patched(s.text, Diff(P[i-1], P[i]))

(* The i-th edit of the stack, when the gateway has seen h of them. *)
Stepped(f, P, s, t, i, h) ==
  IF i = h + 1
  THEN /\ At(f, P, t, i) /\ t.text = TextWith(s, f.editStack[i], P, i)
       /\ t.exists = (s.exists \/ f.editStack[i].kind = "r")
  ELSE t = s

LEMMA ApplyLink ==
  ASSUME NEW D \in SUBSET Edits, NEW f \in FilesOf(D), NEW P, StackOf(f, P),
         NEW s \in States(D), NEW i \in 1..Len(f.editStack), NEW h \in 0..Len(f.editStack),
         At(f, P, s, h), i <= h + 1
  PROVE  Stepped(f, P, s, Apply(f.serverVersion, s, f.editStack[i]), i, h)
<1> USE DEF Stepped
<1> DEFINE e == f.editStack[i]
           m == f.serverVersion
           b == Base(f)
           L == Len(f.editStack)
<1>1. /\ e \in Entries(D) /\ L \in Nat /\ b \in Nat /\ m \in Nat /\ i \in Nat /\ h \in Nat
      /\ P \in [0..L -> Texts] /\ e.v \in Nat
  <2>1. f.editStack \in Seq(Entries(D))
    BY DEF FilesOf
  <2>2. e \in Entries(D) /\ L \in Nat
    BY <2>1, ElementOfSeq, LenProperties
  <2> QED BY <2>2 DEF FilesOf, StackOf, Entries
<1>2. s.shadow = P[h] /\ s.cv = b + h /\ s.sv = m /\ s.ok
  BY DEF At
<1>3. CASE WholeEntry(e, b, P, i)
  <2>1. e.kind = "r" /\ i = 1 /\ b = 0 /\ e.v = 1 /\ e.body = P[1] /\ P[0] = Empty
    BY <1>3 DEF WholeEntry
  <2>2. CASE i = h + 1
    <3>1. e.v > s.cv /\ h = 0
      BY <1>1, <1>2, <2>1, <2>2
    <3>2. Apply(m, s, e) = [s EXCEPT !.shadow = e.body, !.backup = e.body, !.cv = e.v, !.sv = m,
                              !.bsv = m, !.ok = TRUE, !.text = IF s.exists THEN @ ELSE e.body,
                              !.exists = TRUE]
      BY <2>1, <3>1, Zenon DEF Apply
    <3>3. e.v = b + i
      BY <2>1
    <3> HIDE DEF e, m, b
    <3>4. At(f, P, Apply(m, s, e), i)
      BY <2>1, <3>2, <3>3 DEF At, States, m, b
    <3>5. Apply(m, s, e).text = TextWith(s, e, P, i) /\ Apply(m, s, e).exists = TRUE
      BY <2>1, <3>2 DEF TextWith, States
    <3> QED BY <2>1, <2>2, <3>4, <3>5 DEF e, m, b
  <2>3. CASE i # h + 1
    <3>1. ~(e.v > s.cv)
      BY <1>1, <1>2, <2>1, <2>3
    <3>2. e.kind # "d"
      BY <2>1
    <3>3. Apply(m, s, e) = s
      BY <3>1, <3>2, Zenon DEF Apply
    <3> QED BY <2>3, <3>3
  <2> QED BY <2>2, <2>3
<1>4. CASE DiffEntry(e, b, P, i)
  <2>1. e.kind = "d" /\ e.v = b + i - 1 /\ e.of = Length(P[i-1]) /\ e.body = Diff(P[i-1], P[i])
    BY <1>4 DEF DiffEntry
  <2>2. e.kind # "r"
    BY <2>1
  <2>3. CASE i = h + 1
    <3>1. e.v = s.cv /\ i - 1 = h /\ ~(e.v > s.cv) /\ m = s.sv
      BY <1>1, <1>2, <2>1, <2>3
    <3>2. Fits(e, s.shadow)
      BY <1>2, <2>1, <3>1 DEF Fits
    <3>3. Patched(s.shadow, e.body) = P[i]
      <4>1. P[i-1] \in Texts /\ P[i] \in Texts
        BY <1>1
      <4>2. s.shadow = P[i-1]
        BY <1>2, <3>1
      <4> QED BY <2>1, <4>1, <4>2, PatchedDiff
    <3>4. Apply(m, s, e) = [s EXCEPT !.shadow = P[i], !.backup = P[i], !.cv = @ + 1, !.bsv = m,
                                     !.text = Patched(@, e.body)]
      BY <2>1, <2>2, <3>1, <3>2, <3>3, Zenon DEF Apply
    <3>5. PICK j : j = s.cv + 1
      OBVIOUS
    <3>6. j = b + i
      BY <1>1, <1>2, <2>3, <3>5
    <3>7. Apply(m, s, e) = [s EXCEPT !.shadow = P[i], !.backup = P[i], !.cv = j, !.bsv = m,
                                     !.text = Patched(s.text, e.body)]
      BY <3>4, <3>5, Zenon
    <3> HIDE DEF e, m, b
    <3>8. At(f, P, Apply(m, s, e), i)
      BY <1>2, <3>6, <3>7 DEF At, States, m, b
    <3>9. Apply(m, s, e).text = TextWith(s, e, P, i) /\ Apply(m, s, e).exists = s.exists
      BY <2>1, <2>2, <3>7 DEF TextWith, States
    <3>10. s.exists \in BOOLEAN
      BY DEF States
    <3> QED BY <2>2, <2>3, <3>8, <3>9, <3>10 DEF e, m, b
  <2>4. CASE i # h + 1
    <3>1. ~(e.v > s.cv) /\ e.v # s.cv /\ m = s.sv
      BY <1>1, <1>2, <2>1, <2>4
    <3>2. Apply(m, s, e) = s
      BY <2>1, <2>2, <3>1, Zenon DEF Apply
    <3> QED BY <2>4, <3>2
  <2> QED BY <2>3, <2>4
<1> QED BY <1>3, <1>4 DEF StackOf

Top(p, j) == IF p < j THEN j ELSE p

LEMMA StartAt ==
  ASSUME NEW D \in SUBSET Edits, NEW f \in FilesOf(D), NEW w \in Views(D), NEW P, StackOf(f, P),
         Fresh(f, w, P) \/ Ahead(f, w, P), NEW t \in TextsOf(D), NEW x \in BOOLEAN
  PROVE  LET s == Start(w, f.serverVersion, t, x) IN
         At(f, P, s, Seen(f, w)) /\ s.text = t /\ s.exists = x /\ Seen(f, w) \in 0..Len(f.editStack)
<1> DEFINE v == RolledBack(f.serverVersion, w)
           s == Start(w, f.serverVersion, t, x)
           p == Seen(f, w)
<1>1. /\ s.shadow = v.shadow /\ s.cv = v.cv /\ s.sv = v.sv /\ s.backup = v.backup /\ s.bsv = v.bsv
      /\ s.ok = TRUE /\ s.text = t /\ s.exists = x
  BY DEF Start
<1>2. f.serverVersion \in Nat /\ Len(f.editStack) \in Nat /\ w.cv \in Nat /\ Base(f) \in Nat
  <2>1. f.editStack \in Seq(Entries(D))
    BY DEF FilesOf
  <2>2. Len(f.editStack) \in Nat
    BY <2>1, LenProperties
  <2> QED BY <2>2 DEF FilesOf, Views, StackOf
<1>3. w.cv = Base(f) + p
  BY <1>2 DEF Seen
<1>4. CASE Fresh(f, w, P)
  <2>1. v = w
    BY <1>4 DEF Fresh, RolledBack
  <2>2. p = 0
    BY <1>4 DEF Fresh
  <2> HIDE DEF s, v, p
  <2> QED BY <1>1, <1>2, <1>3, <1>4, <2>1, <2>2 DEF At, Fresh, p, s
<1>5. CASE Ahead(f, w, P)
  <2>1. /\ f.serverVersion # w.sv /\ f.serverVersion = w.bsv /\ p \in 1..Len(f.editStack)
        /\ w.backup = P[p]
    BY <1>2, <1>5 DEF Ahead
  <2>2. v = [w EXCEPT !.shadow = w.backup, !.sv = w.bsv]
    BY <2>1 DEF RolledBack
  <2>3. /\ v.shadow = w.backup /\ v.sv = w.bsv /\ v.cv = w.cv /\ v.backup = w.backup /\ v.bsv = w.bsv
    BY <2>2 DEF Views
  <2> HIDE DEF s, v, p
  <2> QED BY <1>1, <1>2, <1>3, <2>1, <2>3 DEF At, p, s
<1> QED BY <1>4, <1>5

(* F is the state of the gateway after each edit of a request. *)
Along(f, w, P, r, t, x, F) ==
  /\ F[Len(r.edits)] = Handled(w, r, t, x) /\ F[0].text = t /\ F[0].exists = x
  /\ \A j \in 0..Len(r.edits) : At(f, P, F[j], Top(Seen(f, w), j))
  /\ \A j \in 1..Len(r.edits) :
       IF Seen(f, w) < j
       THEN /\ F[j].text = TextWith(F[j-1], f.editStack[j], P, j)
            /\ F[j].exists = (F[j-1].exists \/ f.editStack[j].kind = "r")
       ELSE F[j] = F[j-1]

RunsAlong(f, w, P, r, t, x, D) ==
  \E F : Along(f, w, P, r, t, x, F) /\ \A j \in 0..Len(r.edits) : F[j] \in States(D)

LEMMA RunOf ==
  ASSUME NEW D \in SUBSET Edits, NEW f \in FilesOf(D), NEW w \in Views(D), NEW P, StackOf(f, P),
         Fresh(f, w, P) \/ Ahead(f, w, P), NEW t \in TextsOf(D), NEW x \in BOOLEAN,
         NEW n \in Nat, NEW r \in Requests(D), RequestOf(f, r, n)
  PROVE  RunsAlong(f, w, P, r, t, x, D)
<1> DEFINE m == f.serverVersion
           s == Start(w, m, t, x)
           p == Seen(f, w)
           l == Len(r.edits)
<1>1. m = r.m /\ r.edits \in Seq(Entries(D)) /\ m \in Nat /\ s \in States(D)
  <2>1. m = r.m /\ r.edits \in Seq(Entries(D)) /\ m \in Nat
    BY DEF RequestOf, Requests, FilesOf
  <2>2. PICK k \in Nat : k = m
    BY <2>1
  <2>3. Start(w, k, t, x) \in States(D)
    BY StartTyped, Zenon
  <2> QED BY <2>1, <2>2, <2>3, Zenon
<1>2. PICK F : F = [k \in 0..l |-> After(m, s, r.edits, F, k)] /\ ApplyAll(m, s, r.edits) = F[l]
  <2>1. \E F : IsRun(m, s, r.edits, F)
    BY <1>1, ApplyAllIs, Zenon
  <2> QED BY <2>1, Zenon DEF IsRun
<1>3. F[l] = Handled(w, r, t, x)
  BY <1>1, <1>2 DEF Handled
<1>4. /\ l \in 1..Len(f.editStack) /\ l \in Nat /\ Len(f.editStack) \in Nat
      /\ \A i \in 1..l : r.edits[i] = f.editStack[i] /\ r.edits[i] \in Entries(D)
  <2>1. l \in Nat /\ \A i \in 1..l : r.edits[i] \in Entries(D)
    BY <1>1, ElementOfSeq, LenProperties
  <2>2. f.editStack \in Seq(Entries(D))
    BY DEF FilesOf
  <2> QED BY <2>1, <2>2, LenProperties DEF RequestOf
<1>5. F[0] = s
  <2>1. F[0] = After(m, s, r.edits, F, 0)
    BY <1>2, <1>4
  <2> QED BY <2>1, Zenon DEF After
<1>6. At(f, P, s, p) /\ s.text = t /\ s.exists = x /\ p \in 0..Len(f.editStack)
  BY StartAt, Zenon
<1> DEFINE Good(j) == F[j] \in States(D) /\ At(f, P, F[j], Top(p, j))
           Step(j) ==
             IF p < j
             THEN /\ F[j].text = TextWith(F[j-1], f.editStack[j], P, j)
                  /\ F[j].exists = (F[j-1].exists \/ f.editStack[j].kind = "r")
             ELSE F[j] = F[j-1]
           M == {j \in Nat : j \in 0..l => Good(j) /\ (j # 0 => Step(j))}
<1> HIDE DEF s, p
<1>7. 0 \in M
  <2>1. Top(p, 0) = p
    BY <1>6 DEF Top
  <2>2. Good(0)
    BY <1>1, <1>5, <1>6, <2>1
  <2> QED BY <2>2
<1>8. ASSUME NEW j \in Nat, j \in M PROVE j + 1 \in M
  <2> SUFFICES ASSUME j + 1 \in 0..l PROVE Good(j + 1) /\ Step(j + 1)
    OBVIOUS
  <2>1. j \in 0..l /\ j + 1 \in 1..l /\ (j + 1) - 1 = j /\ j + 1 # 0
    BY <1>4
  <2>2. Good(j)
    BY <1>8, <2>1
  <2>3. F[j+1] = After(m, s, r.edits, F, j + 1)
    BY <1>2
  <2>4. F[j+1] = Apply(m, F[j], r.edits[j+1])
    BY <2>1, <2>3, Zenon DEF After
  <2>5. r.edits[j+1] = f.editStack[j+1] /\ j + 1 \in 1..Len(f.editStack)
    BY <1>4, <2>1
  <2>6. F[j+1] \in States(D)
    BY <1>1, <1>4, <2>1, <2>2, <2>4, ApplyTyped
  <2>7. /\ Top(p, j) \in 0..Len(f.editStack) /\ j + 1 <= Top(p, j) + 1
        /\ (p < j + 1 => j + 1 = Top(p, j) + 1 /\ Top(p, j + 1) = j + 1)
        /\ (~(p < j + 1) => j + 1 # Top(p, j) + 1 /\ Top(p, j + 1) = Top(p, j))
    BY <1>4, <1>6, <2>1 DEF Top
  <2>8. IF j + 1 = Top(p, j) + 1
        THEN /\ At(f, P, F[j+1], j + 1) /\ F[j+1].text = TextWith(F[j], f.editStack[j+1], P, j + 1)
             /\ F[j+1].exists = (F[j].exists \/ f.editStack[j+1].kind = "r")
        ELSE F[j+1] = F[j]
    <3>1. F[j] \in States(D) /\ At(f, P, F[j], Top(p, j))
      BY <2>2
    <3>2. F[j+1] = Apply(f.serverVersion, F[j], f.editStack[j+1])
      BY <2>4, <2>5
    <3>3. PICK i \in 1..Len(f.editStack), h \in 0..Len(f.editStack) :
            i = j + 1 /\ h = Top(p, j)
      BY <2>5, <2>7
    <3>4. At(f, P, F[j], h) /\ i <= h + 1
      BY <2>7, <3>1, <3>3
    <3>5. Stepped(f, P, F[j], Apply(f.serverVersion, F[j], f.editStack[i]), i, h)
      BY <3>1, <3>4, ApplyLink, Zenon
    <3>6. Stepped(f, P, F[j], F[j+1], i, h)
      BY <3>2, <3>3, <3>5, Zenon
    <3> QED BY <3>3, <3>6, Zenon DEF Stepped
  <2>9. CASE p < j + 1
    BY <2>1, <2>6, <2>7, <2>8, <2>9
  <2>10. CASE ~(p < j + 1)
    BY <2>1, <2>2, <2>6, <2>7, <2>8, <2>10
  <2> QED BY <2>9, <2>10
<1> HIDE DEF M
<1>9. Nat \subseteq M
  BY <1>7, <1>8, NatInduct
<1>10. ASSUME NEW j \in 0..l PROVE Good(j) /\ (j # 0 => Step(j))
  BY <1>4, <1>9 DEF M
<1> HIDE DEF Good, Step, l
<1>11. /\ \A j \in 0..l : Good(j)
       /\ \A j \in 1..l : Step(j)
  BY <1>4, <1>10
<1> QED BY <1>3, <1>5, <1>6, <1>11 DEF Good, Step, l, p, Along, RunsAlong

(* A request is handled, and the gateway is ahead of the client.  The answer *)
(* to the client's last request leaves none on its way.                      *)
Served(f, q, n, P, r, s) ==
  /\ s.ok /\ Link(f, ViewAfter(s), Tail(q), n, P)
  /\ r.id = n => /\ Tail(q) = <<>> /\ Ahead(f, ViewAfter(s), P)
                 /\ Seen(f, ViewAfter(s)) = Len(f.editStack)
                 /\ s.cv = f.clientVersion /\ s.sv = f.serverVersion /\ s.shadow = f.shadowText

LEMMA ServeLink ==
  ASSUME NEW D \in SUBSET Edits, NEW f \in FilesOf(D), NEW w \in Views(D),
         NEW q \in Seq(Requests(D)), NEW n \in Nat, NEW P, Link(f, w, q, n, P),
         NEW t \in TextsOf(D), NEW x \in BOOLEAN, q # <<>>
  PROVE  Served(f, q, n, P, Head(q), Handled(w, Head(q), t, x))
<1> DEFINE L == Len(f.editStack)
           p == Seen(f, w)
<1>1. PICK r : r = Head(q)
  OBVIOUS
<1>2. PICK q2 : q2 = Tail(q)
  OBVIOUS
<1>3. /\ r \in Requests(D) /\ r = q[1] /\ q2 \in Seq(Requests(D)) /\ Len(q2) = Len(q) - 1
      /\ \A k \in 1..Len(q2) : q2[k] = q[k+1]
  BY <1>1, <1>2, HeadTailProperties
<1>4. Len(q) \in Nat \ {0} /\ Len(q2) \in Nat
  BY <1>3, LenProperties, EmptySeq
<1>5. /\ StackOf(f, P) /\ (f.deltaOk \/ n = 0) /\ (Fresh(f, w, P) \/ Ahead(f, w, P))
      /\ \A k \in 1..Len(q) : RequestOf(f, q[k], n)
      /\ \A j, k \in 1..Len(q) : j < k => q[j].id < q[k].id
  BY DEF Link, QueueOf
<1>6. RequestOf(f, r, n)
  BY <1>3, <1>4, <1>5
<1>7. PICK F : Along(f, w, P, r, t, x, F) /\ \A j \in 0..Len(r.edits) : F[j] \in States(D)
  <2>1. StackOf(f, P) /\ (Fresh(f, w, P) \/ Ahead(f, w, P)) /\ r \in Requests(D)
    BY <1>3, <1>5, Zenon
  <2>2. RunsAlong(f, w, P, r, t, x, D)
    BY <1>6, <2>1, RunOf, Zenon
  <2> QED BY <2>2, Zenon DEF RunsAlong
<1>8. PICK l : l = Len(r.edits)
  OBVIOUS
<1>9. l \in 1..L /\ L \in Nat /\ (r.id = n => l = L) /\ f.serverVersion \in Nat /\ f.clientVersion \in Nat
  <2>1. L \in Nat
    BY LenProperties DEF FilesOf
  <2> QED BY <1>6, <1>8, <2>1 DEF RequestOf, FilesOf
<1>10. PICK s : s = F[l]
  OBVIOUS
<1>11. s = Handled(w, r, t, x) /\ s \in States(D) /\ At(f, P, s, Top(p, l))
  <2>1. l \in 0..l
    BY <1>9
  <2> QED BY <1>7, <1>8, <1>10, <2>1, Zenon DEF Along
<1>12. p \in 0..L
  <2>1. w.cv \in Nat /\ Base(f) \in Nat
    BY <1>5 DEF Views, StackOf
  <2> HIDE DEF L
  <2> QED BY <1>5, <1>9, <2>1 DEF Fresh, Ahead, L
<1>13. PICK k \in 1..L : k = Top(p, l) /\ (l = L => k = L)
  <2> HIDE DEF p, L
  <2> QED BY <1>9, <1>12 DEF Top
<1>14. /\ s.ok /\ s.shadow = P[k] /\ s.cv = Base(f) + k /\ s.sv = f.serverVersion
       /\ s.backup = P[k] /\ s.bsv = f.serverVersion
  BY <1>9, <1>11, <1>13 DEF At
<1>15. PICK v : v = ViewAfter(s)
  OBVIOUS
<1>16. /\ v.cv = Base(f) + k /\ v.sv = f.serverVersion + 1 /\ v.bsv = f.serverVersion /\ v.backup = P[k]
  BY <1>14, <1>15 DEF ViewAfter
<1>17. Base(f) \in Nat /\ f.clientVersion = Base(f) + L /\ P[L] = f.shadowText
  <2>1. Base(f) \in Nat /\ P[L] = f.shadowText
    BY <1>5 DEF StackOf
  <2> HIDE DEF L
  <2> QED BY <1>9, <2>1 DEF Base, L
<1>18. Seen(f, v) = k
  BY <1>16, <1>17 DEF Seen
<1>19. Ahead(f, v, P)
  BY <1>16, <1>18, Zenon DEF Ahead
<1>20. QueueOf(f, q2, n)
  <2>1. ASSUME NEW j \in 1..Len(q2) PROVE j + 1 \in 1..Len(q) /\ q2[j] = q[j+1]
    BY <1>3, <1>4
  <2>2. ASSUME NEW i \in 1..Len(q2), NEW j \in 1..Len(q2), i < j PROVE q2[i].id < q2[j].id
    <3>1. i + 1 < j + 1
      BY <1>4, <2>2
    <3> QED BY <1>5, <2>1, <3>1
  <2> QED BY <1>5, <2>1, <2>2 DEF QueueOf
<1>21. Link(f, v, q2, n, P)
  BY <1>5, <1>19, <1>20 DEF Link
<1>22. ASSUME r.id = n PROVE q2 = <<>> /\ k = L
  <2>1. k = L
    BY <1>9, <1>13, <1>22
  <2>2. SUFFICES ASSUME q2 # <<>> PROVE FALSE
    BY <2>1
  <2>3. 2 \in 1..Len(q) /\ 1 \in 1..Len(q)
    BY <1>3, <1>4, <2>2, EmptySeq
  <2>4. q[1].id < q[2].id /\ q[2].id \in 1..n
    BY <1>5, <2>3 DEF RequestOf
  <2> QED BY <1>3, <1>22, <2>4
<1>23. r.id = n => /\ q2 = <<>> /\ Ahead(f, v, P) /\ Seen(f, v) = L
                   /\ s.cv = f.clientVersion /\ s.sv = f.serverVersion /\ s.shadow = f.shadowText
  BY <1>14, <1>17, <1>18, <1>19, <1>22
<1>24. Served(f, q, n, P, r, s)
  BY <1>2, <1>14, <1>15, <1>21, <1>23, Zenon DEF Served
<1> QED BY <1>1, <1>11, <1>24, Zenon

LEMMA UnseenNone ==
  ASSUME NEW A, NEW E \in Seq(A), NEW cv, \A i \in 1..Len(E) : ~(E[i].v > cv)
  PROVE  Unseen(E, cv) = <<>>
<1>1. PICK f : f = [n \in 0..Len(E) |-> Left(E, cv, f, n)] /\ Unseen(E, cv) = f[Len(E)]
  BY UnseenIs
<1> DEFINE M == {n \in Nat : n \in 0..Len(E) => f[n] = <<>>}
<1>2. Len(E) \in Nat
  BY LenProperties
<1>3. 0 \in M
  BY <1>1, <1>2 DEF Left
<1>4. ASSUME NEW n \in Nat, n \in M PROVE n + 1 \in M
  <2> SUFFICES ASSUME n + 1 \in 0..Len(E) PROVE f[n+1] = <<>>
    OBVIOUS
  <2>1. n \in 0..Len(E) /\ n + 1 \in 1..Len(E) /\ (n + 1) - 1 = n /\ n + 1 # 0
    BY <1>2
  <2>2. f[n+1] = Left(E, cv, f, n + 1)
    BY <1>1
  <2>3. f[n+1] = f[n]
    BY <2>1, <2>2, Zenon DEF Left
  <2> QED BY <1>4, <2>1, <2>3
<1> HIDE DEF M
<1>5. Nat \subseteq M
  BY <1>3, <1>4, NatInduct
<1> QED BY <1>1, <1>2, <1>5 DEF M

(* The answer that is waited for: the stack is empty, and the shadows agree. *)

(* The answer that is waited for: the client catches up with the gateway. *)
Caught(f, w, a) ==
  [f EXCEPT !.deltaOk = TRUE, !.editStack = <<>>, !.serverVersion = f.serverVersion + 1,
            !.shadowText = w.shadow, !.text = Patched(f.text, a.body)]

LEMMA ReceiveLink ==
  ASSUME NEW D \in SUBSET Edits, NEW f \in FilesOf(D), NEW w \in Views(D),
         NEW q \in Seq(Requests(D)), NEW n \in Nat, NEW P, Link(f, w, q, n, P),
         NEW a \in Answers(D), AnswerFor(f, w, q, P, a)
  PROVE  /\ Received(f, a) = Caught(f, w, a)
         /\ Link(Received(f, a), w, q, n, [i \in 0..0 |-> w.shadow])
<1> DEFINE L == Len(f.editStack)
           h == [f EXCEPT !.deltaOk = TRUE, !.editStack = <<>>]
           g == Caught(f, w, a)
           Q == [i \in 0..0 |-> w.shadow]
<1>1. f.editStack \in Seq(Entries(D)) /\ L \in Nat /\ f.clientVersion \in Nat /\ f.serverVersion \in Nat
  <2>1. f.editStack \in Seq(Entries(D))
    BY DEF FilesOf
  <2> QED BY <2>1, LenProperties DEF FilesOf
<1>2. /\ StackOf(f, P) /\ QueueOf(f, q, n)
  BY DEF Link
<1>3. /\ q = <<>> /\ Ahead(f, w, P) /\ Seen(f, w) = L
      /\ a.kind = "d" /\ a.cv = f.clientVersion /\ a.v = f.serverVersion
      /\ a.of = Length(f.shadowText) /\ a.body = Diff(f.shadowText, w.shadow)
  BY DEF AnswerFor
<1>4. ASSUME NEW i \in 1..L PROVE ~(f.editStack[i].v > a.cv)
  <2>1. Base(f) \in Nat /\ f.clientVersion = Base(f) + L
    <3>1. Base(f) \in Nat /\ Base(f) = f.clientVersion - L
      BY <1>2 DEF StackOf, Base
    <3> HIDE DEF L
    <3> QED BY <1>1, <3>1
  <2>2. f.editStack[i].v = Base(f) + i - 1 \/ (f.editStack[i].v = 1 /\ Base(f) = 0)
    BY <1>2 DEF StackOf, DiffEntry, WholeEntry
  <2>3. PICK v : v = f.editStack[i].v
    OBVIOUS
  <2> HIDE DEF L
  <2> QED BY <1>1, <1>3, <2>1, <2>2, <2>3
<1>5. Unseen(f.editStack, a.cv) = <<>>
  BY <1>1, <1>4, UnseenNone, Zenon
<1>6. FileLine(f, a) = h
  BY <1>5, Zenon DEF FileLine
<1>7. /\ h.clientVersion = f.clientVersion /\ h.serverVersion = f.serverVersion
      /\ h.shadowText = f.shadowText /\ h.text = f.text
  BY DEF FilesOf
<1>8. f.shadowText \in Texts /\ w.shadow \in Texts
  BY DEF FilesOf, Views, TextsOf
<1>9. Patched(f.shadowText, a.body) = w.shadow
  BY <1>3, <1>8, PatchedDiff
<1>10. DeltaLine(h, a) = [h EXCEPT !.serverVersion = @ + 1, !.shadowText = Patched(@, a.body),
                                   !.text = Patched(@, a.body)]
  <2>1. a.cv = h.clientVersion /\ a.v = h.serverVersion /\ ~(a.v > h.serverVersion)
        /\ ~(a.v < h.serverVersion) /\ Fits(a, h.shadowText)
    <3> HIDE DEF h
    <3> QED BY <1>1, <1>3, <1>7 DEF Fits
  <2> HIDE DEF h
  <2> QED BY <2>1, Zenon DEF DeltaLine
<1>11. DeltaLine(h, a) = g
  <2>1. PICK t, m : t = Patched(f.text, a.body) /\ m = f.serverVersion + 1
    OBVIOUS
  <2>2. DeltaLine(h, a) = [h EXCEPT !.serverVersion = m, !.shadowText = w.shadow, !.text = t]
    <3> HIDE DEF h
    <3> QED BY <1>7, <1>9, <1>10, <2>1, Zenon
  <2> QED BY <2>1, <2>2 DEF FilesOf, Caught
<1>12. Received(f, a) = g
  <2> HIDE DEF g, h
  <2> QED BY <1>3, <1>6, <1>11 DEF Received
<1>13. /\ g.deltaOk = TRUE /\ g.editStack = <<>> /\ g.serverVersion = f.serverVersion + 1
       /\ g.shadowText = w.shadow /\ g.clientVersion = f.clientVersion
  BY DEF FilesOf, Caught
<1>14. Base(g) = f.clientVersion /\ Len(g.editStack) = 0
  <2>1. Len(<<>>) = 0
    BY EmptySeq
  <2> HIDE DEF g
  <2> QED BY <1>1, <1>13, <2>1 DEF Base
<1>15. Q \in [0..0 -> Texts] /\ Q[0] = w.shadow
  BY <1>8
<1>16. StackOf(g, Q)
  <2> HIDE DEF g, Q
  <2> QED BY <1>1, <1>13, <1>14, <1>15 DEF StackOf
<1>17. Fresh(g, w, Q)
  <2>1. w.sv = f.serverVersion + 1
    BY <1>3 DEF Ahead
  <2>2. w.cv = f.clientVersion
    <3>1. w.cv - (f.clientVersion - L) = L /\ w.cv \in Nat
      BY <1>3 DEF Seen, Base, Views
    <3> HIDE DEF L
    <3> QED BY <1>1, <3>1
  <2> HIDE DEF g, Q
  <2> QED BY <1>1, <1>13, <1>14, <1>15, <2>1, <2>2 DEF Fresh, Seen
<1>18. QueueOf(g, q, n)
  <2>1. Len(q) = 0
    BY <1>3, EmptySeq
  <2> HIDE DEF g
  <2> QED BY <2>1 DEF QueueOf
<1>19. Link(g, w, q, n, Q)
  <2> HIDE DEF g, Q
  <2> QED BY <1>13, <1>16, <1>17, <1>18 DEF Link
<1> QED BY <1>12, <1>19, Zenon

LEMMA InitLinks == Init => LinksInv
<1> SUFFICES ASSUME Init, NEW c \in Clients PROVE \E P : Linked(c, P)
  BY DEF LinksInv
<1> DEFINE P == [i \in 0..0 |-> Empty]
<1>1. /\ file[c].text = Empty /\ file[c].shadowText = Empty /\ file[c].clientVersion = 0
      /\ file[c].serverVersion = 0 /\ ~file[c].deltaOk /\ file[c].editStack = <<>>
  BY DEF Init
<1>2. viewOf[c].shadow = Empty /\ viewOf[c].cv = 0 /\ viewOf[c].sv = 0
  BY DEF Init, NewView
<1>3. requests[c] = <<>> /\ answers = {} /\ syncs[c] = 0
  BY DEF Init
<1>4. Len(<<>>) = 0
  BY EmptySeq
<1>5. P \in [0..0 -> Texts] /\ P[0] = Empty
  BY DEF Texts, Empty
<1> HIDE DEF P
<1>6. Base(file[c]) = 0 /\ Len(file[c].editStack) = 0
  <2>1. Len(file[c].editStack) = 0
    BY <1>1, <1>4, Zenon
  <2>2. Base(file[c]) = 0 - 0
    BY <1>1, <2>1, Zenon DEF Base
  <2> QED BY <2>1, <2>2
<1>7. StackOf(file[c], P)
  BY <1>1, <1>5, <1>6 DEF StackOf
<1>8. Fresh(file[c], viewOf[c], P)
  BY <1>1, <1>2, <1>5, <1>6 DEF Fresh, Seen
<1>9. QueueOf(file[c], requests[c], syncs[c])
  BY <1>3, <1>4 DEF QueueOf
<1>10. Link(file[c], viewOf[c], requests[c], syncs[c], P)
  BY <1>3, <1>7, <1>8, <1>9 DEF Link
<1>11. Linked(c, P)
  BY <1>3, <1>10 DEF Linked
<1> QED BY <1>11

(* A step that leaves alone what the client has in common with the gateway, *)
(* but for requests and answers that are lost.                               *)
SameFile(f2, f) ==
  /\ f2.editStack = f.editStack /\ f2.clientVersion = f.clientVersion
  /\ f2.serverVersion = f.serverVersion /\ f2.shadowText = f.shadowText
  /\ f2.deltaOk = f.deltaOk

LEMMA SameFileLink ==
  ASSUME NEW D, NEW f, NEW f2, SameFile(f2, f), NEW w, NEW q \in Seq(Requests(D)), NEW q2,
         Shorter(q2, q), NEW n, NEW P, Link(f, w, q, n, P)
  PROVE  Link(f2, w, q2, n, P)
<1>1. Base(f2) = Base(f) /\ Seen(f2, w) = Seen(f, w)
  BY Zenon DEF SameFile, Base, Seen
<1>2. StackOf(f, P) => StackOf(f2, P)
  BY <1>1, Zenon DEF SameFile, StackOf
<1>3. /\ (Fresh(f, w, P) => Fresh(f2, w, P)) /\ (Ahead(f, w, P) => Ahead(f2, w, P))
  BY <1>1, Zenon DEF SameFile, Fresh, Ahead
<1>4. ASSUME NEW r, RequestOf(f, r, n) PROVE RequestOf(f2, r, n)
  BY <1>4, Zenon DEF SameFile, RequestOf
<1>5. QueueOf(f2, q2, n)
  <2>1. /\ \A k \in 1..Len(q) : RequestOf(f2, q[k], n)
        /\ \A j, k \in 1..Len(q) : j < k => q[j].id < q[k].id
    BY <1>4 DEF Link, QueueOf
  <2>2. CASE q2 = q
    BY <2>1, <2>2 DEF QueueOf
  <2>3. CASE q # <<>> /\ q2 = Tail(q)
    <3>1. Len(q2) = Len(q) - 1 /\ \A k \in 1..Len(q2) : q2[k] = q[k+1]
      BY <2>3, HeadTailProperties
    <3>2. Len(q) \in Nat
      BY LenProperties
    <3>3. ASSUME NEW k \in 1..Len(q2) PROVE k \in Int /\ k + 1 \in 1..Len(q) /\ q2[k] = q[k+1]
      BY <3>1, <3>2
    <3>4. ASSUME NEW i \in 1..Len(q2), NEW j \in 1..Len(q2), i < j PROVE q2[i].id < q2[j].id
      <4>1. i + 1 < j + 1
        BY <3>3, <3>4
      <4> QED BY <2>1, <3>3, <4>1
    <3> QED BY <2>1, <3>3, <3>4 DEF QueueOf
  <2> QED BY <2>2, <2>3 DEF Shorter
<1> QED BY <1>2, <1>3, <1>5, Zenon DEF Link, SameFile

LEMMA KeepLinked ==
  ASSUME TInv, NEW c \in Clients, NEW P, Linked(c, P),
         SameFile(file'[c], file[c]), viewOf'[c] = viewOf[c], syncs'[c] = syncs[c],
         Shorter(requests'[c], requests[c]), airborne'[c] \in {0, airborne[c]},
         \A a \in answers' : a.client = c => a \in answers
  PROVE  Linked(c, P)'
<1>1. requests[c] \in Seq(Requests(typed))
  BY DEF TInv, NetworkT
<1>2. Link(file'[c], viewOf'[c], requests'[c], syncs'[c], P)
  <2>1. Link(file[c], viewOf[c], requests[c], syncs[c], P)
    BY DEF Linked
  <2>2. Link(file'[c], viewOf[c], requests'[c], syncs[c], P)
    BY <1>1, <2>1, SameFileLink
  <2> QED BY <2>2
<1>3. ASSUME NEW a \in answers', a.client = c, a.id = airborne'[c]
      PROVE  AnswerFor(file'[c], viewOf'[c], requests'[c], P, a)
  <2>1. a \in answers
    BY <1>3
  <2>2. a.id # 0
    BY <2>1 DEF TInv, NetworkT
  <2>3. AnswerFor(file[c], viewOf[c], requests[c], P, a)
    BY <1>3, <2>1, <2>2 DEF Linked
  <2>4. requests'[c] = <<>>
    BY <2>3 DEF AnswerFor, Shorter
  <2>5. Seen(file'[c], viewOf'[c]) = Seen(file[c], viewOf[c])
    BY Zenon DEF Seen, Base, SameFile
  <2> QED BY <2>3, <2>4, <2>5, Zenon DEF AnswerFor, Ahead, SameFile
<1> QED BY <1>2, <1>3 DEF Linked

LEMMA SendSyncLinked ==
  ASSUME NEW c \in Clients, TInv, SendSync(c), viewOf' = viewOf, answers' \subseteq answers,
         NEW P, Linked(c, P), NEW Q, Q = Grown(file[c], P)
  PROVE  Linked(c, Q)'
<1> DEFINE g == SyncText(file[c])
           r == [id |-> syncs[c] + 1, m |-> g.serverVersion, edits |-> g.editStack]
<1>1. /\ syncs' = [syncs EXCEPT ![c] = syncs[c] + 1] /\ file' = [file EXCEPT ![c] = g]
      /\ airborne' = [airborne EXCEPT ![c] = syncs[c] + 1]
      /\ requests' = [requests EXCEPT ![c] = Append(requests[c], r)]
  BY DEF SendSync
<1>2. /\ file[c] \in FilesOf(typed) /\ viewOf[c] \in Views(typed) /\ syncs[c] \in Nat
      /\ requests[c] \in Seq(Requests(typed)) /\ typed \in SUBSET Edits
  BY DEF TInv, PagesT, GatewayT, SyncsT, NetworkT, HistoryT
<1>3. Link(file[c], viewOf[c], requests[c], syncs[c], P)
  BY DEF Linked
<1>4. Link(g, viewOf[c], Append(requests[c], r), syncs[c] + 1, Grown(file[c], P))
  BY <1>2, <1>3, SyncTextLink, Zenon
<1>5. /\ file'[c] = g /\ requests'[c] = Append(requests[c], r) /\ syncs'[c] = syncs[c] + 1
      /\ viewOf'[c] = viewOf[c] /\ airborne'[c] = syncs[c] + 1
  <2> HIDE DEF g, r
  <2> QED BY <1>1 DEF TInv, PagesT, NetworkT, SyncsT
<1>7. Link(file'[c], viewOf'[c], requests'[c], syncs'[c], Q)
  BY <1>4, <1>5, Zenon
<1>8. \A a \in answers' : ~(a.client = c /\ a.id = airborne'[c])
  <2>1. \A a \in answers : a.id \in 1..syncs[a.client]
    BY DEF TInv, NetworkT
  <2> QED BY <1>2, <1>5, <2>1
<1>9. Linked(c, Q)'
  BY <1>7, <1>8, Zenon DEF Linked
<1> QED BY <1>9

LEMMA SendSyncOthers ==
  ASSUME NEW c \in Clients, TInv, SendSync(c), viewOf' = viewOf, answers' \subseteq answers,
         NEW d \in Clients \ {c}, NEW P, Linked(d, P)
  PROVE  Linked(d, P)'
<1>1. /\ file'[d] = file[d] /\ requests'[d] = requests[d] /\ syncs'[d] = syncs[d]
      /\ viewOf'[d] = viewOf[d] /\ airborne'[d] = airborne[d]
  BY DEF SendSync, TInv, PagesT, NetworkT, SyncsT
<1>2. /\ SameFile(file'[d], file[d]) /\ Shorter(requests'[d], requests[d])
      /\ airborne'[d] \in {0, airborne[d]} /\ \A a \in answers' : a.client = d => a \in answers
  BY <1>1 DEF SameFile, Shorter
<1> QED BY <1>1, <1>2, KeepLinked, Zenon

LEMMA SendSyncLinks ==
  ASSUME NEW c \in Clients, TInv, LinksInv, SendSync(c), late' = late, viewOf' = viewOf,
         answers' \subseteq answers
  PROVE  LinksInv'
<1> SUFFICES ASSUME NEW d \in Clients, d \notin late PROVE \E P : Linked(d, P)'
  BY DEF LinksInv
<1>1. PICK P : Linked(d, P)
  BY DEF LinksInv
<1>2. CASE d = c
  <2>1. PICK Q : Q = Grown(file[c], P)
    OBVIOUS
  <2>2. Linked(d, Q)'
    BY <1>1, <1>2, <2>1, SendSyncLinked, Zenon
  <2> QED BY <2>2
<1>3. CASE d # c
  <2>1. Linked(d, P)'
    BY <1>1, <1>3, SendSyncOthers
  <2> QED BY <2>1
<1> QED BY <1>2, <1>3

LEMMA ServeLinked ==
  ASSUME NEW c \in Clients, TInv, Serve(c), NEW P, Linked(c, P)
  PROVE  Linked(c, P)'
<1> DEFINE r == Head(requests[c])
           s == Handled(viewOf[c], r, master, exists)
<1>0. /\ file[c] \in FilesOf(typed) /\ viewOf[c] \in Views(typed) /\ syncs[c] \in Nat
      /\ requests[c] \in Seq(Requests(typed)) /\ typed \in SUBSET Edits
      /\ master \in TextsOf(typed) /\ exists \in BOOLEAN
  BY DEF TInv, PagesT, GatewayT, SyncsT, NetworkT, HistoryT
<1>1. /\ requests[c] # <<>> /\ requests' = [requests EXCEPT ![c] = Tail(requests[c])]
      /\ answers' = answers \cup {a \in {AnswerTo(c, r, s)} : Awaited(a)}
      /\ viewOf' = [viewOf EXCEPT ![c] = ViewAfter(s)]
      /\ file' = file /\ syncs' = syncs /\ airborne' = airborne /\ late' = late
  <2>1. UNCHANGED <<client, faults, typed, deleted, early, had, late, unsent>>
    BY ServeIs, Zenon
  <2>2. file' = file /\ syncs' = syncs /\ airborne' = airborne /\ late' = late
    BY <2>1 DEF client
  <2> QED BY <2>2, ServeIs, Zenon
<1>2. PICK b : b = AnswerTo(c, r, s)
  OBVIOUS
<1>3. \A a \in answers' : a \in answers \/ a = b
  BY <1>1, <1>2, Zenon
<1>4. b.client = c /\ b.id = r.id
  <2> HIDE DEF r, s
  <2>1. CASE s.ok
    BY <1>2, <2>1 DEF AnswerTo
  <2>2. CASE ~s.ok
    BY <1>2, <2>2 DEF AnswerTo
  <2> QED BY <2>1, <2>2
<1>5. Link(file[c], viewOf[c], requests[c], syncs[c], P)
  BY DEF Linked
<1>6. Served(file[c], requests[c], syncs[c], P, r, s)
  BY <1>0, <1>1, <1>5, ServeLink, Zenon
<1>7. /\ viewOf'[c] = ViewAfter(s) /\ requests'[c] = Tail(requests[c])
      /\ file'[c] = file[c] /\ syncs'[c] = syncs[c] /\ airborne'[c] = airborne[c]
  <2> HIDE DEF r, s
  <2> QED BY <1>1 DEF TInv, GatewayT, NetworkT
<1>8. Link(file'[c], viewOf'[c], requests'[c], syncs'[c], P)
  BY <1>6, <1>7, Zenon DEF Served
<1>9. ASSUME NEW a \in answers', a.client = c, a.id = airborne'[c]
      PROVE  AnswerFor(file'[c], viewOf'[c], requests'[c], P, a)
  <2>1. a \notin answers
    <3>1. a \in answers => AnswerFor(file[c], viewOf[c], requests[c], P, a)
      BY <1>7, <1>9 DEF Linked
    <3> QED BY <1>1, <3>1 DEF AnswerFor
  <2>2. a = b
    BY <1>3, <2>1
  <2>3. r.id = syncs[c]
    <3>1. r = requests[c][1] /\ 1 \in 1..Len(requests[c])
      <4>1. r = requests[c][1]
        BY <1>0, <1>1, HeadTailProperties
      <4>2. Len(requests[c]) \in Nat \ {0}
        BY <1>0, <1>1, LenProperties, EmptySeq
      <4> QED BY <4>1, <4>2
    <3>2. r.id \in 1..syncs[c]
      BY <3>1 DEF TInv, NetworkT
    <3>3. airborne[c] \in {0, syncs[c]}
      BY DEF TInv, SyncsT
    <3> QED BY <1>0, <1>4, <1>7, <1>9, <2>2, <3>2, <3>3
  <2>4. /\ s.ok /\ Tail(requests[c]) = <<>> /\ Ahead(file[c], ViewAfter(s), P)
        /\ Seen(file[c], ViewAfter(s)) = Len(file[c].editStack)
        /\ s.cv = file[c].clientVersion /\ s.sv = file[c].serverVersion
        /\ s.shadow = file[c].shadowText
    BY <1>6, <2>3, Zenon DEF Served
  <2>5. /\ a.kind = "d" /\ a.cv = s.cv /\ a.v = s.sv
        /\ a.of = Length(s.shadow) /\ a.body = Diff(s.shadow, s.text)
    <3> HIDE DEF r, s
    <3> QED BY <1>2, <2>2, <2>4 DEF AnswerTo
  <2>6. ViewAfter(s).shadow = s.text
    <3> HIDE DEF s
    <3> QED BY DEF ViewAfter
  <2>7. AnswerFor(file[c], ViewAfter(s), Tail(requests[c]), P, a)
    BY <2>4, <2>5, <2>6, Zenon DEF AnswerFor
  <2> QED BY <1>7, <2>7, Zenon
<1>10. Linked(c, P)'
  BY <1>8, <1>9, Zenon DEF Linked
<1> QED BY <1>10

LEMMA ServeOthers ==
  ASSUME NEW c \in Clients, TInv, Serve(c), NEW d \in Clients \ {c}, NEW P, Linked(d, P)
  PROVE  Linked(d, P)'
<1> DEFINE r == Head(requests[c])
           s == Handled(viewOf[c], r, master, exists)
<1>0. /\ file[c] \in FilesOf(typed) /\ viewOf[c] \in Views(typed) /\ syncs[c] \in Nat
      /\ requests[c] \in Seq(Requests(typed)) /\ typed \in SUBSET Edits
      /\ master \in TextsOf(typed) /\ exists \in BOOLEAN
  BY DEF TInv, PagesT, GatewayT, SyncsT, NetworkT, HistoryT
<1>1. /\ requests[c] # <<>> /\ requests' = [requests EXCEPT ![c] = Tail(requests[c])]
      /\ answers' = answers \cup {a \in {AnswerTo(c, r, s)} : Awaited(a)}
      /\ viewOf' = [viewOf EXCEPT ![c] = ViewAfter(s)]
      /\ file' = file /\ syncs' = syncs /\ airborne' = airborne /\ late' = late
  <2>1. UNCHANGED <<client, faults, typed, deleted, early, had, late, unsent>>
    BY ServeIs, Zenon
  <2>2. file' = file /\ syncs' = syncs /\ airborne' = airborne /\ late' = late
    BY <2>1 DEF client
  <2> QED BY <2>2, ServeIs, Zenon
<1>2. PICK b : b = AnswerTo(c, r, s)
  OBVIOUS
<1>3. \A a \in answers' : a \in answers \/ a = b
  BY <1>1, <1>2, Zenon
<1>4. b.client = c /\ b.id = r.id
  <2> HIDE DEF r, s
  <2>1. CASE s.ok
    BY <1>2, <2>1 DEF AnswerTo
  <2>2. CASE ~s.ok
    BY <1>2, <2>2 DEF AnswerTo
  <2> QED BY <2>1, <2>2
<1>5. /\ file'[d] = file[d] /\ requests'[d] = requests[d] /\ syncs'[d] = syncs[d]
      /\ viewOf'[d] = viewOf[d] /\ airborne'[d] = airborne[d]
  <2> HIDE DEF r, s
  <2> QED BY <1>1 DEF TInv, GatewayT, NetworkT
<1>6. /\ SameFile(file'[d], file[d]) /\ Shorter(requests'[d], requests[d])
      /\ airborne'[d] \in {0, airborne[d]} /\ \A a \in answers' : a.client = d => a \in answers
  BY <1>3, <1>4, <1>5 DEF SameFile, Shorter
<1>7. Linked(d, P)'
  BY <1>5, <1>6, KeepLinked, Zenon
<1> QED BY <1>7

LEMMA ServeLinks == ASSUME NEW c \in Clients, TInv, LinksInv, Serve(c) PROVE LinksInv'
<1>1. late' = late
  <2>1. UNCHANGED <<client, faults, typed, deleted, early, had, late, unsent>>
    BY ServeIs, Zenon
  <2> QED BY <2>1
<1> SUFFICES ASSUME NEW d \in Clients, d \notin late PROVE \E P : Linked(d, P)'
  BY <1>1 DEF LinksInv
<1>2. PICK P : Linked(d, P)
  BY DEF LinksInv
<1>3. CASE d = c
  BY <1>2, <1>3, ServeLinked
<1>4. CASE d # c
  BY <1>2, <1>4, ServeOthers
<1> QED BY <1>3, <1>4

LEMMA SyncRun2Linked ==
  ASSUME NEW a \in answers, TInv, SyncRun2(a), a.id = airborne[a.client], NEW P, Linked(a.client, P),
         NEW R, R = [i \in 0..0 |-> viewOf[a.client].shadow]
  PROVE  Linked(a.client, R)'
<1> DEFINE c == a.client
           g == Received(file[c], a)
           Q == [i \in 0..0 |-> viewOf[c].shadow]
<1>0. /\ a \in Answers(typed) /\ c \in Clients /\ typed \in SUBSET Edits
      /\ file[c] \in FilesOf(typed) /\ viewOf[c] \in Views(typed) /\ syncs[c] \in Nat
      /\ requests[c] \in Seq(Requests(typed))
  BY DEF TInv, PagesT, GatewayT, SyncsT, NetworkT, HistoryT, Answers
<1>1. /\ answers' = answers \ {a} /\ file' = [file EXCEPT ![c] = g]
      /\ late' = late \cup (IF a.id = airborne[c] THEN {} ELSE {c})
      /\ airborne' = [airborne EXCEPT ![c] = 0]
      /\ UNCHANGED <<syncs, viewOf, requests>>
  BY DEF SyncRun2, EndSync, Received, gateway
<1>2. a.id = airborne[c]
  OBVIOUS
<1>3. /\ Link(file[c], viewOf[c], requests[c], syncs[c], P)
      /\ AnswerFor(file[c], viewOf[c], requests[c], P, a)
  BY <1>2 DEF Linked
<1>4. Link(g, viewOf[c], requests[c], syncs[c], Q)
  BY <1>0, <1>3, ReceiveLink, Zenon
<1>5. file'[c] = g /\ airborne'[c] = 0
  <2> HIDE DEF g
  <2> QED BY <1>0, <1>1 DEF TInv, PagesT, SyncsT
<1>6. R = Q
  OBVIOUS
<1>7. Link(file'[c], viewOf'[c], requests'[c], syncs'[c], R)
  BY <1>1, <1>4, <1>5, <1>6, Zenon
<1>8. \A b \in answers' : b.id # airborne'[c]
  BY <1>1, <1>5 DEF TInv, NetworkT
<1>9. Linked(c, R)'
  BY <1>7, <1>8, Zenon DEF Linked
<1> QED BY <1>9

LEMMA SyncRun2Others ==
  ASSUME NEW a \in answers, TInv, SyncRun2(a), NEW d \in Clients \ {a.client}, NEW P, Linked(d, P)
  PROVE  Linked(d, P)'
<1> DEFINE c == a.client
           g == Received(file[c], a)
<1>0. /\ a \in Answers(typed) /\ c \in Clients /\ typed \in SUBSET Edits
      /\ file[c] \in FilesOf(typed) /\ viewOf[c] \in Views(typed) /\ syncs[c] \in Nat
      /\ requests[c] \in Seq(Requests(typed))
  BY DEF TInv, PagesT, GatewayT, SyncsT, NetworkT, HistoryT, Answers
<1>1. /\ answers' = answers \ {a} /\ file' = [file EXCEPT ![c] = g]
      /\ late' = late \cup (IF a.id = airborne[c] THEN {} ELSE {c})
      /\ airborne' = [airborne EXCEPT ![c] = 0]
      /\ UNCHANGED <<syncs, viewOf, requests>>
  BY DEF SyncRun2, EndSync, Received, gateway
<1>2. /\ file'[d] = file[d] /\ requests'[d] = requests[d] /\ syncs'[d] = syncs[d]
      /\ viewOf'[d] = viewOf[d] /\ airborne'[d] = airborne[d]
  <2> HIDE DEF g
  <2> QED BY <1>1 DEF TInv, PagesT, SyncsT
<1>3. /\ SameFile(file'[d], file[d]) /\ Shorter(requests'[d], requests[d])
      /\ airborne'[d] \in {0, airborne[d]} /\ \A b \in answers' : b.client = d => b \in answers
  BY <1>1, <1>2 DEF SameFile, Shorter
<1>4. Linked(d, P)'
  BY <1>2, <1>3, KeepLinked, Zenon
<1> QED BY <1>4

LEMMA SyncRun2Links == ASSUME NEW a \in answers, TInv, LinksInv, SyncRun2(a) PROVE LinksInv'
<1> DEFINE c == a.client
           Q == [i \in 0..0 |-> viewOf[c].shadow]
<1>1. late' = late \cup (IF a.id = airborne[c] THEN {} ELSE {c}) /\ c \in Clients
  BY DEF SyncRun2, TInv, NetworkT, Answers
<1> SUFFICES ASSUME NEW d \in Clients, d \notin late' PROVE \E P : Linked(d, P)'
  BY DEF LinksInv
<1>2. PICK P : Linked(d, P)
  BY <1>1 DEF LinksInv
<1>3. CASE d = c
  <2>1. a.id = airborne[c]
    BY <1>1, <1>3
  <2>2. PICK R : R = Q
    OBVIOUS
  <2>3. Linked(c, R)'
    BY <1>2, <1>3, <2>1, <2>2, SyncRun2Linked, Zenon
  <2> QED BY <1>3, <2>3
<1>4. CASE d # c
  BY <1>2, <1>4, SyncRun2Others
<1> QED BY <1>3, <1>4

(* Every step is one of these kinds: *)
Quiet ==
  /\ UNCHANGED <<file, syncs, exists, master, viewOf, typed, deleted, early, had, hadMaster, late>>
  /\ answers' \subseteq answers
  /\ \A c \in Clients : /\ Shorter(requests'[c], requests[c]) /\ airborne'[c] \in {0, airborne[c]}
                        /\ c \in closed' \ unsent' =>
                             c \in closed \ unsent /\ requests'[c] = requests[c]
Edit(c, t) ==
  /\ file' = [file EXCEPT ![c] = [file[c] EXCEPT !.text = t]]
  /\ c \notin closed /\ closed' = closed /\ unsent' = unsent
  /\ UNCHANGED <<syncs, exists, master, viewOf, hadMaster, late, requests, answers, airborne>>
Sends(c) ==
  /\ SendSync(c) /\ c \notin closed /\ closed' \subseteq closed \cup {c} /\ unsent' = unsent
  /\ UNCHANGED <<exists, master, viewOf, typed, deleted, early, had, hadMaster, late>>
  /\ answers' \subseteq answers

LEMMA QuietKinds ==
  ASSUME TInv,
         \/ \E c \in Clients : Share(c) \/ SyncKill(c) \/ LoseRequest(c)
         \/ \E a \in answers : LoseAnswer(a) \/ SyncRun2Truncated(a) \/ SyncFailed(a)
         \/ UNCHANGED vars
  PROVE  Quiet
<1> USE DEF Shorter
<1>0. airborne \in [Clients -> Nat] /\ \A b \in answers : b.client \in Clients
  BY DEF TInv, SyncsT, NetworkT, Answers
<1>1. ASSUME NEW c \in Clients, Share(c) PROVE Quiet
  BY <1>1 DEF Quiet, Share, gateway, network, history
<1>2. ASSUME NEW c \in Clients, SyncKill(c) PROVE Quiet
  BY <1>0, <1>2 DEF Quiet, SyncKill, Abort, gateway, history
<1>3. ASSUME NEW c \in Clients, LoseRequest(c) PROVE Quiet
  <2>1. /\ UNCHANGED <<file, syncs, exists, master, viewOf, typed, deleted, early, had, hadMaster, late>>
        /\ airborne' = airborne /\ answers' = answers /\ closed' = closed
        /\ requests[c] # <<>> /\ requests' = [requests EXCEPT ![c] = Tail(@)]
        /\ unsent' = unsent \cup ({c} \cap closed)
    BY <1>3 DEF LoseRequest, client, gateway
  <2>2. \A d \in Clients : Shorter(requests'[d], requests[d]) /\ (d # c => requests'[d] = requests[d])
    BY <2>1 DEF TInv, NetworkT
  <2> QED BY <2>1, <2>2 DEF Quiet
<1>4. ASSUME NEW a \in answers, LoseAnswer(a) \/ SyncRun2Truncated(a) \/ SyncFailed(a) PROVE Quiet
  <2>1. CASE LoseAnswer(a)
    BY <2>1 DEF Quiet, LoseAnswer, client, gateway, history
  <2>2. CASE SyncRun2Truncated(a)
    BY <1>0, <2>2 DEF Quiet, SyncRun2Truncated, EndSync, gateway, history
  <2>3. CASE SyncFailed(a)
    BY <1>0, <2>3 DEF Quiet, SyncFailed, gateway, history
  <2> QED BY <1>4, <2>1, <2>2, <2>3
<1>5. ASSUME UNCHANGED vars PROVE Quiet
  BY <1>5 DEF Quiet, vars, client, gateway, network, history
<1> QED BY <1>1, <1>2, <1>3, <1>4, <1>5

LEMMA EditKinds ==
  ASSUME TInv, NEW c \in Clients, NEW e \in Edits, Type(c, e) \/ Delete(c, e)
  PROVE  \E t : Edit(c, t)
<1>1. file \in [Clients -> FilesOf(typed)]
  BY DEF TInv, PagesT
<1>2. CASE Type(c, e)
  <2>1. file' = [file EXCEPT ![c] = [file[c] EXCEPT !.text = [file[c].text EXCEPT ![e] = @ + 1]]]
    BY <1>1, <1>2 DEF Type
  <2> QED BY <1>2, <2>1 DEF Type, Edit, gateway, network
<1>3. CASE Delete(c, e)
  <2>1. file' = [file EXCEPT ![c] = [file[c] EXCEPT !.text = [file[c].text EXCEPT ![e] = 0]]]
    BY <1>1, <1>3 DEF Delete
  <2> QED BY <1>3, <2>1 DEF Delete, Edit, gateway, network
<1> QED BY <1>2, <1>3

LEMMA NextKinds ==
  ASSUME TInv, [Next]_vars
  PROVE  \/ Quiet
         \/ \E c \in Clients : Sends(c) \/ Serve(c) \/ \E e \in Edits : Type(c, e) \/ Delete(c, e)
         \/ \E a \in answers : SyncRun2(a)
<1>1. ASSUME NEW c \in Clients, SyncRun1(c) PROVE Sends(c)
  BY <1>1 DEF SyncRun1, Sends, gateway, history
<1>2. ASSUME NEW c \in Clients, Unload(c) PROVE Quiet \/ Sends(c)
  <2>1. /\ c \notin closed /\ closed' = closed \cup {c} /\ answers' \subseteq answers
        /\ UNCHANGED <<exists, master, viewOf, typed, deleted, early, had, hadMaster, late>>
    BY <1>2 DEF Unload, Abort, gateway
  <2>2. CASE SendSync(c) /\ unsent' = unsent
    BY <2>1, <2>2 DEF Sends
  <2>3. CASE unsent' = unsent \cup {c} /\ UNCHANGED <<file, airborne, syncs, requests>>
    BY <2>1, <2>3 DEF Quiet, Shorter
  <2> QED BY <1>2, <2>2, <2>3 DEF Unload
<1> QED BY <1>1, <1>2, QuietKinds DEF Next

LEMMA EditLinked ==
  ASSUME TInv, NEW c \in Clients, NEW t, Edit(c, t), NEW d \in Clients, NEW P, Linked(d, P)
  PROVE  Linked(d, P)'
<1>1. /\ viewOf'[d] = viewOf[d] /\ syncs'[d] = syncs[d] /\ Shorter(requests'[d], requests[d])
      /\ airborne'[d] \in {0, airborne[d]} /\ \A a \in answers' : a.client = d => a \in answers
  BY DEF Edit, Shorter
<1>2. SameFile(file'[d], file[d])
  BY DEF Edit, SameFile, TInv, PagesT, FilesOf
<1> QED BY <1>1, <1>2, KeepLinked, Zenon

LEMMA QuietLinked ==
  ASSUME TInv, Quiet, NEW d \in Clients, NEW P, Linked(d, P)
  PROVE  Linked(d, P)'
<1>1. /\ viewOf'[d] = viewOf[d] /\ syncs'[d] = syncs[d] /\ Shorter(requests'[d], requests[d])
      /\ airborne'[d] \in {0, airborne[d]} /\ \A a \in answers' : a.client = d => a \in answers
      /\ SameFile(file'[d], file[d])
  BY DEF Quiet, SameFile
<1> QED BY <1>1, KeepLinked, Zenon

LEMMA NextLinks == ASSUME TInv, LinksInv, [Next]_vars PROVE LinksInv'
<1>1. CASE Quiet
  <2>1. late' = late
    BY <1>1 DEF Quiet
  <2> QED BY <1>1, <2>1, QuietLinked DEF LinksInv
<1>2. ASSUME NEW c \in Clients, Sends(c) PROVE LinksInv'
  BY <1>2, SendSyncLinks DEF Sends
<1>3. ASSUME NEW c \in Clients, NEW e \in Edits, Type(c, e) \/ Delete(c, e) PROVE LinksInv'
  <2>1. PICK t : Edit(c, t)
    BY <1>3, EditKinds
  <2>2. late' = late
    BY <2>1 DEF Edit
  <2> QED BY <2>1, <2>2, EditLinked DEF LinksInv
<1> QED BY <1>1, <1>2, <1>3, NextKinds, ServeLinks, SyncRun2Links

(* The same version numbers: nothing is on the stack, and the shadow is the *)
(* gateway's.                                                                *)
LEMMA LinkShadow ==
  ASSUME NEW D \in SUBSET Edits, NEW f \in FilesOf(D), NEW w \in Views(D), NEW q, NEW n, NEW P,
         Link(f, w, q, n, P), f.clientVersion = w.cv, f.serverVersion = w.sv
  PROVE  f.shadowText = w.shadow
<1> DEFINE L == Len(f.editStack)
<1>1. L \in Nat /\ f.clientVersion \in Nat /\ f.serverVersion \in Nat /\ w.cv \in Nat
  <2>1. f.editStack \in Seq(Entries(D))
    BY DEF FilesOf
  <2> QED BY <2>1, LenProperties DEF FilesOf, Views
<1>2. P[L] = f.shadowText /\ (Fresh(f, w, P) \/ Ahead(f, w, P))
  BY DEF Link, StackOf
<1>3. ~Ahead(f, w, P)
  BY <1>1 DEF Ahead
<1>4. w.cv - (f.clientVersion - L) = 0 /\ w.shadow = P[0]
  BY <1>2, <1>3 DEF Fresh, Seen, Base
<1>5. L = 0
  <2> HIDE DEF L
  <2> QED BY <1>1, <1>4
<1> QED BY <1>2, <1>4, <1>5

LEMMA ShadowsFollow == ASSUME TInv, LinksInv PROVE ShadowsInv
<1>1. TypeOK
  <2>1. file \in [Clients -> Files]
    <3>1. ASSUME NEW f \in FilesOf(typed) PROVE f \in Files
      <4>1. Entries(typed) \subseteq [kind : {"d", "r"}, v : Nat, of : Nat, body : [Edits -> Int]]
        BY DEF Entries, DiffsOf
      <4>2. PICK X : X = [kind : {"d", "r"}, v : Nat, of : Nat, body : [Edits -> Int]]
        OBVIOUS
      <4>3. f.editStack \in Seq(X)
        <5>1. PICK Y : Y = Entries(typed)
          OBVIOUS
        <5>2. Y \subseteq X
          BY <4>1, <4>2, <5>1, Zenon
        <5>3. Seq(Y) \subseteq Seq(X)
          BY <5>2
        <5>4. f.editStack \in Seq(Y)
          BY <5>1 DEF FilesOf
        <5> QED BY <5>3, <5>4
      <4> QED BY <4>2, <4>3 DEF FilesOf, Files, TextsOf
    <3> QED BY <3>1 DEF TInv, PagesT
  <2>2. \A c \in Clients : airborne[c] \in 0..syncs[c] /\ syncs[c] \in 0..MaxSyncs[c]
    BY BoundsAssumption DEF TInv, SyncsT
  <2>3. \A a \in answers : a.client \in Clients /\ a.id \in 1..MaxSyncs[a.client] /\ a.kind \in {"d", "R"}
    <3> SUFFICES ASSUME NEW a \in answers
                 PROVE  a.client \in Clients /\ a.id \in 1..MaxSyncs[a.client] /\ a.kind \in {"d", "R"}
      OBVIOUS
    <3>1. a.client \in Clients /\ a.kind \in {"d", "R"}
      BY DEF TInv, NetworkT, Answers
    <3>2. a.id \in 1..syncs[a.client]
      BY DEF TInv, NetworkT
    <3>3. syncs[a.client] \in Nat /\ MaxSyncs[a.client] \in Nat /\ syncs[a.client] <= MaxSyncs[a.client]
      BY <3>1, BoundsAssumption DEF TInv, SyncsT
    <3> QED BY <3>1, <3>2, <3>3
  <2>4. master \in Texts
    BY DEF TInv, GatewayT, TextsOf
  <2> QED BY <2>1, <2>2, <2>3, <2>4 DEF TInv, PagesT, GatewayT, NetworkT, HistoryT, TypeOK
<1>2. SameVersionSameShadow
  <2> SUFFICES ASSUME NEW c \in Clients, c \notin late, file[c].clientVersion = viewOf[c].cv,
                      file[c].serverVersion = viewOf[c].sv
               PROVE  file[c].shadowText = viewOf[c].shadow
    BY DEF SameVersionSameShadow, TInv, PagesT
  <2>1. PICK P : Linked(c, P)
    BY DEF LinksInv
  <2>2. file[c] \in FilesOf(typed) /\ viewOf[c] \in Views(typed) /\ typed \in SUBSET Edits
    BY DEF TInv, PagesT, GatewayT, HistoryT
  <2>3. Link(file[c], viewOf[c], requests[c], syncs[c], P)
    BY <2>1 DEF Linked
  <2> QED BY <2>2, <2>3, LinkShadow, Zenon
<1> QED BY <1>1, <1>2 DEF ShadowsInv

(* A client and the gateway that have the same version numbers have the same  *)
(* shadow, whatever was lost, given up and sent again, for any number of      *)
(* clients, edits, syncs and faults, unless the client acted on a late answer.*)
THEOREM ShadowsAgree == Spec => []ShadowsInv
<1>1. TInv /\ LinksInv /\ [Next]_vars => (TInv /\ LinksInv)'
  BY NextTyped, NextLinks
<1>2. TInv /\ LinksInv => ShadowsInv
  BY ShadowsFollow
<1>3. Init => TInv /\ LinksInv
  BY InitTyped, InitLinks
<1> QED BY <1>1, <1>2, <1>3, PTL DEF Spec

-----------------------------------------------------------------------------
(* What becomes of an edit, as long as no client acted on a late answer.  In *)
(* each text it has an age: 0 before it comes, 1 while it is there, 2 when   *)
(* it has gone or can no longer come.  Along the texts of a client, and from *)
(* a text to where it is copied, ages only grow; a merge takes the greater.  *)

One(r) == IF r = 1 THEN 1 ELSE 0
Later(a, b) == IF a < b THEN b ELSE a

(* The ages r along a stack of L entries of which the gateway has seen p, t   *)
(* in the client's text, v in the gateway's shadow of it, m in the shared one.*)
Grows(L, p, r, t, v, m) ==
  /\ r \in [0..L -> 0..2] /\ t \in 0..2 /\ v \in 0..2 /\ m \in 0..2
  /\ \A i, j \in 0..L : i <= j => r[i] <= r[j]
  /\ r[L] <= t /\ r[p] <= v /\ v <= m

(* The author's edit comes to the shared text from the author's, and to other *)
(* texts from the shared one.                                                 *)
Comes(p, r, t, m, mine) ==
  /\ mine /\ m # 0 => r[p] # 0
  /\ ~mine /\ r[0] = 0 => t = 0
  /\ ~mine /\ t # 0 => m # 0

(* A difference of two texts, applied to a third one. *)
LEMMA MergeStep ==
  ASSUME NEW a \in 0..2, NEW b \in 0..2, a <= b, NEW q \in 0..2, a <= q, a = 0 /\ b # 0 => q = 0
  PROVE  One(Later(q, b)) = IF One(q) + (One(b) - One(a)) < 0 THEN 0 ELSE One(q) + (One(b) - One(a))
<1> USE DEF One, Later
<1>1. CASE a = b
  <2>1. Later(q, b) = q
    BY <1>1
  <2> QED BY <1>1, <2>1
<1>2. CASE a = 0 /\ b # 0
  BY <1>2
<1>3. CASE a = 1 /\ b = 2
  BY <1>3
<1> QED BY <1>1, <1>2, <1>3

LEMMA PatchedAt ==
  ASSUME NEW t \in Texts, NEW u \in Texts, NEW s \in Texts, NEW e \in Edits
  PROVE  Patched(s, Diff(t, u))[e] =
           IF s[e] + (u[e] - t[e]) < 0 THEN 0 ELSE s[e] + (u[e] - t[e])
BY DEF Patched, Diff, Texts

(* A whole text is not used if there is a shared text already: what it alone  *)
(* has is gone.                                                               *)
Skips(f, w, x) == x /\ Seen(f, w) = 0 /\ f.editStack[1].kind = "r"
Merged(f, w, x, r, m, j) ==
  IF j <= Seen(f, w) THEN m ELSE IF Skips(f, w, x) /\ r[1] = 1 THEN 2 ELSE Later(m, r[j])

(* When the gateway can tell that there is a shared text. *)
Numbers(f, w, x) ==
  /\ f.deltaOk => f.clientVersion # 0
  /\ \A i \in 1..Len(f.editStack) : f.editStack[i].v # 0
  /\ Seen(f, w) # 0 \/ Base(f) # 0 => x

(* An entry of which the number says that it is the client's first is a whole *)
(* text.                                                                      *)
Starts(f, P, x) ==
  \A i \in 1..Len(f.editStack) :
    IF f.editStack[i].kind = "r" THEN i = 1 /\ f.editStack[i].body = P[1]
    ELSE f.editStack[i].body = Diff(P[i-1], P[i]) /\ (i = 1 => x)

LEMMA StackStarts ==
  ASSUME NEW f, NEW w, NEW P, StackOf(f, P), NEW x, Numbers(f, w, x), Len(f.editStack) \in Nat
  PROVE  Starts(f, P, x)
<1>1. ASSUME NEW i \in 1..Len(f.editStack), f.editStack[i].kind # "r"
      PROVE  f.editStack[i].body = Diff(P[i-1], P[i]) /\ (i = 1 => x)
  <2>1. DiffEntry(f.editStack[i], Base(f), P, i)
    BY <1>1 DEF StackOf, WholeEntry
  <2>2. f.editStack[i].v = Base(f) + i - 1 /\ f.editStack[i].v # 0 /\ Base(f) \in Nat
    BY <2>1 DEF DiffEntry, Numbers, StackOf
  <2>3. i = 1 => Base(f) # 0
    BY <2>2
  <2> QED BY <2>1, <2>3 DEF DiffEntry, Numbers
<1>2. ASSUME NEW i \in 1..Len(f.editStack), f.editStack[i].kind = "r"
      PROVE  i = 1 /\ f.editStack[i].body = P[1]
  BY <1>2 DEF StackOf, DiffEntry, WholeEntry
<1> QED BY <1>1, <1>2 DEF Starts

(* After the first request that is handled there is a shared text. *)
ExistsAlong(F, l, x) == \A j \in 0..l : F[j].exists <=> (x \/ j # 0)

LEMMA ServedExists ==
  ASSUME NEW D \in SUBSET Edits, NEW f \in FilesOf(D), NEW w \in Views(D), NEW P, StackOf(f, P),
         NEW u, NEW x \in BOOLEAN, NEW n \in Nat, NEW q, RequestOf(f, q, n),
         NEW F, Along(f, w, P, q, u, x, F), \A j \in 0..Len(q.edits) : F[j] \in States(D),
         Numbers(f, w, x), Seen(f, w) \in Nat
  PROVE  ExistsAlong(F, Len(q.edits), x)
<1> DEFINE l == Len(q.edits)
           p == Seen(f, w)
           M == {j \in Nat : j \in 0..l => (F[j].exists <=> (x \/ j # 0))}
<1>1. l \in 1..Len(f.editStack) /\ Len(f.editStack) \in Nat
  <2>1. f.editStack \in Seq(Entries(D))
    BY DEF FilesOf
  <2> QED BY <2>1, LenProperties DEF RequestOf
<1>2. /\ F[0].exists = x
      /\ \A j \in 1..l : IF p < j
           THEN F[j].exists = (F[j-1].exists \/ f.editStack[j].kind = "r")
           ELSE F[j] = F[j-1]
      /\ \A j \in 0..l : F[j].exists \in BOOLEAN
  BY DEF Along, States
<1>3. (p # 0 => x) /\ (f.editStack[1].kind = "r" \/ x)
  <2>1. 1 \in 1..Len(f.editStack)
    BY <1>1
  <2>2. Starts(f, P, x)
    BY <1>1, StackStarts, Zenon
  <2> QED BY <2>1, <2>2 DEF Numbers, Starts
<1> HIDE DEF l, p
<1>4. 0 \in M
  BY <1>2
<1>5. ASSUME NEW j \in Nat, j \in M PROVE j + 1 \in M
  <2> SUFFICES ASSUME j + 1 \in 0..l PROVE F[j+1].exists
    OBVIOUS
  <2>1. j \in 0..l /\ j + 1 \in 1..l /\ (j + 1) - 1 = j
    BY <1>1 DEF l
  <2>2. F[j].exists <=> (x \/ j # 0)
    BY <1>5, <2>1
  <2>3. CASE p < j + 1
    <3>1. F[j+1].exists = (F[j].exists \/ f.editStack[j+1].kind = "r")
      BY <1>2, <2>1, <2>3
    <3>2. j = 0 => f.editStack[j+1].kind = "r" \/ x
      BY <1>3
    <3> QED BY <2>2, <3>1, <3>2
  <2>4. CASE ~(p < j + 1)
    <3>1. p # 0 /\ F[j+1] = F[j]
      BY <1>2, <2>1, <2>4 DEF p
    <3> QED BY <1>3, <2>2, <3>1
  <2> QED BY <2>3, <2>4
<1> HIDE DEF M
<1>6. Nat \subseteq M
  BY <1>4, <1>5, NatInduct
<1>7. ASSUME NEW j \in 0..l PROVE F[j].exists <=> (x \/ j # 0)
  BY <1>1, <1>6 DEF M, l
<1> QED BY <1>7 DEF l, ExistsAlong

(* The ages of edit e along a stack. *)
Carries(f, w, P, e, r, t, v, m, mine) ==
  /\ Grows(Len(f.editStack), Seen(f, w), r, t, v, m) /\ Comes(Seen(f, w), r, t, m, mine)
  /\ \A i \in 0..Len(f.editStack) : P[i][e] = One(r[i])
  /\ \A i \in 1..Len(f.editStack) : f.editStack[i].kind = "r" /\ r[i] # 0 => mine

LEMMA MergedText ==
  ASSUME NEW D \in SUBSET Edits, NEW f \in FilesOf(D), NEW w \in Views(D), NEW P, StackOf(f, P),
         Fresh(f, w, P) \/ Ahead(f, w, P), NEW u \in TextsOf(D), NEW x \in BOOLEAN,
         NEW n \in Nat, NEW q \in Requests(D), RequestOf(f, q, n),
         NEW F, Along(f, w, P, q, u, x, F), \A j \in 0..Len(q.edits) : F[j] \in States(D),
         NEW e \in Edits, NEW r, NEW t, NEW v, NEW m, NEW mine, Carries(f, w, P, e, r, t, v, m, mine),
         u[e] = One(m), ~x => m = 0, Numbers(f, w, x)
  PROVE  F[Len(q.edits)].text[e] = One(Merged(f, w, x, r, m, Len(q.edits)))
<1> DEFINE L == Len(f.editStack)
           l == Len(q.edits)
           p == Seen(f, w)
           G(j) == Merged(f, w, x, r, m, j)
           M == {j \in Nat : j \in 0..l => F[j].text[e] = One(G(j))}
<1>0. /\ Grows(L, p, r, t, v, m) /\ Comes(p, r, t, m, mine)
      /\ \A i \in 0..L : P[i][e] = One(r[i])
      /\ \A i \in 1..L : f.editStack[i].kind = "r" /\ r[i] # 0 => mine
  BY DEF Carries
<1>1. /\ l \in 1..L /\ L \in Nat /\ p \in 0..L
      /\ \A i \in 1..L : f.editStack[i] \in Entries(D)
  <2>1. f.editStack \in Seq(Entries(D))
    BY DEF FilesOf
  <2>2. L \in Nat /\ \A i \in 1..L : f.editStack[i] \in Entries(D)
    BY <2>1, LenProperties, ElementOfSeq
  <2>3. p \in 0..L
    <3> HIDE DEF L
    <3> QED BY <2>2 DEF Fresh, Ahead, L
  <2> QED BY <2>2, <2>3 DEF RequestOf
<1>2. /\ \A i \in 0..L : r[i] \in 0..2 /\ P[i] \in Texts
      /\ \A i, j \in 0..L : i <= j => r[i] <= r[j]
      /\ t \in 0..2 /\ m \in 0..2 /\ r[L] <= t /\ r[p] <= m
  <2>1. P \in [0..L -> Texts]
    BY DEF StackOf
  <2>2. r \in [0..L -> 0..2] /\ v \in 0..2 /\ r[p] <= v /\ v <= m /\ t \in 0..2 /\ m \in 0..2
    BY <1>0 DEF Grows
  <2>3. r[p] \in 0..2
    BY <1>1, <2>2
  <2>4. r[p] <= m
    BY <2>2, <2>3
  <2> QED BY <1>0, <2>1, <2>2, <2>4 DEF Grows
<1>3. /\ F[0].text = u /\ F[0].exists = x
      /\ \A j \in 1..l : IF p < j
           THEN /\ F[j].text = TextWith(F[j-1], f.editStack[j], P, j)
                /\ F[j].exists = (F[j-1].exists \/ f.editStack[j].kind = "r")
           ELSE F[j] = F[j-1]
      /\ \A j \in 0..l : F[j].text \in Texts /\ F[j].exists \in BOOLEAN
  <2>1. \A j \in 0..l : F[j].text \in Texts /\ F[j].exists \in BOOLEAN
    BY DEF States, TextsOf
  <2> QED BY <2>1 DEF Along
<1>4. /\ (p # 0 => x)
      /\ \A i \in 1..L : IF f.editStack[i].kind = "r" THEN i = 1 /\ f.editStack[i].body = P[1]
                         ELSE f.editStack[i].body = Diff(P[i-1], P[i]) /\ (i = 1 => x)
  <2>1. Starts(f, P, x)
    BY <1>1, StackStarts, Zenon
  <2> QED BY <2>1 DEF Numbers, Starts
<1>5. \A j \in 0..l : F[j].exists <=> (x \/ j # 0)
  <2>1. p \in Nat
    BY <1>1
  <2>2. ExistsAlong(F, l, x)
    BY <2>1, ServedExists, Zenon
  <2> QED BY <2>2 DEF ExistsAlong
<1> HIDE DEF L, l, p
(* What the author's text has the shared one has, too, or it is still to come. *)
<1>6. ASSUME NEW j \in 0..L, NEW k \in 0..L, p <= j, j <= k, r[j] = 0, r[k] # 0
      PROVE  m = 0 /\ mine
  <2>1. r[0] \in 0..2 /\ r[p] \in 0..2 /\ r[j] \in 0..2 /\ r[k] \in 0..2 /\ r[L] \in 0..2
        /\ r[0] <= r[p] /\ r[p] <= r[j] /\ r[k] <= r[L] /\ 0 \in 0..L /\ L \in 0..L
    BY <1>1, <1>2, <1>6
  <2>2. r[0] = 0 /\ r[p] = 0 /\ t # 0
    BY <1>2, <1>6, <2>1
  <2> QED BY <1>0, <2>2 DEF Comes, p
<1>7. 0 \in M
  <2>1. G(0) = m
    BY <1>1 DEF Merged, p
  <2> QED BY <1>3, <2>1
<1>8. ASSUME NEW j \in Nat, j \in M PROVE j + 1 \in M
  <2> SUFFICES ASSUME j + 1 \in 0..l
               PROVE  F[j+1].text[e] = One(G(j+1))
    OBVIOUS
  <2>1. /\ j \in 0..l /\ j + 1 \in 1..l /\ (j + 1) - 1 = j /\ j \in 0..L /\ j + 1 \in 0..L
        /\ j + 1 \in 1..L
    BY <1>1
  <2>2. F[j].text[e] = One(G(j)) /\ (F[j].exists <=> (x \/ j # 0))
    BY <1>8, <1>5, <2>1
  <2>3. /\ r[j] \in 0..2 /\ r[j+1] \in 0..2 /\ r[j] <= r[j+1] /\ P[j] \in Texts /\ P[j+1] \in Texts
        /\ P[j][e] = One(r[j]) /\ P[j+1][e] = One(r[j+1]) /\ F[j].text \in Texts
    BY <1>0, <1>2, <1>3, <2>1 DEF L
  <2>4. CASE ~(p < j + 1)
    <3>1. j <= p /\ j + 1 <= p /\ p # 0
      BY <1>1, <2>1, <2>4
    <3>2. G(j) = m /\ G(j+1) = m
      BY <3>1 DEF Merged, p
    <3>3. F[j+1] = F[j]
      BY <1>3, <2>1, <2>4
    <3> QED BY <1>4, <2>2, <3>1, <3>2, <3>3
  <2>5. CASE p < j + 1 /\ f.editStack[j+1].kind = "r"
    <3>1. j = 0 /\ p = 0 /\ f.editStack[1].kind = "r" /\ f.editStack[1].body = P[1]
      BY <1>1, <1>4, <2>1, <2>5
    <3>2. F[0].text = u /\ F[0].exists = x
      BY <1>3
    <3>3. F[1].text = (IF x THEN u ELSE P[1]) /\ F[1].exists = TRUE
      BY <1>3, <2>1, <3>1, <3>2 DEF TextWith
    <3>4. G(1) = IF x /\ r[1] = 1 THEN 2 ELSE Later(m, r[1])
      BY <3>1 DEF Merged, Skips, p
    <3>5. r[1] # 0 => mine
      BY <1>0, <2>1, <3>1 DEF L
    <3>6. r[0] \in 0..2 /\ r[1] \in 0..2 /\ r[0] <= r[1] /\ P[1][e] = One(r[1]) /\ P[0][e] = One(r[0])
      BY <2>3, <3>1
    <3>7. r[0] <= m /\ m \in 0..2 /\ (mine /\ m # 0 => r[0] # 0)
      BY <1>0, <1>2, <3>1 DEF Comes, p
    <3>8. r[0] # 1
      <4>1. P[0] = Empty
        <5>1. 1 \in 1..Len(f.editStack)
          BY <2>1, <3>1 DEF L
        <5>2. DiffEntry(f.editStack[1], Base(f), P, 1) \/ WholeEntry(f.editStack[1], Base(f), P, 1)
          BY <5>1 DEF StackOf
        <5> QED BY <3>1, <5>2 DEF WholeEntry, DiffEntry
      <4> QED BY <3>6, <4>1 DEF One, Empty
    <3>9. m # 0 /\ r[1] # 0 => r[0] # 0
      BY <3>5, <3>7
    <3>10. F[1].text[e] = One(G(1))
      <4>1. CASE x
        <5>1. F[1].text[e] = One(m)
          BY <3>3, <4>1
        <5>2. CASE r[1] = 0
          <6>1. G(1) = m
            BY <3>4, <3>7, <5>2 DEF Later
          <6> QED BY <5>1, <6>1
        <5>3. CASE r[1] = 1
          <6>1. m = 0
            BY <3>9, <3>6, <3>7, <3>8, <5>3
          <6>2. G(1) = 2
            BY <3>4, <4>1, <5>3
          <6> QED BY <5>1, <6>1, <6>2 DEF One
        <5>4. CASE r[1] = 2
          <6>1. m = 0 \/ m = 2
            BY <3>9, <3>6, <3>7, <3>8, <5>4
          <6>2. G(1) = Later(m, r[1])
            BY <3>4, <5>4
          <6>3. G(1) = 2
            BY <5>4, <6>1, <6>2 DEF Later
          <6> QED BY <5>1, <6>1, <6>3 DEF One
        <5> QED BY <3>6, <5>2, <5>3, <5>4
      <4>2. CASE ~x
        <5>1. m = 0 /\ G(1) = r[1]
          BY <3>4, <3>6, <4>2 DEF Later
        <5> QED BY <3>3, <3>6, <4>2, <5>1
      <4> QED BY <4>1, <4>2
    <3> QED BY <3>1, <3>3, <3>10
  <2>6. CASE p < j + 1 /\ f.editStack[j+1].kind # "r"
    <3>1. F[j+1].text = Patched(F[j].text, Diff(P[j], P[j+1])) /\ F[j+1].exists = F[j].exists
      <4>1. f.editStack[j+1].body = Diff(P[(j+1)-1], P[j+1])
        BY <1>4, <2>1, <2>6
      <4> QED BY <1>3, <2>1, <2>6, <4>1 DEF TextWith
    <3>2. j # 0 \/ x
      BY <1>4, <2>1, <2>6
    <3>3. F[j+1].text[e] = IF One(G(j)) + (One(r[j+1]) - One(r[j])) < 0 THEN 0
                           ELSE One(G(j)) + (One(r[j+1]) - One(r[j]))
      <4>1. Patched(F[j].text, Diff(P[j], P[j+1]))[e] =
              IF F[j].text[e] + (P[j+1][e] - P[j][e]) < 0 THEN 0
              ELSE F[j].text[e] + (P[j+1][e] - P[j][e])
        BY <2>3, PatchedAt, Zenon
      <4> QED BY <2>2, <2>3, <3>1, <4>1, Zenon
    <3>4. CASE Skips(f, w, x) /\ r[1] = 1
      <4>1. p = 0 /\ f.editStack[1].kind = "r"
        BY <3>4 DEF Skips, p
      <4>2. j # 0 /\ 1 \in 0..L /\ 1 <= j
        <5>1. j = 0 => f.editStack[j+1].kind = "r"
          BY <4>1
        <5> QED BY <1>1, <2>1, <2>6, <5>1
      <4>3. r[1] <= r[j]
        BY <1>2, <2>1, <4>2
      <4>4. G(j) = 2 /\ G(j+1) = 2
        BY <2>1, <3>4, <4>1, <4>2 DEF Merged, p
      <4> QED BY <2>2, <2>3, <3>1, <3>2, <3>3, <3>4, <4>3, <4>4 DEF One
    <3>5. CASE ~(Skips(f, w, x) /\ r[1] = 1)
      <4>1. G(j+1) = Later(m, r[j+1])
        <5>1. ~(j + 1 <= p)
          BY <1>1, <2>1, <2>6
        <5> QED BY <3>5, <5>1, Zenon DEF Merged, p
      <4>2. G(j) = IF j <= p THEN m ELSE Later(m, r[j])
        BY <3>5 DEF Merged, p
      <4>3. p <= j
        BY <1>1, <2>1, <2>6
      <4>4. r[j] <= G(j) /\ G(j) \in 0..2
        <5>1. CASE j <= p
          <6>1. j = p
            BY <1>1, <4>3, <5>1
          <6> QED BY <1>2, <4>2, <5>1, <6>1
        <5>2. CASE ~(j <= p)
          BY <1>2, <2>3, <4>2, <5>2 DEF Later
        <5> QED BY <5>1, <5>2
      <4>5. r[j] = 0 /\ r[j+1] # 0 => m = 0 /\ G(j) = 0
        <5>1. r[j] = 0 /\ r[j+1] # 0 => m = 0
          BY <1>6, <2>1, <4>3
        <5> QED BY <4>2, <5>1 DEF Later
      <4>6. Later(G(j), r[j+1]) = Later(m, r[j+1])
        BY <1>2, <2>3, <4>2 DEF Later
      <4>7. PICK a \in 0..2, b \in 0..2, g \in 0..2 : a = r[j] /\ b = r[j+1] /\ g = G(j)
        BY <2>3, <4>4
      <4>8. One(Later(g, b)) = IF One(g) + (One(b) - One(a)) < 0 THEN 0 ELSE One(g) + (One(b) - One(a))
        BY <2>3, <4>4, <4>5, <4>7, MergeStep
      <4>9. F[j+1].text[e] = One(G(j+1))
        BY <3>3, <4>1, <4>6, <4>7, <4>8, Zenon
      <4> QED BY <2>1, <2>2, <3>1, <3>2, <4>9
    <3> QED BY <3>4, <3>5
  <2> QED BY <2>4, <2>5, <2>6
<1> HIDE DEF M
<1>9. Nat \subseteq M
  BY <1>7, <1>8, NatInduct
<1>10. l \in M /\ l \in 0..l /\ l # 0
  BY <1>1, <1>9
<1>11. F[l].text[e] = One(G(l))
  BY <1>10 DEF M
<1> QED BY <1>11 DEF l

NumbersInv == late = {} => \A c \in Clients : Numbers(file[c], viewOf[c], exists)

LEMMA SameNumbers ==
  ASSUME NEW f, NEW f2, SameFile(f2, f), NEW w, NEW x, NEW x2, x => x2, Numbers(f, w, x)
  PROVE  Numbers(f2, w, x2)
<1>1. Base(f2) = Base(f) /\ Seen(f2, w) = Seen(f, w)
  BY Zenon DEF SameFile, Base, Seen
<1> QED BY <1>1, Zenon DEF Numbers, SameFile

LEMMA SyncTextNumbers ==
  ASSUME NEW D \in SUBSET Edits, NEW f \in FilesOf(D), NEW w, NEW P, StackOf(f, P), NEW x,
         Numbers(f, w, x)
  PROVE  Numbers(SyncText(f), w, x)
<1> DEFINE g == SyncText(f)
<1>2. /\ g.deltaOk
      /\ \/ /\ f.deltaOk /\ g = f /\ f.editStack # <<>>
         \/ /\ f.deltaOk /\ g.clientVersion = f.clientVersion + 1
            /\ g.editStack = Append(f.editStack, DeltaOf(f))
         \/ /\ ~f.deltaOk /\ g.clientVersion = f.clientVersion + 1
            /\ g.editStack = Append(f.editStack, WholeOf(f))
  BY SyncTextIs, Zenon
<1>3. Base(g) = Base(f)
  BY GrownIs, Zenon
<1>4. f.editStack \in Seq(Entries(D)) /\ f.clientVersion \in Nat
  BY DEF FilesOf
<1> HIDE DEF g
<1> SUFFICES Numbers(g, w, x)
  BY DEF g
<1>5. CASE g = f
  BY <1>5
<1>6. ASSUME NEW y \in Entries(D), g.editStack = Append(f.editStack, y), y.v # 0,
             g.clientVersion = f.clientVersion + 1
      PROVE  Numbers(g, w, x)
  <2>1. PICK E : E = g.editStack
    OBVIOUS
  <2>2. Len(E) = Len(f.editStack) + 1 /\ E[Len(f.editStack) + 1] = y
        /\ \A i \in 1..Len(f.editStack) : E[i] = f.editStack[i]
    BY <1>4, <1>6, <2>1, AppendProperties
  <2>3. \A i \in 1..Len(f.editStack) : f.editStack[i].v # 0
    BY DEF Numbers
  <2>4. Len(f.editStack) \in Nat
    BY <1>4, LenProperties
  <2>5. ASSUME NEW i \in 1..Len(E) PROVE E[i].v # 0
    <3>1. CASE i = Len(f.editStack) + 1
      BY <1>6, <2>2, <3>1
    <3>2. CASE i # Len(f.editStack) + 1
      <4>1. i \in 1..Len(f.editStack)
        BY <2>2, <2>4, <3>2
      <4> QED BY <2>2, <2>3, <4>1
    <3> QED BY <3>1, <3>2
  <2>6. g.clientVersion # 0
    BY <1>4, <1>6
  <2>7. Seen(g, w) = Seen(f, w)
    BY <1>3, Zenon DEF Seen
  <2> QED BY <1>3, <2>1, <2>5, <2>6, <2>7, Zenon DEF Numbers
<1>7. CASE f.deltaOk /\ g # f
  <2>1. DeltaOf(f) \in Entries(D)
    BY DeltaOfTyped
  <2>2. DeltaOf(f).v # 0
    BY <1>7 DEF DeltaOf, Numbers
  <2> QED BY <1>2, <1>6, <1>7, <2>1, <2>2
<1>8. CASE ~f.deltaOk
  <2>1. WholeOf(f) \in Entries(D)
    BY WholeOfTyped
  <2>2. WholeOf(f).v # 0
    BY <1>4 DEF WholeOf
  <2> QED BY <1>2, <1>6, <1>8, <2>1, <2>2
<1> QED BY <1>2, <1>5, <1>7, <1>8

(* What the gateway makes of a client's request, edit by edit. *)
LEMMA ServeRuns ==
  ASSUME TInv, NEW c \in Clients, Serve(c), NEW P, Linked(c, P)
  PROVE  /\ Head(requests[c]) \in Requests(typed)
         /\ RequestOf(file[c], Head(requests[c]), syncs[c])
         /\ RunsAlong(file[c], viewOf[c], P, Head(requests[c]), master, exists, typed)
<1>1. /\ file[c] \in FilesOf(typed) /\ viewOf[c] \in Views(typed) /\ syncs[c] \in Nat
      /\ requests[c] \in Seq(Requests(typed)) /\ typed \in SUBSET Edits
      /\ master \in TextsOf(typed) /\ exists \in BOOLEAN
  BY DEF TInv, PagesT, GatewayT, SyncsT, NetworkT, HistoryT
<1>2. requests[c] # <<>>
  BY DEF Serve
<1>3. Head(requests[c]) \in Requests(typed) /\ Head(requests[c]) = requests[c][1]
  BY <1>1, <1>2, HeadTailProperties
<1>4. /\ StackOf(file[c], P) /\ (Fresh(file[c], viewOf[c], P) \/ Ahead(file[c], viewOf[c], P))
      /\ QueueOf(file[c], requests[c], syncs[c])
  BY DEF Linked, Link
<1>5. RequestOf(file[c], Head(requests[c]), syncs[c])
  <2>1. 1 \in 1..Len(requests[c])
    BY <1>1, <1>2, LenProperties, EmptySeq
  <2> QED BY <1>3, <1>4, <2>1 DEF QueueOf
<1>6. RunsAlong(file[c], viewOf[c], P, Head(requests[c]), master, exists, typed)
  <2>1. PICK q : q = Head(requests[c])
    OBVIOUS
  <2>2. q \in Requests(typed) /\ RequestOf(file[c], q, syncs[c])
    BY <1>3, <1>5, <2>1
  <2>3. RunsAlong(file[c], viewOf[c], P, q, master, exists, typed)
    BY <1>1, <1>4, <2>2, RunOf, Zenon
  <2> QED BY <2>1, <2>3
<1> QED BY <1>3, <1>5, <1>6

LEMMA SeenIsNat ==
  ASSUME TInv, NEW c \in Clients, NEW P, Linked(c, P)
  PROVE  /\ Len(file[c].editStack) \in Nat /\ Base(file[c]) \in Nat
         /\ file[c].clientVersion = Base(file[c]) + Len(file[c].editStack)
         /\ Seen(file[c], viewOf[c]) \in 0..Len(file[c].editStack)
<1>1. file[c].editStack \in Seq(Entries(typed)) /\ file[c].clientVersion \in Nat
  BY DEF TInv, PagesT, FilesOf
<1>2. PICK L \in Nat : L = Len(file[c].editStack)
  BY <1>1, LenProperties
<1>3. Base(file[c]) \in Nat /\ file[c].clientVersion = Base(file[c]) + L
  <2>1. Base(file[c]) = file[c].clientVersion - L
    BY <1>2 DEF Base
  <2>2. Base(file[c]) \in Nat
    BY DEF Linked, Link, StackOf
  <2> QED BY <1>1, <2>1, <2>2
<1>4. Seen(file[c], viewOf[c]) = 0 \/ Seen(file[c], viewOf[c]) \in 1..L
  BY <1>2 DEF Linked, Link, Fresh, Ahead
<1> QED BY <1>2, <1>3, <1>4

LEMMA ServeExists ==
  ASSUME TInv, NEW c \in Clients, Serve(c), NEW P, Linked(c, P), Numbers(file[c], viewOf[c], exists)
  PROVE  exists'
<1>1. /\ file[c] \in FilesOf(typed) /\ viewOf[c] \in Views(typed) /\ syncs[c] \in Nat
      /\ typed \in SUBSET Edits /\ exists \in BOOLEAN
  BY DEF TInv, PagesT, GatewayT, SyncsT, HistoryT
<1>2. PICK q : q = Head(requests[c])
  OBVIOUS
<1>3. PICK F : /\ Along(file[c], viewOf[c], P, q, master, exists, F)
               /\ \A j \in 0..Len(q.edits) : F[j] \in States(typed)
  BY <1>2, ServeRuns, Zenon DEF RunsAlong
<1>4. RequestOf(file[c], q, syncs[c])
  BY <1>2, ServeRuns, Zenon
<1>5. Seen(file[c], viewOf[c]) \in Nat
  BY SeenIsNat
<1>6. StackOf(file[c], P)
  BY DEF Linked, Link
<1>7. ExistsAlong(F, Len(q.edits), exists)
  BY <1>1, <1>3, <1>4, <1>5, <1>6, ServedExists, Zenon
<1>8. Len(q.edits) \in Nat \ {0}
  BY <1>4, SeenIsNat DEF RequestOf
<1>9. F[Len(q.edits)].exists
  BY <1>7, <1>8 DEF ExistsAlong
<1>10. exists' = Handled(viewOf[c], q, master, exists).exists
  BY <1>2, ServeIs, Zenon
<1>11. F[Len(q.edits)] = Handled(viewOf[c], q, master, exists)
  BY <1>3 DEF Along
<1> QED BY <1>9, <1>10, <1>11

(* The answer that is waited for. *)
LEMMA SyncRun2Is ==
  ASSUME TInv, NEW a \in answers, SyncRun2(a), a.id = airborne[a.client], NEW P, Linked(a.client, P)
  PROVE  LET c == a.client
             f == file[c]
         IN  /\ c \in Clients /\ c \notin closed /\ syncs[c] # 0
             /\ requests[c] = <<>> /\ a.kind = "d" /\ Ahead(f, viewOf[c], P)
             /\ Seen(f, viewOf[c]) = Len(f.editStack) /\ Len(f.editStack) # 0
             /\ a.body = Diff(f.shadowText, viewOf[c].shadow)
             /\ file' = [file EXCEPT ![c] = Caught(f, viewOf[c], a)]
<1> DEFINE c == a.client
           f == file[c]
<1>1. /\ a \in Answers(typed) /\ c \in Clients /\ typed \in SUBSET Edits
      /\ file[c] \in FilesOf(typed) /\ viewOf[c] \in Views(typed) /\ syncs[c] \in Nat
      /\ requests[c] \in Seq(Requests(typed)) /\ c \notin closed /\ a.id \in 1..syncs[c]
  BY DEF TInv, PagesT, GatewayT, SyncsT, NetworkT, HistoryT, Answers
<1>2. /\ Link(f, viewOf[c], requests[c], syncs[c], P)
      /\ AnswerFor(f, viewOf[c], requests[c], P, a)
  BY DEF Linked
<1>3. Received(f, a) = Caught(f, viewOf[c], a)
  BY <1>1, <1>2, ReceiveLink, Zenon
<1>4. file' = [file EXCEPT ![c] = Received(f, a)]
  BY DEF SyncRun2, Received
<1>5. /\ requests[c] = <<>> /\ a.kind = "d" /\ Ahead(f, viewOf[c], P)
      /\ Seen(f, viewOf[c]) = Len(f.editStack) /\ a.body = Diff(f.shadowText, viewOf[c].shadow)
  BY <1>2, Zenon DEF AnswerFor
<1>6. Len(f.editStack) # 0 /\ syncs[c] # 0
  BY <1>1, <1>5 DEF Ahead
<1> QED BY <1>1, <1>3, <1>4, <1>5, <1>6, Zenon

LEMMA LateGrows == ASSUME TInv, [Next]_vars, late' = {} PROVE late = {}
<1>1. ASSUME NEW c \in Clients, Sends(c) \/ Serve(c) \/ \E e \in Edits : Type(c, e) \/ Delete(c, e)
      PROVE  late' = late
  <2>1. CASE Sends(c)
    BY <2>1 DEF Sends
  <2>2. CASE Serve(c)
    <3>1. UNCHANGED <<client, faults, typed, deleted, early, had, late, unsent>>
      BY <2>2, ServeIs, Zenon
    <3> QED BY <3>1
  <2>3. ASSUME NEW e \in Edits, Type(c, e) \/ Delete(c, e) PROVE late' = late
    BY <2>3 DEF Type, Delete
  <2> QED BY <1>1, <2>1, <2>2, <2>3
<1>2. ASSUME NEW a \in answers, SyncRun2(a) PROVE late = {}
  BY <1>2 DEF SyncRun2
<1> QED BY <1>1, <1>2, NextKinds DEF Quiet

LEMMA SyncRun2Numbers ==
  ASSUME TInv, NEW a \in answers, SyncRun2(a), a.id = airborne[a.client], NEW P, Linked(a.client, P),
         Numbers(file[a.client], viewOf[a.client], exists)
  PROVE  Numbers(file'[a.client], viewOf[a.client], exists)
<1> DEFINE c == a.client
           f == file[c]
           g == Caught(f, viewOf[c], a)
<1>1. /\ c \in Clients /\ Seen(f, viewOf[c]) = Len(f.editStack) /\ Len(f.editStack) # 0
      /\ file' = [file EXCEPT ![c] = g]
  BY SyncRun2Is, Zenon
<1>2. file'[c] = g
  <2> HIDE DEF g
  <2> QED BY <1>1 DEF TInv, PagesT
<1>3. f \in FilesOf(typed)
  BY <1>1 DEF TInv, PagesT
<1>4. g.clientVersion = f.clientVersion /\ g.editStack = <<>>
  BY <1>3 DEF FilesOf, Caught
<1>5. f.clientVersion # 0
  <2>1. PICK b, l, v : b = Base(f) /\ l = Len(f.editStack) /\ v = f.clientVersion
    OBVIOUS
  <2>2. l \in Nat /\ b \in Nat /\ v = b + l /\ l # 0
    BY <1>1, <2>1, SeenIsNat
  <2>3. v # 0
    BY <2>2
  <2> QED BY <2>1, <2>3
<1>6. exists
  BY <1>1 DEF Numbers
<1>7. Len(g.editStack) = 0
  BY <1>4, EmptySeq
<1> HIDE DEF g
<1> QED BY <1>2, <1>4, <1>5, <1>6, <1>7 DEF Numbers

LEMMA NextNumbers == ASSUME TInv, LinksInv, NumbersInv, [Next]_vars PROVE NumbersInv'
<1> SUFFICES ASSUME late' = {}, NEW c \in Clients PROVE Numbers(file'[c], viewOf'[c], exists')
  BY DEF NumbersInv
<1>1. late = {}
  BY LateGrows
<1>2. /\ Numbers(file[c], viewOf[c], exists) /\ file \in [Clients -> FilesOf(typed)]
      /\ file[c] \in FilesOf(typed) /\ typed \in SUBSET Edits
  BY <1>1 DEF NumbersInv, TInv, PagesT, HistoryT
<1>3. PICK P : Linked(c, P)
  BY <1>1 DEF LinksInv
<1>4. CASE Quiet
  BY <1>2, <1>4 DEF Quiet
<1>5. ASSUME NEW d \in Clients, Sends(d) PROVE Numbers(file'[c], viewOf'[c], exists')
  <2>1. viewOf' = viewOf /\ exists' = exists /\ file' = [file EXCEPT ![d] = SyncText(file[d])]
    BY <1>5 DEF Sends, SendSync
  <2>2. CASE d = c
    <3>1. file'[c] = SyncText(file[c])
      BY <1>2, <2>1, <2>2
    <3>2. StackOf(file[c], P)
      BY <1>3 DEF Linked, Link
    <3>3. Numbers(SyncText(file[c]), viewOf[c], exists)
      BY <1>2, <3>2, SyncTextNumbers, Zenon
    <3> QED BY <2>1, <3>1, <3>3
  <2>3. CASE d # c
    BY <1>2, <2>1, <2>3
  <2> QED BY <2>2, <2>3
<1>6. ASSUME NEW d \in Clients, Serve(d) PROVE Numbers(file'[c], viewOf'[c], exists')
  <2>1. PICK O : Linked(d, O)
    BY <1>1 DEF LinksInv
  <2>2. Numbers(file[d], viewOf[d], exists)
    BY <1>1 DEF NumbersInv
  <2>3. exists'
    BY <1>6, <2>1, <2>2, ServeExists
  <2>4. file' = file
    <3>1. UNCHANGED <<client, faults, typed, deleted, early, had, late, unsent>>
      BY <1>6, ServeIs, Zenon
    <3> QED BY <3>1 DEF client
  <2> QED BY <1>2, <2>3, <2>4 DEF Numbers
<1>7. ASSUME NEW d \in Clients, NEW e \in Edits, Type(d, e) \/ Delete(d, e)
      PROVE  Numbers(file'[c], viewOf'[c], exists')
  <2>1. PICK t : Edit(d, t)
    BY <1>7, EditKinds
  <2>2. viewOf' = viewOf /\ exists' = exists /\ SameFile(file'[c], file[c])
    BY <1>2, <2>1 DEF Edit, SameFile, FilesOf
  <2> QED BY <1>2, <2>2, SameNumbers
<1>8. ASSUME NEW a \in answers, SyncRun2(a) PROVE Numbers(file'[c], viewOf'[c], exists')
  <2>1. /\ viewOf' = viewOf /\ exists' = exists /\ a.id = airborne[a.client]
        /\ \E g : file' = [file EXCEPT ![a.client] = g]
    BY <1>1, <1>8 DEF SyncRun2, gateway
  <2>2. CASE a.client = c
    <3>1. Numbers(file'[a.client], viewOf[a.client], exists)
      BY <1>2, <1>3, <1>8, <2>1, <2>2, SyncRun2Numbers
    <3> QED BY <2>1, <2>2, <3>1
  <2>3. CASE a.client # c
    BY <1>2, <2>1, <2>3
  <2> QED BY <2>2, <2>3
<1> QED BY <1>4, <1>5, <1>6, <1>7, <1>8, NextKinds

(* What a page that was closed in time has sent is all it had, and the       *)
(* gateway has it or has it to come.                                          *)
Closing(c) ==
  c \in closed \ unsent =>
    /\ file[c].text = file[c].shadowText
    /\ IF requests[c] = <<>> THEN Seen(file[c], viewOf[c]) = Len(file[c].editStack)
       ELSE requests[c][Len(requests[c])].id = syncs[c]
ClosingInv == late = {} => \A c \in Clients : Closing(c)

LEMMA ServeClosing ==
  ASSUME TInv, NEW c \in Clients, NEW P, Linked(c, P), Closing(c), Serve(c)
  PROVE  Closing(c)'
<1>1. /\ file' = file /\ syncs' = syncs /\ closed' = closed /\ unsent' = unsent
  <2>1. UNCHANGED <<client, faults, typed, deleted, early, had, late, unsent>>
    BY ServeIs, Zenon
  <2> QED BY <2>1 DEF client
<1>2. PICK q, q2, r : q = requests[c] /\ q2 = Tail(q) /\ r = Head(q)
  OBVIOUS
<1>3. PICK s : s = Handled(viewOf[c], r, master, exists)
  OBVIOUS
<1>4. q # <<>> /\ q \in Seq(Requests(typed)) /\ requests'[c] = q2 /\ viewOf'[c] = ViewAfter(s)
  <2>1. requests[c] # <<>> /\ requests' = [requests EXCEPT ![c] = Tail(requests[c])]
        /\ viewOf' = [viewOf EXCEPT ![c] = ViewAfter(Handled(viewOf[c], Head(requests[c]), master, exists))]
    BY ServeIs, Zenon
  <2>2. requests \in [Clients -> Seq(Requests(typed))] /\ viewOf \in [Clients -> Views(typed)]
    BY DEF TInv, NetworkT, GatewayT
  <2>3. viewOf' = [viewOf EXCEPT ![c] = ViewAfter(s)]
    BY <1>2, <1>3, <2>1, Zenon
  <2> QED BY <1>2, <2>1, <2>2, <2>3
<1>5. Served(file[c], q, syncs[c], P, r, s)
  <2>1. /\ file[c] \in FilesOf(typed) /\ viewOf[c] \in Views(typed) /\ syncs[c] \in Nat
        /\ typed \in SUBSET Edits /\ master \in TextsOf(typed) /\ exists \in BOOLEAN
    BY DEF TInv, PagesT, GatewayT, SyncsT, HistoryT
  <2>2. Link(file[c], viewOf[c], q, syncs[c], P)
    BY <1>2 DEF Linked
  <2>3. Served(file[c], q, syncs[c], P, Head(q), Handled(viewOf[c], Head(q), master, exists))
    BY <1>4, <2>1, <2>2, ServeLink, Zenon
  <2> QED BY <1>2, <1>3, <2>3, Zenon
<1>6. SUFFICES ASSUME c \in closed \ unsent
               PROVE  /\ file[c].text = file[c].shadowText
                      /\ IF q2 = <<>> THEN Seen(file[c], ViewAfter(s)) = Len(file[c].editStack)
                         ELSE q2[Len(q2)].id = syncs[c]
  BY <1>1, <1>4, Zenon DEF Closing
<1>7. file[c].text = file[c].shadowText /\ q[Len(q)].id = syncs[c]
  BY <1>2, <1>4, <1>6 DEF Closing
<1>8. Len(q) \in Nat \ {0} /\ r = q[1] /\ Len(q2) = Len(q) - 1 /\ \A k \in 1..Len(q2) : q2[k] = q[k+1]
  <2>1. r = q[1] /\ Len(q2) = Len(q) - 1 /\ \A k \in 1..Len(q2) : q2[k] = q[k+1]
    BY <1>2, <1>4, HeadTailProperties
  <2>2. Len(q) \in Nat \ {0}
    BY <1>4, LenProperties, EmptySeq
  <2> QED BY <2>1, <2>2
<1>9. CASE q2 = <<>>
  <2>1. Len(q2) = 0
    BY <1>9, EmptySeq
  <2>2. Len(q) = 1
    BY <1>8, <2>1
  <2>3. r.id = syncs[c]
    BY <1>7, <1>8, <2>2
  <2> QED BY <1>5, <1>7, <1>9, <2>3 DEF Served
<1>10. CASE q2 # <<>>
  <2>1. q2 \in Seq(Requests(typed))
    BY <1>2, <1>4, HeadTailProperties
  <2>2. Len(q2) \in Nat \ {0}
    BY <1>10, <2>1, LenProperties, EmptySeq
  <2>3. Len(q2) \in 1..Len(q2) /\ Len(q2) + 1 = Len(q)
    BY <1>8, <2>2
  <2>4. q2[Len(q2)] = q[Len(q)]
    BY <1>8, <2>3
  <2> QED BY <1>7, <1>10, <2>4
<1> QED BY <1>9, <1>10

LEMMA SendsClosing ==
  ASSUME TInv, NEW c \in Clients, Sends(c)
  PROVE  Closing(c)'
<1> DEFINE g == SyncText(file[c])
           r == [id |-> syncs[c] + 1, m |-> g.serverVersion, edits |-> g.editStack]
<1>1. file[c] \in FilesOf(typed) /\ typed \in SUBSET Edits
  BY DEF TInv, PagesT, HistoryT
<1>2. g.text = file[c].text /\ g.shadowText = file[c].text
  BY <1>1, SyncTextIs, Zenon
<1>3. /\ syncs' = [syncs EXCEPT ![c] = syncs[c] + 1] /\ file' = [file EXCEPT ![c] = g]
      /\ requests' = [requests EXCEPT ![c] = Append(requests[c], r)]
  BY DEF Sends, SendSync
<1>4. r.id = syncs[c] + 1
  OBVIOUS
<1> HIDE DEF g, r
<1>5. file'[c] = g /\ requests'[c] = Append(requests[c], r) /\ syncs'[c] = syncs[c] + 1
  BY <1>3 DEF TInv, PagesT, NetworkT, SyncsT
<1>6. PICK q, q2 : q = requests[c] /\ q2 = Append(q, r)
  OBVIOUS
<1>7. Len(q2) = Len(q) + 1 /\ q2[Len(q) + 1] = r /\ Len(q) \in Nat
  <2>1. q \in Seq(Requests(typed))
    BY <1>6 DEF TInv, NetworkT
  <2>2. r \in Requests(typed)
    <3>1. PICK n \in Nat, m \in Nat, E \in Seq(Entries(typed)) :
            n = syncs[c] + 1 /\ m = g.serverVersion /\ E = g.editStack
      <4>1. g \in FilesOf(typed)
        BY <1>1, SyncTextIs, Zenon DEF g
      <4> QED BY <4>1 DEF FilesOf, TInv, SyncsT
    <3>2. r = [id |-> n, m |-> m, edits |-> E]
      BY <3>1, Zenon DEF r
    <3> QED BY <3>2 DEF Requests
  <2> QED BY <1>6, <2>1, <2>2, AppendProperties, LenProperties
<1>8. q2 # <<>>
  <2>1. Len(<<>>) = 0
    BY EmptySeq
  <2> QED BY <1>7, <2>1
<1>9. q2[Len(q2)].id = syncs[c] + 1
  BY <1>4, <1>7
<1> QED BY <1>2, <1>5, <1>6, <1>8, <1>9, Zenon DEF Closing

LEMMA NextClosing == ASSUME TInv, LinksInv, ClosingInv, [Next]_vars PROVE ClosingInv'
<1> SUFFICES ASSUME late' = {}, NEW c \in Clients PROVE Closing(c)'
  BY DEF ClosingInv
<1>1. late = {}
  BY LateGrows
<1>2. Closing(c)
  BY <1>1 DEF ClosingInv
<1>3. PICK P : Linked(c, P)
  BY <1>1 DEF LinksInv
<1>4. ASSUME file'[c] = file[c], viewOf'[c] = viewOf[c], syncs'[c] = syncs[c],
             c \in closed' \ unsent' => c \in closed \ unsent /\ requests'[c] = requests[c]
      PROVE  Closing(c)'
  BY <1>2, <1>4, Zenon DEF Closing
<1>5. CASE Quiet
  <2>1. /\ file'[c] = file[c] /\ viewOf'[c] = viewOf[c] /\ syncs'[c] = syncs[c]
        /\ c \in closed' \ unsent' => c \in closed \ unsent /\ requests'[c] = requests[c]
    BY <1>5 DEF Quiet
  <2> QED BY <1>4, <2>1, Zenon
<1>6. ASSUME NEW d \in Clients, Sends(d) PROVE Closing(c)'
  <2>1. CASE d = c
    BY <1>6, <2>1, SendsClosing
  <2>2. CASE d # c
    <3>1. /\ file'[c] = file[c] /\ viewOf'[c] = viewOf[c] /\ syncs'[c] = syncs[c]
          /\ requests'[c] = requests[c] /\ (c \in closed' \ unsent' => c \in closed \ unsent)
      BY <1>6, <2>2 DEF Sends, SendSync, TInv, PagesT, SyncsT, NetworkT
    <3> QED BY <1>4, <3>1, Zenon
  <2> QED BY <2>1, <2>2
<1>7. ASSUME NEW d \in Clients, Serve(d) PROVE Closing(c)'
  <2>1. CASE d = c
    BY <1>2, <1>3, <1>7, <2>1, ServeClosing
  <2>2. CASE d # c
    <3>1. UNCHANGED <<client, faults, typed, deleted, early, had, late, unsent>>
          /\ (\E v : viewOf' = [viewOf EXCEPT ![d] = v])
          /\ (\E q : requests' = [requests EXCEPT ![d] = q])
      BY <1>7, ServeIs, Zenon
    <3>2. /\ file'[c] = file[c] /\ viewOf'[c] = viewOf[c] /\ syncs'[c] = syncs[c]
          /\ requests'[c] = requests[c] /\ closed' = closed /\ unsent' = unsent
      BY <2>2, <3>1 DEF client, TInv, GatewayT, NetworkT
    <3> QED BY <1>4, <3>2, Zenon
  <2> QED BY <2>1, <2>2
<1>8. ASSUME NEW d \in Clients, NEW e \in Edits, Type(d, e) \/ Delete(d, e) PROVE Closing(c)'
  <2>1. PICK t : Edit(d, t)
    BY <1>8, EditKinds
  <2>2. CASE d = c
    BY <2>1, <2>2 DEF Edit, Closing
  <2>3. CASE d # c
    <3>1. /\ file'[c] = file[c] /\ viewOf'[c] = viewOf[c] /\ syncs'[c] = syncs[c]
          /\ requests'[c] = requests[c] /\ closed' = closed /\ unsent' = unsent
      BY <2>1, <2>3 DEF Edit, TInv, PagesT
    <3> QED BY <1>4, <3>1, Zenon
  <2> QED BY <2>2, <2>3
<1>9. ASSUME NEW a \in answers, SyncRun2(a) PROVE Closing(c)'
  <2>1. /\ UNCHANGED <<viewOf, syncs, requests, closed, unsent>>
        /\ \E g : file' = [file EXCEPT ![a.client] = g]
    BY <1>9 DEF SyncRun2, gateway
  <2>2. CASE a.client = c
    <3>1. c \notin closed
      BY <2>2 DEF TInv, NetworkT
    <3> QED BY <2>1, <3>1 DEF Closing
  <2>3. CASE a.client # c
    <3>1. file'[c] = file[c]
      BY <2>1, <2>3 DEF TInv, PagesT
    <3> QED BY <1>4, <2>1, <3>1, Zenon
  <2> QED BY <2>2, <2>3
<1> QED BY <1>5, <1>6, <1>7, <1>8, <1>9, NextKinds

(* The ages r, t, v of edit e in the texts of client c, m in the shared one. *)
Shows(c, P, e, r, t, v) ==
  /\ file[c].text[e] = One(t) /\ viewOf[c].shadow[e] = One(v)
  /\ \A i \in 0..Len(file[c].editStack) : P[i][e] = One(r[i])

(* Only edits that were typed come, and those alone are gone for good that    *)
(* some user deleted, or that were typed before the client joined.            *)
Comings(c, e, r, t) ==
  /\ t # 0 => e \in typed
  /\ author[e] = c /\ e \in typed => t # 0
  /\ syncs[c] = 0 /\ t # 0 => e \in early /\ author[e] = c
  /\ \A i \in 1..Len(file[c].editStack) :
       file[c].editStack[i].kind = "r" /\ r[i] # 0 => e \in early /\ author[e] = c
  /\ e \notin deleted \cup early => t # 2

(* The history variables tell what has come. *)
Having(c, e, r, t, v) ==
  /\ \A i \in 0..Len(file[c].editStack) : r[i] = 1 => e \in had[c]
  /\ t = 1 => e \in had[c]
  /\ e \in had[c] => t # 0
  /\ r[Seen(file[c], viewOf[c])] = 1 /\ e \notin early => e \in hadMaster
  /\ v = 1 => e \in hadMaster

Aging(c, e, r, t, v, m) ==
  /\ Grows(Len(file[c].editStack), Seen(file[c], viewOf[c]), r, t, v, m)
  /\ Comes(Seen(file[c], viewOf[c]), r, t, m, author[e] = c)

Ages(c, P, e, r, t, v, m) ==
  Shows(c, P, e, r, t, v) /\ Comings(c, e, r, t) /\ Having(c, e, r, t, v) /\ Aging(c, e, r, t, v, m)

MasterAge(e, m) ==
  /\ m \in 0..2 /\ master[e] = One(m) /\ (m = 1 => e \in hadMaster) /\ (e \in hadMaster => m # 0)
  /\ (~exists => m = 0) /\ (e \notin deleted \cup early => m # 2)

AgesAlong(P, e, m) ==
  MasterAge(e, m) /\ \A c \in Clients : \E r, t, v : Ages(c, P[c], e, r, t, v, m)

AgesInv ==
  late = {} => \E P : /\ \A c \in Clients : Linked(c, P[c])
                      /\ \A e \in Edits : \E m : AgesAlong(P, e, m)

LEMMA InitAges == Init => AgesInv
<1> SUFFICES ASSUME Init PROVE AgesInv
  OBVIOUS
<1>1. /\ \A c \in Clients : /\ file[c].text = Empty /\ file[c].editStack = <<>>
                            /\ file[c].clientVersion = 0 /\ viewOf[c].cv = 0
                            /\ viewOf[c].shadow = Empty /\ had[c] = {}
      /\ exists = FALSE /\ master = Empty /\ typed = {} /\ deleted = {} /\ hadMaster = {}
  BY DEF Init, NewView
<1>2. PICK P : P = [c \in Clients |-> CHOOSE O : Linked(c, O)]
  OBVIOUS
<1>3. ASSUME NEW c \in Clients PROVE Linked(c, P[c])
  <2>1. \E O : Linked(c, O)
    BY InitLinks DEF LinksInv, Init
  <2>2. P[c] = CHOOSE O : Linked(c, O)
    BY <1>2
  <2> QED BY <2>1, <2>2, Zenon
<1>4. ASSUME NEW e \in Edits PROVE AgesAlong(P, e, 0)
  <2>1. MasterAge(e, 0)
    BY <1>1 DEF MasterAge, Empty, One
  <2>2. ASSUME NEW c \in Clients PROVE Ages(c, P[c], e, [i \in 0..0 |-> 0], 0, 0, 0)
    <3>1. Len(file[c].editStack) = 0
      BY <1>1, EmptySeq
    <3>2. Seen(file[c], viewOf[c]) = 0
      BY <1>1, <3>1 DEF Seen, Base
    <3>3. viewOf[c].shadow = P[c][0]
      <4>1. PICK O : O = P[c]
        OBVIOUS
      <4>2. Linked(c, O)
        BY <1>3, <4>1
      <4>3. Fresh(file[c], viewOf[c], O) \/ Ahead(file[c], viewOf[c], O)
        BY <4>2 DEF Linked, Link
      <4> QED BY <3>1, <3>2, <4>1, <4>3 DEF Fresh, Ahead
    <3>4. Shows(c, P[c], e, [i \in 0..0 |-> 0], 0, 0)
      <4>1. P[c][0][e] = 0
        BY <1>1, <3>3 DEF Empty
      <4> QED BY <1>1, <3>1, <4>1 DEF Shows, One, Empty
    <3>5. Comings(c, e, [i \in 0..0 |-> 0], 0)
      BY <1>1, <3>1 DEF Comings
    <3>6. Having(c, e, [i \in 0..0 |-> 0], 0, 0)
      BY <1>1, <3>1, <3>2 DEF Having
    <3>7. Aging(c, e, [i \in 0..0 |-> 0], 0, 0, 0)
      BY <3>1, <3>2 DEF Aging, Grows, Comes
    <3> QED BY <3>4, <3>5, <3>6, <3>7 DEF Ages
  <2> QED BY <2>1, <2>2 DEF AgesAlong
<1> QED BY <1>3, <1>4 DEF AgesInv

(* A client of whom nothing changes, while edits come to other texts. *)
LEMMA KeepAges ==
  ASSUME NEW c \in Clients, NEW P, NEW e \in Edits, NEW r, NEW t, NEW v, NEW m,
         Ages(c, P, e, r, t, v, m), SameFile(file'[c], file[c]), file'[c].text[e] = file[c].text[e],
         viewOf'[c] = viewOf[c], syncs'[c] = syncs[c],
         typed \subseteq typed', author[e] = c /\ e \in typed' => e \in typed,
         deleted \subseteq deleted', early \subseteq early', hadMaster \subseteq hadMaster',
         e \in had'[c] <=> e \in had[c],
         NEW m2 \in 0..2, m <= m2,
         author[e] = c /\ m2 # 0 => m # 0
  PROVE  Ages(c, P, e, r, t, v, m2)'
<1>1. /\ file'[c].editStack = file[c].editStack
      /\ Seen(file'[c], viewOf'[c]) = Seen(file[c], viewOf[c])
  BY Zenon DEF SameFile, Seen, Base
<1>2. Shows(c, P, e, r, t, v)'
  BY <1>1 DEF Ages, Shows
<1>3. Comings(c, e, r, t)'
  BY <1>1 DEF Ages, Comings
<1>4. Having(c, e, r, t, v)'
  BY <1>1 DEF Ages, Having
<1>5. Aging(c, e, r, t, v, m2)'
  <2> DEFINE L == Len(file[c].editStack)
             p == Seen(file[c], viewOf[c])
  <2>1. Grows(L, p, r, t, v, m) /\ Comes(p, r, t, m, author[e] = c)
    BY DEF Ages, Aging
  <2> HIDE DEF L, p
  <2>2. Grows(L, p, r, t, v, m2) /\ Comes(p, r, t, m2, author[e] = c)
    <3>1. v <= m2
      BY <2>1 DEF Grows
    <3>2. m # 0 => m2 # 0
      BY <2>1 DEF Grows
    <3> QED BY <2>1, <3>1, <3>2 DEF Grows, Comes
  <2> QED BY <1>1, <2>2, Zenon DEF Aging, L, p
<1> QED BY <1>2, <1>3, <1>4, <1>5 DEF Ages

LEMMA QuietAges ==
  ASSUME TInv, Quiet, NEW c \in Clients, NEW P, NEW e \in Edits, NEW r, NEW t, NEW v, NEW m,
         Ages(c, P, e, r, t, v, m)
  PROVE  Ages(c, P, e, r, t, v, m)'
<1>1. UNCHANGED <<file, syncs, viewOf, typed, deleted, early, had, hadMaster>>
  BY DEF Quiet
<1> QED BY <1>1, Zenon DEF Ages, Shows, Comings, Having, Aging

(* The client types e, or deletes it. *)
LEMMA EditAges ==
  ASSUME TInv, NEW c \in Clients, NEW e \in Edits, Type(c, e) \/ Delete(c, e),
         NEW P, NEW r, NEW t, NEW v, NEW m, Ages(c, P, e, r, t, v, m),
         NEW t2, t2 = IF e \in typed THEN 2 ELSE 1
  PROVE  Ages(c, P, e, r, t2, v, m)'
<1>1. /\ file[c] \in FilesOf(typed) /\ file \in [Clients -> FilesOf(typed)]
      /\ had \in [Clients -> SUBSET typed] /\ typed \subseteq Edits
  BY DEF TInv, PagesT, HistoryT
<1>2. \E u : Edit(c, u)
  BY EditKinds
<1>3. /\ file'[c].editStack = file[c].editStack
      /\ Seen(file'[c], viewOf'[c]) = Seen(file[c], viewOf[c])
      /\ viewOf' = viewOf /\ syncs' = syncs /\ hadMaster' = hadMaster
  <2>1. SameFile(file'[c], file[c]) /\ viewOf' = viewOf /\ syncs' = syncs /\ hadMaster' = hadMaster
    BY <1>1, <1>2 DEF Edit, SameFile, FilesOf
  <2> QED BY <2>1, Zenon DEF SameFile, Seen, Base
<1>4. /\ t \in 0..2 /\ file[c].text[e] = One(t) /\ (t # 0 => e \in typed)
  BY DEF Ages, Aging, Grows, Shows, Comings
<1>5. /\ t <= t2 /\ t2 # 0 /\ t2 \in 0..2 /\ file'[c].text[e] = One(t2) /\ (t2 = 1 => e \in had'[c])
      /\ typed' = typed \cup {e} /\ (e \notin deleted' \cup early' => t2 # 2)
      /\ (syncs[c] = 0 => e \in early') /\ deleted \subseteq deleted' /\ early \subseteq early'
      /\ \A i \in 0..Len(file[c].editStack) : r[i] = 1 => e \in had'[c]
      /\ (author[e] = c \/ t # 0) /\ (syncs[c] = 0 => author[e] = c)
  <2>0. \A i \in 0..Len(file[c].editStack) : r[i] = 1 => e \in had[c]
    BY DEF Ages, Having
  <2>1. CASE Type(c, e)
    <3>1. t = 0 /\ t2 = 1 /\ author[e] = c /\ typed' = typed \cup {e} /\ deleted' = deleted
          /\ early' = early \cup (IF syncs[c] = 0 THEN {e} ELSE {})
          /\ had' = [had EXCEPT ![c] = @ \cup {e}]
      BY <1>4, <2>1 DEF Type
    <3>2. file'[c].text[e] = file[c].text[e] + 1
      <4>1. file' = [file EXCEPT ![c].text[e] = @ + 1]
        BY <2>1 DEF Type
      <4> QED BY <1>1, <4>1 DEF FilesOf, TextsOf, Texts
    <3>3. file'[c].text[e] = 1
      BY <1>4, <3>1, <3>2 DEF One
    <3>4. had'[c] = had[c] \cup {e}
      BY <1>1, <3>1
    <3> QED BY <2>0, <3>1, <3>3, <3>4 DEF One
  <2>2. CASE Delete(c, e)
    <3>1. file[c].text[e] > 0 /\ deleted' = deleted \cup {e} /\ UNCHANGED <<typed, early, had>>
      BY <2>2 DEF Delete
    <3>2. t = 1 /\ e \in typed /\ t2 = 2
      BY <1>4, <3>1 DEF One
    <3>3. file'[c].text[e] = 0
      <4>1. file' = [file EXCEPT ![c].text[e] = 0]
        BY <2>2 DEF Delete
      <4> QED BY <1>1, <4>1 DEF FilesOf, TextsOf, Texts
    <3>4. syncs[c] = 0 => e \in early /\ author[e] = c
      BY <3>2 DEF Ages, Comings
    <3> QED BY <2>0, <3>1, <3>2, <3>3, <3>4 DEF One
  <2> QED BY <2>1, <2>2
<1>6. Shows(c, P, e, r, t2, v)'
  BY <1>3, <1>5 DEF Ages, Shows
<1>7. Comings(c, e, r, t2)'
  BY <1>3, <1>5 DEF Ages, Comings
<1>8. Having(c, e, r, t2, v)'
  BY <1>3, <1>5 DEF Ages, Having
<1>9. Aging(c, e, r, t2, v, m)'
  <2> DEFINE L == Len(file[c].editStack)
             p == Seen(file[c], viewOf[c])
  <2>1. Grows(L, p, r, t, v, m) /\ Comes(p, r, t, m, author[e] = c) /\ L \in Nat
    <3>1. file[c].editStack \in Seq(Entries(typed))
      BY <1>1 DEF FilesOf
    <3> QED BY <3>1, LenProperties DEF Ages, Aging
  <2> HIDE DEF L, p
  <2>2. Grows(L, p, r, t2, v, m)
    <3>1. r[L] \in 0..2
      BY <2>1 DEF Grows
    <3>2. r[L] <= t2
      BY <1>5, <2>1, <3>1 DEF Grows
    <3> QED BY <1>5, <2>1, <3>2 DEF Grows
  <2>3. Comes(p, r, t2, m, author[e] = c)
    BY <1>5, <2>1 DEF Comes
  <2> QED BY <1>3, <2>2, <2>3, Zenon DEF Aging, L, p
<1> QED BY <1>6, <1>7, <1>8, <1>9 DEF Ages

(* A sync puts the client's text on top. *)
LEMMA SendsAges ==
  ASSUME TInv, NEW c \in Clients, Sends(c), NEW e \in Edits, NEW P, Linked(c, P),
         NEW r, NEW t, NEW v, NEW m, Ages(c, P, e, r, t, v, m),
         NEW Q, Q = Grown(file[c], P),
         NEW r2, r2 = [i \in 0..Len(SyncText(file[c]).editStack) |->
                         IF i <= Len(file[c].editStack) THEN r[i] ELSE t]
  PROVE  Ages(c, Q, e, r2, t, v, m)'
<1> DEFINE f == file[c]
           g == SyncText(f)
           L == Len(f.editStack)
           M == Len(g.editStack)
           p == Seen(f, viewOf[c])
<1>1. /\ f \in FilesOf(typed) /\ typed \in SUBSET Edits /\ syncs[c] \in Nat
  BY DEF TInv, PagesT, HistoryT, SyncsT
<1>2. StackOf(f, P) /\ (f.deltaOk \/ syncs[c] = 0)
  BY DEF Linked, Link
<1>3. /\ Base(g) = Base(f) /\ M \in Nat \ {0} /\ L \in Nat
      /\ \/ M = L /\ f.text = f.shadowText
         \/ M = L + 1
      /\ \A i \in 1..L : g.editStack[i] = f.editStack[i]
      /\ \A i \in 0..L : Q[i] = P[i]
      /\ Q[M] = f.text
  <2>1. /\ Base(g) = Base(f) /\ M \in Nat \ {0} /\ L \in Nat
        /\ \/ M = L /\ f.text = f.shadowText
           \/ M = L + 1
        /\ \A i \in 1..L : g.editStack[i] = f.editStack[i]
        /\ \A i \in 0..L : Grown(f, P)[i] = P[i]
        /\ Grown(f, P)[M] = f.text
    BY <1>1, <1>2, GrownIs, Zenon
  <2>2. Q = Grown(f, P)
    OBVIOUS
  <2> QED BY <2>1, <2>2, Zenon
<1>4. g.text = f.text
  BY <1>1, SyncTextIs, Zenon
<1>5. /\ file' = [file EXCEPT ![c] = g] /\ syncs' = [syncs EXCEPT ![c] = @ + 1] /\ viewOf' = viewOf
      /\ UNCHANGED <<typed, deleted, early, had, hadMaster>>
  BY DEF Sends, SendSync
<1>6. M = L + 1 => g.editStack[M].kind = "d" \/ syncs[c] = 0
  <2>1. CASE f.deltaOk /\ g = f
    BY <1>3, <2>1
  <2>2. CASE f.deltaOk /\ g.editStack = Append(f.editStack, DeltaOf(f))
    <3>1. f.editStack \in Seq(Entries(typed)) /\ DeltaOf(f) \in Entries(typed)
      BY <1>1, DeltaOfTyped DEF FilesOf
    <3>2. g.editStack[L + 1] = DeltaOf(f)
      BY <2>2, <3>1, AppendProperties
    <3> QED BY <3>2 DEF DeltaOf
  <2>3. f.deltaOk => g = f \/ g.editStack = Append(f.editStack, DeltaOf(f))
    BY <1>1, SyncTextIs, Zenon
  <2> QED BY <1>2, <2>1, <2>2, <2>3
<1> HIDE DEF g
<1>7. file'[c] = g /\ syncs'[c] # 0
  BY <1>1, <1>5 DEF TInv, PagesT, SyncsT
<1>8. Seen(g, viewOf[c]) = p /\ p \in 0..L
  <2>1. p \in 0..L
    BY SeenIsNat
  <2> QED BY <1>3, <2>1, Zenon DEF Seen
<1> HIDE DEF L, M, p
<1>9. /\ Grows(L, p, r, t, v, m) /\ Comes(p, r, t, m, author[e] = c)
      /\ f.text[e] = One(t) /\ viewOf[c].shadow[e] = One(v)
      /\ \A i \in 0..L : P[i][e] = One(r[i])
  BY DEF Ages, Shows, Aging, L, p
<1>10. /\ r \in [0..L -> 0..2] /\ t \in 0..2 /\ r[L] <= t /\ L \in 0..L
       /\ \A i, j \in 0..L : i <= j => r[i] <= r[j]
  BY <1>3, <1>9 DEF Grows
<1>11. /\ r2 \in [0..M -> 0..2] /\ \A i \in 0..L : i \in 0..M /\ r2[i] = r[i]
       /\ (M = L + 1 => r2[M] = t)
       /\ \A i \in 0..M : i \in 0..L \/ (i = M /\ M = L + 1)
  BY <1>3, <1>10 DEF g, M, L
<1>12. Shows(c, Q, e, r2, t, v)'
  <2>1. ASSUME NEW i \in 0..M PROVE Q[i][e] = One(r2[i])
    <3>1. CASE i \in 0..L
      BY <1>3, <1>9, <1>11, <3>1
    <3>2. CASE i = M /\ M = L + 1
      BY <1>3, <1>9, <1>11, <3>2
    <3> QED BY <1>11, <3>1, <3>2
  <2> QED BY <1>4, <1>5, <1>7, <1>9, <2>1 DEF Shows, M
<1>13. Comings(c, e, r2, t)'
  <2>1. ASSUME NEW i \in 1..M, g.editStack[i].kind = "r", r2[i] # 0
        PROVE  e \in early /\ author[e] = c
    <3>1. CASE i \in 1..L
      <4>0. i \in 0..L
        BY <1>3, <3>1
      <4>1. f.editStack[i].kind = "r" /\ r[i] # 0
        BY <1>3, <1>11, <2>1, <3>1, <4>0, Zenon
      <4> QED BY <3>1, <4>1 DEF Ages, Comings, L
    <3>2. CASE i = M /\ M = L + 1
      <4>1. syncs[c] = 0 /\ t # 0
        BY <1>6, <1>11, <2>1, <3>2
      <4> QED BY <4>1 DEF Ages, Comings
    <3> QED BY <1>3, <3>1, <3>2
  <2> QED BY <1>5, <1>7, <2>1 DEF Ages, Comings, M
<1>14. Having(c, e, r2, t, v)'
  <2>1. /\ \A i \in 0..L : r[i] = 1 => e \in had[c]
        /\ (t = 1 => e \in had[c]) /\ (e \in had[c] => t # 0)
        /\ (r[p] = 1 /\ e \notin early => e \in hadMaster) /\ (v = 1 => e \in hadMaster)
    BY DEF Ages, Having, L, p
  <2>2. \A i \in 0..M : r2[i] = 1 => e \in had[c]
    BY <1>11, <2>1
  <2>3. r2[p] = r[p]
    BY <1>8, <1>11
  <2> QED BY <1>5, <1>7, <1>8, <2>1, <2>2, <2>3 DEF Having, M
<1>15. Aging(c, e, r2, t, v, m)'
  <2>0. 0 \in 0..L
    BY <1>3
  <2>1. r2[p] = r[p] /\ r2[0] = r[0]
    BY <1>8, <1>11, <2>0, Zenon
  <2>2. \A i \in 0..M : r2[i] <= t
    BY <1>10, <1>11
  <2>3. \A i, j \in 0..M : i <= j => r2[i] <= r2[j]
    BY <1>3, <1>10, <1>11, <2>2
  <2>4. M \in 0..M
    BY <1>3
  <2>5. Grows(M, p, r2, t, v, m)
    BY <1>9, <1>11, <2>1, <2>2, <2>3, <2>4 DEF Grows
  <2>6. Comes(p, r2, t, m, author[e] = c)
    BY <1>9, <1>11, <2>1 DEF Comes
  <2> QED BY <1>5, <1>7, <1>8, <2>5, <2>6, Zenon DEF Aging, M
<1> QED BY <1>12, <1>13, <1>14, <1>15 DEF Ages

(* The gateway merges a request: the age of e in the shared text becomes n. *)
Merging(c, e, r, m, n) ==
  /\ master' \in Texts /\ master'[e] = One(n) /\ viewOf'[c].shadow = master'
  /\ exists' /\ hadMaster' = hadMaster \cup Here(master')
  /\ \E l \in 1..Len(file[c].editStack) :
       /\ Seen(file[c], viewOf'[c]) = Top(Seen(file[c], viewOf[c]), l)
       /\ n = Merged(file[c], viewOf[c], exists, r, m, l)

LEMMA ServeMerges ==
  ASSUME TInv, NEW c \in Clients, Serve(c), NEW P, Linked(c, P),
         Numbers(file[c], viewOf[c], exists), NEW e \in Edits,
         NEW r, NEW t, NEW v, NEW m, Ages(c, P, e, r, t, v, m), MasterAge(e, m)
  PROVE  \E n : Merging(c, e, r, m, n)
<1>1. /\ file[c] \in FilesOf(typed) /\ viewOf[c] \in Views(typed) /\ syncs[c] \in Nat
      /\ requests[c] \in Seq(Requests(typed)) /\ typed \in SUBSET Edits
      /\ master \in TextsOf(typed) /\ exists \in BOOLEAN
  BY DEF TInv, PagesT, GatewayT, SyncsT, NetworkT, HistoryT
<1>2. PICK q, s : q = Head(requests[c]) /\ s = Handled(viewOf[c], q, master, exists)
  OBVIOUS
<1>3. q \in Requests(typed) /\ RequestOf(file[c], q, syncs[c])
      /\ RunsAlong(file[c], viewOf[c], P, q, master, exists, typed)
  BY <1>2, ServeRuns, Zenon
<1>4. PICK F : /\ Along(file[c], viewOf[c], P, q, master, exists, F)
               /\ \A j \in 0..Len(q.edits) : F[j] \in States(typed)
  BY <1>3 DEF RunsAlong
<1>5. StackOf(file[c], P) /\ (Fresh(file[c], viewOf[c], P) \/ Ahead(file[c], viewOf[c], P))
  BY DEF Linked, Link
<1>6. /\ Grows(Len(file[c].editStack), Seen(file[c], viewOf[c]), r, t, v, m)
      /\ Comes(Seen(file[c], viewOf[c]), r, t, m, author[e] = c)
      /\ \A i \in 0..Len(file[c].editStack) : P[i][e] = One(r[i])
      /\ \A i \in 1..Len(file[c].editStack) :
           file[c].editStack[i].kind = "r" /\ r[i] # 0 => author[e] = c
  BY DEF Ages, Aging, Shows, Comings
<1>7. master[e] = One(m) /\ (~exists => m = 0)
  BY DEF MasterAge
<1>8. PICK l : l = Len(q.edits)
  OBVIOUS
<1>9. l \in 1..Len(file[c].editStack) /\ l \in Nat /\ l \in 0..l
  <2>1. l \in 1..Len(file[c].editStack)
    BY <1>3, <1>8 DEF RequestOf
  <2> QED BY <2>1, SeenIsNat
<1>10. F[l].text[e] = One(Merged(file[c], viewOf[c], exists, r, m, l))
  <2>1. Carries(file[c], viewOf[c], P, e, r, t, v, m, author[e] = c)
    BY <1>6 DEF Carries
  <2>2. F[Len(q.edits)].text[e] = One(Merged(file[c], viewOf[c], exists, r, m, Len(q.edits)))
    BY <1>1, <1>3, <1>4, <1>5, <1>7, <2>1, MergedText
  <2> QED BY <1>8, <2>2, Zenon
<1>11. F[l] = s /\ At(file[c], P, s, Top(Seen(file[c], viewOf[c]), l)) /\ s \in States(typed)
  <2>1. F[l] = s
    BY <1>2, <1>4, <1>8 DEF Along
  <2>2. \A j \in 0..l : At(file[c], P, F[j], Top(Seen(file[c], viewOf[c]), j))
    BY <1>4, <1>8, Zenon DEF Along
  <2>3. F[l] \in States(typed)
    BY <1>4, <1>8, <1>9
  <2> QED BY <1>9, <2>1, <2>2, <2>3
<1>12. /\ master' = s.text /\ exists' = s.exists /\ hadMaster' = hadMaster \cup Here(s.text)
       /\ viewOf' = [viewOf EXCEPT ![c] = ViewAfter(s)]
  BY <1>2, ServeIs, Zenon
<1>13. exists'
  BY ServeExists
<1>14. viewOf'[c] = ViewAfter(s)
  BY <1>12 DEF TInv, GatewayT
<1>15. ViewAfter(s).shadow = s.text /\ (s.ok => ViewAfter(s).cv = s.cv)
  BY DEF ViewAfter
<1>16. Seen(file[c], viewOf'[c]) = Top(Seen(file[c], viewOf[c]), l)
  <2>1. PICK k, b : k = Top(Seen(file[c], viewOf[c]), l) /\ b = Base(file[c])
    OBVIOUS
  <2>2. viewOf'[c].cv = b + k
    BY <1>11, <1>14, <1>15, <2>1 DEF At
  <2>3. k \in Nat /\ b \in Nat
    BY <1>9, <2>1, SeenIsNat DEF Top
  <2>4. viewOf'[c].cv - b = k
    BY <2>2, <2>3
  <2> QED BY <2>1, <2>4 DEF Seen
<1>17. s.text \in Texts
  BY <1>11 DEF States, TextsOf
<1>18. PICK n : n = Merged(file[c], viewOf[c], exists, r, m, l)
  OBVIOUS
<1>19. Merging(c, e, r, m, n)
  BY <1>9, <1>10, <1>11, <1>12, <1>13, <1>14, <1>15, <1>16, <1>17, <1>18, Zenon DEF Merging
<1> QED BY <1>19

(* The merged age: what it comes from. *)
LEMMA MergedIs ==
  ASSUME TInv, NEW c \in Clients, NEW P, Linked(c, P), NEW e \in Edits,
         NEW r, NEW t, NEW v, NEW m, Ages(c, P, e, r, t, v, m), MasterAge(e, m),
         NEW l \in 1..Len(file[c].editStack), NEW n, NEW k,
         n = Merged(file[c], viewOf[c], exists, r, m, l), k = Top(Seen(file[c], viewOf[c]), l)
  PROVE  /\ n \in 0..2 /\ m <= n /\ k \in 0..Len(file[c].editStack) /\ r[k] <= n
         /\ (n # 0 => m # 0 \/ r[k] # 0) /\ r[Seen(file[c], viewOf[c])] <= r[k]
         /\ (n = 2 /\ e \notin early => m = 2 \/ r[k] = 2)
         /\ (n # 1 /\ r[k] = 1 /\ e \notin early => e \in hadMaster)
<1> DEFINE L == Len(file[c].editStack)
           p == Seen(file[c], viewOf[c])
<1>1. /\ Grows(L, p, r, t, v, m) /\ Comes(p, r, t, m, author[e] = c) /\ p \in 0..L /\ L \in Nat
  BY SeenIsNat DEF Ages, Aging
<1>2. /\ \A i \in 0..L : r[i] \in 0..2
      /\ \A i, j \in 0..L : i <= j => r[i] <= r[j]
      /\ m \in 0..2 /\ v \in 0..2 /\ t \in 0..2 /\ r[p] <= v /\ v <= m /\ r[L] <= t
  BY <1>1, Zenon DEF Grows
<1>3. k \in 0..L /\ p <= k /\ l \in 0..L /\ 1 \in 0..L /\ 0 \in 0..L /\ 1 <= l /\ L \in 0..L
      /\ k = IF p < l THEN l ELSE p
  BY <1>1 DEF Top
<1>4. r[p] <= r[k] /\ r[1] <= r[l] /\ r[0] <= r[p] /\ r[k] <= r[L]
  BY <1>1, <1>2, <1>3
<1>5. r[p] = 1 /\ e \notin early => e \in hadMaster
  BY DEF Ages, Having
<1>6. Skips(file[c], viewOf[c], exists) /\ r[1] # 0 => e \in early /\ p = 0
  <2>1. 1 \in 1..L
    BY <1>1
  <2> QED BY <2>1 DEF Skips, Ages, Comings
<1>7. n = IF l <= p THEN m ELSE IF Skips(file[c], viewOf[c], exists) /\ r[1] = 1 THEN 2 ELSE Later(m, r[l])
  BY DEF Merged
<1> HIDE DEF L, p
<1>8. CASE l <= p
  <2>1. k = p /\ n = m
    BY <1>1, <1>3, <1>7, <1>8
  <2> QED BY <1>2, <1>3, <1>4, <1>5, <2>1 DEF L, p
<1>9. CASE ~(l <= p)
  <2>1. k = l
    BY <1>1, <1>3, <1>9
  <2>2. PICK a, b, d, g : a = r[k] /\ b = r[p] /\ d = r[0] /\ g = r[1]
    OBVIOUS
  <2>3. /\ a \in 0..2 /\ b \in 0..2 /\ d \in 0..2 /\ g \in 0..2 /\ b <= a /\ g <= a /\ d <= b /\ a <= t
    <3>1. r[L] \in 0..2
      BY <1>2, <1>3
    <3> QED BY <1>1, <1>2, <1>3, <1>4, <2>1, <2>2, <3>1
  <2>4. CASE Skips(file[c], viewOf[c], exists) /\ r[1] = 1
    <3>1. n = 2 /\ e \in early
      BY <1>6, <1>7, <1>9, <2>4
    <3> QED BY <1>2, <1>3, <2>2, <2>3, <2>4, <3>1 DEF L, p
  <2>5. CASE ~(Skips(file[c], viewOf[c], exists) /\ r[1] = 1)
    <3>1. n = IF m < a THEN a ELSE m
      BY <1>7, <1>9, <2>1, <2>2, <2>5 DEF Later
    <3>2. ASSUME n # 1, a = 1, e \notin early PROVE e \in hadMaster
      <4>1. m = 2
        BY <1>2, <3>1, <3>2
      <4>2. b # 0
        <5>1. CASE author[e] = c
          BY <1>1, <2>2, <4>1, <5>1 DEF Comes
        <5>2. CASE author[e] # c
          <6>1. t # 0
            BY <1>2, <2>3, <3>2
          <6>2. d # 0
            BY <1>1, <2>2, <5>2, <6>1 DEF Comes
          <6> QED BY <2>3, <6>2
        <5> QED BY <5>1, <5>2
      <4>3. b = 1
        BY <2>3, <3>2, <4>2
      <4> QED BY <1>5, <2>2, <3>2, <4>3
    <3> QED BY <1>2, <1>3, <2>2, <2>3, <3>1, <3>2 DEF L, p
  <2> QED BY <2>4, <2>5
<1> QED BY <1>8, <1>9

LEMMA ServeAges ==
  ASSUME TInv, NEW c \in Clients, Serve(c), NEW P, Linked(c, P), NEW e \in Edits,
         NEW r, NEW t, NEW v, NEW m, Ages(c, P, e, r, t, v, m), MasterAge(e, m),
         NEW n, Merging(c, e, r, m, n)
  PROVE  MasterAge(e, n)' /\ Ages(c, P, e, r, t, n, n)' /\ m <= n /\ n \in 0..2
         /\ (n # 0 => m # 0 \/ t # 0)
<1> DEFINE L == Len(file[c].editStack)
           p == Seen(file[c], viewOf[c])
<1>1. /\ file' = file /\ syncs' = syncs /\ typed' = typed /\ deleted' = deleted /\ early' = early
      /\ had' = had
  <2>1. UNCHANGED <<client, faults, typed, deleted, early, had, late, unsent>>
    BY ServeIs, Zenon
  <2> QED BY <2>1 DEF client
<1>2. /\ master' \in Texts /\ master'[e] = One(n) /\ viewOf'[c].shadow = master'
      /\ exists' /\ hadMaster' = hadMaster \cup Here(master')
  BY DEF Merging
<1>3. PICK l \in 1..L : /\ Seen(file[c], viewOf'[c]) = Top(p, l)
                        /\ n = Merged(file[c], viewOf[c], exists, r, m, l)
  BY DEF Merging
<1>4. PICK k : k = Top(p, l)
  OBVIOUS
<1>5. /\ n \in 0..2 /\ m <= n /\ k \in 0..L /\ r[k] <= n
      /\ (n # 0 => m # 0 \/ r[k] # 0) /\ r[p] <= r[k]
      /\ (n = 2 /\ e \notin early => m = 2 \/ r[k] = 2)
      /\ (n # 1 /\ r[k] = 1 /\ e \notin early => e \in hadMaster)
  BY <1>3, <1>4, MergedIs
<1>6. Grows(L, p, r, t, v, m) /\ Comes(p, r, t, m, author[e] = c) /\ p \in 0..L /\ L \in Nat
  BY SeenIsNat DEF Ages, Aging
<1>7. /\ m \in 0..2 /\ t \in 0..2 /\ r[p] \in 0..2 /\ r[k] \in 0..2 /\ r[k] <= t
  <2>1. \A i \in 0..L : r[i] \in 0..2 /\ i \in Int
    BY <1>6 DEF Grows
  <2>2. L \in 0..L /\ k <= L
    BY <1>5, <1>6
  <2>3. r[L] \in 0..2 /\ r[k] <= r[L] /\ r[L] <= t
    BY <1>5, <1>6, <2>1, <2>2 DEF Grows
  <2>4. t \in 0..2 /\ m \in 0..2
    BY <1>6 DEF Grows
  <2>5. r[k] \in 0..2 /\ r[p] \in 0..2
    BY <1>5, <1>6, <2>1
  <2> QED BY <2>3, <2>4, <2>5
<1>8. e \in Here(master') <=> n = 1
  BY <1>2 DEF Here, One
<1> HIDE DEF L, p
<1>9. /\ (m = 1 => e \in hadMaster) /\ (e \in hadMaster => m # 0)
      /\ (e \notin deleted \cup early => m # 2) /\ (e \notin deleted \cup early => t # 2)
  BY DEF MasterAge, Ages, Comings
<1>10. MasterAge(e, n)'
  <2>1. e \notin deleted \cup early => n # 2
    BY <1>5, <1>7, <1>9
  <2>2. e \in hadMaster => n # 0
    BY <1>5, <1>7, <1>9
  <2> QED BY <1>1, <1>2, <1>5, <1>8, <2>1, <2>2 DEF MasterAge
<1>11. Shows(c, P, e, r, t, n)'
  BY <1>1, <1>2 DEF Ages, Shows
<1>12. Comings(c, e, r, t)'
  BY <1>1 DEF Ages, Comings
<1>13. Having(c, e, r, t, n)'
  BY <1>1, <1>2, <1>3, <1>4, <1>5, <1>8 DEF Ages, Having
<1>14. Aging(c, e, r, t, n, n)'
  <2>1. Grows(L, k, r, t, n, n)
    BY <1>5, <1>6 DEF Grows
  <2>2. Comes(k, r, t, n, author[e] = c)
    <3>1. author[e] = c /\ n # 0 => r[k] # 0
      BY <1>5, <1>6, <1>7 DEF Comes
    <3>2. author[e] # c /\ t # 0 => n # 0
      BY <1>5, <1>6, <1>7 DEF Comes
    <3> QED BY <1>6, <3>1, <3>2 DEF Comes
  <2> QED BY <1>1, <1>3, <1>4, <2>1, <2>2 DEF Aging, L, p
<1>15. n # 0 => m # 0 \/ t # 0
  BY <1>5, <1>7
<1> QED BY <1>5, <1>10, <1>11, <1>12, <1>13, <1>14, <1>15 DEF Ages

(* The answer brings the gateway's shadow, and the ages that it has. *)
LEMMA SyncRun2Ages ==
  ASSUME TInv, NEW a \in answers, SyncRun2(a), a.id = airborne[a.client], NEW c, c = a.client,
         NEW P, Linked(c, P), NEW e \in Edits,
         NEW r, NEW t, NEW v, NEW m, Ages(c, P, e, r, t, v, m), MasterAge(e, m), m # 0 => e \in typed,
         NEW Q, Q = [i \in 0..0 |-> viewOf[c].shadow], NEW r2, r2 = [i \in 0..0 |-> v],
         NEW t2, t2 = Later(t, v)
  PROVE  Ages(c, Q, e, r2, t2, v, m)'
<1> DEFINE f == file[c]
           L == Len(f.editStack)
           p == Seen(f, viewOf[c])
           g == Caught(f, viewOf[c], a)
<1>1. /\ c \in Clients /\ syncs[c] # 0 /\ a.kind = "d" /\ p = L
      /\ a.body = Diff(f.shadowText, viewOf[c].shadow)
      /\ file' = [file EXCEPT ![c] = g]
  BY SyncRun2Is, Zenon
<1>2. /\ f \in FilesOf(typed) /\ viewOf[c] \in Views(typed) /\ StackOf(f, P) /\ L \in Nat
      /\ f.clientVersion = Base(f) + L /\ Base(f) \in Nat /\ viewOf[c].cv \in Nat
  <2>1. viewOf[c] \in Views(typed)
    BY <1>1 DEF TInv, GatewayT
  <2>2. viewOf[c].cv \in Nat
    BY <2>1 DEF Views
  <2> QED BY <1>1, <2>1, <2>2, SeenIsNat DEF TInv, PagesT, Linked, Link
<1>3. /\ syncs' = syncs /\ viewOf' = viewOf /\ hadMaster' = hadMaster /\ typed' = typed
      /\ deleted' = deleted /\ early' = early
      /\ had' = [had EXCEPT ![c] = had[c] \cup Here(file'[c].text)]
  <2>1. /\ UNCHANGED <<syncs, viewOf, hadMaster, typed, deleted, early>>
    BY DEF SyncRun2, gateway
  <2>2. PICK h : h = IF a.kind = "R" THEN RawLine(FileLine(file[c], a), a)
                     ELSE DeltaLine(FileLine(file[c], a), a)
    OBVIOUS
  <2>3. had' = [had EXCEPT ![c] = (IF a.kind = "R" THEN a.had ELSE had[c]) \cup Here(h.text)]
        /\ file' = [file EXCEPT ![c] = h]
    BY <2>2 DEF SyncRun2
  <2>4. file'[c] = h
    BY <1>1, <2>3 DEF TInv, PagesT
  <2> QED BY <1>1, <2>1, <2>3, <2>4
<1>4. /\ g.editStack = <<>> /\ g.clientVersion = f.clientVersion
      /\ g.text = Patched(f.text, a.body)
  BY <1>2 DEF Caught, FilesOf
<1> HIDE DEF g
<1>5. file'[c] = g
  BY <1>1 DEF TInv, PagesT
<1>6. Len(g.editStack) = 0
  BY <1>4, EmptySeq
<1>7. Seen(g, viewOf[c]) = 0
  <2>1. PICK w, b, l, k : w = viewOf[c].cv /\ b = Base(f) /\ l = L /\ k = f.clientVersion
    OBVIOUS
  <2>2. w - b = l /\ k = b + l /\ w \in Nat /\ b \in Nat /\ l \in Nat
    BY <1>1, <1>2, <2>1 DEF Seen
  <2>3. w - (k - 0) = 0
    BY <2>2
  <2> QED BY <1>4, <1>6, <2>1, <2>3 DEF Seen, Base
<1> HIDE DEF L, p
<1>8. /\ Grows(L, L, r, t, v, m) /\ Comes(L, r, t, m, author[e] = c)
  BY <1>1 DEF Ages, Aging, L, p
<1>9. PICK x, z : x = r[L] /\ z = r[0]
  OBVIOUS
<1>10. x \in 0..2 /\ z \in 0..2 /\ z <= x /\ x <= v /\ x <= t /\ v <= m /\ m \in 0..2 /\ v \in 0..2
       /\ t \in 0..2
  <2>1. \A i \in 0..L : r[i] \in 0..2
    BY <1>8 DEF Grows
  <2>2. 0 \in 0..L /\ L \in 0..L /\ 0 <= L
    BY <1>2
  <2>3. r[0] <= r[L]
    BY <1>8, <2>2, Zenon DEF Grows
  <2> QED BY <1>8, <1>9, <2>1, <2>2, <2>3 DEF Grows
<1>11. /\ (author[e] = c /\ m # 0 => x # 0) /\ (author[e] # c /\ z = 0 => t = 0)
       /\ (author[e] # c /\ t # 0 => m # 0)
  BY <1>8, <1>9 DEF Comes
<1>12. x = 0 /\ v # 0 => t = 0
  BY <1>10, <1>11
<1>13. t2 = (IF t < v THEN v ELSE t) /\ r2[0] = v /\ Q[0] = viewOf[c].shadow
  BY DEF Later
<1>14. g.text[e] = One(t2)
  <2>1. f.text \in Texts /\ f.shadowText \in Texts /\ viewOf[c].shadow \in Texts
    BY <1>2 DEF FilesOf, Views, TextsOf
  <2>0. PICK y, u, w : y = f.text /\ u = f.shadowText /\ w = viewOf[c].shadow
    OBVIOUS
  <2>2. Patched(y, Diff(u, w))[e] = IF y[e] + (w[e] - u[e]) < 0 THEN 0 ELSE y[e] + (w[e] - u[e])
    BY <2>0, <2>1, PatchedAt
  <2>3. f.shadowText[e] = One(x)
    <3>1. L \in 0..L
      BY <1>2
    <3>2. P[L] = f.shadowText /\ P[L][e] = One(r[L])
      BY <1>2, <3>1 DEF Ages, Shows, StackOf, L
    <3> QED BY <1>9, <3>2
  <2>4. f.text[e] = One(t) /\ viewOf[c].shadow[e] = One(v)
    BY DEF Ages, Shows
  <2>5. One(Later(t, v)) = IF One(t) + (One(v) - One(x)) < 0 THEN 0 ELSE One(t) + (One(v) - One(x))
    BY <1>10, <1>12, MergeStep
  <2> QED BY <1>1, <1>4, <2>0, <2>2, <2>3, <2>4, <2>5
<1>15. e \in Here(g.text) <=> t2 = 1
  BY <1>14 DEF Here, One
<1>16. had'[c] = had[c] \cup Here(g.text)
  BY <1>1, <1>3, <1>5 DEF TInv, HistoryT
<1>17. Shows(c, Q, e, r2, t2, v)'
  BY <1>3, <1>5, <1>6, <1>13, <1>14 DEF Ages, Shows
<1>18. Comings(c, e, r2, t2)'
  <2>1. t2 # 0 => e \in typed
    BY <1>10, <1>13 DEF Ages, Comings
  <2>2. author[e] = c /\ e \in typed => t2 # 0
    BY <1>10, <1>13 DEF Ages, Comings
  <2>3. e \notin deleted \cup early => t2 # 2
    BY <1>10, <1>13 DEF Ages, Comings, MasterAge
  <2> QED BY <1>1, <1>3, <1>5, <1>6, <2>1, <2>2, <2>3 DEF Comings
<1>19. Having(c, e, r2, t2, v)'
  <2>1. /\ (r[L] = 1 => e \in had[c]) /\ (t = 1 => e \in had[c]) /\ (e \in had[c] => t # 0)
        /\ (v = 1 => e \in hadMaster)
    <3>1. L \in 0..L
      BY <1>2
    <3> QED BY <3>1 DEF Ages, Having, L
  <2>2. v = 1 => t2 = 1 \/ e \in had[c]
    BY <1>9, <1>10, <1>12, <1>13, <2>1
  <2>3. e \in had[c] => t2 # 0
    BY <1>10, <1>13, <2>1
  <2> QED BY <1>3, <1>5, <1>6, <1>7, <1>13, <1>15, <1>16, <2>1, <2>2, <2>3 DEF Having
<1>20. Aging(c, e, r2, t2, v, m)'
  <2>1. Grows(0, 0, r2, t2, v, m)
    BY <1>10, <1>13 DEF Grows
  <2>2. Comes(0, r2, t2, m, author[e] = c)
    BY <1>10, <1>11, <1>13 DEF Comes
  <2> QED BY <1>3, <1>5, <1>6, <1>7, <2>1, <2>2, Zenon DEF Aging
<1> QED BY <1>17, <1>18, <1>19, <1>20 DEF Ages

LEMMA AgesAre ==
  ASSUME TInv, NEW c \in Clients, NEW P, Linked(c, P), NEW e, NEW r, NEW t, NEW v, NEW m,
         Ages(c, P, e, r, t, v, m)
  PROVE  LET L == Len(file[c].editStack)
             p == Seen(file[c], viewOf[c])
         IN  /\ t \in 0..2 /\ v \in 0..2 /\ m \in 0..2 /\ v <= m /\ L \in Nat /\ p \in 0..L
             /\ \A i \in 0..L : r[i] \in 0..2 /\ r[i] <= t
             /\ r[0] <= r[p] /\ r[p] <= v /\ r[p] <= r[L] /\ 0 \in 0..L /\ L \in 0..L
<1> DEFINE L == Len(file[c].editStack)
           p == Seen(file[c], viewOf[c])
<1>1. Grows(L, p, r, t, v, m) /\ L \in Nat /\ p \in 0..L
  BY SeenIsNat DEF Ages, Aging
<1> HIDE DEF L, p
<1>2. /\ \A i \in 0..L : r[i] \in 0..2
      /\ \A i, j \in 0..L : i <= j => r[i] <= r[j]
      /\ m \in 0..2 /\ v \in 0..2 /\ t \in 0..2 /\ r[p] <= v /\ v <= m /\ r[L] <= t
  BY <1>1, Zenon DEF Grows
<1>3. 0 \in 0..L /\ L \in 0..L /\ 0 <= p /\ p <= L
  BY <1>1
<1>4. r[0] <= r[p] /\ r[p] <= r[L]
  BY <1>1, <1>2, <1>3, Zenon
<1>5. ASSUME NEW i \in 0..L PROVE r[i] <= t
  <2>1. i <= L /\ r[i] <= r[L] /\ r[i] \in 0..2 /\ r[L] \in 0..2
    BY <1>1, <1>2, <1>3
  <2> QED BY <1>2, <2>1
<1> QED BY <1>1, <1>2, <1>3, <1>4, <1>5 DEF L, p

(* What has come to the shared text has been typed. *)
LEMMA ComesTyped ==
  ASSUME TInv, NEW P, \A c \in Clients : Linked(c, P[c]), NEW e \in Edits, NEW m, AgesAlong(P, e, m)
  PROVE  m # 0 => e \in typed
<1>1. PICK c \in Clients : author[e] = c
  BY AuthorAssumption
<1>2. PICK O : O = P[c]
  OBVIOUS
<1>3. PICK r, t, v : Ages(c, O, e, r, t, v, m)
  BY <1>2 DEF AgesAlong
<1>4. PICK p : p = Seen(file[c], viewOf[c])
  OBVIOUS
<1>5. Linked(c, O)
  BY <1>2
<1>6. r[p] \in 0..2 /\ r[p] <= t /\ t \in 0..2
  BY <1>3, <1>4, <1>5, AgesAre
<1>7. (m # 0 => r[p] # 0) /\ (t # 0 => e \in typed)
  BY <1>1, <1>3, <1>4 DEF Ages, Aging, Comes, Comings
<1> QED BY <1>6, <1>7

LEMMA AgesGoOn ==
  ASSUME NEW Q, \A c \in Clients : Linked(c, Q[c])', \A e \in Edits : \E m : AgesAlong(Q, e, m)'
  PROVE  AgesInv'
<1> QED BY Zenon DEF AgesInv

LEMMA QuietAgesInv ==
  ASSUME TInv, Quiet, NEW P, \A c \in Clients : Linked(c, P[c]),
         \A e \in Edits : \E m : AgesAlong(P, e, m)
  PROVE  AgesInv'
<1>1. ASSUME NEW c \in Clients PROVE Linked(c, P[c])'
  <2>1. PICK O : O = P[c]
    OBVIOUS
  <2>2. Linked(c, O)'
    BY <2>1, QuietLinked
  <2> QED BY <2>1, <2>2
<1>2. ASSUME NEW e \in Edits PROVE \E m : AgesAlong(P, e, m)'
  <2>1. PICK m : AgesAlong(P, e, m)
    OBVIOUS
  <2>2. MasterAge(e, m)'
    BY <2>1 DEF AgesAlong, MasterAge, Quiet
  <2>3. ASSUME NEW c \in Clients PROVE \E r, t, v : Ages(c, P[c], e, r, t, v, m)'
    <3>1. PICK r, t, v : Ages(c, P[c], e, r, t, v, m)
      BY <2>1 DEF AgesAlong
    <3>2. PICK O : O = P[c]
      OBVIOUS
    <3>3. Ages(c, O, e, r, t, v, m)'
      BY <3>1, <3>2, QuietAges
    <3> QED BY <3>2, <3>3
  <2> QED BY <2>2, <2>3 DEF AgesAlong
<1> QED BY <1>1, <1>2, AgesGoOn

LEMMA EditAgesInv ==
  ASSUME TInv, NEW c \in Clients, NEW e0 \in Edits, Type(c, e0) \/ Delete(c, e0),
         NEW P, \A d \in Clients : Linked(d, P[d]), \A e \in Edits : \E m : AgesAlong(P, e, m)
  PROVE  AgesInv'
<1>1. PICK u : Edit(c, u)
  BY EditKinds
<1>2. ASSUME NEW d \in Clients PROVE Linked(d, P[d])'
  <2>1. PICK O : O = P[d]
    OBVIOUS
  <2>2. Linked(d, O)'
    BY <1>1, <2>1, EditLinked
  <2> QED BY <2>1, <2>2
<1>3. /\ typed \subseteq typed' /\ deleted \subseteq deleted' /\ early \subseteq early'
      /\ hadMaster' = hadMaster /\ viewOf' = viewOf /\ syncs' = syncs
      /\ master' = master /\ exists' = exists
      /\ \A e \in Edits, d \in Clients : author[e] = d /\ e \in typed' /\ (e # e0 \/ d # c) => e \in typed
      /\ \A e \in Edits, d \in Clients : e # e0 \/ d # c => (e \in had'[d] <=> e \in had[d])
  <2>1. hadMaster' = hadMaster /\ viewOf' = viewOf /\ syncs' = syncs /\ master' = master
        /\ exists' = exists
    BY <1>1 DEF Edit
  <2>2. had \in [Clients -> SUBSET typed]
    BY DEF TInv, HistoryT
  <2>3. CASE Type(c, e0)
    BY <2>1, <2>2, <2>3 DEF Type
  <2>4. CASE Delete(c, e0)
    BY <2>1, <2>4 DEF Delete
  <2> QED BY <2>3, <2>4
<1>4. ASSUME NEW d \in Clients PROVE SameFile(file'[d], file[d])
  BY <1>1 DEF Edit, SameFile, TInv, PagesT, FilesOf
<1>5. ASSUME NEW d \in Clients, NEW e \in Edits, e # e0 \/ d # c
      PROVE  file'[d].text[e] = file[d].text[e]
  <2>1. file \in [Clients -> FilesOf(typed)]
    BY DEF TInv, PagesT
  <2>2. CASE Type(c, e0)
    BY <1>5, <2>1, <2>2 DEF Type, FilesOf, TextsOf, Texts
  <2>3. CASE Delete(c, e0)
    BY <1>5, <2>1, <2>3 DEF Delete, FilesOf, TextsOf, Texts
  <2> QED BY <2>2, <2>3
<1>6. ASSUME NEW e \in Edits PROVE \E m : AgesAlong(P, e, m)'
  <2>1. PICK m : AgesAlong(P, e, m)
    OBVIOUS
  <2>2. MasterAge(e, m)'
    BY <1>3, <2>1 DEF AgesAlong, MasterAge
  <2>3. ASSUME NEW d \in Clients PROVE \E r, t, v : Ages(d, P[d], e, r, t, v, m)'
    <3>1. PICK O : O = P[d]
      OBVIOUS
    <3>2. PICK r, t, v : Ages(d, O, e, r, t, v, m)
      BY <2>1, <3>1 DEF AgesAlong
    <3>3. CASE d = c /\ e = e0
      <4>1. PICK t2 : t2 = IF e \in typed THEN 2 ELSE 1
        OBVIOUS
      <4>2. Ages(d, O, e, r, t2, v, m)'
        BY <3>2, <3>3, <4>1, EditAges
      <4> QED BY <3>1, <4>2
    <3>4. CASE ~(d = c /\ e = e0)
      <4>1. m \in 0..2 /\ m <= m
        BY <2>1 DEF AgesAlong, MasterAge
      <4>2. /\ SameFile(file'[d], file[d]) /\ file'[d].text[e] = file[d].text[e]
            /\ viewOf'[d] = viewOf[d] /\ syncs'[d] = syncs[d] /\ hadMaster \subseteq hadMaster'
            /\ (author[e] = d /\ e \in typed' => e \in typed)
            /\ (e \in had'[d] <=> e \in had[d])
        BY <1>3, <1>4, <1>5, <3>4
      <4>3. Ages(d, O, e, r, t, v, m)'
        BY <1>3, <3>2, <4>1, <4>2, KeepAges
      <4> QED BY <3>1, <4>3
    <3> QED BY <3>3, <3>4
  <2> QED BY <2>2, <2>3 DEF AgesAlong
<1> QED BY <1>2, <1>6, AgesGoOn

LEMMA SendsAgesInv ==
  ASSUME TInv, NEW c \in Clients, Sends(c), NEW P, \A d \in Clients : Linked(d, P[d]),
         \A e \in Edits : \E m : AgesAlong(P, e, m)
  PROVE  AgesInv'
<1>1. /\ SendSync(c) /\ viewOf' = viewOf /\ answers' \subseteq answers /\ master' = master
      /\ exists' = exists /\ UNCHANGED <<typed, deleted, early, had, hadMaster>>
      /\ file' = [file EXCEPT ![c] = SyncText(file[c])] /\ syncs' = [syncs EXCEPT ![c] = @ + 1]
  BY DEF Sends, SendSync
<1>2. PICK G : G = Grown(file[c], P[c])
  OBVIOUS
<1>3. PICK Q : Q = [d \in Clients |-> IF d = c THEN G ELSE P[d]]
  OBVIOUS
<1>4. Q[c] = G /\ \A d \in Clients \ {c} : Q[d] = P[d]
  BY <1>3
<1>5. ASSUME NEW d \in Clients PROVE Linked(d, Q[d])'
  <2>1. PICK O : O = P[d]
    OBVIOUS
  <2>2. CASE d = c
    <3>1. G = Grown(file[c], O)
      BY <1>2, <2>1, <2>2
    <3>2. Linked(c, G)'
      BY <1>1, <2>1, <2>2, <3>1, SendSyncLinked
    <3> QED BY <1>4, <2>2, <3>2
  <2>3. CASE d # c
    <3>1. Linked(d, O)'
      BY <1>1, <2>1, <2>3, SendSyncOthers
    <3> QED BY <1>4, <2>1, <2>3, <3>1
  <2> QED BY <2>2, <2>3
<1>6. ASSUME NEW e \in Edits PROVE \E m : AgesAlong(Q, e, m)'
  <2>1. PICK m : AgesAlong(P, e, m)
    OBVIOUS
  <2>2. MasterAge(e, m)'
    BY <1>1, <2>1 DEF AgesAlong, MasterAge
  <2>3. ASSUME NEW d \in Clients PROVE \E r, t, v : Ages(d, Q[d], e, r, t, v, m)'
    <3>1. PICK O : O = P[d]
      OBVIOUS
    <3>2. PICK r, t, v : Ages(d, O, e, r, t, v, m)
      BY <2>1, <3>1 DEF AgesAlong
    <3>3. CASE d = c
      <4>1. PICK r2 : r2 = [i \in 0..Len(SyncText(file[c]).editStack) |->
                              IF i <= Len(file[c].editStack) THEN r[i] ELSE t]
        OBVIOUS
      <4>2. G = Grown(file[c], O) /\ Linked(c, O)
        BY <1>2, <3>1, <3>3
      <4>3. Ages(c, G, e, r2, t, v, m)'
        BY <3>2, <3>3, <4>1, <4>2, SendsAges
      <4> QED BY <1>4, <3>3, <4>3
    <3>4. CASE d # c
      <4>1. m \in 0..2 /\ m <= m
        BY <2>1 DEF AgesAlong, MasterAge
      <4>2. /\ file'[d] = file[d] /\ viewOf'[d] = viewOf[d] /\ syncs'[d] = syncs[d]
        BY <1>1, <3>4 DEF TInv, PagesT, SyncsT
      <4>3. SameFile(file'[d], file[d])
        BY <4>2 DEF SameFile
      <4>4. Ages(d, O, e, r, t, v, m)'
        BY <1>1, <3>2, <4>1, <4>2, <4>3, KeepAges
      <4> QED BY <1>4, <3>1, <3>4, <4>4
    <3> QED BY <3>3, <3>4
  <2> QED BY <2>2, <2>3 DEF AgesAlong
<1> QED BY <1>5, <1>6, AgesGoOn

LEMMA ServeAgesInv ==
  ASSUME TInv, NEW c \in Clients, Serve(c), Numbers(file[c], viewOf[c], exists),
         NEW P, \A d \in Clients : Linked(d, P[d]), \A e \in Edits : \E m : AgesAlong(P, e, m)
  PROVE  AgesInv'
<1>1. /\ file' = file /\ syncs' = syncs /\ had' = had /\ typed' = typed /\ deleted' = deleted
      /\ early' = early
      /\ \A d \in Clients \ {c} : viewOf'[d] = viewOf[d]
  <2>1. /\ UNCHANGED <<client, faults, typed, deleted, early, had, late, unsent>>
        /\ \E w : viewOf' = [viewOf EXCEPT ![c] = w]
    BY ServeIs, Zenon
  <2> QED BY <2>1 DEF client, TInv, GatewayT
<1>2. ASSUME NEW d \in Clients PROVE Linked(d, P[d])'
  <2>1. PICK O : O = P[d]
    OBVIOUS
  <2>2. CASE d = c
    <3>1. Linked(d, O)'
      BY <2>1, <2>2, ServeLinked
    <3> QED BY <2>1, <3>1
  <2>3. CASE d # c
    <3>1. Linked(d, O)'
      BY <2>1, <2>3, ServeOthers
    <3> QED BY <2>1, <3>1
  <2> QED BY <2>2, <2>3
<1>3. ASSUME NEW e \in Edits PROVE \E m : AgesAlong(P, e, m)'
  <2>1. PICK m : AgesAlong(P, e, m)
    OBVIOUS
  <2>2. PICK U : U = P[c]
    OBVIOUS
  <2>3. PICK r, t, v : Ages(c, U, e, r, t, v, m)
    BY <2>1, <2>2 DEF AgesAlong
  <2>4. MasterAge(e, m) /\ Linked(c, U)
    BY <2>1, <2>2 DEF AgesAlong
  <2>5. PICK n : Merging(c, e, r, m, n)
    BY <2>3, <2>4, ServeMerges
  <2>6. MasterAge(e, n)' /\ Ages(c, U, e, r, t, n, n)' /\ m <= n /\ n \in 0..2
        /\ (n # 0 => m # 0 \/ t # 0)
    BY <2>3, <2>4, <2>5, ServeAges
  <2>7. hadMaster \subseteq hadMaster'
    BY <2>5 DEF Merging
  <2>8. ASSUME NEW d \in Clients, d # c PROVE \E r2, t2, v2 : Ages(d, P[d], e, r2, t2, v2, n)'
    <3>1. PICK O : O = P[d]
      OBVIOUS
    <3>2. PICK r2, t2, v2 : Ages(d, O, e, r2, t2, v2, m)
      BY <2>1, <3>1 DEF AgesAlong
    <3>3. author[e] = d /\ n # 0 => m # 0
      <4>1. author[e] # c /\ t # 0 => m # 0
        BY <2>3 DEF Ages, Aging, Comes
      <4> QED BY <2>6, <2>8, <4>1
    <3>4. viewOf'[d] = viewOf[d] /\ SameFile(file'[d], file[d])
      BY <1>1, <2>8 DEF SameFile
    <3>5. Ages(d, O, e, r2, t2, v2, n)'
      BY <1>1, <2>6, <2>7, <3>2, <3>3, <3>4, KeepAges
    <3> QED BY <3>1, <3>5
  <2>9. \A d \in Clients : \E r2, t2, v2 : Ages(d, P[d], e, r2, t2, v2, n)'
    BY <2>2, <2>6, <2>8
  <2> QED BY <2>6, <2>9 DEF AgesAlong
<1> QED BY <1>2, <1>3, AgesGoOn

LEMMA SyncRun2AgesInv ==
  ASSUME TInv, NEW a \in answers, SyncRun2(a), a.id = airborne[a.client],
         NEW P, \A d \in Clients : Linked(d, P[d]), \A e \in Edits : \E m : AgesAlong(P, e, m)
  PROVE  AgesInv'
<1>1. PICK c : c = a.client
  OBVIOUS
<1>2. c \in Clients
  BY <1>1 DEF TInv, NetworkT, Answers
<1>3. /\ UNCHANGED <<syncs, viewOf, master, exists, typed, deleted, early, hadMaster>>
      /\ \A d \in Clients \ {c} : file'[d] = file[d] /\ had'[d] = had[d]
  <2>1. /\ UNCHANGED <<syncs, viewOf, master, exists, typed, deleted, early, hadMaster>>
        /\ (\E g : file' = [file EXCEPT ![c] = g]) /\ (\E h : had' = [had EXCEPT ![c] = h])
    BY <1>1 DEF SyncRun2, gateway
  <2> QED BY <2>1 DEF TInv, PagesT, HistoryT
<1>4. PICK R : R = [i \in 0..0 |-> viewOf[c].shadow]
  OBVIOUS
<1>5. PICK Q : Q = [d \in Clients |-> IF d = c THEN R ELSE P[d]]
  OBVIOUS
<1>6. Q[c] = R /\ \A d \in Clients \ {c} : Q[d] = P[d]
  BY <1>2, <1>5
<1>7. ASSUME NEW d \in Clients PROVE Linked(d, Q[d])'
  <2>1. PICK O : O = P[d]
    OBVIOUS
  <2>2. CASE d = c
    <3>1. Linked(a.client, O) /\ R = [i \in 0..0 |-> viewOf[a.client].shadow]
      BY <1>1, <1>4, <2>1, <2>2
    <3>2. Linked(a.client, R)'
      BY <3>1, SyncRun2Linked
    <3>3. Linked(d, R)'
      BY <1>1, <2>2, <3>2, Zenon
    <3> QED BY <1>6, <2>2, <3>3
  <2>3. CASE d # c
    <3>1. Linked(d, O)'
      BY <1>1, <2>1, <2>3, SyncRun2Others
    <3> QED BY <1>6, <2>1, <2>3, <3>1
  <2> QED BY <2>2, <2>3
<1>8. ASSUME NEW e \in Edits PROVE \E m : AgesAlong(Q, e, m)'
  <2>1. PICK m : AgesAlong(P, e, m)
    OBVIOUS
  <2>2. MasterAge(e, m)' /\ MasterAge(e, m)
    BY <1>3, <2>1 DEF AgesAlong, MasterAge
  <2>3. m # 0 => e \in typed
    BY <2>1, ComesTyped
  <2>4. ASSUME NEW d \in Clients PROVE \E r, t, v : Ages(d, Q[d], e, r, t, v, m)'
    <3>1. PICK O : O = P[d]
      OBVIOUS
    <3>2. PICK r, t, v : Ages(d, O, e, r, t, v, m)
      BY <2>1, <3>1 DEF AgesAlong
    <3>3. CASE d = c
      <4>1. PICK r2, t2 : r2 = [i \in 0..0 |-> v] /\ t2 = Later(t, v)
        OBVIOUS
      <4>2. Linked(c, O)
        BY <3>1, <3>3
      <4>3. Ages(c, R, e, r2, t2, v, m)'
        BY <1>1, <1>4, <2>2, <2>3, <3>2, <3>3, <4>1, <4>2, SyncRun2Ages
      <4> QED BY <1>6, <3>3, <4>3
    <3>4. CASE d # c
      <4>1. m \in 0..2 /\ m <= m
        BY <2>2 DEF MasterAge
      <4>2. /\ file'[d] = file[d] /\ viewOf'[d] = viewOf[d] /\ syncs'[d] = syncs[d]
            /\ had'[d] = had[d]
        BY <1>3, <3>4
      <4>3. SameFile(file'[d], file[d])
        BY <4>2 DEF SameFile
      <4>4. Ages(d, O, e, r, t, v, m)'
        BY <1>3, <3>2, <4>1, <4>2, <4>3, KeepAges
      <4> QED BY <1>6, <3>1, <3>4, <4>4
    <3> QED BY <3>3, <3>4
  <2> QED BY <2>2, <2>4 DEF AgesAlong
<1> QED BY <1>7, <1>8, AgesGoOn

LEMMA NextAges == ASSUME TInv, NumbersInv, AgesInv, [Next]_vars PROVE AgesInv'
<1> SUFFICES ASSUME late' = {} PROVE AgesInv'
  BY DEF AgesInv
<1>1. late = {}
  BY LateGrows
<1>2. PICK P : /\ \A c \in Clients : Linked(c, P[c])
               /\ \A e \in Edits : \E m : AgesAlong(P, e, m)
  BY <1>1 DEF AgesInv
<1>3. CASE Quiet
  BY <1>2, <1>3, QuietAgesInv
<1>4. ASSUME NEW c \in Clients, Sends(c) PROVE AgesInv'
  BY <1>2, <1>4, SendsAgesInv
<1>5. ASSUME NEW c \in Clients, Serve(c) PROVE AgesInv'
  <2>1. Numbers(file[c], viewOf[c], exists)
    BY <1>1 DEF NumbersInv
  <2> QED BY <1>2, <1>5, <2>1, ServeAgesInv
<1>6. ASSUME NEW c \in Clients, NEW e \in Edits, Type(c, e) \/ Delete(c, e) PROVE AgesInv'
  BY <1>2, <1>6, EditAgesInv
<1>7. ASSUME NEW a \in answers, SyncRun2(a) PROVE AgesInv'
  <2>1. a.id = airborne[a.client]
    BY <1>7 DEF SyncRun2
  <2> QED BY <1>2, <1>7, <2>1, SyncRun2AgesInv
<1> QED BY <1>3, <1>4, <1>5, <1>6, <1>7, NextKinds

LEMMA AgesTell ==
  ASSUME TInv, ClosingInv, AgesInv, late = {}
  PROVE  TypedStaysOnce /\ ClosingSendsTheRest
<1>1. PICK P : /\ \A c \in Clients : Linked(c, P[c])
               /\ \A e \in Edits : \E m : AgesAlong(P, e, m)
  BY DEF AgesInv
<1>2. NoEditTwice
  <2>1. ASSUME NEW e \in Edits PROVE master[e] <= 1
    BY <1>1 DEF AgesAlong, MasterAge, One
  <2>2. ASSUME NEW e \in Edits, NEW c \in Clients PROVE file[c].text[e] <= 1
    <3>1. PICK r, t, v, m : Ages(c, P[c], e, r, t, v, m)
      BY <1>1 DEF AgesAlong
    <3> QED BY <3>1 DEF Ages, Shows, One
  <2> QED BY <2>1, <2>2 DEF NoEditTwice
<1>3. ASSUME NEW e \in typed, e \notin deleted \cup early, NEW c \in Clients, author[e] = c
      PROVE  /\ file[c].text[e] = 1
             /\ c \in closed \ unsent /\ requests[c] = <<>> => e \in hadMaster
  <2>1. e \in Edits
    BY DEF TInv, HistoryT
  <2>2. PICK O : O = P[c]
    OBVIOUS
  <2>3. PICK r, t, v, m : Ages(c, O, e, r, t, v, m)
    BY <1>1, <2>1, <2>2 DEF AgesAlong
  <2>4. Linked(c, O)
    BY <1>1, <2>2
  <2>5. PICK L, p : L = Len(file[c].editStack) /\ p = Seen(file[c], viewOf[c])
    OBVIOUS
  <2>6. /\ t \in 0..2 /\ L \in 0..L /\ r[L] \in 0..2
    BY <2>3, <2>4, <2>5, AgesAre
  <2>7. t = 1
    BY <1>3, <2>3, <2>6 DEF Ages, Comings
  <2>8. file[c].text[e] = 1
    BY <2>3, <2>7 DEF Ages, Shows, One
  <2>9. ASSUME c \in closed \ unsent, requests[c] = <<>> PROVE e \in hadMaster
    <3>1. file[c].text = file[c].shadowText /\ p = L
      BY <2>5, <2>9 DEF ClosingInv, Closing
    <3>2. O[L] = file[c].shadowText
      BY <2>4, <2>5 DEF Linked, Link, StackOf
    <3>3. O[L][e] = One(r[L])
      BY <2>3, <2>5, <2>6 DEF Ages, Shows
    <3>4. r[L] = 1
      BY <2>6, <2>8, <3>1, <3>2, <3>3 DEF One
    <3> QED BY <1>3, <2>3, <2>5, <3>1, <3>4 DEF Ages, Having
  <2> QED BY <2>8, <2>9
<1>4. TypedStaysOnce
  BY <1>2, <1>3, AuthorAssumption DEF TypedStaysOnce, TInv, HistoryT
<1>5. ClosingSendsTheRest
  BY <1>3 DEF ClosingSendsTheRest, TInv, PagesT
<1> QED BY <1>4, <1>5

MobWriteInv == TInv /\ LinksInv /\ NumbersInv /\ ClosingInv /\ AgesInv

LEMMA InitNumbers == Init => NumbersInv /\ ClosingInv
<1> SUFFICES ASSUME Init, NEW c \in Clients PROVE Numbers(file[c], viewOf[c], exists) /\ Closing(c)
  BY DEF NumbersInv, ClosingInv
<1>1. /\ file[c].deltaOk = FALSE /\ file[c].editStack = <<>> /\ file[c].clientVersion = 0
      /\ viewOf[c].cv = 0 /\ closed = {}
  BY DEF Init, NewView
<1>2. Len(file[c].editStack) = 0
  BY <1>1, EmptySeq
<1>3. Base(file[c]) = 0
  <2>1. Base(file[c]) = 0 - 0
    BY <1>1, <1>2, Zenon DEF Base
  <2> QED BY <2>1
<1>4. Seen(file[c], viewOf[c]) = 0
  BY <1>1, <1>3 DEF Seen
<1>5. Numbers(file[c], viewOf[c], exists)
  BY <1>1, <1>2, <1>3, <1>4 DEF Numbers
<1> QED BY <1>1, <1>5 DEF Closing

LEMMA MobWriteHolds == Spec => []MobWriteInv
<1>1. Init => MobWriteInv
  BY InitTyped, InitLinks, InitNumbers, InitAges DEF MobWriteInv
<1>2. MobWriteInv /\ [Next]_vars => MobWriteInv'
  BY NextTyped, NextLinks, NextNumbers, NextClosing, NextAges DEF MobWriteInv
<1> QED BY <1>1, <1>2, PTL DEF Spec

(* As long as no client acted on a late answer: no edit is in a text twice,   *)
(* none is lost from its author's text, and a page that was closed between    *)
(* two syncs leaves nothing behind.                                           *)
THEOREM TextsAreKept == Spec => [](late = {} => TypedStaysOnce /\ ClosingSendsTheRest)
<1>1. MobWriteInv => (late = {} => TypedStaysOnce /\ ClosingSendsTheRest)
  BY AgesTell DEF MobWriteInv
<1> QED BY <1>1, MobWriteHolds, PTL

-----------------------------------------------------------------------------
(* If the gateway is a path, the answers under way are those waited for, and  *)
(* a client has one at most: none comes late.                                 *)
InTime(c) ==
  /\ \A a \in answers : a.client = c =>
       /\ a.id = airborne[c] /\ c \in watchdog
       /\ \A k \in 1..Len(requests[c]) : requests[c][k].id # a.id
  /\ \A a, b \in answers : a.client = c /\ b.client = c => a = b
  /\ airborne[c] # 0 /\ c \notin closed => c \in watchdog
InTimeInv == ~remote => late = {} /\ \A c \in Clients : InTime(c)

LEMMA KeepInTime ==
  ASSUME TInv, NEW c \in Clients, InTime(c), \A a \in answers' : a.client = c => a \in answers,
         Shorter(requests'[c], requests[c]), airborne'[c] = airborne[c],
         c \in watchdog => c \in watchdog', closed \subseteq closed'
  PROVE  InTime(c)'
<1>1. ASSUME NEW a \in answers', a.client = c
      PROVE  \A k \in 1..Len(requests'[c]) : requests'[c][k].id # a.id
  <2>1. \A k \in 1..Len(requests[c]) : requests[c][k].id # a.id
    BY <1>1 DEF InTime
  <2>2. CASE requests'[c] = requests[c]
    BY <2>1, <2>2
  <2>3. CASE requests[c] # <<>> /\ requests'[c] = Tail(requests[c])
    <3>1. requests[c] \in Seq(Requests(typed))
      BY DEF TInv, NetworkT
    <3>2. /\ Len(Tail(requests[c])) = Len(requests[c]) - 1
          /\ \A k \in 1..Len(Tail(requests[c])) : Tail(requests[c])[k] = requests[c][k+1]
      BY <2>3, <3>1, HeadTailProperties
    <3>3. Len(requests[c]) \in Nat
      BY <3>1, LenProperties
    <3> QED BY <2>1, <2>3, <3>2, <3>3
  <2> QED BY <2>2, <2>3 DEF Shorter
<1> QED BY <1>1 DEF InTime

LEMMA NoneInTime ==
  ASSUME NEW c \in Clients, \A a \in answers' : a.client # c,
         airborne'[c] # 0 /\ c \notin closed' => c \in watchdog'
  PROVE  InTime(c)'
BY DEF InTime

LEMMA ServeInTime ==
  ASSUME TInv, NEW c \in Clients, Serve(c), ~remote, InTime(c), NEW P, Linked(c, P)
  PROVE  InTime(c)'
<1>1. PICK q, b : q = Head(requests[c])
                  /\ b = AnswerTo(c, q, Handled(viewOf[c], q, master, exists))
  OBVIOUS
<1>2. /\ requests[c] # <<>> /\ requests' = [requests EXCEPT ![c] = Tail(requests[c])]
      /\ answers' = answers \cup {a \in {b} : Awaited(a)}
      /\ UNCHANGED <<client, faults, typed, deleted, early, had, late, unsent>>
  BY <1>1, ServeIs, Zenon
<1>3. airborne' = airborne /\ closed' = closed /\ watchdog' = watchdog
  BY <1>2 DEF client
<1>4. b.client = c /\ b.id = q.id
  <2>1. PICK s : b = AnswerTo(c, q, s)
    BY <1>1
  <2> QED BY <2>1 DEF AnswerTo
<1>5. requests[c] \in Seq(Requests(typed)) /\ requests \in [Clients -> Seq(Requests(typed))]
  BY DEF TInv, NetworkT
<1>6. /\ q = requests[c][1] /\ Len(Tail(requests[c])) = Len(requests[c]) - 1
      /\ \A k \in 1..Len(Tail(requests[c])) : Tail(requests[c])[k] = requests[c][k+1]
      /\ Len(requests[c]) \in Nat \ {0}
  <2>1. Len(requests[c]) \in Nat \ {0}
    BY <1>2, <1>5, LenProperties, EmptySeq
  <2> QED BY <1>1, <1>2, <1>5, <2>1, HeadTailProperties
<1>7. \A j, k \in 1..Len(requests[c]) : j < k => requests[c][j].id < requests[c][k].id
  BY DEF Linked, Link, QueueOf
<1>8. \A k \in 1..Len(requests[c]) : requests[c][k].id \in Nat
  <2>1. PICK S : S = Requests(typed)
    OBVIOUS
  <2>2. \A x \in S : x.id \in Nat
    BY <2>1 DEF Requests
  <2>3. \A k \in 1..Len(requests[c]) : requests[c][k] \in S
    BY <1>5, <2>1, ElementOfSeq
  <2> QED BY <2>2, <2>3
<1>9. requests'[c] = Tail(requests[c])
  BY <1>2, <1>5
<1>10. \A k \in 1..Len(requests'[c]) : requests'[c][k].id # q.id
  <2> SUFFICES ASSUME NEW k \in 1..Len(requests'[c]) PROVE requests[c][k+1].id # requests[c][1].id
    BY <1>6, <1>9
  <2>1. k + 1 \in 1..Len(requests[c]) /\ 1 \in 1..Len(requests[c]) /\ 1 < k + 1
    BY <1>6, <1>9
  <2>2. requests[c][1].id < requests[c][k+1].id /\ requests[c][1].id \in Nat
        /\ requests[c][k+1].id \in Nat
    BY <1>7, <1>8, <2>1
  <2> QED BY <2>2
<1>11. CASE Awaited(b)
  <2>1. airborne[c] = q.id /\ c \notin closed
    BY <1>4, <1>11 DEF Awaited
  <2>2. \A a \in answers : a.client # c
    <3>1. 1 \in 1..Len(requests[c])
      BY <1>6
    <3> QED BY <1>6, <2>1, <3>1 DEF InTime
  <2>3. q.id # 0
    BY <1>6 DEF TInv, NetworkT
  <2>4. c \in watchdog
    BY <2>1, <2>3 DEF InTime
  <2>5. \A a \in answers' : a.client = c => a = b
    BY <1>2, <2>2
  <2> QED BY <1>3, <1>4, <1>10, <2>1, <2>4, <2>5 DEF InTime
<1>12. CASE ~Awaited(b)
  <2>1. answers' = answers
    BY <1>2, <1>12
  <2>2. Shorter(requests'[c], requests[c])
    BY <1>2, <1>9 DEF Shorter
  <2> QED BY <1>3, <2>1, <2>2, KeepInTime
<1> QED BY <1>11, <1>12

LEMMA NextInTime ==
  ASSUME TInv, TimerInv, LinksInv, InTimeInv, [Next]_vars
  PROVE  InTimeInv'
<1>1. remote' = remote
  <2>1. ASSUME NEW c \in Clients, Share(c) \/ SyncRun1(c) \/ SyncKill(c) \/ Unload(c) \/ LoseRequest(c)
        PROVE  remote' = remote
    BY <2>1 DEF Share, SyncRun1, SyncKill, Unload, LoseRequest, client
  <2>2. ASSUME NEW c \in Clients, Serve(c) PROVE remote' = remote
    <3>1. UNCHANGED <<client, faults, typed, deleted, early, had, late, unsent>>
      BY <2>2, ServeIs, Zenon
    <3> QED BY <3>1 DEF client
  <2>3. ASSUME NEW c \in Clients, NEW e \in Edits, Type(c, e) \/ Delete(c, e) PROVE remote' = remote
    BY <2>3 DEF Type, Delete
  <2>4. ASSUME NEW a \in answers, LoseAnswer(a) \/ SyncRun2Truncated(a) \/ SyncFailed(a)
        PROVE  remote' = remote
    BY <2>4 DEF LoseAnswer, SyncRun2Truncated, SyncFailed, client
  <2>5. ASSUME NEW a \in answers, SyncRun2(a) PROVE remote' = remote
    BY <2>5 DEF SyncRun2
  <2> QED BY <2>1, <2>2, <2>3, <2>4, <2>5 DEF Next, vars, client
<1> SUFFICES ASSUME ~remote PROVE late' = {} /\ \A c \in Clients : InTime(c)'
  BY <1>1 DEF InTimeInv
<1>2. late = {} /\ \A c \in Clients : InTime(c)
  BY DEF InTimeInv
<1> USE DEF Shorter
<1>3. airborne \in [Clients -> Nat] /\ requests \in [Clients -> Seq(Requests(typed))]
      /\ \A a \in answers : a.client \in Clients
  BY DEF TInv, SyncsT, NetworkT, Answers
<1>4. ASSUME UNCHANGED <<late, requests, airborne, watchdog>>, answers' \subseteq answers,
             closed \subseteq closed'
      PROVE  late' = {} /\ \A c \in Clients : InTime(c)'
  BY <1>2, <1>4, KeepInTime
<1>5. ASSUME NEW c \in Clients, Share(c) PROVE late' = {} /\ \A d \in Clients : InTime(d)'
  BY <1>4, <1>5 DEF Share, network, history
<1>6. ASSUME NEW c \in Clients, SyncRun1(c) PROVE late' = {} /\ \A d \in Clients : InTime(d)'
  <2>1. /\ c \in timer \ closed /\ closed' = closed /\ answers' = answers /\ late' = late
        /\ watchdog' = watchdog \cup {c} /\ \A d \in Clients \ {c} :
             airborne'[d] = airborne[d] /\ requests'[d] = requests[d]
    BY <1>3, <1>6 DEF SyncRun1, SendSync, history
  <2>2. c \notin watchdog
    BY <2>1 DEF TimerInv, SharersOnly, SyncingGoesOn
  <2>3. \A a \in answers' : a.client # c
    BY <1>2, <2>1, <2>2 DEF InTime
  <2>4. InTime(c)'
    BY <2>1, <2>3, NoneInTime
  <2>5. ASSUME NEW d \in Clients \ {c} PROVE InTime(d)'
    BY <1>2, <2>1, KeepInTime
  <2> QED BY <1>2, <2>1, <2>4, <2>5
<1>7. ASSUME NEW c \in Clients, SyncKill(c) PROVE late' = {} /\ \A d \in Clients : InTime(d)'
  <2>1. /\ closed' = closed /\ answers' = {a \in answers : a.client # c} /\ late' = late
        /\ watchdog' = watchdog \ {c} /\ airborne' = [airborne EXCEPT ![c] = 0]
        /\ requests' = requests
    BY <1>7 DEF SyncKill, Abort, history
  <2>2. InTime(c)'
    BY <1>3, <2>1, NoneInTime
  <2>3. ASSUME NEW d \in Clients \ {c} PROVE InTime(d)'
    BY <1>2, <1>3, <2>1, KeepInTime
  <2> QED BY <1>2, <2>1, <2>2, <2>3
<1>8. ASSUME NEW c \in Clients, Unload(c) PROVE late' = {} /\ \A d \in Clients : InTime(d)'
  <2>1. /\ closed' = closed \cup {c} /\ answers' = {a \in answers : a.client # c} /\ late' = late
    BY <1>8 DEF Unload, Abort
  <2>2. watchdog \subseteq watchdog' /\ \A d \in Clients \ {c} :
             airborne'[d] = airborne[d] /\ requests'[d] = requests[d]
    BY <1>3, <1>8 DEF Unload, SendSync
  <2>3. InTime(c)'
    BY <2>1, NoneInTime
  <2>4. ASSUME NEW d \in Clients \ {c} PROVE InTime(d)'
    BY <1>2, <2>1, <2>2, KeepInTime
  <2> QED BY <1>2, <2>1, <2>3, <2>4
<1>9. ASSUME NEW c \in Clients, NEW e \in Edits, Type(c, e) \/ Delete(c, e)
      PROVE  late' = {} /\ \A d \in Clients : InTime(d)'
  BY <1>4, <1>9 DEF Type, Delete, network
<1>10. ASSUME NEW c \in Clients, Serve(c) PROVE late' = {} /\ \A d \in Clients : InTime(d)'
  <2>1. PICK P : Linked(c, P)
    BY <1>2 DEF LinksInv
  <2>2. InTime(c)'
    BY <1>2, <1>10, <2>1, ServeInTime
  <2>3. UNCHANGED client /\ late' = late
    <3>1. UNCHANGED <<client, faults, typed, deleted, early, had, late, unsent>>
      BY <1>10, ServeIs, Zenon
    <3> QED BY <3>1
  <2>4. /\ \A a \in answers' : a \in answers \/ a.client = c
        /\ \A d \in Clients \ {c} : requests'[d] = requests[d]
    <3>0. PICK q, s : q = Head(requests[c]) /\ s = Handled(viewOf[c], q, master, exists)
      OBVIOUS
    <3>1. answers' = answers \cup {a \in {AnswerTo(c, q, s)} : Awaited(a)}
      BY <1>10, <3>0, ServeIs, Zenon
    <3>2. requests' = [requests EXCEPT ![c] = Tail(requests[c])]
      BY <1>10, ServeIs, Zenon
    <3> QED BY <1>3, <3>1, <3>2 DEF AnswerTo
  <2>5. ASSUME NEW d \in Clients \ {c} PROVE InTime(d)'
    BY <1>2, <2>3, <2>4, KeepInTime DEF client
  <2> QED BY <1>2, <2>2, <2>3, <2>5
<1>11. ASSUME NEW c \in Clients, LoseRequest(c) PROVE late' = {} /\ \A d \in Clients : InTime(d)'
  <2>1. /\ UNCHANGED client /\ answers' = answers /\ late' = late
        /\ requests[c] # <<>> /\ requests' = [requests EXCEPT ![c] = Tail(@)]
    BY <1>11 DEF LoseRequest
  <2>2. \A d \in Clients : Shorter(requests'[d], requests[d])
    BY <1>3, <2>1
  <2> QED BY <1>2, <2>1, <2>2, KeepInTime DEF client
<1>12. ASSUME NEW a \in answers, LoseAnswer(a) PROVE late' = {} /\ \A d \in Clients : InTime(d)'
  BY <1>4, <1>12 DEF LoseAnswer, client, history
<1>13. ASSUME NEW a \in answers, SyncRun2(a) \/ SyncRun2Truncated(a) \/ SyncFailed(a)
       PROVE  late' = {} /\ \A d \in Clients : InTime(d)'
  <2>1. PICK c \in Clients : c = a.client
    BY <1>3
  <2>2. a.id = airborne[c]
    BY <1>2, <2>1 DEF InTime
  <2>3. /\ closed' = closed /\ answers' = answers \ {a} /\ late' = late
        /\ watchdog \ {c} \subseteq watchdog' /\ airborne' = [airborne EXCEPT ![c] = 0]
        /\ requests' = requests
    <3>1. CASE SyncRun2(a)
      BY <2>1, <2>2, <3>1 DEF SyncRun2, EndSync
    <3>2. CASE SyncRun2Truncated(a)
      BY <2>1, <3>2 DEF SyncRun2Truncated, EndSync, history
    <3>3. CASE SyncFailed(a)
      BY <2>1, <3>3 DEF SyncFailed, history
    <3> QED BY <1>13, <3>1, <3>2, <3>3
  <2>4. \A b \in answers' : b.client # c
    BY <1>2, <2>1, <2>3 DEF InTime
  <2>5. InTime(c)'
    BY <1>3, <2>3, <2>4, NoneInTime
  <2>6. ASSUME NEW d \in Clients \ {c} PROVE InTime(d)'
    BY <1>2, <1>3, <2>3, KeepInTime
  <2> QED BY <1>2, <2>3, <2>5, <2>6
<1>14. ASSUME UNCHANGED vars PROVE late' = {} /\ \A d \in Clients : InTime(d)'
  BY <1>4, <1>14 DEF vars, client, network, history
<1> QED BY <1>5, <1>6, <1>7, <1>8, <1>9, <1>10, <1>11, <1>12, <1>13, <1>14 DEF Next

(* With a gateway that is a path the same holds without a condition: an       *)
(* answer is taken for the request that is waited for, or not at all          *)
(* (syncCheckAjax_), so that no client ever acts on a late one.               *)
THEOREM APathKeepsTexts ==
  Spec => [](~remote => late = {} /\ TypedStaysOnce /\ ClosingSendsTheRest)
<1>1. Init => TInv /\ TimerInv /\ LinksInv /\ InTimeInv
  <2>1. Init => InTimeInv
    BY DEF Init, InTimeInv, InTime
  <2> QED BY <2>1, InitTyped, InitTimers, InitLinks
<1>2. TInv /\ TimerInv /\ LinksInv /\ InTimeInv /\ [Next]_vars
        => (TInv /\ TimerInv /\ LinksInv /\ InTimeInv)'
  BY NextTyped, NextTimers, NextLinks, NextInTime
<1>3. InTimeInv => (~remote => late = {})
  BY DEF InTimeInv
<1> QED BY <1>1, <1>2, <1>3, TextsAreKept, PTL DEF Spec

-----------------------------------------------------------------------------
(* The refinement of SharedText. *)

Values(E, t, ever) ==
  [e \in Edits |-> IF e \in E THEN 0 ELSE IF t[e] > 0 THEN 1 ELSE IF e \in ever THEN 2 ELSE 0]
Worth(soon, a, ever) == IF soon THEN 0 ELSE IF a = 1 THEN 1 ELSE IF a = 2 /\ ever THEN 2 ELSE 0

LEMMA ValuesAre ==
  ASSUME NEW E, NEW t, NEW ever, NEW e \in Edits, NEW a \in 0..2, t[e] = One(a), e \in ever => a # 0
  PROVE  Values(E, t, ever)[e] = Worth(e \in E, a, e \in ever)
BY DEF Values, Worth, One

(* What a merge brings to the shared text the client's text has, too. *)
LEMMA PublishValues ==
  ASSUME TInv, NEW c \in Clients, Serve(c), NEW P, Linked(c, P), Numbers(file[c], viewOf[c], exists),
         NEW e \in Edits, NEW r, NEW t, NEW v, NEW m, Ages(c, P, e, r, t, v, m), MasterAge(e, m),
         NEW s, s = Values(early, master, hadMaster)[e],
         NEW s2, s2 = Values(early, master', hadMaster')[e],
         NEW w, w = Values(early, file[c].text, had[c])[e]
  PROVE  s2 \in 0..2 /\ s <= s2 /\ s2 <= (IF s < w THEN w ELSE s)
<1>1. PICK n : Merging(c, e, r, m, n)
  BY ServeMerges
<1>2. PICK L, p : L = Len(file[c].editStack) /\ p = Seen(file[c], viewOf[c])
  OBVIOUS
<1>3. PICK l \in 1..L : n = Merged(file[c], viewOf[c], exists, r, m, l)
  BY <1>1, <1>2 DEF Merging
<1>3a. PICK k : k = Top(p, l)
  OBVIOUS
<1>4. /\ n \in 0..2 /\ m <= n /\ k \in 0..L
      /\ (n # 0 => m # 0 \/ r[k] # 0) /\ r[p] <= r[k] /\ r[k] <= n
      /\ (n = 2 /\ e \notin early => m = 2 \/ r[k] = 2)
  BY <1>2, <1>3, <1>3a, MergedIs
<1>5. /\ t \in 0..2 /\ v \in 0..2 /\ m \in 0..2 /\ v <= m /\ p \in 0..L
      /\ r[k] \in 0..2 /\ r[k] <= t /\ r[p] \in 0..2 /\ r[0] \in 0..2 /\ r[0] <= r[p] /\ r[p] <= v
  BY <1>2, <1>4, AgesAre
<1>6. /\ (r[k] = 1 => e \in had[c]) /\ (r[p] = 1 => e \in had[c])
      /\ (t = 1 => e \in had[c]) /\ (e \in had[c] => t # 0)
  BY <1>2, <1>4, <1>5 DEF Ages, Having
<1>7. (e \in hadMaster => m # 0) /\ (m = 1 => e \in hadMaster) /\ master[e] = One(m)
  BY DEF MasterAge
<1>8. master'[e] = One(n) /\ hadMaster' = hadMaster \cup Here(master')
  BY <1>1 DEF Merging
<1>9. e \in hadMaster' <=> (e \in hadMaster \/ n = 1)
  BY <1>8 DEF Here, One
<1>10. (author[e] = c /\ m # 0 => r[p] # 0) /\ (author[e] # c /\ r[0] = 0 => t = 0)
  BY <1>2 DEF Ages, Aging, Comes
<1>11. s = Worth(e \in early, m, e \in hadMaster)
  BY <1>5, <1>7, ValuesAre
<1>12. s2 = Worth(e \in early, n, e \in hadMaster')
  <2>1. PICK t2, h2 : t2 = master' /\ h2 = hadMaster'
    OBVIOUS
  <2>2. e \in h2 => n # 0
    BY <1>4, <1>5, <1>7, <1>9, <2>1
  <2>3. Values(early, t2, h2)[e] = Worth(e \in early, n, e \in h2)
    BY <1>4, <1>8, <2>1, <2>2, ValuesAre
  <2> QED BY <2>1, <2>3
<1>13. w = Worth(e \in early, t, e \in had[c])
  <2>1. file[c].text[e] = One(t)
    BY DEF Ages, Shows
  <2> QED BY <1>5, <1>6, <2>1, ValuesAre
<1>14. PICK x, y, z : x = r[k] /\ y = r[p] /\ z = r[0]
  OBVIOUS
<1> QED BY <1>4, <1>5, <1>6, <1>7, <1>9, <1>10, <1>11, <1>12, <1>13, <1>14 DEF Worth

(* What an answer brings to a text the shared one has, too. *)
LEMMA LearnValues ==
  ASSUME TInv, NEW a \in answers, SyncRun2(a), a.id = airborne[a.client], NEW c, c = a.client,
         NEW P, Linked(c, P), NEW e \in Edits,
         NEW r, NEW t, NEW v, NEW m, Ages(c, P, e, r, t, v, m), MasterAge(e, m), m # 0 => e \in typed,
         NEW s, s = Values(early, master, hadMaster)[e],
         NEW w, w = Values(early, file[c].text, had[c])[e],
         NEW w2, w2 = Values(early, file'[c].text, had'[c])[e]
  PROVE  w2 \in 0..2 /\ w <= w2 /\ w2 <= (IF s < w THEN w ELSE s)
<1>0. c \in Clients
  BY DEF TInv, NetworkT, Answers
<1>1. PICK L, p : L = Len(file[c].editStack) /\ p = Seen(file[c], viewOf[c])
  OBVIOUS
<1>2. p = L
  BY <1>1, SyncRun2Is, Zenon
<1>3. /\ t \in 0..2 /\ v \in 0..2 /\ m \in 0..2 /\ v <= m /\ p \in 0..L
      /\ r[p] \in 0..2 /\ r[p] <= t /\ r[0] \in 0..2 /\ r[0] <= r[p] /\ r[p] <= v
  BY <1>0, <1>1, AgesAre
<1>4. PICK Q, r2, t2 : /\ Q = [i \in 0..0 |-> viewOf[c].shadow] /\ r2 = [i \in 0..0 |-> v]
                       /\ t2 = Later(t, v)
  OBVIOUS
<1>5. Ages(c, Q, e, r2, t2, v, m)'
  BY <1>4, SyncRun2Ages
<1>6. /\ file'[c].text[e] = One(t2) /\ (t2 = 1 => e \in had'[c]) /\ (e \in had'[c] => t2 # 0)
  BY <1>5 DEF Ages, Shows, Having
<1>7. e \in had'[c] <=> (e \in had[c] \/ t2 = 1)
  <2>1. a.kind = "d" /\ \E g : file' = [file EXCEPT ![c] = g]
    BY SyncRun2Is, Zenon
  <2>2. PICK h : h = IF a.kind = "R" THEN RawLine(FileLine(file[c], a), a)
                     ELSE DeltaLine(FileLine(file[c], a), a)
    OBVIOUS
  <2>3. had' = [had EXCEPT ![c] = (IF a.kind = "R" THEN a.had ELSE had[c]) \cup Here(h.text)]
        /\ file' = [file EXCEPT ![c] = h]
    BY <2>2 DEF SyncRun2
  <2>4. file'[c] = h /\ had'[c] = had[c] \cup Here(h.text)
    BY <1>0, <2>1, <2>3 DEF TInv, PagesT, HistoryT
  <2> QED BY <1>6, <2>4 DEF Here, One
<1>8. /\ (t = 1 => e \in had[c]) /\ (e \in had[c] => t # 0)
      /\ (r[p] = 1 /\ e \notin early => e \in hadMaster) /\ (v = 1 => e \in hadMaster)
      /\ file[c].text[e] = One(t)
  BY <1>1 DEF Ages, Having, Shows
<1>9. /\ (author[e] = c /\ m # 0 => r[p] # 0) /\ (author[e] # c /\ r[0] = 0 => t = 0)
  BY <1>1 DEF Ages, Aging, Comes
<1>10. (e \in hadMaster => m # 0) /\ (m = 1 => e \in hadMaster) /\ master[e] = One(m)
  BY DEF MasterAge
<1>11. s = Worth(e \in early, m, e \in hadMaster) /\ w = Worth(e \in early, t, e \in had[c])
  BY <1>3, <1>8, <1>10, ValuesAre
<1>12. w2 = Worth(e \in early, t2, e \in had'[c])
  <2>1. PICK u, h2 : u = file'[c].text /\ h2 = had'[c]
    OBVIOUS
  <2>2. t2 \in 0..2
    BY <1>3, <1>4 DEF Later
  <2>3. Values(early, u, h2)[e] = Worth(e \in early, t2, e \in h2)
    BY <1>6, <2>1, <2>2, ValuesAre
  <2> QED BY <2>1, <2>3
<1>13. t2 = IF t < v THEN v ELSE t
  BY <1>4 DEF Later
<1>14. PICK y, z : y = r[p] /\ z = r[0]
  OBVIOUS
<1>15. t = 1 /\ v = 2 /\ e \notin early => e \in hadMaster
  BY <1>3, <1>8, <1>9, <1>14
<1> QED BY <1>3, <1>7, <1>8, <1>9, <1>10, <1>11, <1>12, <1>13, <1>15 DEF Worth

SharedValue == ValueIn(master, hadMaster)
TextValues == [c \in Clients |-> ValueIn(file[c].text, had[c])]

LEMMA ValuesNow ==
  /\ SharedValue = Values(early, master, hadMaster)
  /\ SharedValue' = Values(early', master', hadMaster')
  /\ \A c \in Clients : /\ TextValues[c] = Values(early, file[c].text, had[c])
                        /\ TextValues'[c] = Values(early', file'[c].text, had'[c])
BY DEF SharedValue, TextValues, ValueIn, Values

LEMMA ValuesTyped ==
  ASSUME NEW E, NEW t, NEW ever
  PROVE  /\ Values(E, t, ever) \in [Edits -> 0..2]
         /\ \A e \in Edits : t[e] = 0 /\ e \notin ever => Values(E, t, ever)[e] = 0
BY DEF Values

LEMMA InitValues == Init => Abstract!Init
<1> SUFFICES ASSUME Init PROVE Abstract!Init
  OBVIOUS
<1>1. /\ master = Empty /\ early = {} /\ hadMaster = {}
      /\ \A c \in Clients : file[c].text = Empty /\ had[c] = {}
  BY DEF Init
<1>2. \A e \in Edits : Empty[e] = 0
  BY DEF Empty
<1>3. ValueIn(Empty, {}) = [e \in Edits |-> 0]
  BY <1>2 DEF ValueIn
<1>4. [c \in Clients |-> ValueIn(file[c].text, had[c])] = [c \in Clients |-> [e \in Edits |-> 0]]
  BY <1>1, <1>3, Zenon
<1> QED BY <1>1, <1>3, <1>4, Zenon DEF Abstract!Init

LEMMA ServePublishes ==
  ASSUME TInv, NumbersInv, AgesInv, late = {}, NEW c \in Clients, Serve(c)
  PROVE  Abstract!Publish(c)
<1>1. PICK P : /\ \A d \in Clients : Linked(d, P[d])
               /\ \A e \in Edits : \E m : AgesAlong(P, e, m)
  BY DEF AgesInv
<1>2. PICK O : O = P[c]
  OBVIOUS
<1>3. file' = file /\ had' = had /\ early' = early
  <2>1. UNCHANGED <<client, faults, typed, deleted, early, had, late, unsent>>
    BY ServeIs, Zenon
  <2> QED BY <2>1 DEF client
<1>4. PICK S, S2, W : /\ S = Values(early, master, hadMaster)
                      /\ S2 = Values(early, master', hadMaster')
                      /\ W = Values(early, file[c].text, had[c])
  OBVIOUS
<1>5. ASSUME NEW e \in Edits
      PROVE  S2[e] \in 0..2 /\ S[e] <= S2[e] /\ S2[e] <= (IF S[e] < W[e] THEN W[e] ELSE S[e])
  <2>1. PICK m : AgesAlong(P, e, m)
    BY <1>1
  <2>2. PICK r, t, v : Ages(c, O, e, r, t, v, m)
    BY <1>2, <2>1 DEF AgesAlong
  <2>3. MasterAge(e, m) /\ Linked(c, O) /\ Numbers(file[c], viewOf[c], exists)
    BY <1>1, <1>2, <2>1 DEF AgesAlong, NumbersInv
  <2> QED BY <1>4, <2>2, <2>3, PublishValues
<1>6. SharedValue = S /\ SharedValue' = S2 /\ TextValues[c] = W
  BY <1>3, <1>4, ValuesNow
<1>7. TextValues' = TextValues
  BY <1>3 DEF TextValues, ValueIn
<1>8. S2 \in [Edits -> 0..2]
  BY <1>4, <1>5 DEF Values
<1> QED BY <1>5, <1>6, <1>7, <1>8 DEF Abstract!Publish, Abstract!Between, Abstract!Joined,
                                     Abstract!Higher, Abstract!Values, SharedValue, TextValues

(* One text changes, the others and the shared one do not. *)
LEMMA OneText ==
  ASSUME NEW c \in Clients, early' = early, master' = master, hadMaster' = hadMaster,
         \A d \in Clients \ {c} : file'[d].text = file[d].text /\ had'[d] = had[d]
  PROVE  /\ SharedValue' = SharedValue
         /\ TextValues' = [TextValues EXCEPT ![c] = TextValues'[c]]
         /\ TextValues'[c] \in [Edits -> 0..2]
<1>1. SharedValue' = SharedValue
  BY DEF SharedValue, ValueIn
<1>2. PICK S, T : S = TextValues /\ T = TextValues'
  OBVIOUS
<1>3. \A d \in Clients \ {c} : T[d] = S[d]
  BY <1>2, ValuesNow
<1>4. T[c] \in [Edits -> 0..2]
  <2>1. T[c] = Values(early', file'[c].text, had'[c])
    BY <1>2, ValuesNow
  <2>2. Values(early', file'[c].text, had'[c]) \in [Edits -> 0..2]
    BY ValuesTyped
  <2> QED BY <2>1, <2>2
<1>5. S = [d \in Clients |-> S[d]] /\ T = [d \in Clients |-> T[d]]
  BY <1>2 DEF TextValues
<1>6. T = [S EXCEPT ![c] = T[c]]
  BY <1>3, <1>5
<1> QED BY <1>1, <1>2, <1>4, <1>6

LEMMA SyncRun2Learns ==
  ASSUME TInv, AgesInv, late' = {}, NEW a \in answers, SyncRun2(a)
  PROVE  \E c \in Clients : Abstract!Learn(c)
<1>1. PICK c : c = a.client
  OBVIOUS
<1>2. /\ late' = late \cup (IF a.id = airborne[c] THEN {} ELSE {c})
      /\ UNCHANGED <<early, master, hadMaster>>
  BY <1>1 DEF SyncRun2, gateway
<1>3. late = {} /\ a.id = airborne[c] /\ c \in Clients
  BY <1>1, <1>2 DEF TInv, NetworkT, Answers
<1>4. PICK P : /\ \A d \in Clients : Linked(d, P[d])
               /\ \A e \in Edits : \E m : AgesAlong(P, e, m)
  BY <1>3 DEF AgesInv
<1>5. PICK O : O = P[c]
  OBVIOUS
<1>6. \A d \in Clients \ {c} : file'[d].text = file[d].text /\ had'[d] = had[d]
  <2>1. \E g, h : file' = [file EXCEPT ![c] = g] /\ had' = [had EXCEPT ![c] = h]
    BY <1>1 DEF SyncRun2
  <2> QED BY <1>3, <2>1 DEF TInv, PagesT, HistoryT
<1>7. PICK S, W, W2 : /\ S = Values(early, master, hadMaster)
                      /\ W = Values(early, file[c].text, had[c])
                      /\ W2 = Values(early, file'[c].text, had'[c])
  OBVIOUS
<1>8. ASSUME NEW e \in Edits
      PROVE  W[e] <= W2[e] /\ W2[e] <= (IF S[e] < W[e] THEN W[e] ELSE S[e])
  <2>1. PICK m : AgesAlong(P, e, m)
    BY <1>4
  <2>2. PICK r, t, v : Ages(c, O, e, r, t, v, m)
    BY <1>3, <1>5, <2>1 DEF AgesAlong
  <2>3. MasterAge(e, m) /\ Linked(c, O)
    BY <1>3, <1>4, <1>5, <2>1 DEF AgesAlong
  <2>4. m # 0 => e \in typed
    BY <1>4, <2>1, ComesTyped
  <2> QED BY <1>1, <1>3, <1>7, <2>2, <2>3, <2>4, LearnValues
<1>9. SharedValue = S /\ TextValues[c] = W /\ TextValues'[c] = W2
  BY <1>2, <1>3, <1>7, ValuesNow
<1>10. /\ SharedValue' = SharedValue /\ W2 \in [Edits -> 0..2]
       /\ TextValues' = [TextValues EXCEPT ![c] = TextValues'[c]]
  BY <1>2, <1>3, <1>6, <1>9, OneText
<1>11. Abstract!Learn(c)
  BY <1>8, <1>9, <1>10 DEF Abstract!Learn, Abstract!Between, Abstract!Joined,
                           Abstract!Higher, Abstract!Values, SharedValue, TextValues
<1> QED BY <1>3, <1>11

(* The client types an edit, or deletes one; early ones have no value. *)
LEMMA EditTypes ==
  ASSUME TInv, AgesInv, late = {}, NEW c \in Clients, NEW e \in Edits, Type(c, e)
  PROVE  Abstract!Type(c, e) \/ UNCHANGED <<SharedValue, TextValues>>
<1>1. PICK P : /\ \A d \in Clients : Linked(d, P[d])
               /\ \A i \in Edits : \E m : AgesAlong(P, i, m)
  BY DEF AgesInv
<1>2. PICK m : AgesAlong(P, e, m)
  BY <1>1
<1>3. /\ e \notin typed /\ UNCHANGED <<master, hadMaster>>
      /\ early' = early \cup (IF syncs[c] = 0 THEN {e} ELSE {})
      /\ had' = [had EXCEPT ![c] = had[c] \cup {e}]
      /\ file' = [file EXCEPT ![c] = [file[c] EXCEPT !.text =
                                         [file[c].text EXCEPT ![e] = file[c].text[e] + 1]]]
  BY DEF Type, gateway
<1>4. \A d \in Clients : file[d].text \in [Edits -> Nat] /\ had[d] \subseteq typed
  BY DEF TInv, PagesT, HistoryT, FilesOf, TextsOf, Texts
<1>5. master[e] = 0 /\ e \notin hadMaster
  BY <1>1, <1>2, <1>3, ComesTyped DEF AgesAlong, MasterAge, One
<1>6. \A d \in Clients : file[d].text[e] = 0 /\ e \notin had[d]
  <2>1. ASSUME NEW d \in Clients PROVE file[d].text[e] = 0
    <3>1. PICK r, t, v : Ages(d, P[d], e, r, t, v, m)
      BY <1>2 DEF AgesAlong
    <3>2. file[d].text[e] = One(t) /\ t = 0
      BY <1>3, <3>1 DEF Ages, Shows, Comings
    <3> QED BY <3>2 DEF One
  <2> QED BY <1>3, <1>4, <2>1
<1>7. /\ file'[c].text = [file[c].text EXCEPT ![e] = 1] /\ had'[c] = had[c] \cup {e}
      /\ \A d \in Clients \ {c} : file'[d].text = file[d].text /\ had'[d] = had[d]
  <2>1. PICK f, t : t = [file[c].text EXCEPT ![e] = 1] /\ f = [file[c] EXCEPT !.text = t]
    OBVIOUS
  <2>2. f.text = t
    BY <2>1 DEF TInv, PagesT, FilesOf
  <2>3. file' = [file EXCEPT ![c] = f]
    <3>1. file[c].text[e] + 1 = 1
      BY <1>6
    <3> QED BY <1>3, <2>1, <3>1, Zenon
  <2> QED BY <1>3, <2>1, <2>2, <2>3 DEF TInv, PagesT, HistoryT
<1>8. CASE e \in early'
  <2>1. SharedValue' = SharedValue
    <3>1. \A i \in Edits : Values(early', master, hadMaster)[i] = Values(early, master, hadMaster)[i]
      BY <1>3, <1>5 DEF Values
    <3>2. Values(early', master, hadMaster) = Values(early, master, hadMaster)
      BY <3>1 DEF Values
    <3> QED BY <1>3, <3>2, ValuesNow
  <2>2. ASSUME NEW d \in Clients PROVE TextValues'[d] = TextValues[d]
    <3>1. PICK t, h, t2, h2 : t = file[d].text /\ h = had[d] /\ t2 = file'[d].text /\ h2 = had'[d]
      OBVIOUS
    <3>2. \A i \in Edits \ {e} : t2[i] = t[i] /\ (i \in h2 <=> i \in h) /\ (i \in early' <=> i \in early)
      BY <1>3, <1>4, <1>7, <3>1
    <3>3. t[e] = 0 /\ e \notin h
      BY <1>6, <3>1
    <3>4. \A i \in Edits : Values(early', t2, h2)[i] = Values(early, t, h)[i]
      BY <1>8, <3>2, <3>3 DEF Values
    <3>5. Values(early', t2, h2) = Values(early, t, h)
      BY <3>4 DEF Values
    <3> QED BY <3>1, <3>5, ValuesNow
  <2>3. TextValues' = TextValues
    BY <2>2 DEF TextValues
  <2> QED BY <2>1, <2>3
<1>9. CASE e \notin early'
  <2>1. early' = early /\ e \notin early
    BY <1>3, <1>9
  <2>2. PICK W, W2 : W = TextValues[c] /\ W2 = TextValues'[c]
    OBVIOUS
  <2>3. W = Values(early, file[c].text, had[c]) /\ W2 = Values(early, file'[c].text, had'[c])
    BY <2>1, <2>2, ValuesNow
  <2>4. \A i \in Edits : W2[i] = IF i = e THEN 1 ELSE W[i]
    BY <1>4, <1>7, <2>1, <2>3 DEF Values
  <2>5. W2 = [W EXCEPT ![e] = 1]
    BY <2>3, <2>4 DEF Values
  <2>6. /\ SharedValue' = SharedValue /\ TextValues' = [TextValues EXCEPT ![c] = W2]
    BY <1>3, <1>7, <2>1, <2>2, OneText
  <2>7. SharedValue[e] = 0 /\ \A d \in Clients : TextValues[d][e] = 0
    <3>1. Values(early, master, hadMaster)[e] = 0
      BY <1>5, ValuesTyped
    <3>2. ASSUME NEW d \in Clients PROVE Values(early, file[d].text, had[d])[e] = 0
      BY <1>6, ValuesTyped
    <3> QED BY <3>1, <3>2, ValuesNow
  <2>8. TextValues' = [TextValues EXCEPT ![c] = [TextValues[c] EXCEPT ![e] = 1]]
    BY <2>2, <2>5, <2>6
  <2>9. Abstract!Type(c, e)
    BY <2>6, <2>7, <2>8, Zenon DEF Abstract!Type, SharedValue, TextValues
  <2> QED BY <2>9
<1> QED BY <1>8, <1>9

LEMMA EditDeletes ==
  ASSUME TInv, AgesInv, late = {}, NEW c \in Clients, NEW e \in Edits, Delete(c, e)
  PROVE  Abstract!Delete(c, e) \/ UNCHANGED <<SharedValue, TextValues>>
<1>1. PICK P : \A i \in Edits : \E m : AgesAlong(P, i, m)
  BY DEF AgesInv
<1>2. PICK r, t, v, m : Ages(c, P[c], e, r, t, v, m)
  BY <1>1 DEF AgesAlong
<1>3. /\ file[c].text[e] > 0 /\ UNCHANGED <<master, hadMaster, early, had>>
      /\ file' = [file EXCEPT ![c] = [file[c] EXCEPT !.text = [file[c].text EXCEPT ![e] = 0]]]
  BY DEF Delete, gateway
<1>4. e \in had[c]
  BY <1>2, <1>3 DEF Ages, Shows, Having, One
<1>5. /\ file'[c].text = [file[c].text EXCEPT ![e] = 0] /\ file[c].text \in [Edits -> Nat]
      /\ \A d \in Clients \ {c} : file'[d].text = file[d].text
  <2>1. PICK f, u : u = [file[c].text EXCEPT ![e] = 0] /\ f = [file[c] EXCEPT !.text = u]
    OBVIOUS
  <2>2. f.text = u /\ file[c].text \in [Edits -> Nat]
    BY <2>1 DEF TInv, PagesT, FilesOf, TextsOf, Texts
  <2> QED BY <1>3, <2>1, <2>2 DEF TInv, PagesT
<1>6. PICK W, W2 : W = TextValues[c] /\ W2 = TextValues'[c]
  OBVIOUS
<1>7. W = Values(early, file[c].text, had[c]) /\ W2 = Values(early, file'[c].text, had[c])
  BY <1>3, <1>6, ValuesNow
<1>8. /\ SharedValue' = SharedValue /\ TextValues' = [TextValues EXCEPT ![c] = W2]
  BY <1>3, <1>5, <1>6, OneText
<1>9. \A i \in Edits \ {e} : W2[i] = W[i]
  BY <1>5, <1>7 DEF Values
<1>10. CASE e \in early
  <2>1. W2 = W
    BY <1>7, <1>9, <1>10 DEF Values
  <2>2. TextValues' = TextValues
    BY <1>6, <1>8, <2>1 DEF TextValues
  <2> QED BY <1>8, <2>2
<1>11. CASE e \notin early
  <2>1. W[e] = 1 /\ W2[e] = 2
    BY <1>3, <1>4, <1>5, <1>7, <1>11 DEF Values
  <2>2. W2 = [W EXCEPT ![e] = 2]
    BY <1>7, <1>9, <2>1 DEF Values
  <2>3. TextValues' = [TextValues EXCEPT ![c] = [TextValues[c] EXCEPT ![e] = 2]] /\ TextValues[c][e] = 1
    BY <1>6, <1>8, <2>1, <2>2
  <2>4. Abstract!Delete(c, e)
    BY <1>8, <2>3, Zenon DEF Abstract!Delete, SharedValue, TextValues
  <2> QED BY <2>4
<1> QED BY <1>10, <1>11

(* What one client types comes to the others, and what one client deletes     *)
(* leaves them and does not return: every step of MobWrite changes the values *)
(* of the texts the way SharedText lets one client type, delete, publish or   *)
(* learn, or leaves them alone, as long as no client acted on a late answer.  *)
THEOREM TextsAreShared == Spec => ImplementsSharedText
<1>1. ASSUME MobWriteInv, [Next]_vars, late' = {}
      PROVE  Abstract!Next \/ UNCHANGED <<SharedValue, TextValues>>
  <2>1. TInv /\ NumbersInv /\ AgesInv /\ late = {}
    BY <1>1, LateGrows DEF MobWriteInv
  <2>2. CASE Quiet
    <3>1. UNCHANGED <<early, master, hadMaster, file, had>>
      BY <2>2 DEF Quiet
    <3> QED BY <3>1 DEF SharedValue, TextValues, ValueIn
  <2>3. ASSUME NEW c \in Clients, Sends(c) PROVE UNCHANGED <<SharedValue, TextValues>>
    <3>1. PICK g : g = SyncText(file[c])
      OBVIOUS
    <3>2. g.text = file[c].text
      BY <2>1, <3>1, SyncTextIs DEF TInv, PagesT, HistoryT
    <3>3. file' = [file EXCEPT ![c] = g] /\ UNCHANGED <<early, master, hadMaster, had>>
      BY <2>3, <3>1 DEF Sends, SendSync
    <3>4. \A d \in Clients : file'[d].text = file[d].text
      BY <2>1, <3>2, <3>3 DEF TInv, PagesT
    <3> QED BY <3>3, <3>4 DEF SharedValue, TextValues, ValueIn
  <2>4. ASSUME NEW c \in Clients, Serve(c) PROVE Abstract!Publish(c)
    BY <2>1, <2>4, ServePublishes
  <2>5. ASSUME NEW c \in Clients, NEW e \in Edits, Type(c, e) \/ Delete(c, e)
        PROVE  Abstract!Type(c, e) \/ Abstract!Delete(c, e) \/ UNCHANGED <<SharedValue, TextValues>>
    BY <2>1, <2>5, EditTypes, EditDeletes
  <2>6. ASSUME NEW a \in answers, SyncRun2(a) PROVE \E c \in Clients : Abstract!Learn(c)
    BY <1>1, <2>1, <2>6, SyncRun2Learns
  <2> QED BY <1>1, <2>1, <2>2, <2>3, <2>4, <2>5, <2>6, NextKinds DEF Abstract!Next
<1>2. MobWriteInv /\ [Next]_vars
        => [Abstract!Next \/ late' # {}]_<<ValueIn(master, hadMaster),
                                          [c \in Clients |-> ValueIn(file[c].text, had[c])]>>
  BY <1>1 DEF SharedValue, TextValues
<1> QED BY <1>2, InitValues, MobWriteHolds, PTL DEF Spec, ImplementsSharedText
=============================================================================

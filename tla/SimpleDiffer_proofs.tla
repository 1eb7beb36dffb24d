------------------------ MODULE SimpleDiffer_proofs ------------------------
(***************************************************************************)
(* Theorems about SimpleDiffer for any number of edits: the diff has the   *)
(* order that is promised, and the editor gets the text.                   *)
(*                                                                         *)
(* Chunks stand for a text (Flat).  An edit splits chunks, which leaves    *)
(* that text, and puts a chunk in or takes some out, which does to it what *)
(* patch_apply_ does to its own.  So at the end the chunks stand for the   *)
(* edited text; the mutations that are made of them, last chunk first,     *)
(* make that text of the old one from its end to its beginning, deletions  *)
(* joined or not.  mergeInserts_ keeps all characters, and their order if  *)
(* no inserted chunk is empty: a half of a split is, if the edit began     *)
(* where inserted text begins.                                             *)
(*                                                                         *)
(* Texts and rows of chunks are joined and cut by operators that stay      *)
(* unexpanded: the provers know them by the lemmas stated first.           *)
(***************************************************************************)
EXTENDS SimpleDiffer, SequenceTheorems, WellFoundedInduction, TLAPS

(* Induction, and recursion along 0..N, as facts about sets and functions.  *)
LEMMA NatHasLeast ==
  ASSUME NEW T \in SUBSET Nat, T # {}
  PROVE  \E n \in T : \A m \in T : n <= m
<1> DEFINE R == {mn \in Nat \X Nat : mn[1] < mn[2]}
<1>1. IsWellFoundedOn(R, Nat)
  BY NatLessThanWellFounded DEF OpToRel
<1>2. PICK n \in T : \A m \in T : <<m, n>> \notin R
  <2> HIDE DEF R
  <2> QED BY <1>1, WFMin
<1>3. \A m \in T : ~(m < n)
  BY <1>2
<1> QED BY <1>3

LEMMA NatInduct ==
  ASSUME NEW S, 0 \in S, \A n \in Nat : n \in S => n + 1 \in S
  PROVE  Nat \subseteq S
<1> SUFFICES ASSUME ~(Nat \subseteq S) PROVE FALSE
  OBVIOUS
<1> DEFINE T == {n \in Nat : n \notin S}
<1>1. PICK n \in T : \A m \in T : n <= m
  BY NatHasLeast
<1>2. n # 0 /\ n - 1 \in Nat /\ n - 1 \in S
  BY <1>1
<1> QED BY <1>1, <1>2

(* f goes from first by the steps of F. *)
Walks(f, first, F, N) ==
  f[0] = first /\ \A n \in 1..N : f[n] = F[n][f[n-1]]

LEMMA WalkExists ==
  ASSUME NEW S, NEW first \in S, NEW N \in Nat, NEW F \in [1..N -> [S -> S]]
  PROVE  \E f \in [0..N -> S] : Walks(f, first, F, N)
<1> DEFINE M == {m \in Nat : m <= N => \E f \in [0..m -> S] : Walks(f, first, F, m)}
<1>1. 0 \in M
  <2> DEFINE g == [n \in 0..0 |-> first]
  <2>1. g \in [0..0 -> S] /\ Walks(g, first, F, 0)
    BY DEF Walks
  <2> QED BY <2>1
<1>2. ASSUME NEW m \in Nat, m \in M PROVE m + 1 \in M
  <2> SUFFICES ASSUME m + 1 <= N PROVE \E f \in [0..(m+1) -> S] : Walks(f, first, F, m+1)
    OBVIOUS
  <2>1. PICK g \in [0..m -> S] : Walks(g, first, F, m)
    BY <1>2
  <2>2. g[m] \in S /\ m + 1 \in 1..N
    OBVIOUS
  <2>3. PICK x \in S : x = F[m+1][g[m]]
    BY <2>2
  <2> DEFINE h == [n \in 0..(m+1) |-> IF n = m + 1 THEN x ELSE g[n]]
  <2>4. h \in [0..(m+1) -> S]
    OBVIOUS
  <2>5. h[0] = first
    BY <2>1 DEF Walks
  <2>6. ASSUME NEW n \in 1..(m+1) PROVE h[n] = F[n][h[n-1]]
    <3>1. h[n-1] = g[n-1]
      OBVIOUS
    <3>2. CASE n = m + 1
      <4>1. h[n] = x /\ h[n-1] = g[m]
        BY <3>1, <3>2
      <4> QED BY <2>3, <3>2, <4>1
    <3>3. CASE n # m + 1
      <4>1. n \in 1..m /\ h[n] = g[n]
        BY <3>3
      <4> QED BY <2>1, <3>1, <4>1 DEF Walks
    <3> QED BY <3>2, <3>3
  <2> HIDE DEF h
  <2>7. Walks(h, first, F, m+1)
    BY <2>5, <2>6 DEF Walks
  <2> QED BY <2>4, <2>7
<1> HIDE DEF M
<1>3. Nat \subseteq M
  BY <1>1, <1>2, NatInduct
<1>4. N \in M
  BY <1>3
<1> QED BY <1>4 DEF M

-----------------------------------------------------------------------------
(* Texts. *)

Texts == Seq(Nat)
Cat(s, t) == s \o t
Take(t, n) == SubSeq(t, 1, n)
Drop(t, n) == SubSeq(t, n + 1, Len(t))

LEMMA CatType == \A s, t \in Texts : Cat(s, t) \in Texts /\ Len(Cat(s, t)) = Len(s) + Len(t)
BY ConcatProperties DEF Texts, Cat

LEMMA CatAssoc == \A s, t, u \in Texts : Cat(Cat(s, t), u) = Cat(s, Cat(t, u))
<1> SUFFICES ASSUME NEW s \in Seq(Nat), NEW t \in Seq(Nat), NEW u \in Seq(Nat)
             PROVE  (s \o t) \o u = s \o (t \o u)
  BY Zenon DEF Texts, Cat
<1> QED BY SMT

LEMMA CatNothing == \A t \in Texts : Cat(t, <<>>) = t /\ Cat(<<>>, t) = t
BY ConcatEmptySeq DEF Texts, Cat

LEMMA Nothing == <<>> \in Texts /\ Len(<<>>) = 0
BY EmptySeq DEF Texts

LEMMA LenType == \A t \in Texts : Len(t) \in Nat
BY DEF Texts

LEMMA CatAt ==
  \A s, t \in Texts : \A i \in 1..Len(s) + Len(t) :
    Cat(s, t)[i] = IF i <= Len(s) THEN s[i] ELSE t[i - Len(s)]
BY ConcatProperties DEF Texts, Cat

LEMMA At == \A t \in Texts : \A i \in 1..Len(t) : t[i] \in Nat
BY DEF Texts

LEMMA SameText ==
  ASSUME NEW s \in Texts, NEW t \in Texts, NEW n \in Nat, Len(s) = n, Len(t) = n,
         \A i \in 1..n : s[i] = t[i]
  PROVE  s = t
BY SeqEqual DEF Texts

LEMMA TakeIs ==
  \A t \in Texts : \A n \in 0..Len(t) :
    /\ Take(t, n) \in Texts /\ Len(Take(t, n)) = n
    /\ \A i \in 1..n : Take(t, n)[i] = t[i]
<1> SUFFICES ASSUME NEW t \in Texts, NEW n \in 0..Len(t)
             PROVE /\ Take(t, n) \in Texts /\ Len(Take(t, n)) = n
                   /\ \A i \in 1..n : Take(t, n)[i] = t[i]
  OBVIOUS
<1>1. \A i \in 1..n : t[i] \in Nat
  BY LenType, At
<1>2. n \in Int /\ n >= 0
  BY LenType
<1> QED BY <1>1, <1>2, SubSeqProperties DEF Take, Texts

LEMMA DropIs ==
  \A t \in Texts : \A n \in 0..Len(t) :
    /\ Drop(t, n) \in Texts /\ Len(Drop(t, n)) = Len(t) - n
    /\ \A i \in 1..Len(t) - n : Drop(t, n)[i] = t[n + i]
<1> SUFFICES ASSUME NEW t \in Texts, NEW n \in 0..Len(t)
             PROVE /\ Drop(t, n) \in Texts /\ Len(Drop(t, n)) = Len(t) - n
                   /\ \A i \in 1..Len(t) - n : Drop(t, n)[i] = t[n + i]
  OBVIOUS
<1>1. PICK l \in Nat : l = Len(t)
  BY LenType
<1>2. \A i \in n + 1..l : t[i] \in Nat
  BY <1>1, At
<1>3. PICK m \in Int : m = n + 1 /\ l - m + 1 = l - n /\ \A i \in 1..l - n : m + i - 1 = n + i
  BY <1>1
<1>4. /\ SubSeq(t, m, l) \in Seq(Nat)
      /\ Len(SubSeq(t, m, l)) = IF m <= l THEN l - m + 1 ELSE 0
      /\ \A i \in 1..l - m + 1 : SubSeq(t, m, l)[i] = t[m + i - 1]
  BY <1>1, <1>2, <1>3, SubSeqProperties
<1>5. Drop(t, n) = SubSeq(t, m, l)
  BY <1>1, <1>3 DEF Drop
<1>6. Drop(t, n) \in Texts /\ Len(Drop(t, n)) = Len(t) - n
  BY <1>1, <1>3, <1>4, <1>5 DEF Texts
<1>7. \A i \in 1..Len(t) - n : Drop(t, n)[i] = t[n + i]
  BY <1>1, <1>3, <1>4, <1>5
<1> QED BY <1>6, <1>7

LEMMA CatTakeDrop ==
  \A t \in Texts : \A n \in 0..Len(t) : Cat(Take(t, n), Drop(t, n)) = t
<1> SUFFICES ASSUME NEW t \in Texts, NEW n \in 0..Len(t) PROVE Cat(Take(t, n), Drop(t, n)) = t
  OBVIOUS
<1>1. PICK l \in Nat : l = Len(t)
  BY LenType
<1>2. PICK a \in Texts : a = Take(t, n) /\ Len(a) = n /\ \A i \in 1..n : a[i] = t[i]
  BY TakeIs
<1>3. PICK b \in Texts : b = Drop(t, n) /\ Len(b) = l - n /\ \A i \in 1..l - n : b[i] = t[n + i]
  BY <1>1, DropIs
<1>4. PICK u \in Texts : u = Cat(a, b) /\ Len(u) = l /\ \A i \in 1..l : u[i] = IF i <= n THEN a[i] ELSE b[i - n]
  <2>1. n \in Nat /\ n + (l - n) = l
    BY <1>1
  <2>2. Cat(a, b) \in Texts /\ Len(Cat(a, b)) = Len(a) + Len(b)
    BY CatType
  <2>3. \A i \in 1..Len(a) + Len(b) : Cat(a, b)[i] = IF i <= Len(a) THEN a[i] ELSE b[i - Len(a)]
    BY CatAt
  <2> QED BY <1>2, <1>3, <2>1, <2>2, <2>3
<1>5. ASSUME NEW i \in 1..l PROVE u[i] = t[i]
  <2>1. CASE i <= n
    BY <1>1, <1>2, <1>4, <2>1
  <2>2. CASE ~(i <= n)
    <3>1. i - n \in 1..l - n /\ n + (i - n) = i
      BY <1>1, <2>2
    <3> QED BY <1>3, <1>4, <2>2, <3>1
  <2> QED BY <2>1, <2>2
<1>6. u = t
  BY <1>1, <1>4, <1>5, SameText
<1> QED BY <1>2, <1>3, <1>4, <1>6

LEMMA Cut ==
  \A s, t \in Texts : Take(Cat(s, t), Len(s)) = s /\ Drop(Cat(s, t), Len(s)) = t
<1> SUFFICES ASSUME NEW s \in Texts, NEW t \in Texts
             PROVE  Take(Cat(s, t), Len(s)) = s /\ Drop(Cat(s, t), Len(s)) = t
  OBVIOUS
<1>1. PICK k \in Nat, l \in Nat : k = Len(s) /\ l = Len(t)
  BY LenType
<1>2. PICK u \in Texts : u = Cat(s, t) /\ Len(u) = k + l
  BY <1>1, CatType
<1>3. \A i \in 1..k + l : u[i] = IF i <= k THEN s[i] ELSE t[i - k]
  BY <1>1, <1>2, CatAt
<1>n. k \in 0..Len(u) /\ Len(u) - k = l
  BY <1>1, <1>2
<1>4. Take(u, k) = s
  <2>1. PICK a \in Texts : a = Take(u, k) /\ Len(a) = k /\ \A i \in 1..k : a[i] = u[i]
    BY <1>n, TakeIs
  <2>2. \A i \in 1..k : a[i] = s[i]
    BY <1>1, <1>3, <2>1
  <2> QED BY <1>1, <2>1, <2>2, SameText
<1>5. Drop(u, k) = t
  <2>1. PICK a \in Texts : a = Drop(u, k) /\ Len(a) = l /\ \A i \in 1..l : a[i] = u[k + i]
    BY <1>n, DropIs
  <2>2. ASSUME NEW i \in 1..l PROVE a[i] = t[i]
    <3>1. k + i \in 1..k + l /\ ~(k + i <= k) /\ k + i - k = i
      OBVIOUS
    <3> QED BY <1>3, <2>1, <3>1
  <2> QED BY <1>1, <2>1, <2>2, SameText
<1> QED BY <1>1, <1>2, <1>4, <1>5

LEMMA TakeTake ==
  \A t \in Texts : \A m \in 0..Len(t) : \A n \in 0..m :
    Take(Take(t, m), n) = Take(t, n) /\ Cat(Take(t, n), Drop(Take(t, m), n)) = Take(t, m)
<1> SUFFICES ASSUME NEW t \in Texts, NEW m \in 0..Len(t), NEW n \in 0..m
             PROVE  Take(Take(t, m), n) = Take(t, n) /\ Cat(Take(t, n), Drop(Take(t, m), n)) = Take(t, m)
  OBVIOUS
<1>1. PICK l \in Nat : l = Len(t)
  BY LenType
<1>2. PICK a \in Texts : a = Take(t, m) /\ Len(a) = m /\ \A i \in 1..m : a[i] = t[i]
  BY TakeIs
<1>3. PICK b \in Texts : b = Take(a, n) /\ Len(b) = n /\ \A i \in 1..n : b[i] = a[i]
  BY <1>2, TakeIs
<1>4. PICK c \in Texts : c = Take(t, n) /\ Len(c) = n /\ \A i \in 1..n : c[i] = t[i]
  <2>1. n \in 0..Len(t)
    BY <1>1
  <2> QED BY <2>1, TakeIs
<1>5. b = c
  <2>1. \A i \in 1..n : b[i] = c[i] /\ n \in Nat
    BY <1>1, <1>2, <1>3, <1>4
  <2>2. n \in Nat
    BY <1>1
  <2> QED BY <1>3, <1>4, <2>1, <2>2, SameText
<1>6. Cat(b, Drop(a, n)) = a
  BY <1>2, <1>3, CatTakeDrop
<1> QED BY <1>2, <1>3, <1>4, <1>5, <1>6

LEMMA CharactersCat == \A s, t \in Texts : Characters(Cat(s, t)) = Characters(s) \cup Characters(t)
<1> SUFFICES ASSUME NEW s \in Texts, NEW t \in Texts
             PROVE  Characters(Cat(s, t)) = Characters(s) \cup Characters(t)
  OBVIOUS
<1>1. PICK k \in Nat, l \in Nat : k = Len(s) /\ l = Len(t)
  BY LenType
<1>2. PICK u \in Texts : u = Cat(s, t) /\ Len(u) = k + l
  BY <1>1, CatType
<1>3. \A i \in 1..k + l : u[i] = IF i <= k THEN s[i] ELSE t[i - k]
  BY <1>1, <1>2, CatAt
<1>4. Characters(u) \subseteq Characters(s) \cup Characters(t)
  BY <1>1, <1>2, <1>3 DEF Characters
<1>5. Characters(s) \subseteq Characters(u)
  BY <1>1, <1>2, <1>3 DEF Characters
<1>6. \A i \in 1..l : k + i \in 1..k + l /\ u[k + i] = t[i]
  BY <1>3
<1>7. Characters(t) \subseteq Characters(u)
  BY <1>1, <1>2, <1>6 DEF Characters
<1> QED BY <1>2, <1>4, <1>5, <1>7

(* The part of t from a to b. *)
Span(t, a, b) == Drop(Take(t, b), a)

LEMMA SpanIs ==
  \A t \in Texts : \A b \in 0..Len(t) : \A a \in 0..b :
    /\ Span(t, a, b) \in Texts /\ Len(Span(t, a, b)) = b - a
    /\ Cat(Take(t, a), Span(t, a, b)) = Take(t, b)
<1> SUFFICES ASSUME NEW t \in Texts, NEW b \in 0..Len(t), NEW a \in 0..b
             PROVE  /\ Span(t, a, b) \in Texts /\ Len(Span(t, a, b)) = b - a
                    /\ Cat(Take(t, a), Span(t, a, b)) = Take(t, b)
  OBVIOUS
<1>1. PICK u \in Texts : u = Take(t, b) /\ Len(u) = b
  BY TakeIs
<1>2. Drop(u, a) \in Texts /\ Len(Drop(u, a)) = b - a
  BY <1>1, DropIs
<1>3. Cat(Take(t, a), Drop(u, a)) = u
  BY <1>1, TakeTake
<1> QED BY <1>1, <1>2, <1>3 DEF Span

LEMMA SpanSplit ==
  \A t \in Texts : \A c \in 0..Len(t) : \A b \in 0..c : \A a \in 0..b :
    Span(t, a, c) = Cat(Span(t, a, b), Span(t, b, c))
<1> SUFFICES ASSUME NEW t \in Texts, NEW c \in 0..Len(t), NEW b \in 0..c, NEW a \in 0..b
             PROVE  Span(t, a, c) = Cat(Span(t, a, b), Span(t, b, c))
  OBVIOUS
<1>1. c \in Nat /\ b \in 0..Len(t) /\ a \in 0..c /\ a \in 0..Len(t)
  BY LenType
<1>2. PICK p \in Texts : p = Take(t, a) /\ Len(p) = a
  BY <1>1, TakeIs
<1>3. PICK d1 \in Texts : d1 = Span(t, a, b) /\ Cat(p, d1) = Take(t, b)
  BY <1>1, <1>2, SpanIs
<1>4. PICK d2 \in Texts : d2 = Span(t, b, c) /\ Cat(Take(t, b), d2) = Take(t, c)
  BY <1>1, SpanIs
<1>5. PICK d \in Texts : d = Span(t, a, c) /\ Cat(p, d) = Take(t, c)
  BY <1>1, <1>2, SpanIs
<1>6. Cat(p, Cat(d1, d2)) = Cat(p, d) /\ Cat(d1, d2) \in Texts
  BY <1>3, <1>4, <1>5, CatAssoc, CatType
<1>7. Drop(Cat(p, Cat(d1, d2)), a) = Cat(d1, d2) /\ Drop(Cat(p, d), a) = d
  BY <1>2, <1>6, Cut
<1> QED BY <1>3, <1>4, <1>5, <1>6, <1>7

LEMMA TakeAll == \A t \in Texts : Take(t, Len(t)) = t
BY SubSeqFull DEF Take, Texts

-----------------------------------------------------------------------------
(* LengthOf *)

LEMMA LengthIs ==
  ASSUME NEW cs \in Seq(Chunks)
  PROVE  /\ LengthOf(cs, 0) = 0
         /\ \A n \in 0..Len(cs) : LengthOf(cs, n) \in Nat
         /\ \A n \in 1..Len(cs) : LengthOf(cs, n) = LengthOf(cs, n-1) + cs[n].length
<1>1. PICK N \in Nat : N = Len(cs)
  OBVIOUS
<1>2. \A n \in 1..N : cs[n].length \in Nat
  <2>1. \A n \in 1..N : cs[n] \in Chunks
    BY <1>1, ElementOfSeq
  <2> QED BY <2>1 DEF Chunks
<1> DEFINE F == [n \in 1..N |-> [x \in Nat |-> x + cs[n].length]]
<1>3. F \in [1..N -> [Nat -> Nat]]
  BY <1>2
<1>4. PICK g \in [0..N -> Nat] : Walks(g, 0, F, N)
  <2> HIDE DEF F
  <2> QED BY <1>3, WalkExists
<1>5. g[0] = 0 /\ \A n \in 1..N : g[n] = g[n-1] + cs[n].length
  <2>1. ASSUME NEW n \in 1..N PROVE g[n] = g[n-1] + cs[n].length
    <3>1. F[n] = [x \in Nat |-> x + cs[n].length] /\ g[n-1] \in Nat
      OBVIOUS
    <3> HIDE DEF F
    <3>2. g[n] = F[n][g[n-1]]
      BY <1>4 DEF Walks
    <3> QED BY <3>1, <3>2
  <2> QED BY <1>4, <2>1 DEF Walks
<1>6. g = [n \in 0..N |-> IF n = 0 THEN 0 ELSE g[n-1] + cs[n].length]
  BY <1>5
<1> DEFINE f == CHOOSE f : f = [n \in 0..Len(cs) |-> IF n = 0 THEN 0 ELSE f[n-1] + cs[n].length]
<1>7. f = [n \in 0..N |-> IF n = 0 THEN 0 ELSE f[n-1] + cs[n].length]
  BY <1>1, <1>6
<1>8. \A k : LengthOf(cs, k) = f[k]
  BY DEF LengthOf
<1> HIDE DEF f
<1>9. f[0] = 0 /\ \A n \in 1..N : f[n] = f[n-1] + cs[n].length
  BY <1>7
<1>10. \A n \in 0..N : f[n] \in Nat
  <2> DEFINE M == {n \in Nat : n <= N => f[n] \in Nat}
  <2>1. 0 \in M
    BY <1>9
  <2>2. ASSUME NEW n \in Nat, n \in M PROVE n + 1 \in M
    <3> SUFFICES ASSUME n + 1 <= N PROVE f[n+1] \in Nat
      OBVIOUS
    <3>1. f[n+1] = f[n] + cs[n+1].length /\ f[n] \in Nat /\ cs[n+1].length \in Nat
      BY <1>2, <1>9, <2>2
    <3> QED BY <3>1
  <2> HIDE DEF M
  <2>3. Nat \subseteq M
    BY <2>1, <2>2, NatInduct
  <2> QED BY <2>3 DEF M
<1> QED BY <1>1, <1>8, <1>9, <1>10

-----------------------------------------------------------------------------
(* The text that chunks stand for. *)

Least(a, b) == IF a < b THEN a ELSE b
Content(o, c) ==
  IF c.type = "insert" THEN c.text
  ELSE IF c.start <= Len(o) THEN Span(o, c.start, Least(c.start + c.length, Len(o)))
  ELSE <<>>

(* ... the first k of them *)
Flat(o, cs, k) ==
  LET flat[n \in 0..Len(cs)] == IF n = 0 THEN <<>> ELSE Cat(flat[n-1], Content(o, cs[n]))
  IN flat[k]

LEMMA ContentType ==
  ASSUME NEW o \in Texts, NEW c \in Chunks
  PROVE  Content(o, c) \in Texts
<1>1. c.text \in Texts /\ c.start \in Nat /\ c.length \in Nat
  BY DEF Chunks, Texts
<1>2. PICK l \in Nat, s \in Nat, k \in Nat : l = Len(o) /\ s = c.start /\ k = c.length
  BY <1>1, LenType
<1>3. CASE c.type # "insert" /\ s <= l
  <2>1. PICK e \in 0..l : e = Least(s + k, l) /\ s \in 0..e
    BY <1>3 DEF Least
  <2> QED BY <1>2, <1>3, <2>1, SpanIs DEF Content
<1> QED BY <1>1, <1>2, <1>3, Nothing DEF Content

LEMMA FlatIs ==
  ASSUME NEW o \in Texts, NEW cs \in Seq(Chunks)
  PROVE  /\ Flat(o, cs, 0) = <<>>
         /\ \A n \in 0..Len(cs) : Flat(o, cs, n) \in Texts
         /\ \A n \in 1..Len(cs) : Flat(o, cs, n) = Cat(Flat(o, cs, n-1), Content(o, cs[n]))
<1>1. PICK N \in Nat : N = Len(cs)
  OBVIOUS
<1>2. \A n \in 1..N : Content(o, cs[n]) \in Texts
  <2>1. \A n \in 1..N : cs[n] \in Chunks
    BY <1>1, ElementOfSeq
  <2> QED BY <2>1, ContentType
<1> DEFINE F == [n \in 1..N |-> [x \in Texts |-> Cat(x, Content(o, cs[n]))]]
<1>3. F \in [1..N -> [Texts -> Texts]]
  BY <1>2, CatType
<1>4. PICK g \in [0..N -> Texts] : Walks(g, <<>>, F, N)
  <2> HIDE DEF F
  <2>1. <<>> \in Texts
    BY Nothing
  <2> QED BY <1>3, <2>1, WalkExists, Zenon
<1>5. g[0] = <<>> /\ \A n \in 1..N : g[n] = Cat(g[n-1], Content(o, cs[n]))
  <2>1. ASSUME NEW n \in 1..N PROVE g[n] = Cat(g[n-1], Content(o, cs[n]))
    <3>1. n - 1 \in 0..N
      OBVIOUS
    <3>2. F[n] = [x \in Texts |-> Cat(x, Content(o, cs[n]))] /\ g[n-1] \in Texts
      BY <3>1, Zenon
    <3> HIDE DEF F
    <3>3. g[n] = F[n][g[n-1]]
      BY <1>4, Zenon DEF Walks
    <3> QED BY <3>2, <3>3, Zenon
  <2> QED BY <1>4, <2>1, Zenon DEF Walks
<1> HIDE DEF F
<1>6. g = [n \in 0..N |-> IF n = 0 THEN <<>> ELSE Cat(g[n-1], Content(o, cs[n]))]
  <2>1. ASSUME NEW n \in 0..N PROVE g[n] = IF n = 0 THEN <<>> ELSE Cat(g[n-1], Content(o, cs[n]))
    <3>1. n = 0 \/ n \in 1..N
      OBVIOUS
    <3> QED BY <1>5, <3>1, Zenon
  <2> QED BY <2>1, Zenon
<1> DEFINE f == CHOOSE f : f = [n \in 0..Len(cs) |-> IF n = 0 THEN <<>> ELSE Cat(f[n-1], Content(o, cs[n]))]
<1>7. f = [n \in 0..N |-> IF n = 0 THEN <<>> ELSE Cat(f[n-1], Content(o, cs[n]))]
  BY <1>1, <1>6, Zenon
<1>8. \A k : Flat(o, cs, k) = f[k]
  BY Zenon DEF Flat
<1> HIDE DEF f
<1>9. f[0] = <<>> /\ \A n \in 1..N : f[n] = Cat(f[n-1], Content(o, cs[n]))
  <2>1. 0 \in 0..N /\ \A n \in 1..N : n \in 0..N /\ n # 0
    OBVIOUS
  <2> QED BY <1>7, <2>1, Zenon
<1>10. \A n \in 0..N : f[n] \in Texts
  <2> DEFINE M == {n \in Nat : n <= N => f[n] \in Texts}
  <2>1. 0 \in M
    <3>1. f[0] \in Texts
      BY <1>9, Nothing, Zenon
    <3> QED BY <3>1
  <2>2. ASSUME NEW n \in Nat, n \in M PROVE n + 1 \in M
    <3> SUFFICES ASSUME n + 1 <= N PROVE f[n+1] \in Texts
      OBVIOUS
    <3>1. PICK k \in 1..N : k = n + 1 /\ k - 1 = n
      OBVIOUS
    <3>2. f[k] = Cat(f[k-1], Content(o, cs[k])) /\ Content(o, cs[k]) \in Texts
      BY <1>2, <1>9, Zenon
    <3>3. f[n] \in Texts
      BY <2>2
    <3>4. f[k-1] \in Texts
      BY <3>1, <3>3, Zenon
    <3>5. f[k] \in Texts
      BY <3>2, <3>4, CatType, Zenon
    <3> QED BY <3>1, <3>5, Zenon
  <2> HIDE DEF M
  <2>3. Nat \subseteq M
    BY <2>1, <2>2, NatInduct
  <2> QED BY <2>3 DEF M
<1> QED BY <1>1, <1>8, <1>9, <1>10, Zenon

LEMMA FlatNext ==
  ASSUME NEW o \in Texts, NEW cs \in Seq(Chunks), NEW n \in Nat, NEW k \in Nat, k = n + 1,
         k <= Len(cs)
  PROVE  /\ Flat(o, cs, k) = Cat(Flat(o, cs, n), Content(o, cs[k]))
         /\ Flat(o, cs, n) \in Texts /\ Flat(o, cs, k) \in Texts
         /\ Content(o, cs[k]) \in Texts /\ cs[k] \in Chunks
<1>1. k \in 1..Len(cs) /\ k \in 0..Len(cs) /\ n \in 0..Len(cs) /\ n = k - 1
  OBVIOUS
<1>2. cs[k] \in Chunks
  BY <1>1, ElementOfSeq, Zenon
<1>3. Content(o, cs[k]) \in Texts
  BY <1>2, ContentType, Zenon
<1>4. Flat(o, cs, n) \in Texts /\ Flat(o, cs, k) \in Texts
  BY <1>1, FlatIs, Zenon
<1>5. Flat(o, cs, k) = Cat(Flat(o, cs, k-1), Content(o, cs[k]))
  BY <1>1, FlatIs, Zenon
<1> QED BY <1>1, <1>2, <1>3, <1>4, <1>5, Zenon

(* The same chunks stand for the same text, wherever they are. *)
Alike(cs, a, ds, b, m) == \A x \in 1..m : cs[a + x] = ds[b + x]

Shared(o, cs, a, p, ds, b, q) ==
  \E r \in Texts : /\ Flat(o, cs, p) = Cat(Flat(o, cs, a), r)
                      /\ Flat(o, ds, q) = Cat(Flat(o, ds, b), r)

LEMMA SharedNext ==
  ASSUME NEW o \in Texts, NEW cs \in Seq(Chunks), NEW ds \in Seq(Chunks),
         NEW a \in 0..Len(cs), NEW b \in 0..Len(ds),
         NEW p \in Nat, NEW q \in Nat, NEW p1 \in Nat, NEW q1 \in Nat,
         p1 = p + 1, q1 = q + 1, p1 <= Len(cs), q1 <= Len(ds), cs[p1] = ds[q1],
         Shared(o, cs, a, p, ds, b, q)
  PROVE  Shared(o, cs, a, p1, ds, b, q1)
<1>1. PICK r \in Texts : /\ Flat(o, cs, p) = Cat(Flat(o, cs, a), r)
                            /\ Flat(o, ds, q) = Cat(Flat(o, ds, b), r)
  BY Zenon DEF Shared
<1>2. PICK x \in Texts, y \in Texts : x = Flat(o, cs, a) /\ y = Flat(o, ds, b)
  BY FlatIs, Zenon
<1>3. PICK c \in Texts : c = Content(o, cs[p1]) /\ c = Content(o, ds[q1])
  BY FlatNext
<1>4. Flat(o, cs, p1) = Cat(Cat(x, r), c)
  <2>1. Flat(o, cs, p1) = Cat(Flat(o, cs, p), Content(o, cs[p1]))
    BY FlatNext
  <2> QED BY <1>1, <1>2, <1>3, <2>1, Zenon
<1>5. Flat(o, ds, q1) = Cat(Cat(y, r), c)
  <2>1. Flat(o, ds, q1) = Cat(Flat(o, ds, q), Content(o, ds[q1]))
    BY FlatNext
  <2> QED BY <1>1, <1>2, <1>3, <2>1, Zenon
<1>6. Cat(Cat(x, r), c) = Cat(x, Cat(r, c))
  BY CatAssoc, Zenon
<1>8. Cat(Cat(y, r), c) = Cat(y, Cat(r, c))
  BY CatAssoc, Zenon
<1>7. Cat(r, c) \in Texts
  BY CatType, Zenon
<1> QED BY <1>2, <1>4, <1>5, <1>6, <1>7, <1>8, Zenon DEF Shared

LEMMA FlatShift ==
  ASSUME NEW o \in Texts, NEW cs \in Seq(Chunks), NEW ds \in Seq(Chunks),
         NEW a \in Nat, NEW b \in Nat, NEW m \in Nat,
         a + m <= Len(cs), b + m <= Len(ds), Alike(cs, a, ds, b, m)
  PROVE  Shared(o, cs, a, a + m, ds, b, b + m)
<1> DEFINE M == {k \in Nat : k <= m => Shared(o, cs, a, a + k, ds, b, b + k)}
<1>0. a \in 0..Len(cs) /\ b \in 0..Len(ds)
  OBVIOUS
<1>1. 0 \in M
  <2>1. Flat(o, cs, a) \in Texts /\ Flat(o, ds, b) \in Texts
    BY <1>0, FlatIs, Zenon
  <2>2. Flat(o, cs, a) = Cat(Flat(o, cs, a), <<>>) /\ Flat(o, ds, b) = Cat(Flat(o, ds, b), <<>>)
    BY <2>1, CatNothing, Zenon
  <2>3. <<>> \in Texts
    BY Nothing
  <2>4. Shared(o, cs, a, a, ds, b, b)
    BY <2>2, <2>3, Zenon DEF Shared
  <2>5. a + 0 = a /\ b + 0 = b
    OBVIOUS
  <2> QED BY <2>4, <2>5
<1>2. ASSUME NEW k \in Nat, k \in M PROVE k + 1 \in M
  <2> SUFFICES ASSUME k + 1 <= m PROVE Shared(o, cs, a, a + (k + 1), ds, b, b + (k + 1))
    OBVIOUS
  <2>1. Shared(o, cs, a, a + k, ds, b, b + k)
    BY <1>2
  <2>2. PICK p \in Nat, q \in Nat, p1 \in Nat, q1 \in Nat :
          /\ p = a + k /\ q = b + k /\ p1 = a + (k + 1) /\ q1 = b + (k + 1)
          /\ p1 = p + 1 /\ q1 = q + 1 /\ p1 <= Len(cs) /\ q1 <= Len(ds)
    OBVIOUS
  <2>3. cs[p1] = ds[q1]
    <3>1. k + 1 \in 1..m
      OBVIOUS
    <3> QED BY <2>2, <3>1, Zenon DEF Alike
  <2>4. Shared(o, cs, a, p1, ds, b, q1)
    BY <1>0, <2>1, <2>2, <2>3, SharedNext, Zenon
  <2> QED BY <2>2, <2>4, Zenon
<1> HIDE DEF M
<1>3. Nat \subseteq M
  BY <1>1, <1>2, NatInduct
<1>4. m \in M
  BY <1>3
<1> QED BY <1>4 DEF M

LEMMA FlatSame ==
  ASSUME NEW o \in Texts, NEW cs \in Seq(Chunks), NEW ds \in Seq(Chunks),
         NEW m \in Nat, m <= Len(cs), m <= Len(ds), \A x \in 1..m : cs[x] = ds[x]
  PROVE  Flat(o, cs, m) = Flat(o, ds, m)
<1>1. 0 + m = m /\ 0 \in Nat /\ \A x \in 1..m : 0 + x = x
  OBVIOUS
<1>2. Alike(cs, 0, ds, 0, m)
  BY <1>1 DEF Alike
<1>3. Shared(o, cs, 0, m, ds, 0, m)
  <2>1. Shared(o, cs, 0, 0 + m, ds, 0, 0 + m)
    BY <1>1, <1>2, FlatShift
  <2> QED BY <1>1, <2>1
<1>4. Flat(o, cs, 0) = <<>> /\ Flat(o, ds, 0) = <<>>
  BY FlatIs, Zenon
<1> QED BY <1>3, <1>4, Zenon DEF Shared

(* More chunks are not shorter. *)
LEMMA LengthGrows ==
  ASSUME NEW cs \in Seq(Chunks), NEW a \in Nat, NEW b \in Nat, a <= b, b <= Len(cs)
  PROVE  LengthOf(cs, a) <= LengthOf(cs, b)
<1> DEFINE M == {k \in Nat : a + k <= b => LengthOf(cs, a) <= LengthOf(cs, a + k)}
<1>0. \A n \in 0..Len(cs) : LengthOf(cs, n) \in Nat
  BY LengthIs
<1>1. 0 \in M
  <2>1. a + 0 = a /\ a \in 0..Len(cs)
    OBVIOUS
  <2> QED BY <1>0, <2>1
<1>2. ASSUME NEW k \in Nat, k \in M PROVE k + 1 \in M
  <2> SUFFICES ASSUME a + (k + 1) <= b PROVE LengthOf(cs, a) <= LengthOf(cs, a + (k+1))
    OBVIOUS
  <2>1. LengthOf(cs, a) <= LengthOf(cs, a + k)
    BY <1>2
  <2>2. PICK n \in 1..Len(cs), p \in 0..Len(cs) : n = a + (k + 1) /\ p = a + k /\ p = n - 1
    OBVIOUS
  <2>3. LengthOf(cs, n) = LengthOf(cs, p) + cs[n].length
    BY <2>2, LengthIs, Zenon
  <2>4. cs[n].length \in Nat
    <3>1. cs[n] \in Chunks
      BY ElementOfSeq, Zenon
    <3> QED BY <3>1 DEF Chunks
  <2>5. PICK x \in Nat, y \in Nat, z \in Nat, w \in Nat :
          /\ x = LengthOf(cs, a) /\ y = LengthOf(cs, p) /\ z = LengthOf(cs, n) /\ w = cs[n].length
    <3>1. a \in 0..Len(cs)
      OBVIOUS
    <3> QED BY <1>0, <2>4, <3>1
  <2>6. x <= z
    BY <2>1, <2>2, <2>3, <2>5
  <2> QED BY <2>2, <2>5, <2>6
<1> HIDE DEF M
<1>3. Nat \subseteq M
  BY <1>1, <1>2, NatInduct
<1>4. PICK k \in Nat : k = b - a /\ a + k = b
  OBVIOUS
<1>5. k \in M
  BY <1>3
<1> QED BY <1>4, <1>5 DEF M

-----------------------------------------------------------------------------
(* Chunks as they are before getSimpleDiff. *)

Small(o) == o \in Texts /\ Len(o) <= 9
Good(o, c) ==
  IF c.type = "insert" THEN c.length = Len(c.text) ELSE c.start + c.length <= Len(o)
Open(o, c) == c.type = "copy" /\ c.length = Infinity /\ c.start <= Len(o)
Before(c, d) == c.type = "copy" /\ d.type = "copy" => c.start + c.length <= d.start

(* The chunks copy the old text in its order, from its first character, and *)
(* only the last has no end.                                                *)
Formed(o, cs) ==
  /\ cs \in Seq(Chunks) /\ Len(cs) >= 1
  /\ cs[1].type = "copy" /\ cs[1].start = 0
  /\ Open(o, cs[Len(cs)])
  /\ \A k \in 1..Len(cs) - 1 : Good(o, cs[k])
  /\ \A a, b \in 1..Len(cs) : a < b => Before(cs[a], cs[b])

LEMMA ChunkType ==
  \A c \in Chunks : /\ c.type \in {"copy", "insert"} /\ c.start \in Nat /\ c.length \in Nat
                    /\ c.text \in Texts
BY DEF Chunks, Texts

LEMMA GoodContent ==
  ASSUME NEW o, Small(o), NEW c \in Chunks, Good(o, c)
  PROVE  /\ Len(Content(o, c)) = c.length
         /\ c.type = "copy" => /\ Content(o, c) = Span(o, c.start, c.start + c.length)
                               /\ c.start + c.length \in 0..Len(o) /\ c.start \in 0..c.start + c.length
<1>1. PICK l \in Nat, s \in Nat, k \in Nat : l = Len(o) /\ s = c.start /\ k = c.length
  BY ChunkType, LenType DEF Small
<1>2. CASE c.type = "insert"
  BY <1>2 DEF Good, Content
<1>3. CASE c.type # "insert"
  <2>1. s + k <= l
    BY <1>1, <1>3 DEF Good
  <2>2. s <= l /\ Least(s + k, l) = s + k /\ s + k \in 0..l /\ s \in 0..s + k /\ s + k - s = k
    BY <2>1 DEF Least
  <2>3. Content(o, c) = Span(o, s, s + k)
    BY <1>1, <1>3, <2>2 DEF Content
  <2>4. Len(Span(o, s, s + k)) = k
    <3>1. PICK e \in 0..Len(o) : e = s + k /\ s \in 0..e /\ e - s = k
      BY <1>1, <2>2
    <3>2. Len(Span(o, s, e)) = e - s
      BY <3>1, SpanIs, Zenon DEF Small
    <3> QED BY <3>1, <3>2
  <2> QED BY <1>1, <2>2, <2>3, <2>4
<1> QED BY <1>2, <1>3

LEMMA OpenContent ==
  ASSUME NEW o, Small(o), NEW c \in Chunks, Open(o, c)
  PROVE  /\ Content(o, c) = Span(o, c.start, Len(o)) /\ c.start \in 0..Len(o)
         /\ Len(Content(o, c)) = Len(o) - c.start
<1>1. PICK l \in Nat, s \in Nat : l = Len(o) /\ s = c.start
  BY ChunkType, LenType DEF Small
<1>2. c.type # "insert" /\ s <= l /\ l <= 9 /\ c.length = 1000
  BY <1>1 DEF Open, Small, Infinity
<1>3. Least(s + 1000, l) = l /\ l \in 0..l /\ s \in 0..l
  BY <1>2 DEF Least
<1>4. Content(o, c) = Span(o, s, l)
  BY <1>1, <1>2, <1>3 DEF Content
<1>5. Len(Span(o, s, l)) = l - s
  <2>1. o \in Texts /\ l \in 0..Len(o) /\ s \in 0..l
    BY <1>1, <1>3 DEF Small
  <2> QED BY <2>1, SpanIs, Zenon
<1> QED BY <1>1, <1>3, <1>4, <1>5

LEMMA FlatLength ==
  ASSUME NEW o, Small(o), NEW cs, Formed(o, cs), NEW k \in 0..Len(cs) - 1
  PROVE  Len(Flat(o, cs, k)) = LengthOf(cs, k)
<1>0. o \in Texts /\ cs \in Seq(Chunks)
  BY DEF Small, Formed
<1>1. PICK N \in Nat : N = Len(cs) /\ N >= 1
  BY <1>0 DEF Formed
<1> DEFINE M == {n \in Nat : n <= N - 1 => Len(Flat(o, cs, n)) = LengthOf(cs, n)}
<1>2. 0 \in M
  <2>1. Flat(o, cs, 0) = <<>> /\ LengthOf(cs, 0) = 0
    BY <1>0, FlatIs, LengthIs
  <2> QED BY <2>1, Nothing
<1>3. ASSUME NEW n \in Nat, n \in M PROVE n + 1 \in M
  <2> SUFFICES ASSUME n + 1 <= N - 1 PROVE Len(Flat(o, cs, n + 1)) = LengthOf(cs, n + 1)
    OBVIOUS
  <2>1. Len(Flat(o, cs, n)) = LengthOf(cs, n)
    BY <1>3
  <2>2. PICK p \in 1..N - 1 : p = n + 1 /\ n = p - 1
    OBVIOUS
  <2>3. /\ Flat(o, cs, p) = Cat(Flat(o, cs, n), Content(o, cs[p]))
        /\ Flat(o, cs, n) \in Texts /\ Content(o, cs[p]) \in Texts /\ cs[p] \in Chunks
    BY <1>0, <1>1, <2>2, FlatNext, SMTT(30)
  <2>4. Good(o, cs[p])
    BY <1>1 DEF Formed
  <2>5. Len(Content(o, cs[p])) = cs[p].length
    BY <2>3, <2>4, GoodContent
  <2>6. LengthOf(cs, p) = LengthOf(cs, n) + cs[p].length
    <3>1. p \in 1..Len(cs)
      BY <1>1
    <3>2. LengthOf(cs, p) = LengthOf(cs, p - 1) + cs[p].length
      BY <1>0, <3>1, LengthIs, Zenon
    <3> QED BY <2>2, <3>2
  <2>7. Len(Flat(o, cs, p)) = Len(Flat(o, cs, n)) + Len(Content(o, cs[p]))
    BY <2>3, CatType
  <2> QED BY <2>1, <2>2, <2>5, <2>6, <2>7
<1> HIDE DEF M
<1>4. Nat \subseteq M
  BY <1>2, <1>3, NatInduct
<1>5. k \in M
  BY <1>1, <1>4
<1> QED BY <1>1, <1>5 DEF M

(* findChunk_ finds the chunk that an index of the text falls into, and the *)
(* offset in the last is in the old text.                                   *)
LEMMA FindChunkIs ==
  ASSUME NEW o, Small(o), NEW cs, Formed(o, cs), NEW i \in 0..Len(Flat(o, cs, Len(cs)))
  PROVE  /\ FindChunk(cs, i) \in 1..Len(cs)
         /\ LengthOf(cs, FindChunk(cs, i) - 1) <= i /\ i < LengthOf(cs, FindChunk(cs, i))
         /\ LengthOf(cs, FindChunk(cs, i) - 1) \in Nat
         /\ OffsetIn(cs, i) \in Nat /\ OffsetIn(cs, i) < cs[FindChunk(cs, i)].length
         /\ FindChunk(cs, i) = Len(cs) => OffsetIn(cs, i) <= Len(o) - cs[Len(cs)].start
<1>0. o \in Texts /\ cs \in Seq(Chunks)
  BY DEF Small, Formed
<1>1. PICK N \in Nat : N = Len(cs) /\ N >= 1
  BY <1>0 DEF Formed
<1>2. PICK l \in Nat, s \in Nat : l = Len(o) /\ s = cs[N].start /\ s <= l /\ l <= 9 /\ cs[N].length = 1000
  <2>1. cs[N] \in Chunks /\ Open(o, cs[N])
    BY <1>0, <1>1, ElementOfSeq DEF Formed
  <2> QED BY <1>0, <2>1, ChunkType, LenType DEF Open, Small, Infinity
<1>3. \A n \in 0..N : LengthOf(cs, n) \in Nat
  BY <1>0, <1>1, LengthIs
<1>4. PICK y \in Nat : y = LengthOf(cs, N - 1) /\ LengthOf(cs, N) = y + 1000
  <2>1. N \in 1..N /\ N - 1 \in 0..N
    BY <1>1
  <2>2. LengthOf(cs, N) = LengthOf(cs, N - 1) + cs[N].length
    BY <1>0, <1>1, <2>1, LengthIs
  <2> QED BY <1>2, <1>3, <2>1, <2>2
<1>5. i \in Nat /\ i <= y + (l - s)
  <2>1. /\ Flat(o, cs, N) = Cat(Flat(o, cs, N - 1), Content(o, cs[N]))
        /\ Flat(o, cs, N - 1) \in Texts /\ Content(o, cs[N]) \in Texts /\ cs[N] \in Chunks
    <3>1. PICK m \in Nat : m = N - 1 /\ N = m + 1
      BY <1>1
    <3>2. /\ Flat(o, cs, N) = Cat(Flat(o, cs, m), Content(o, cs[N]))
          /\ Flat(o, cs, m) \in Texts /\ Content(o, cs[N]) \in Texts /\ cs[N] \in Chunks
      <4>1. N <= Len(cs)
        BY <1>1
      <4> QED BY <1>0, <3>1, <4>1, FlatNext
    <3> QED BY <3>1, <3>2, Zenon
  <2>2. Len(Flat(o, cs, N - 1)) = y
    <3>1. N - 1 \in 0..Len(cs) - 1
      BY <1>1
    <3> QED BY <1>4, <3>1, FlatLength
  <2>3. Len(Content(o, cs[N])) = l - s
    BY <1>1, <1>2, <2>1, OpenContent DEF Formed
  <2>4. Len(Flat(o, cs, N)) = y + (l - s)
    BY <2>1, <2>2, <2>3, CatType
  <2> QED BY <1>1, <1>2, <2>4
<1>6. i < LengthOf(cs, N)
  BY <1>2, <1>4, <1>5, SMTT(30)
<1>7. \E k \in 1..N : LengthOf(cs, k - 1) <= i /\ i < LengthOf(cs, k)
  <2> DEFINE T == {k \in 0..N : i < LengthOf(cs, k)}
  <2>1. T \in SUBSET Nat /\ T # {}
    BY <1>1, <1>6
  <2> HIDE DEF T
  <2>2. PICK k \in T : \A m \in T : k <= m
    BY <2>1, NatHasLeast
  <2>3. k \in 0..N /\ i < LengthOf(cs, k)
    BY <2>2 DEF T
  <2>4. k # 0
    <3>1. LengthOf(cs, 0) = 0
      BY <1>0, LengthIs
    <3> QED BY <1>5, <2>3, <3>1
  <2>5. k - 1 \in 0..N /\ k \in 1..N
    BY <2>3, <2>4
  <2>6. k - 1 \notin T
    BY <2>2, <2>5
  <2>7. LengthOf(cs, k - 1) <= i
    <3>1. ~(i < LengthOf(cs, k - 1))
      BY <2>5, <2>6 DEF T
    <3>2. LengthOf(cs, k - 1) \in Nat
      BY <1>3, <2>5
    <3> QED BY <1>5, <3>1, <3>2
  <2> QED BY <2>3, <2>5, <2>7
<1>8. PICK k \in 1..N : k = FindChunk(cs, i) /\ LengthOf(cs, k - 1) <= i /\ i < LengthOf(cs, k)
  BY <1>1, <1>7 DEF FindChunk
<1>9. PICK x \in Nat : x = LengthOf(cs, k - 1) /\ LengthOf(cs, k) = x + cs[k].length
  <2>1. k - 1 \in 0..N
    OBVIOUS
  <2>2. LengthOf(cs, k) = LengthOf(cs, k - 1) + cs[k].length
    BY <1>0, <1>1, LengthIs
  <2> QED BY <1>3, <2>1, <2>2
<1>10. cs[k].length \in Nat
  BY <1>0, <1>1, ElementOfSeq, ChunkType
<1>11. OffsetIn(cs, i) = i - x
  BY <1>8, <1>9 DEF OffsetIn
<1>12. i - x \in Nat /\ i - x < cs[k].length
  BY <1>5, <1>8, <1>9, <1>10
<1>13. k = N => i - x <= l - s
  <2> SUFFICES ASSUME k = N PROVE i - x <= l - s
    OBVIOUS
  <2>1. x = y
    BY <1>4, <1>9
  <2> QED BY <1>5, <2>1
<1> QED BY <1>1, <1>2, <1>8, <1>9, <1>11, <1>12, <1>13

-----------------------------------------------------------------------------
(* splitChunk_ *)

(* h1 and h2 are the halves of c: they have its kind and together its text. *)
Halved(o, c, at, h1, h2) ==
  /\ h1 \in Chunks /\ h2 \in Chunks /\ h1.type = c.type /\ h2.type = c.type
  /\ Good(o, h1) /\ (Good(o, c) => Good(o, h2)) /\ (Open(o, c) => Open(o, h2))
  /\ Content(o, c) = Cat(Content(o, h1), Content(o, h2)) /\ Len(Content(o, h1)) = at
  /\ c.type = "copy" => /\ h1.start = c.start /\ h1.length = at /\ h2.start = c.start + at
                        /\ Good(o, c) => h2.length = c.length - at
  /\ c.type = "insert" => h1.text = Take(c.text, at) /\ h2.text = Drop(c.text, at)

LEMMA CopyType ==
  \A s, n \in Nat : /\ Copy(s, n) \in Chunks /\ Copy(s, n).type = "copy"
                    /\ Copy(s, n).start = s /\ Copy(s, n).length = n
BY DEF Copy, Chunks

LEMMA InsertType ==
  \A t \in Texts : /\ Insert(t) \in Chunks /\ Insert(t).type = "insert"
                   /\ Insert(t).length = Len(t) /\ Insert(t).text = t
BY LenType DEF Insert, Chunks, Texts

LEMMA HalvesAre ==
  ASSUME NEW o, Small(o), NEW c \in Chunks, NEW at \in Nat, at < c.length,
         Good(o, c) \/ (Open(o, c) /\ at <= Len(o) - c.start)
  PROVE  \E h1, h2 \in Chunks : Halves(c, at) = <<h1, h2>> /\ Halved(o, c, at, h1, h2)
<1>1. PICK l \in Nat, s \in Nat, k \in Nat :
        l = Len(o) /\ s = c.start /\ k = c.length /\ at < k /\ l <= 9
  BY ChunkType, LenType DEF Small
<1>2. o \in Texts
  BY DEF Small
<1>3. CASE c.type = "insert"
  <2>1. c.text \in Texts /\ at \in 0..Len(c.text) /\ k = Len(c.text)
    BY <1>1, <1>3, ChunkType DEF Good, Open
  <2>2. PICK x \in Texts, y \in Texts :
          /\ x = Take(c.text, at) /\ y = Drop(c.text, at) /\ Len(x) = at /\ Cat(x, y) = c.text
    BY <2>1, TakeIs, DropIs, CatTakeDrop
  <2>3. Halves(c, at) = <<Insert(x), Insert(y)>>
    BY <1>3, <2>2 DEF Halves, Take, Drop
  <2>4. PICK h1 \in Chunks, h2 \in Chunks :
          /\ h1 = Insert(x) /\ h1.type = "insert" /\ h1.length = Len(x) /\ h1.text = x
          /\ h2 = Insert(y) /\ h2.type = "insert" /\ h2.length = Len(y) /\ h2.text = y
    BY InsertType
  <2>5. Content(o, c) = c.text /\ Content(o, h1) = x /\ Content(o, h2) = y
    BY <1>3, <2>4 DEF Content
  <2>6. Good(o, h1) /\ Good(o, h2) /\ ~Open(o, c)
    BY <1>3, <2>4 DEF Good, Open
  <2>7. Halved(o, c, at, h1, h2)
    BY <1>3, <2>2, <2>4, <2>5, <2>6 DEF Halved
  <2> QED BY <2>3, <2>4, <2>7
<1>4. CASE c.type = "copy" /\ Open(o, c)
  <2>0. k = 1000 /\ ~Good(o, c)
    <3>1. k = 1000
      BY <1>1, <1>4 DEF Open, Infinity
    <3>2. ~(s + k <= l)
      BY <1>1, <3>1
    <3> QED BY <1>1, <1>4, <3>1, <3>2 DEF Good
  <2>1. k = 1000 /\ s + at <= l /\ s <= s + at
    BY <1>1, <2>0
  <2>2. Halves(c, at) = <<Copy(s, at), Copy(s + at, 1000)>>
    BY <1>1, <1>4, <2>1 DEF Halves, Infinity
  <2>3. PICK h1 \in Chunks, h2 \in Chunks :
          /\ h1 = Copy(s, at) /\ h1.type = "copy" /\ h1.length = at /\ h1.start = s
          /\ h2 = Copy(s + at, 1000) /\ h2.type = "copy" /\ h2.length = 1000 /\ h2.start = s + at
    BY CopyType
  <2>4. Good(o, h1) /\ Open(o, h2) /\ ~Good(o, c)
    <3>1. Good(o, h1)
      BY <1>1, <2>1, <2>3 DEF Good
    <3>2. Open(o, h2)
      BY <1>1, <2>1, <2>3 DEF Open, Infinity
    <3>3. ~Good(o, c)
      BY <1>1, <1>4, <2>1 DEF Good
    <3> QED BY <3>1, <3>2, <3>3
  <2>5. Content(o, c) = Span(o, s, l)
    BY <1>1, <1>4, OpenContent
  <2>6. Content(o, h1) = Span(o, s, s + at) /\ Len(Content(o, h1)) = at
    BY <2>3, <2>4, GoodContent
  <2>7. Content(o, h2) = Span(o, s + at, l)
    BY <1>1, <2>3, <2>4, OpenContent
  <2>8. PICK e \in Nat : e = s + at /\ l \in 0..Len(o) /\ e \in 0..l /\ s \in 0..e
    BY <1>1, <2>1
  <2>9. Span(o, s, l) = Cat(Span(o, s, e), Span(o, e, l))
    BY <1>2, <2>8, SpanSplit, Zenon
  <2>10. Content(o, c) = Cat(Content(o, h1), Content(o, h2))
    BY <2>5, <2>6, <2>7, <2>8, <2>9
  <2>11. Halved(o, c, at, h1, h2)
    BY <1>1, <1>4, <2>3, <2>4, <2>6, <2>10 DEF Halved
  <2> QED BY <2>2, <2>3, <2>11
<1>5. CASE c.type = "copy" /\ Good(o, c)
  <2>1. s + k <= l /\ k # 1000
    BY <1>1, <1>5 DEF Good
  <2>2. PICK r \in Nat, e \in Nat, f \in Nat :
          /\ r = k - at /\ e = s + at /\ f = s + k /\ f = e + r
          /\ f \in 0..Len(o) /\ e \in 0..f /\ s \in 0..e
    <3>1. PICK r \in Nat : r = k - at
      BY <1>1
    <3>2. PICK e \in Nat : e = s + at
      OBVIOUS
    <3>3. PICK f \in Nat : f = s + k
      OBVIOUS
    <3>0. at < k /\ s + k <= l
      BY <1>1, <2>1
    <3>4. f = e + r /\ f \in 0..l /\ e \in 0..f /\ s \in 0..e
      <4>1. f = e + r
        BY <3>0, <3>1, <3>2, <3>3
      <4>2. f \in 0..l
        BY <3>0, <3>3
      <4>3. e \in 0..f
        BY <3>0, <3>2, <3>3
      <4>4. s \in 0..e
        BY <3>2
      <4> QED BY <4>1, <4>2, <4>3, <4>4
    <3> QED BY <1>1, <3>1, <3>2, <3>3, <3>4
  <2>3. Halves(c, at) = <<Copy(s, at), Copy(e, r)>>
    BY <1>1, <1>5, <2>1, <2>2 DEF Halves, Infinity
  <2>4. PICK h1 \in Chunks, h2 \in Chunks :
          /\ h1 = Copy(s, at) /\ h1.type = "copy" /\ h1.length = at /\ h1.start = s
          /\ h2 = Copy(e, r) /\ h2.type = "copy" /\ h2.length = r /\ h2.start = e
    BY CopyType
  <2>5. Good(o, h1) /\ Good(o, h2) /\ ~Open(o, c)
    <3>1. Good(o, h1)
      BY <1>1, <2>2, <2>4 DEF Good
    <3>2. Good(o, h2)
      BY <1>1, <2>2, <2>4 DEF Good
    <3>3. ~Open(o, c)
      BY <1>1, <2>1 DEF Open, Infinity
    <3> QED BY <3>1, <3>2, <3>3
  <2>6. Content(o, c) = Span(o, s, f)
    BY <1>1, <1>5, <2>2, GoodContent
  <2>7. Content(o, h1) = Span(o, s, e) /\ Len(Content(o, h1)) = at
    BY <2>2, <2>4, <2>5, GoodContent
  <2>8. Content(o, h2) = Span(o, e, f)
    BY <2>2, <2>4, <2>5, GoodContent
  <2>9. Span(o, s, f) = Cat(Span(o, s, e), Span(o, e, f))
    BY <1>2, <2>2, SpanSplit, Zenon
  <2>10. Content(o, c) = Cat(Content(o, h1), Content(o, h2))
    BY <2>6, <2>7, <2>8, <2>9
  <2>11. Halved(o, c, at, h1, h2)
    BY <1>1, <1>5, <2>2, <2>4, <2>5, <2>7, <2>10 DEF Halved
  <2> QED BY <2>3, <2>4, <2>11
<1> QED BY <1>3, <1>4, <1>5, ChunkType DEF Open

(* Sequences of chunks, joined. *)
Rows == Seq(Chunks)

LEMMA RowsCat ==
  \A p, q \in Rows : /\ Cat(p, q) \in Rows /\ Len(Cat(p, q)) = Len(p) + Len(q)
                     /\ \A x \in 1..Len(p) + Len(q) :
                          Cat(p, q)[x] = IF x <= Len(p) THEN p[x] ELSE q[x - Len(p)]
BY ConcatProperties DEF Rows, Cat

LEMMA RowLen == \A p \in Rows : Len(p) \in Nat
BY DEF Rows

(* sp is p, q and r, of lengths a, b and c. *)
Threefold(p, a, q, b, r, c, sp) ==
  /\ sp \in Rows /\ Len(sp) = a + b + c
  /\ \A x \in 1..a : sp[x] = p[x]
  /\ \A x \in 1..b : sp[a + x] = q[x]
  /\ \A x \in 1..c : sp[a + b + x] = r[x]

LEMMA Joined ==
  ASSUME NEW p \in Rows, NEW q \in Rows, NEW r \in Rows,
         NEW a \in Nat, NEW b \in Nat, NEW c \in Nat, a = Len(p), b = Len(q), c = Len(r)
  PROVE  Threefold(p, a, q, b, r, c, Cat(Cat(p, q), r))
<1>2. PICK u \in Rows : /\ u = Cat(p, q) /\ Len(u) = a + b
                        /\ \A x \in 1..a + b : u[x] = IF x <= a THEN p[x] ELSE q[x - a]
  <2>1. /\ Cat(p, q) \in Rows /\ Len(Cat(p, q)) = a + b
        /\ \A x \in 1..a + b : Cat(p, q)[x] = IF x <= a THEN p[x] ELSE q[x - a]
    BY RowsCat
  <2> QED BY <2>1
<1>3. PICK v \in Rows : /\ v = Cat(u, r) /\ Len(v) = a + b + c
                        /\ \A x \in 1..a + b + c : v[x] = IF x <= a + b THEN u[x] ELSE r[x - (a + b)]
  <2>1. /\ Cat(u, r) \in Rows /\ Len(Cat(u, r)) = a + b + c
        /\ \A x \in 1..a + b + c : Cat(u, r)[x] = IF x <= a + b THEN u[x] ELSE r[x - (a + b)]
    <3>1. /\ Cat(u, r) \in Rows /\ Len(Cat(u, r)) = Len(u) + Len(r)
          /\ \A x \in 1..Len(u) + Len(r) :
               Cat(u, r)[x] = IF x <= Len(u) THEN u[x] ELSE r[x - Len(u)]
      BY RowsCat
    <3>2. Len(u) = a + b /\ Len(r) = c
      BY <1>2
    <3> QED BY <3>1, <3>2
  <2> QED BY <2>1
<1>4. \A x \in 1..a : v[x] = p[x]
  BY <1>2, <1>3
<1>5. ASSUME NEW x \in 1..b PROVE v[a + x] = q[x]
  <2>1. a + x \in 1..a + b /\ a + x \in 1..a + b + c /\ a + x <= a + b /\ ~(a + x <= a) /\ a + x - a = x
    OBVIOUS
  <2> QED BY <1>2, <1>3, <2>1
<1>6. ASSUME NEW x \in 1..c PROVE v[a + b + x] = r[x]
  <2>1. a + b + x \in 1..a + b + c /\ ~(a + b + x <= a + b) /\ a + b + x - (a + b) = x
    OBVIOUS
  <2> QED BY <1>3, <2>1
<1> QED BY <1>2, <1>3, <1>4, <1>5, <1>6 DEF Threefold

Part(p, a, b) == SubSeq(p, a, b)

IsPart(p, a, b, r) ==
  r \in Rows /\ Len(r) = b + 1 - a /\ \A x \in 1..b + 1 - a : r[x] = p[a + x - 1]

LEMMA RowsPart ==
  ASSUME NEW p \in Rows, NEW a \in Nat, NEW b \in Nat, 1 <= a, a <= b + 1, b <= Len(p)
  PROVE  IsPart(p, a, b, Part(p, a, b))
<1>1. \A x \in a..b : p[x] \in Chunks
  <2>1. \A x \in a..b : x \in 1..Len(p)
    BY RowLen
  <2> QED BY <2>1, ElementOfSeq DEF Rows
<1>2. /\ SubSeq(p, a, b) \in Seq(Chunks)
      /\ Len(SubSeq(p, a, b)) = IF a <= b THEN b - a + 1 ELSE 0
      /\ \A x \in 1..b - a + 1 : SubSeq(p, a, b)[x] = p[a + x - 1]
  BY <1>1, SubSeqProperties
<1>3. b - a + 1 = b + 1 - a /\ (~(a <= b) => b + 1 - a = 0)
  OBVIOUS
<1>4. Part(p, a, b) = SubSeq(p, a, b)
  BY DEF Part
<1>5. Part(p, a, b) \in Rows /\ Len(Part(p, a, b)) = b + 1 - a
  BY <1>2, <1>3, <1>4 DEF Rows
<1>6. \A x \in 1..b + 1 - a : Part(p, a, b)[x] = p[a + x - 1]
  BY <1>2, <1>3, <1>4
<1> QED BY <1>5, <1>6 DEF IsPart

(* sp is cs with chunk k in its halves h1 and h2. *)
Splits(cs, k, h1, h2, sp) ==
  /\ sp \in Rows /\ Len(sp) = Len(cs) + 1
  /\ \A x \in 1..k - 1 : sp[x] = cs[x]
  /\ sp[k] = h1 /\ sp[k + 1] = h2
  /\ \A x \in k + 1..Len(cs) : sp[x + 1] = cs[x]

LEMMA SplitJoined ==
  ASSUME NEW cs \in Rows, NEW N \in Nat, N = Len(cs), NEW k \in 1..N,
         NEW h1 \in Chunks, NEW h2 \in Chunks
  PROVE  Splits(cs, k, h1, h2, Cat(Cat(Part(cs, 1, k - 1), <<h1, h2>>), Part(cs, k + 1, N)))
<1>1. PICK a \in Nat, b \in Nat, c \in Nat :
        /\ a = k - 1 /\ b = k + 1 /\ c = N - k
        /\ a + 1 = k /\ a + 2 = b /\ a + 2 + c = N + 1 /\ a <= N /\ b <= N + 1 /\ N + 1 - b = c
  <2>1. k - 1 \in Nat /\ k + 1 \in Nat /\ N - k \in Nat
    OBVIOUS
  <2>2. PICK a \in Nat, b \in Nat, c \in Nat : a = k - 1 /\ b = k + 1 /\ c = N - k
    BY <2>1, Zenon
  <2>3. a + 1 = k /\ a + 2 = b /\ a + 2 + c = N + 1 /\ a <= N /\ b <= N + 1 /\ N + 1 - b = c
    BY <2>2
  <2> QED BY <2>2, <2>3, Zenon
<1>2. PICK p \in Rows : p = Part(cs, 1, a) /\ Len(p) = a /\ \A x \in 1..a : p[x] = cs[x]
  <2>1. /\ Part(cs, 1, a) \in Rows /\ Len(Part(cs, 1, a)) = a + 1 - 1
        /\ \A x \in 1..a + 1 - 1 : Part(cs, 1, a)[x] = cs[1 + x - 1]
    <3>1. 1 \in Nat /\ 1 <= 1 /\ 1 <= a + 1 /\ a <= Len(cs)
      BY <1>1
    <3> QED BY <3>1, RowsPart DEF IsPart
  <2>2. a + 1 - 1 = a /\ \A x \in 1..a : 1 + x - 1 = x
    OBVIOUS
  <2> QED BY <2>1, <2>2
<1>3. PICK q \in Rows : q = <<h1, h2>> /\ Len(q) = 2 /\ q[1] = h1 /\ q[2] = h2
  <2>1. <<h1, h2>> \in Seq(Chunks)
    OBVIOUS
  <2>2. Len(<<h1, h2>>) = 2 /\ <<h1, h2>>[1] = h1 /\ <<h1, h2>>[2] = h2
    OBVIOUS
  <2> QED BY <2>1, <2>2, Zenon DEF Rows
<1>4. PICK r \in Rows : r = Part(cs, b, N) /\ Len(r) = c /\ \A x \in 1..c : r[x] = cs[k + x]
  <2>1. /\ Part(cs, b, N) \in Rows /\ Len(Part(cs, b, N)) = N + 1 - b
        /\ \A x \in 1..N + 1 - b : Part(cs, b, N)[x] = cs[b + x - 1]
    <3>1. 1 <= b /\ b <= N + 1 /\ N <= Len(cs)
      BY <1>1
    <3> QED BY <3>1, RowsPart, ZenonT(40) DEF IsPart
  <2>2. \A x \in 1..c : b + x - 1 = k + x
    BY <1>1
  <2> QED BY <1>1, <2>1, <2>2
<1>5. PICK sp \in Rows :
        /\ sp = Cat(Cat(p, q), r) /\ Len(sp) = a + 2 + c
        /\ \A x \in 1..a : sp[x] = p[x]
        /\ \A x \in 1..2 : sp[a + x] = q[x]
        /\ \A x \in 1..c : sp[a + 2 + x] = r[x]
  <2>1. a = Len(p) /\ 2 = Len(q) /\ c = Len(r) /\ 2 \in Nat
    BY <1>2, <1>3, <1>4
  <2>2. Threefold(p, a, q, 2, r, c, Cat(Cat(p, q), r))
    BY <2>1, Joined
  <2> QED BY <2>2, Zenon DEF Threefold
<1>6. sp[k] = h1 /\ sp[k + 1] = h2
  <2>1. sp[a + 1] = q[1] /\ sp[a + 2] = q[2]
    BY <1>5
  <2> QED BY <1>1, <1>3, <2>1
<1>7. ASSUME NEW x \in k + 1..N PROVE sp[x + 1] = cs[x]
  <2>1. PICK y \in 1..c : y = x - k
    BY <1>1
  <2>2. a + 2 + y = x + 1 /\ k + y = x
    BY <1>1, <2>1
  <2>3. sp[a + 2 + y] = r[y] /\ r[y] = cs[k + y]
    BY <1>4, <1>5
  <2> QED BY <2>2, <2>3
<1>8. \A x \in 1..k - 1 : sp[x] = cs[x]
  BY <1>1, <1>2, <1>5
<1>9. Len(sp) = Len(cs) + 1
  BY <1>1, <1>5
<1>10. Splits(cs, k, h1, h2, sp)
  BY <1>6, <1>7, <1>8, <1>9 DEF Splits
<1> QED BY <1>1, <1>2, <1>3, <1>4, <1>5, <1>10

LEMMA SplitIs ==
  ASSUME NEW o, Small(o), NEW cs, Formed(o, cs), NEW i \in 0..Len(Flat(o, cs, Len(cs))),
         NEW k \in Nat, k = FindChunk(cs, i), NEW at \in Nat, at = OffsetIn(cs, i)
  PROVE  \E h1, h2 \in Chunks : /\ Splits(cs, k, h1, h2, Split(cs, i))
                                /\ Halved(o, cs[k], at, h1, h2)
<1>1. cs \in Rows
  BY DEF Formed, Rows
<1>2. PICK N \in Nat : N = Len(cs) /\ k \in 1..N
  BY <1>1, RowLen, FindChunkIs
<1>3. at \in Nat /\ at < cs[k].length /\ (k = N => at <= Len(o) - cs[N].start)
  BY <1>2, FindChunkIs
<1>4. cs[k] \in Chunks
  BY <1>1, <1>2, ElementOfSeq DEF Rows
<1>5. Good(o, cs[k]) \/ (Open(o, cs[k]) /\ at <= Len(o) - cs[k].start)
  <2>1. k = N \/ k \in 1..N - 1
    BY <1>2
  <2> QED BY <1>2, <1>3, <2>1 DEF Formed
<1>6. PICK h1 \in Chunks, h2 \in Chunks : Halves(cs[k], at) = <<h1, h2>> /\ Halved(o, cs[k], at, h1, h2)
  BY <1>3, <1>4, <1>5, HalvesAre
<1>7. PICK m \in 1..N : m = k
  BY <1>2
<1>8. Splits(cs, m, h1, h2, Cat(Cat(Part(cs, 1, m - 1), <<h1, h2>>), Part(cs, m + 1, N)))
  BY <1>1, <1>2, SplitJoined
<1>9. Split(cs, i) = Cat(Cat(Part(cs, 1, m - 1), <<h1, h2>>), Part(cs, m + 1, N))
  BY <1>2, <1>6, <1>7 DEF Split, Part, Cat
<1> QED BY <1>6, <1>7, <1>8, <1>9

LEMMA HalvedBefore ==
  ASSUME NEW o, Small(o), NEW c \in Chunks, NEW at \in Nat, at < c.length,
         NEW h1, NEW h2, Halved(o, c, at, h1, h2)
  PROVE  /\ Before(h1, h2)
         /\ \A d \in Chunks : Before(d, c) => Before(d, h1) /\ Before(d, h2)
         /\ Good(o, c) => \A d \in Chunks : Before(c, d) => Before(h1, d) /\ Before(h2, d)
<1>1. CASE c.type # "copy"
  BY <1>1 DEF Halved, Before
<1>2. CASE c.type = "copy"
  <2>1. PICK s \in Nat, k \in Nat, e \in Nat : s = c.start /\ k = c.length /\ e = s + at
    BY ChunkType
  <2>2. at < k
    BY <2>1
  <2>3. h1.start = s /\ h1.length = at /\ h2.start = e /\ (Good(o, c) => h2.length = k - at)
    BY <1>2, <2>1 DEF Halved
  <2>4. Before(h1, h2)
    <3>1. s + at <= e
      BY <2>1
    <3> QED BY <2>3, <3>1 DEF Before
  <2>5. ASSUME NEW d \in Chunks, Before(d, c) PROVE Before(d, h1) /\ Before(d, h2)
    <3>1. CASE d.type # "copy"
      BY <3>1 DEF Before
    <3>2. CASE d.type = "copy"
      <4>1. PICK x \in Nat, y \in Nat : x = d.start /\ y = d.length
        BY ChunkType
      <4>2. x + y <= s
        BY <1>2, <2>1, <2>5, <3>2, <4>1 DEF Before
      <4>3. x + y <= e
        BY <2>1, <4>2
      <4> QED BY <2>3, <4>1, <4>2, <4>3 DEF Before
    <3> QED BY <3>1, <3>2
  <2>6. ASSUME Good(o, c), NEW d \in Chunks, Before(c, d) PROVE Before(h1, d) /\ Before(h2, d)
    <3>1. CASE d.type # "copy"
      BY <3>1 DEF Before
    <3>2. CASE d.type = "copy"
      <4>1. PICK x \in Nat : x = d.start
        BY ChunkType
      <4>2. s + k <= x
        BY <1>2, <2>1, <2>6, <3>2, <4>1 DEF Before
      <4>3. s + at <= x /\ e + (k - at) <= x
        BY <2>1, <2>2, <4>2
      <4> QED BY <2>3, <2>6, <4>1, <4>3 DEF Before
    <3> QED BY <3>1, <3>2
  <2> QED BY <2>4, <2>5, <2>6
<1> QED BY <1>1, <1>2

LEMMA FormedSplit ==
  ASSUME NEW o, Small(o), NEW cs, Formed(o, cs), NEW k \in 1..Len(cs),
         NEW at \in Nat, at < cs[k].length, NEW h1, NEW h2, Halved(o, cs[k], at, h1, h2),
         NEW sp, Splits(cs, k, h1, h2, sp)
  PROVE  Formed(o, sp)
<1>1. cs \in Rows /\ sp \in Rows
  BY DEF Formed, Rows, Splits
<1>2. PICK N \in Nat : N = Len(cs)
  BY <1>1, RowLen
<1>3. k \in 1..N /\ Len(sp) = N + 1 /\ h1 \in Chunks /\ h2 \in Chunks
  BY <1>2 DEF Splits, Halved
<1>4. \A x \in 1..N : cs[x] \in Chunks
  BY <1>1, <1>2, ElementOfSeq DEF Rows
<1>5. /\ \A x \in 1..k - 1 : sp[x] = cs[x]
      /\ sp[k] = h1 /\ sp[k + 1] = h2
      /\ \A x \in k + 1..N : sp[x + 1] = cs[x]
  BY <1>2 DEF Splits
<1>6. ASSUME NEW y \in 1..N + 1
      PROVE  \/ y \in 1..k - 1 /\ sp[y] = cs[y]
             \/ y = k /\ sp[y] = h1
             \/ y = k + 1 /\ sp[y] = h2
             \/ y - 1 \in k + 1..N /\ y - 1 \in 1..N /\ sp[y] = cs[y - 1]
  <2>1. y \in 1..k - 1 \/ y = k \/ y = k + 1 \/ y - 1 \in k + 1..N
    BY <1>3
  <2>2. CASE y - 1 \in k + 1..N
    <3>1. PICK x \in k + 1..N : x = y - 1
      BY <2>2
    <3>2. y = x + 1 /\ x \in 1..N
      BY <1>3, <3>1
    <3> QED BY <1>5, <2>2, <3>1, <3>2
  <2> QED BY <1>5, <2>1, <2>2
<1>7. /\ cs[1].type = "copy" /\ cs[1].start = 0
      /\ \A x \in 1..N - 1 : Good(o, cs[x])
      /\ Open(o, cs[N])
      /\ \A a, b \in 1..N : a < b => Before(cs[a], cs[b])
  BY <1>2 DEF Formed
<1>8. sp[1].type = "copy" /\ sp[1].start = 0
  <2>1. CASE k = 1
    BY <1>5, <1>7, <2>1 DEF Halved
  <2>2. CASE k # 1
    <3>1. 1 \in 1..k - 1
      BY <2>2
    <3> QED BY <1>5, <1>7, <3>1
  <2> QED BY <2>1, <2>2
<1>9. Open(o, sp[N + 1])
  <2>1. CASE k = N
    BY <1>5, <1>7, <2>1 DEF Halved
  <2>2. CASE k # N
    <3>1. N \in k + 1..N
      BY <1>3, <2>2
    <3> QED BY <1>5, <1>7, <3>1
  <2> QED BY <2>1, <2>2
<1>10. ASSUME NEW y \in 1..N PROVE Good(o, sp[y])
  <2>1. CASE y \in 1..k - 1
    <3>1. y \in 1..N - 1
      BY <1>3, <2>1
    <3> QED BY <1>5, <1>7, <2>1, <3>1
  <2>2. CASE y = k
    BY <1>5, <2>2 DEF Halved
  <2>3. CASE y = k + 1
    <3>1. k \in 1..N - 1
      BY <2>3
    <3> QED BY <1>5, <1>7, <2>3, <3>1 DEF Halved
  <2>4. CASE y - 1 \in k + 1..N /\ sp[y] = cs[y - 1]
    <3>1. y - 1 \in 1..N - 1
      BY <1>3, <2>4
    <3> QED BY <1>7, <2>4, <3>1
  <2>5. y \in 1..N + 1
    OBVIOUS
  <2> QED BY <1>6, <2>1, <2>2, <2>3, <2>4, <2>5
<1>11. /\ Before(h1, h2)
       /\ \A d \in Chunks : Before(d, cs[k]) => Before(d, h1) /\ Before(d, h2)
       /\ Good(o, cs[k]) => \A d \in Chunks : Before(cs[k], d) => Before(h1, d) /\ Before(h2, d)
  BY <1>3, <1>4, HalvedBefore
<1>12. ASSUME NEW a \in 1..N + 1, NEW b \in 1..N + 1, a < b PROVE Before(sp[a], sp[b])
  <2>1. CASE b \in 1..k - 1
    <3>1. a \in 1..k - 1 /\ a \in 1..N /\ b \in 1..N
      BY <1>3, <1>12, <2>1
    <3> QED BY <1>5, <1>7, <1>12, <2>1, <3>1
  <2>2. CASE b = k \/ b = k + 1
    <3>1. CASE a \in 1..k - 1
      <4>1. a \in 1..N /\ a < k
        BY <1>3, <3>1
      <4>2. Before(cs[a], cs[k]) /\ cs[a] \in Chunks /\ sp[a] = cs[a]
        BY <1>3, <1>4, <1>5, <1>7, <3>1, <4>1
      <4> QED BY <1>5, <1>11, <2>2, <4>2
    <3>2. CASE a \notin 1..k - 1
      <4>1. a = k /\ b = k + 1
        BY <1>12, <2>2, <3>2
      <4> QED BY <1>5, <1>11, <4>1
    <3> QED BY <3>1, <3>2
  <2>3. CASE b - 1 \in k + 1..N /\ sp[b] = cs[b - 1]
    <3>1. PICK x \in k + 1..N : x = b - 1
      BY <2>3
    <3>2. x \in 1..N /\ sp[b] = cs[x] /\ cs[x] \in Chunks /\ k < x
      BY <1>3, <1>4, <2>3, <3>1
    <3>3. CASE a \in 1..k - 1
      <4>1. a \in 1..N /\ a < x
        BY <1>3, <3>2, <3>3
      <4> QED BY <1>5, <1>7, <3>2, <3>3, <4>1
    <3>4. CASE a = k \/ a = k + 1
      <4>1. k \in 1..N - 1
        BY <1>3, <3>2
      <4>2. Good(o, cs[k]) /\ Before(cs[k], cs[x])
        BY <1>3, <1>7, <3>2, <4>1
      <4> QED BY <1>5, <1>11, <3>2, <3>4, <4>2
    <3>5. CASE a - 1 \in k + 1..N /\ a - 1 \in 1..N /\ sp[a] = cs[a - 1]
      <4>1. PICK y \in 1..N : y = a - 1
        BY <3>5
      <4>2. y < x /\ sp[a] = cs[y]
        BY <1>12, <3>1, <3>5, <4>1
      <4> QED BY <1>7, <3>2, <4>2
    <3> QED BY <1>6, <3>3, <3>4, <3>5
  <2> QED BY <1>6, <2>1, <2>2, <2>3
<1>13. Len(sp) >= 1 /\ Len(sp) - 1 = N
  BY <1>3
<1> QED BY <1>1, <1>3, <1>8, <1>9, <1>10, <1>12, <1>13 DEF Formed, Rows

LEMMA FlatPrefix ==
  ASSUME NEW o \in Texts, NEW cs \in Seq(Chunks), NEW a \in Nat, NEW b \in Nat, a <= b, b <= Len(cs)
  PROVE  \E r \in Texts : Flat(o, cs, b) = Cat(Flat(o, cs, a), r)
<1>1. PICK m \in Nat : m = b - a /\ a + m = b
  OBVIOUS
<1>2. Alike(cs, a, cs, a, m)
  BY DEF Alike
<1>3. a + m <= Len(cs)
  BY <1>1
<1>4. Shared(o, cs, a, a + m, cs, a, a + m)
  BY <1>2, <1>3, FlatShift
<1> QED BY <1>1, <1>4, Zenon DEF Shared

SameLater(o, cs, k, sp) ==
  \A n, x \in Nat : k <= n /\ n <= Len(cs) /\ x = n + 1 => Flat(o, sp, x) = Flat(o, cs, n)

LEMMA SplitFlat ==
  ASSUME NEW o, Small(o), NEW cs, Formed(o, cs), NEW k \in 1..Len(cs), NEW p \in Nat, p = k - 1,
         NEW at \in Nat, NEW h1, NEW h2, Halved(o, cs[k], at, h1, h2),
         NEW sp, Splits(cs, k, h1, h2, sp)
  PROVE  /\ \A n \in 0..p : Flat(o, sp, n) = Flat(o, cs, n)
         /\ Flat(o, sp, k) = Cat(Flat(o, cs, p), Content(o, h1))
         /\ SameLater(o, cs, k, sp)
         /\ Flat(o, sp, Len(sp)) = Flat(o, cs, Len(cs))
<1>0. o \in Texts /\ cs \in Seq(Chunks) /\ sp \in Seq(Chunks)
  BY DEF Small, Formed, Splits, Rows
<1>1. Len(cs) \in Nat /\ Len(sp) = Len(cs) + 1
  BY <1>0 DEF Splits
<1>2. ASSUME NEW n \in 0..p PROVE Flat(o, sp, n) = Flat(o, cs, n)
  <2>1. n \in Nat /\ n <= Len(cs) /\ n <= Len(sp)
    BY <1>1
  <2>2. \A x \in 1..n : sp[x] = cs[x]
    BY DEF Splits
  <2> QED BY <1>0, <2>1, <2>2, FlatSame
<1>3. k \in Nat /\ k = p + 1 /\ k + 1 \in Nat /\ k <= Len(cs) /\ k <= Len(sp) /\ k + 1 <= Len(sp)
  BY <1>1
<1>4. /\ Flat(o, sp, k) = Cat(Flat(o, sp, p), Content(o, sp[k]))
      /\ Flat(o, sp, k + 1) = Cat(Flat(o, sp, k), Content(o, sp[k + 1]))
      /\ Flat(o, cs, k) = Cat(Flat(o, cs, p), Content(o, cs[k]))
      /\ Flat(o, cs, p) \in Texts /\ Content(o, sp[k]) \in Texts /\ Content(o, sp[k + 1]) \in Texts
  <2>1. Flat(o, sp, k) = Cat(Flat(o, sp, p), Content(o, sp[k])) /\ Content(o, sp[k]) \in Texts
    BY <1>0, <1>3, FlatNext
  <2>2. /\ Flat(o, sp, k + 1) = Cat(Flat(o, sp, k), Content(o, sp[k + 1]))
        /\ Content(o, sp[k + 1]) \in Texts
    BY <1>0, <1>3, FlatNext
  <2>3. Flat(o, cs, k) = Cat(Flat(o, cs, p), Content(o, cs[k])) /\ Flat(o, cs, p) \in Texts
    BY <1>0, <1>3, FlatNext
  <2> QED BY <2>1, <2>2, <2>3
<1>5. sp[k] = h1 /\ sp[k + 1] = h2 /\ Flat(o, sp, p) = Flat(o, cs, p)
  <2>1. p \in 0..p
    OBVIOUS
  <2> QED BY <1>2, <2>1 DEF Splits
<1>6. Flat(o, sp, k + 1) = Flat(o, cs, k)
  <2>1. Content(o, cs[k]) = Cat(Content(o, h1), Content(o, h2))
    BY DEF Halved
  <2> QED BY <1>4, <1>5, <2>1, CatAssoc
<1>7. ASSUME NEW n \in Nat, NEW z \in Nat, k <= n, n <= Len(cs), z = n + 1
      PROVE  Flat(o, sp, z) = Flat(o, cs, n)
  <2>1. PICK m \in Nat : m = n - k
    BY <1>3, <1>7
  <2>2. k + m = n /\ k + 1 + m = z /\ n <= Len(cs) /\ z <= Len(sp)
    BY <1>1, <1>3, <1>7, <2>1
  <2>3. ASSUME NEW x \in 1..m PROVE cs[k + x] = sp[k + 1 + x]
    <3>1. k + x \in k + 1..Len(cs) /\ k + x + 1 = k + 1 + x
      BY <1>1, <1>3, <1>7, <2>1
    <3> QED BY <3>1 DEF Splits
  <2>4. Alike(cs, k, sp, k + 1, m)
    BY <2>3 DEF Alike
  <2>5. Shared(o, cs, k, k + m, sp, k + 1, k + 1 + m)
    BY <1>0, <1>3, <2>2, <2>4, FlatShift
  <2>6. Shared(o, cs, k, n, sp, k + 1, z)
    BY <2>2, <2>5
  <2> QED BY <1>6, <2>6, Zenon DEF Shared
<1>8. Flat(o, sp, Len(sp)) = Flat(o, cs, Len(cs))
  BY <1>1, <1>3, <1>7
<1> QED BY <1>2, <1>4, <1>5, <1>7, <1>8 DEF SameLater

(* Chunk k of sp ends at i of the text, which is still the text of all.     *)
Parted(o, cs, i, k, at, h1, h2, sp) ==
  /\ k \in 1..Len(cs) /\ at \in Nat /\ at < cs[k].length
  /\ Splits(cs, k, h1, h2, sp) /\ Halved(o, cs[k], at, h1, h2)
  /\ h1 \in Chunks /\ h2 \in Chunks
  /\ Formed(o, sp) /\ Flat(o, sp, Len(sp)) = Flat(o, cs, Len(cs))
  /\ Flat(o, sp, k) = Take(Flat(o, cs, Len(cs)), i)
  /\ LengthOf(sp, k) = i /\ LengthOf(cs, k - 1) + at = i
  /\ \A n \in 0..k - 1 : Flat(o, sp, n) = Flat(o, cs, n)
  /\ SameLater(o, cs, k, sp)

LEMMA SplitParts ==
  ASSUME NEW o, Small(o), NEW cs, Formed(o, cs), NEW i \in 0..Len(Flat(o, cs, Len(cs)))
  PROVE  \E k, at, h1, h2 : /\ Parted(o, cs, i, k, at, h1, h2, Split(cs, i))
                            /\ k = FindChunk(cs, i) /\ at = OffsetIn(cs, i)
<1>1. PICK k \in Nat, at \in Nat, p \in Nat : k = FindChunk(cs, i) /\ at = OffsetIn(cs, i) /\ p = k - 1
  <2>0. Len(cs) \in Nat
    BY DEF Formed
  <2>1. FindChunk(cs, i) \in 1..Len(cs) /\ OffsetIn(cs, i) \in Nat
    BY FindChunkIs
  <2>2. FindChunk(cs, i) \in Nat /\ FindChunk(cs, i) - 1 \in Nat
    BY <2>0, <2>1
  <2> QED BY <2>1, <2>2, Zenon
<1>2. k \in 1..Len(cs) /\ at < cs[k].length /\ LengthOf(cs, p) \in Nat
  BY <1>1, FindChunkIs
<1>3. LengthOf(cs, p) + at = i
  <2>1. PICK x \in Nat : x = LengthOf(cs, p)
    BY <1>2
  <2>2. at = i - x
    BY <1>1, <2>1 DEF OffsetIn
  <2>3. i \in Int
    <3>1. o \in Texts /\ cs \in Seq(Chunks) /\ Len(cs) \in 0..Len(cs)
      BY DEF Small, Formed
    <3>2. Flat(o, cs, Len(cs)) \in Texts
      BY <3>1, FlatIs, Zenon
    <3> QED BY <3>2, LenType
  <2> QED BY <2>1, <2>2, <2>3
<1>4. PICK h1 \in Chunks, h2 \in Chunks : /\ Splits(cs, k, h1, h2, Split(cs, i))
                                          /\ Halved(o, cs[k], at, h1, h2)
  BY <1>1, SplitIs
<1>5. PICK sp : sp = Split(cs, i)
  OBVIOUS
<1>6. Formed(o, sp)
  BY <1>2, <1>4, <1>5, FormedSplit
<1>7. /\ \A n \in 0..p : Flat(o, sp, n) = Flat(o, cs, n)
      /\ Flat(o, sp, k) = Cat(Flat(o, cs, p), Content(o, h1))
      /\ SameLater(o, cs, k, sp)
      /\ Flat(o, sp, Len(sp)) = Flat(o, cs, Len(cs))
  BY <1>1, <1>2, <1>4, <1>5, SplitFlat
<1>8. o \in Texts /\ cs \in Seq(Chunks) /\ sp \in Seq(Chunks) /\ Len(sp) = Len(cs) + 1 /\ Len(cs) \in Nat
  BY <1>4, <1>5 DEF Small, Formed, Splits, Rows
<1>9. Len(Flat(o, sp, k)) = i
  <2>1. p \in 0..Len(cs) - 1 /\ p \in 0..Len(cs)
    BY <1>1, <1>2, <1>8
  <2>2. Len(Flat(o, cs, p)) = LengthOf(cs, p) /\ Flat(o, cs, p) \in Texts
    BY <1>8, <2>1, FlatLength, FlatIs
  <2>3. Len(Content(o, h1)) = at /\ Content(o, h1) \in Texts
    BY <1>4, <1>8, ContentType DEF Halved
  <2> QED BY <1>3, <1>7, <2>2, <2>3, CatType
<1>10. Flat(o, sp, k) = Take(Flat(o, cs, Len(cs)), i)
  <2>1. k <= Len(sp) /\ k \in 0..Len(sp) /\ Len(sp) \in Nat
    BY <1>2, <1>8
  <2>2. PICK r \in Texts : Flat(o, sp, Len(sp)) = Cat(Flat(o, sp, k), r)
    BY <1>8, <2>1, FlatPrefix
  <2>3. Flat(o, sp, k) \in Texts
    BY <1>8, <2>1, FlatIs
  <2> QED BY <1>7, <1>9, <2>2, <2>3, Cut
<1>11. LengthOf(sp, k) = i
  <2>1. k \in 0..Len(sp) - 1
    BY <1>2, <1>8
  <2> QED BY <1>6, <1>9, <2>1, FlatLength
<1>12. Parted(o, cs, i, k, at, h1, h2, sp)
  BY <1>1, <1>2, <1>3, <1>4, <1>5, <1>6, <1>7, <1>10, <1>11 DEF Parted
<1> QED BY <1>1, <1>5, <1>12

-----------------------------------------------------------------------------
(* applyInsert and applyDelete: q in place of chunks k + 1 to m of sp. *)

Spliced(sp, k, m, q, b, n, new) ==
  /\ new \in Rows /\ Len(new) = k + b + n
  /\ \A x \in 1..k : new[x] = sp[x]
  /\ \A x \in 1..b : new[k + x] = q[x]
  /\ \A x \in 1..n : new[k + b + x] = sp[m + x]

LEMMA SplicedIs ==
  ASSUME NEW sp \in Rows, NEW N \in Nat, N = Len(sp), NEW k \in 1..N, NEW m \in k..N,
         NEW q \in Rows, NEW b \in Nat, b = Len(q), NEW n \in Nat, n + m = N
  PROVE  Spliced(sp, k, m, q, b, n, Cat(Cat(Part(sp, 1, k), q), Part(sp, m + 1, N)))
<1>1. PICK p \in Rows : p = Part(sp, 1, k) /\ Len(p) = k /\ \A x \in 1..k : p[x] = sp[x]
  <2>1. /\ Part(sp, 1, k) \in Rows /\ Len(Part(sp, 1, k)) = k + 1 - 1
        /\ \A x \in 1..k + 1 - 1 : Part(sp, 1, k)[x] = sp[1 + x - 1]
    <3>1. 1 \in Nat /\ k \in Nat /\ 1 <= 1 /\ 1 <= k + 1 /\ k <= Len(sp)
      OBVIOUS
    <3> QED BY <3>1, RowsPart, ZenonT(40) DEF IsPart
  <2>2. k + 1 - 1 = k /\ \A x \in 1..k : 1 + x - 1 = x
    OBVIOUS
  <2> QED BY <2>1, <2>2
<1>2. PICK r \in Rows : r = Part(sp, m + 1, N) /\ Len(r) = n /\ \A x \in 1..n : r[x] = sp[m + x]
  <2>0. PICK c \in Nat : c = m + 1 /\ 1 <= c /\ c <= N + 1 /\ N + 1 - c = n
    OBVIOUS
  <2>1. c <= N + 1 /\ N <= Len(sp)
    BY <2>0
  <2>2. IsPart(sp, c, N, Part(sp, c, N))
    BY <2>0, <2>1, RowsPart
  <2>3. \A x \in 1..n : c + x - 1 = m + x
    BY <2>0
  <2> QED BY <2>0, <2>2, <2>3 DEF IsPart
<1>3. k \in Nat /\ Threefold(p, k, q, b, r, n, Cat(Cat(p, q), r))
  BY <1>1, <1>2, Joined
<1> QED BY <1>1, <1>2, <1>3, ZenonT(40) DEF Threefold, Spliced

(* Where the chunks of the result are from. *)
From(sp, N, k, m, q, b, new, y) ==
  \/ y \in 1..k /\ new[y] = sp[y]
  \/ \E x \in 1..b : y = k + x /\ new[y] = q[x]
  \/ \E x \in m + 1..N : y > k + b /\ x - m = y - (k + b) /\ new[y] = sp[x]

LEMMA SplicedFrom ==
  ASSUME NEW sp, NEW N \in Nat, NEW k \in 1..N, NEW m \in k..N, NEW q, NEW b \in Nat,
         NEW n \in Nat, n + m = N, NEW new, Spliced(sp, k, m, q, b, n, new),
         NEW y \in 1..k + b + n
  PROVE  From(sp, N, k, m, q, b, new, y)
<1> SUFFICES \/ y \in 1..k /\ new[y] = sp[y]
             \/ \E x \in 1..b : y = k + x /\ new[y] = q[x]
             \/ \E x \in m + 1..N : y > k + b /\ x - m = y - (k + b) /\ new[y] = sp[x]
  BY DEF From
<1>1. CASE y \in 1..k
  BY <1>1 DEF Spliced
<1>2. CASE y > k /\ y <= k + b
  <2>1. PICK x \in 1..b : y = k + x
    <3>1. y - k \in 1..b /\ y = k + (y - k)
      BY <1>2
    <3> QED BY <3>1
  <2> QED BY <2>1 DEF Spliced
<1>3. CASE y > k + b
  <2>1. PICK x \in 1..n : y = k + b + x
    <3>1. y - (k + b) \in 1..n /\ y = k + b + (y - (k + b))
      BY <1>3
    <3> QED BY <3>1
  <2>2. PICK z \in m + 1..N : z = m + x
    OBVIOUS
  <2>3. new[y] = sp[z]
    BY <2>1, <2>2 DEF Spliced
  <2>4. z - m = y - (k + b)
    BY <2>1, <2>2
  <2> QED BY <1>3, <2>3, <2>4
<1> QED BY <1>1, <1>2, <1>3

LEMMA FormedSpliced ==
  ASSUME NEW o, NEW sp, Formed(o, sp), NEW N \in Nat, N = Len(sp), NEW k \in 1..N,
         NEW m \in k..N - 1, NEW q \in Rows, NEW b \in Nat, b = Len(q), NEW n \in Nat, n + m = N,
         \A x \in 1..b : q[x].type = "insert" /\ Good(o, q[x]),
         NEW new, Spliced(sp, k, m, q, b, n, new)
  PROVE  Formed(o, new)
<1>1. /\ sp[1].type = "copy" /\ sp[1].start = 0
      /\ \A x \in 1..N - 1 : Good(o, sp[x])
      /\ Open(o, sp[N])
      /\ \A x, y \in 1..N : x < y => Before(sp[x], sp[y])
  BY DEF Formed
<1>2. PICK L \in Nat : L = k + b + n /\ L >= 1 /\ Len(new) = L
  <2>1. k + b + n \in Nat /\ k + b + n >= 1
    OBVIOUS
  <2> QED BY <2>1 DEF Spliced
<1>3. new[1].type = "copy" /\ new[1].start = 0
  BY <1>1 DEF Spliced
<1>4. Open(o, new[L])
  <2>1. n \in 1..n /\ m + n = N
    OBVIOUS
  <2>2. new[k + b + n] = sp[m + n]
    BY <2>1 DEF Spliced
  <2> QED BY <1>1, <1>2, <2>1, <2>2
<1>5. ASSUME NEW y \in 1..L PROVE \/ y \in 1..k /\ new[y] = sp[y]
                                  \/ \E x \in 1..b : y = k + x /\ new[y] = q[x]
                                  \/ \E x \in m + 1..N : y > k + b /\ x - m = y - (k + b) /\ new[y] = sp[x]
  <2>1. y \in 1..k + b + n /\ m \in k..N
    BY <1>2
  <2>2. From(sp, N, k, m, q, b, new, y)
    BY <2>1, SplicedFrom
  <2> QED BY <2>2 DEF From
<1>6. ASSUME NEW y \in 1..L - 1 PROVE Good(o, new[y])
  <2>0. y \in 1..L
    BY <1>2
  <2>1. CASE y \in 1..k /\ new[y] = sp[y]
    BY <1>1, <2>1
  <2>2. CASE \E x \in 1..b : y = k + x /\ new[y] = q[x]
    BY <2>2
  <2>3. ASSUME NEW x \in m + 1..N, y > k + b, x - m = y - (k + b), new[y] = sp[x] PROVE Good(o, new[y])
    <3>a. y \in Int /\ x \in Int
      OBVIOUS
    <3>b. y <= k + b + n - 1
      BY <1>2, <3>a
    <3>c. x >= 1
      OBVIOUS
    <3>1. y \in Int /\ x \in Int /\ y <= k + b + n - 1 /\ x - m = y - (k + b) /\ x >= 1
      BY <2>3, <3>a, <3>b, <3>c
    <3>2. x <= n + m - 1
      BY <3>1
    <3>3. x \in 1..N - 1
      BY <3>1, <3>2
    <3> QED BY <1>1, <2>3, <3>3
  <2> QED BY <1>5, <2>0, <2>1, <2>2, <2>3
<1>7. ASSUME NEW y \in 1..L, NEW z \in 1..L, y < z PROVE Before(new[y], new[z])
  <2>1. ASSUME NEW x \in 1..b, new[y] = q[x] \/ new[z] = q[x] PROVE Before(new[y], new[z])
    BY <2>1 DEF Before
  <2>2. CASE y \in 1..k /\ new[y] = sp[y]
    <3>1. CASE z \in 1..k /\ new[z] = sp[z]
      BY <1>1, <1>7, <2>2, <3>1
    <3>2. ASSUME NEW x \in m + 1..N, new[z] = sp[x] PROVE Before(new[y], new[z])
      <4>1. y \in 1..N /\ x \in 1..N /\ y < x
        BY <2>2
      <4> QED BY <1>1, <2>2, <3>2, <4>1
    <3> QED BY <1>5, <2>1, <3>1, <3>2
  <2>3. ASSUME NEW x \in m + 1..N, y > k + b, x - m = y - (k + b), new[y] = sp[x]
        PROVE  Before(new[y], new[z])
    <3>1. CASE z \in 1..k
      BY <1>7, <2>3, <3>1
    <3>2. ASSUME NEW w \in m + 1..N, w - m = z - (k + b), new[z] = sp[w] PROVE Before(new[y], new[z])
      <4>1. w \in 1..N /\ x \in 1..N /\ x < w
        BY <1>7, <2>3, <3>2
      <4> QED BY <1>1, <2>3, <3>2, <4>1
    <3> QED BY <1>5, <2>1, <3>1, <3>2
  <2> QED BY <1>5, <2>1, <2>2, <2>3
<1>8. new \in Seq(Chunks)
  BY DEF Spliced, Rows
<1> QED BY <1>2, <1>3, <1>4, <1>6, <1>7, <1>8 DEF Formed

SameStart(o, cs, k, ds) == \A x \in 0..k : Flat(o, ds, x) = Flat(o, cs, x)

(* The text of the first k chunks of sp, of q, and of sp from m + 1 on. *)
LEMMA SplicedFlat ==
  ASSUME NEW o \in Texts, NEW sp \in Rows, NEW N \in Nat, N = Len(sp), NEW k \in 1..N,
         NEW m \in k..N, NEW q, NEW b \in Nat, NEW n \in Nat, n + m = N,
         NEW new, Spliced(sp, k, m, q, b, n, new)
  PROVE  /\ SameStart(o, sp, k, new)
         /\ \A x \in 0..n : Shared(o, sp, m, m + x, new, k + b, k + b + x)
<1>1. sp \in Seq(Chunks) /\ new \in Seq(Chunks) /\ Len(new) = k + b + n
  BY DEF Rows, Spliced
<1>2. ASSUME NEW x \in 0..k PROVE Flat(o, new, x) = Flat(o, sp, x)
  <2>1. x \in Nat /\ x <= Len(new) /\ x <= Len(sp) /\ \A y \in 1..x : y \in 1..k
    BY <1>1
  <2>2. \A y \in 1..x : new[y] = sp[y]
    BY <2>1 DEF Spliced
  <2> QED BY <1>1, <2>1, <2>2, FlatSame
<1>3. ASSUME NEW x \in 0..n PROVE Shared(o, sp, m, m + x, new, k + b, k + b + x)
  <2>1. PICK c \in Nat : c = k + b
    OBVIOUS
  <2>2. x \in Nat /\ m \in Nat /\ m + x <= Len(sp) /\ c + x <= Len(new)
    BY <1>1, <2>1
  <2>3. ASSUME NEW y \in 1..x PROVE sp[m + y] = new[c + y]
    <3>1. y \in 1..n
      OBVIOUS
    <3>2. new[k + b + y] = sp[m + y]
      BY <3>1 DEF Spliced
    <3> QED BY <2>1, <3>2
  <2>4. Alike(sp, m, new, c, x)
    BY <2>3 DEF Alike
  <2>5. Shared(o, sp, m, m + x, new, c, c + x)
    BY <1>1, <2>1, <2>2, <2>4, FlatShift
  <2> QED BY <2>1, <2>5
<1> QED BY <1>2, <1>3 DEF SameStart

Rest(o, new, c, t, j) ==
  /\ Flat(o, new, Len(new)) = Cat(Flat(o, new, c), Drop(t, j))
  /\ c <= Len(new)

(* What follows q is the rest of the text. *)
LEMMA SplicedRest ==
  ASSUME NEW o \in Texts, NEW sp \in Rows, NEW N \in Nat, N = Len(sp), NEW k \in 1..N,
         NEW m \in k..N, NEW q, NEW b \in Nat, NEW n \in Nat, n + m = N,
         NEW new, Spliced(sp, k, m, q, b, n, new),
         NEW t \in Texts, t = Flat(o, sp, N), NEW j \in 0..Len(t), Flat(o, sp, m) = Take(t, j),
         NEW c \in Nat, c = k + b
  PROVE  Rest(o, new, c, t, j)
<1>1. /\ n \in 0..n /\ k + b + n = Len(new) /\ m + n = N /\ c + n = Len(new) /\ c <= Len(new)
  BY DEF Spliced
<1>2. Shared(o, sp, m, m + n, new, k + b, k + b + n)
  BY <1>1, SplicedFlat, Zenon
<1>3. Shared(o, sp, m, N, new, c, Len(new))
  BY <1>1, <1>2
<1>4. PICK r \in Texts : t = Cat(Take(t, j), r) /\ Flat(o, new, Len(new)) = Cat(Flat(o, new, c), r)
  BY <1>3, Zenon DEF Shared
<1>5. r = Drop(t, j)
  <2>1. PICK p \in Texts : p = Take(t, j) /\ Len(p) = j
    BY TakeIs
  <2>2. Drop(Cat(p, r), Len(p)) = r
    BY <2>1, Cut
  <2> QED BY <1>4, <2>1, <2>2
<1> QED BY <1>1, <1>4, <1>5 DEF Rest

Inserted(o, cs, i, s, k, at, h1, h2, sp, n, new) ==
  /\ Parted(o, cs, i, k, at, h1, h2, sp) /\ sp \in Rows
  /\ n \in Nat /\ n + k = Len(sp)
  /\ Spliced(sp, k, k, <<Insert(s)>>, 1, n, new)
  /\ Formed(o, new)
  /\ Flat(o, new, k + 1) = Cat(Take(Flat(o, cs, Len(cs)), i), s)
  /\ Flat(o, new, Len(new)) = Cat(Cat(Take(Flat(o, cs, Len(cs)), i), s), Drop(Flat(o, cs, Len(cs)), i))

LEMMA InsertedText ==
  ASSUME NEW o \in Texts, NEW sp \in Rows, NEW N \in Nat, N = Len(sp), NEW k \in 1..N,
         NEW n \in Nat, n + k = N, NEW q \in Rows, Len(q) = 1,
         NEW s, Content(o, q[1]) = s, NEW new, Spliced(sp, k, k, q, 1, n, new),
         NEW t \in Texts, t = Flat(o, sp, N), NEW i \in 0..Len(t), Flat(o, sp, k) = Take(t, i)
  PROVE  /\ Flat(o, new, k + 1) = Cat(Take(t, i), s)
         /\ Flat(o, new, Len(new)) = Cat(Cat(Take(t, i), s), Drop(t, i))
<1>1. PICK c \in Nat : c = k + 1 /\ k \in Nat /\ k \in k..N /\ 1 \in Nat /\ k \in 0..k
  OBVIOUS
<1>2. Rest(o, new, c, t, i)
  BY <1>1, SplicedRest
<1>3. Flat(o, new, k) = Flat(o, sp, k)
  <2>1. SameStart(o, sp, k, new)
    BY <1>1, SplicedFlat
  <2> QED BY <1>1, <2>1 DEF SameStart
<1>4. new[c] = q[1] /\ new \in Seq(Chunks)
  <2>1. new[k + 1] = q[1]
    BY DEF Spliced
  <2> QED BY <1>1, <2>1 DEF Spliced, Rows
<1>5. Flat(o, new, c) = Cat(Flat(o, new, k), Content(o, new[c]))
  BY <1>1, <1>2, <1>4, FlatNext DEF Rest
<1> QED BY <1>1, <1>2, <1>3, <1>4, <1>5 DEF Rest

WithInserted(cs, i, s) ==
  SubSeq(Split(cs, i), 1, FindChunk(cs, i)) \o <<Insert(s)>>
    \o SubSeq(Split(cs, i), FindChunk(cs, i) + 1, Len(cs) + 1)

LEMMA InsertedIs ==
  ASSUME NEW o, Small(o), NEW cs, Formed(o, cs), NEW i \in 0..Len(Flat(o, cs, Len(cs))),
         NEW s \in Texts,
         NEW new, new = WithInserted(cs, i, s)
  PROVE  \E k, at, h1, h2, n : Inserted(o, cs, i, s, k, at, h1, h2, Split(cs, i), n, new)
<1>1. PICK k, at, h1, h2 : /\ Parted(o, cs, i, k, at, h1, h2, Split(cs, i))
                           /\ k = FindChunk(cs, i) /\ at = OffsetIn(cs, i)
  BY SplitParts
<1>2. PICK sp : sp = Split(cs, i)
  OBVIOUS
<1>3. Parted(o, cs, i, k, at, h1, h2, sp)
  BY <1>1, <1>2
<1>4. o \in Texts /\ cs \in Rows /\ sp \in Rows
  BY <1>3 DEF Small, Formed, Parted, Splits, Rows
<1>5. PICK N \in Nat : N = Len(sp)
  BY <1>4, RowLen
<1>6. Len(cs) + 1 = N /\ k \in 1..N - 1 /\ k \in 1..N
  <2>1. Len(cs) \in Nat /\ Len(sp) = Len(cs) + 1 /\ k \in 1..Len(cs)
    BY <1>3, <1>4, RowLen DEF Parted, Splits
  <2> QED BY <1>5, <2>1
<1>7. PICK n \in Nat : n = N - k
  <2>1. N - k \in Nat
    BY <1>6
  <2> QED BY <2>1, Zenon
<1>8. n + k = N /\ k \in k..N /\ k \in k..N - 1
  BY <1>6, <1>7
<1>9. PICK q \in Rows : /\ q = <<Insert(s)>> /\ Len(q) = 1 /\ q[1] = Insert(s)
                        /\ q[1].type = "insert" /\ Good(o, q[1]) /\ Content(o, q[1]) = s
  <2>1. PICK c \in Chunks : c = Insert(s) /\ c.type = "insert" /\ c.length = Len(s) /\ c.text = s
    BY InsertType
  <2>2. <<c>> \in Seq(Chunks) /\ Len(<<c>>) = 1 /\ <<c>>[1] = c
    OBVIOUS
  <2>3. Good(o, c) /\ Content(o, c) = s
    BY <2>1 DEF Good, Content
  <2> QED BY <2>1, <2>2, <2>3 DEF Rows
<1>10. new = Cat(Cat(Part(sp, 1, k), q), Part(sp, k + 1, N))
  BY <1>1, <1>2, <1>6, <1>9, Zenon DEF WithInserted, Cat, Part
<1>11. Spliced(sp, k, k, q, 1, n, new)
  <2>1. 1 \in Nat /\ 1 = Len(q)
    BY <1>9
  <2> QED BY <1>4, <1>5, <1>6, <1>8, <1>9, <1>10, <2>1, SplicedIs, ZenonT(40)
<1>12. Formed(o, new)
  <2>1. \A x \in 1..1 : q[x].type = "insert" /\ Good(o, q[x])
    BY <1>9
  <2>2. 1 \in Nat /\ 1 = Len(q) /\ Formed(o, sp)
    BY <1>3, <1>9 DEF Parted
  <2> QED BY <1>5, <1>6, <1>8, <1>11, <2>1, <2>2, FormedSpliced
<1>13. PICK t \in Texts : t = Flat(o, cs, Len(cs)) /\ i \in 0..Len(t) /\ t = Flat(o, sp, N)
  <2>1. Len(cs) \in 0..Len(cs) /\ cs \in Seq(Chunks)
    BY <1>4, RowLen DEF Rows
  <2>2. Flat(o, cs, Len(cs)) \in Texts
    BY <1>4, <2>1, FlatIs, Zenon
  <2> QED BY <1>3, <1>5, <2>2 DEF Parted
<1>14. Flat(o, sp, k) = Take(t, i)
  BY <1>3, <1>13 DEF Parted
<1>15. /\ Flat(o, new, k + 1) = Cat(Take(t, i), s)
       /\ Flat(o, new, Len(new)) = Cat(Cat(Take(t, i), s), Drop(t, i))
  BY <1>4, <1>5, <1>6, <1>8, <1>9, <1>11, <1>13, <1>14, InsertedText
<1>16. Inserted(o, cs, i, s, k, at, h1, h2, sp, n, new)
  BY <1>3, <1>4, <1>5, <1>8, <1>9, <1>11, <1>12, <1>13, <1>15, Zenon DEF Inserted
<1> QED BY <1>2, <1>16, Zenon

WithDeleted(cs, i, j) ==
  LET ds == Split(cs, i)
      first == FindChunk(cs, i) + 1
      last == FindChunk(ds, j)
  IN SubSeq(Split(ds, j), 1, first - 1) \o SubSeq(Split(ds, j), last + 1, Len(ds) + 1)

(* k < l: the chunk that the deletion ends in is not before the one it begins *)
(* in.                                                                        *)
Deleted(o, cs, i, j, k, at, h1, h2, sp, l, ta, g1, g2, sq, n, new) ==
  /\ Parted(o, cs, i, k, at, h1, h2, sp) /\ Parted(o, sp, j, l, ta, g1, g2, sq)
  /\ sq \in Rows /\ l \in k + 1..Len(sp)
  /\ n \in Nat /\ n + l = Len(sq)
  /\ Spliced(sq, k, l, <<>>, 0, n, new)
  /\ Formed(o, new)
  /\ Flat(o, new, k) = Take(Flat(o, cs, Len(cs)), i)
  /\ Flat(o, new, Len(new)) = Cat(Take(Flat(o, cs, Len(cs)), i), Drop(Flat(o, cs, Len(cs)), j))

(* The chunks of a longer text are not fewer. *)
LEMMA LaterChunk ==
  ASSUME NEW sp \in Rows, NEW k \in 1..Len(sp), NEW l \in 1..Len(sp), NEW i \in Nat, NEW j \in Nat,
         i < j, LengthOf(sp, k) = i, j < LengthOf(sp, l)
  PROVE  l \in k + 1..Len(sp)
<1> SUFFICES ASSUME l <= k PROVE FALSE
  BY RowLen
<1>1. LengthOf(sp, l) <= LengthOf(sp, k)
  <2>1. l \in Nat /\ k \in Nat /\ k <= Len(sp)
    BY RowLen
  <2> QED BY <2>1, LengthGrows DEF Rows
<1>2. LengthOf(sp, l) \in Nat
  <2>1. l \in 0..Len(sp)
    BY RowLen
  <2> QED BY <2>1, LengthIs, Zenon DEF Rows
<1> QED BY <1>1, <1>2

Without(o, new, k, t, i, j) ==
  /\ Flat(o, new, k) = Take(t, i)
  /\ Flat(o, new, Len(new)) = Cat(Take(t, i), Drop(t, j))

LEMMA DeletedText ==
  ASSUME NEW o \in Texts, NEW sq \in Rows, NEW N \in Nat, N = Len(sq), NEW k \in 1..N, NEW l \in k..N,
         NEW n \in Nat, n + l = N, NEW new, NEW q, NEW b \in Nat, b = 0,
         Spliced(sq, k, l, q, b, n, new),
         NEW t \in Texts, t = Flat(o, sq, N), NEW i \in 0..Len(t), NEW j \in 0..Len(t),
         Flat(o, sq, k) = Take(t, i), Flat(o, sq, l) = Take(t, j)
  PROVE  Without(o, new, k, t, i, j)
<1>1. k \in Nat /\ 0 \in Nat /\ k \in 0..k
  OBVIOUS
<1>2. Flat(o, new, Len(new)) = Cat(Flat(o, new, k), Drop(t, j))
  <2>1. PICK c \in Nat : c = k + b /\ c = k
    BY <1>1
  <2>2. Rest(o, new, c, t, j)
    BY <1>1, <2>1, SplicedRest
  <2> QED BY <2>1, <2>2 DEF Rest
<1>3. SameStart(o, sq, k, new)
  BY <1>1, SplicedFlat
<1> QED BY <1>1, <1>2, <1>3 DEF SameStart, Without

LEMMA RowsNothing ==
  /\ <<>> \in Rows /\ Len(<<>>) = 0
  /\ \A p \in Rows : Cat(p, <<>>) = p
BY EmptySeq, ConcatEmptySeq DEF Rows, Cat

AllBut(ds, es, first, last) ==
  SubSeq(es, 1, first - 1) \o SubSeq(es, last + 1, Len(ds) + 1)

LEMMA WithDeletedIs ==
  ASSUME NEW cs, NEW i, NEW j
  PROVE  WithDeleted(cs, i, j) = AllBut(Split(cs, i), Split(Split(cs, i), j), FindChunk(cs, i) + 1,
                                        FindChunk(Split(cs, i), j))
BY DEF WithDeleted, AllBut

LEMMA AllButIs ==
  ASSUME NEW ds, NEW es, NEW first, NEW last
  PROVE  AllBut(ds, es, first, last) = Cat(Part(es, 1, first - 1), Part(es, last + 1, Len(ds) + 1))
BY DEF AllBut, Cat, Part

LEMMA DeletedIs ==
  ASSUME NEW o, Small(o), NEW cs, Formed(o, cs), NEW i \in 0..Len(Flat(o, cs, Len(cs))),
         NEW j \in 0..Len(Flat(o, cs, Len(cs))), i < j,
         NEW new, new = WithDeleted(cs, i, j)
  PROVE  \E k, at, h1, h2, sp, l, ta, g1, g2, sq, n :
            Deleted(o, cs, i, j, k, at, h1, h2, sp, l, ta, g1, g2, sq, n, new)
<1>1. PICK k, at, h1, h2 : /\ Parted(o, cs, i, k, at, h1, h2, Split(cs, i))
                           /\ k = FindChunk(cs, i) /\ at = OffsetIn(cs, i)
  BY SplitParts
<1>2. PICK sp : sp = Split(cs, i)
  OBVIOUS
<1>3. Parted(o, cs, i, k, at, h1, h2, sp)
  BY <1>1, <1>2
<1>4. o \in Texts /\ cs \in Rows /\ sp \in Rows /\ Formed(o, sp)
  BY <1>3 DEF Small, Formed, Parted, Splits, Rows
<1>5. PICK t \in Texts : t = Flat(o, cs, Len(cs)) /\ t = Flat(o, sp, Len(sp)) /\ i \in 0..Len(t) /\ j \in 0..Len(t)
  <2>1. Len(cs) \in 0..Len(cs) /\ cs \in Seq(Chunks)
    BY <1>4, RowLen DEF Rows
  <2>2. Flat(o, cs, Len(cs)) \in Texts
    BY <1>4, <2>1, FlatIs, Zenon
  <2> QED BY <1>3, <2>2 DEF Parted
<1>6. PICK l, ta, g1, g2 : /\ Parted(o, sp, j, l, ta, g1, g2, Split(sp, j))
                           /\ l = FindChunk(sp, j) /\ ta = OffsetIn(sp, j)
  <2>1. j \in 0..Len(Flat(o, sp, Len(sp)))
    BY <1>5
  <2> QED BY <1>4, <2>1, SplitParts
<1>7. PICK sq : sq = Split(sp, j)
  OBVIOUS
<1>8. Parted(o, sp, j, l, ta, g1, g2, sq)
  BY <1>6, <1>7
<1>9. sq \in Rows /\ Formed(o, sq)
  BY <1>8 DEF Parted, Splits
<1>10. PICK N \in Nat : N = Len(sq) /\ N = Len(sp) + 1
  BY <1>8, <1>9, RowLen DEF Parted, Splits
<1>11. PICK a \in 1..N - 1, b \in 1..N - 1 : a = k /\ b = l /\ a \in 1..Len(sp) /\ b \in 1..Len(sp)
  <2>1. Len(cs) \in Nat /\ Len(sp) = Len(cs) + 1 /\ Len(sp) = N - 1 /\ k \in 1..Len(cs) /\ l \in 1..Len(sp)
    BY <1>3, <1>4, <1>8, <1>10, RowLen DEF Parted, Splits
  <2>2. k \in 1..N - 1 /\ l \in 1..N - 1 /\ k \in 1..Len(sp)
    BY <2>1
  <2> QED BY <2>1, <2>2, Zenon
<1>12. b \in a + 1..Len(sp)
  <2>1. i \in Nat /\ j \in Nat
    BY <1>5, LenType
  <2>2. LengthOf(sp, a) = i
    BY <1>3, <1>11 DEF Parted
  <2>3. j < LengthOf(sp, b)
    <3>1. j \in 0..Len(Flat(o, sp, Len(sp)))
      BY <1>5
    <3>2. j < LengthOf(sp, FindChunk(sp, j))
      BY <1>4, <3>1, FindChunkIs, Zenon
    <3> QED BY <1>6, <1>11, <3>2
  <2> QED BY <1>4, <1>11, <2>1, <2>2, <2>3, LaterChunk
<1>13. PICK n \in Nat : n = N - b /\ n + b = N
  <2>1. N - b \in Nat /\ N - b + b = N
    BY <1>11
  <2> QED BY <2>1, Zenon
<1>14. a \in 1..N /\ b \in a..N /\ b \in a..N - 1 /\ a \in 0..b - 1 /\ (a + 1) - 1 = a
  BY <1>10, <1>11, <1>12
<1>15. new = Cat(Cat(Part(sq, 1, a), <<>>), Part(sq, b + 1, N))
  <2>1. Part(sq, 1, a) \in Rows
    <3>1. 1 \in Nat /\ a \in Nat /\ 1 <= 1 /\ 1 <= a + 1 /\ a <= Len(sq)
      BY <1>10, <1>14
    <3> QED BY <1>9, <3>1, RowsPart DEF IsPart
  <2>2. Cat(Part(sq, 1, a), <<>>) = Part(sq, 1, a)
    BY <2>1, RowsNothing
  <2>3. new = Cat(Part(sq, 1, (a + 1) - 1), Part(sq, b + 1, N))
    <3>1. new = AllBut(sp, sq, a + 1, b)
      BY <1>1, <1>2, <1>6, <1>7, <1>11, WithDeletedIs, Zenon
    <3>2. new = Cat(Part(sq, 1, (a + 1) - 1), Part(sq, b + 1, Len(sp) + 1))
      BY <3>1, AllButIs, Zenon
    <3> QED BY <1>10, <3>2, Zenon
  <2> QED BY <1>14, <2>2, <2>3
<1>16. Spliced(sq, a, b, <<>>, 0, n, new)
  <2>1. 0 \in Nat /\ 0 = Len(<<>>) /\ <<>> \in Rows
    BY RowsNothing
  <2> QED BY <1>9, <1>10, <1>13, <1>14, <1>15, <2>1, SplicedIs, Zenon
<1>17. Formed(o, new)
  <2>1. 0 \in Nat /\ 0 = Len(<<>>) /\ <<>> \in Rows /\ \A x \in 1..0 : <<>>[x].type = "insert" /\ Good(o, <<>>[x])
    BY RowsNothing
  <2> QED BY <1>9, <1>10, <1>13, <1>14, <1>16, <2>1, FormedSpliced, ZenonT(40)
<1>18. Flat(o, sq, a) = Take(t, i) /\ Flat(o, sq, b) = Take(t, j) /\ t = Flat(o, sq, N)
  <2>1. Flat(o, sq, a) = Flat(o, sp, a)
    BY <1>8, <1>11, <1>14 DEF Parted
  <2> QED BY <1>3, <1>5, <1>8, <1>10, <1>11, <2>1 DEF Parted
<1>19. Without(o, new, a, t, i, j) /\ 0 \in Nat
  BY <1>4, <1>5, <1>9, <1>10, <1>13, <1>14, <1>16, <1>18, DeletedText
<1>20. Deleted(o, cs, i, j, k, at, h1, h2, sp, l, ta, g1, g2, sq, n, new)
  BY <1>3, <1>5, <1>8, <1>9, <1>10, <1>11, <1>12, <1>13, <1>16, <1>17, <1>19, Zenon DEF Deleted, Without
<1> QED BY <1>20, Zenon

-----------------------------------------------------------------------------
(* Where chunks begin. *)

Place(o, cs, k) == Len(Flat(o, cs, k - 1))
BeginsAt(t, p) == p < Len(t) /\ t[p + 1] > 10 /\ (p = 0 \/ t[p] # t[p + 1] - 1)

NewText(cs) ==
  \A k \in 1..Len(cs) : cs[k].type = "insert" =>
    \A x \in 1..Len(cs[k].text) : cs[k].text[x] > 10

(* Every inserted chunk has a text, which begins there as text that was    *)
(* inserted, unless the place is in E.                                     *)
FreshAt(o, t, cs, k, E) ==
  cs[k].type = "insert" =>
    Len(cs[k].text) > 0 /\ (Place(o, cs, k) \in E \/ BeginsAt(t, Place(o, cs, k)))
Fresh(o, t, cs, E) == \A k \in 1..Len(cs) : FreshAt(o, t, cs, k, E)

(* u is s, of length a, and t, of length b. *)
CatOf(s, a, t, b, u) ==
  /\ a \in Nat /\ b \in Nat /\ Len(s) = a /\ Len(t) = b /\ u \in Texts /\ Len(u) = a + b
  /\ \A x \in 1..a : u[x] = s[x]
  /\ \A x \in 1..b : u[a + x] = t[x]

LEMMA CatLengths ==
  ASSUME NEW s \in Texts, NEW t \in Texts
  PROVE  CatOf(s, Len(s), t, Len(t), Cat(s, t))
<1>1. PICK a \in Nat, b \in Nat : a = Len(s) /\ b = Len(t)
  BY LenType
<1>2. PICK u \in Texts : u = Cat(s, t) /\ Len(u) = a + b
  BY <1>1, CatType
<1>3. \A i \in 1..a + b : u[i] = IF i <= a THEN s[i] ELSE t[i - a]
  BY <1>1, <1>2, CatAt
<1>4. \A x \in 1..a : u[x] = s[x]
  BY <1>3
<1>5. ASSUME NEW x \in 1..b PROVE u[a + x] = t[x]
  <2>1. a + x \in 1..a + b /\ ~(a + x <= a) /\ (a + x) - a = x
    OBVIOUS
  <2> QED BY <1>3, <2>1
<1> QED BY <1>1, <1>2, <1>4, <1>5 DEF CatOf

LEMMA FlatGrows ==
  ASSUME NEW o \in Texts, NEW cs \in Rows, NEW a \in Nat, NEW b \in Nat, a <= b, b <= Len(cs)
  PROVE  /\ Len(Flat(o, cs, a)) \in Nat /\ Len(Flat(o, cs, b)) \in Nat
         /\ Len(Flat(o, cs, a)) <= Len(Flat(o, cs, b))
<1>1. cs \in Seq(Chunks) /\ a \in 0..Len(cs) /\ b \in 0..Len(cs)
  BY RowLen DEF Rows
<1>2. Flat(o, cs, a) \in Texts /\ Flat(o, cs, b) \in Texts
  BY <1>1, FlatIs, Zenon
<1>3. PICK r \in Texts : Flat(o, cs, b) = Cat(Flat(o, cs, a), r)
  BY <1>1, FlatPrefix
<1>4. PICK f \in Texts : f = Flat(o, cs, a)
  BY <1>2
<1>5. Len(Cat(f, r)) = Len(f) + Len(r) /\ Len(f) \in Nat /\ Len(r) \in Nat
  BY CatType, LenType
<1> QED BY <1>2, <1>3, <1>4, <1>5

LEMMA PlaceIs ==
  ASSUME NEW o \in Texts, NEW cs \in Rows, NEW k \in 1..Len(cs)
  PROVE  /\ cs[k] \in Chunks /\ Place(o, cs, k) \in Nat /\ Content(o, cs[k]) \in Texts
         /\ Place(o, cs, k) + Len(Content(o, cs[k])) = Len(Flat(o, cs, k))
<1>1. PICK p \in Nat : p = k - 1 /\ k = p + 1 /\ k \in Nat /\ k <= Len(cs)
  BY RowLen
<1>2. /\ Flat(o, cs, k) = Cat(Flat(o, cs, p), Content(o, cs[k]))
      /\ Flat(o, cs, p) \in Texts /\ Content(o, cs[k]) \in Texts /\ cs[k] \in Chunks
  BY <1>1, FlatNext DEF Rows
<1>3. Place(o, cs, k) = Len(Flat(o, cs, p))
  BY <1>1 DEF Place
<1> QED BY <1>2, <1>3, CatType, LenType

LEMMA InsertedAt ==
  ASSUME NEW o \in Texts, NEW cs \in Rows, NEW k \in 1..Len(cs), cs[k].type = "insert",
         NEW t \in Texts, t = Flat(o, cs, Len(cs)), NEW x \in 1..Len(cs[k].text)
  PROVE  /\ Place(o, cs, k) + x \in 1..Len(t)
         /\ t[Place(o, cs, k) + x] = cs[k].text[x]
<1>1. PICK p \in Nat : p = k - 1 /\ k = p + 1 /\ k \in Nat /\ k <= Len(cs) /\ Len(cs) \in Nat
  BY RowLen
<1>2. PICK f \in Texts, c \in Texts : f = Flat(o, cs, p) /\ c = Content(o, cs[k])
  BY <1>1, FlatNext DEF Rows
<1>3. Flat(o, cs, k) = Cat(f, c)
  BY <1>1, <1>2, FlatNext DEF Rows
<1>4. PICK r \in Texts : t = Cat(Cat(f, c), r)
  <2>1. PICK r \in Texts : Flat(o, cs, Len(cs)) = Cat(Flat(o, cs, k), r)
    BY <1>1, FlatPrefix DEF Rows
  <2> QED BY <1>3, <2>1
<1>5. c = cs[k].text
  BY <1>2 DEF Content
<1>6. PICK a, b : CatOf(f, a, c, b, Cat(f, c)) /\ a = Len(f) /\ b = Len(c)
  BY CatLengths
<1>7. PICK u \in Texts : u = Cat(f, c)
  BY CatType
<1>8. PICK l, d : CatOf(u, l, r, d, t) /\ l = Len(u)
  BY <1>4, <1>7, CatLengths
<1>9. a \in Nat /\ b \in Nat /\ l = a + b /\ d \in Nat /\ Len(t) = l + d
  BY <1>6, <1>7, <1>8 DEF CatOf
<1>10. x \in 1..b /\ a + x \in 1..l /\ a + x \in 1..l + d
  BY <1>5, <1>6, <1>9
<1>11. u[a + x] = c[x] /\ t[a + x] = u[a + x]
  BY <1>6, <1>7, <1>8, <1>10 DEF CatOf
<1>12. Place(o, cs, k) = a
  BY <1>1, <1>2, <1>6 DEF Place
<1> QED BY <1>5, <1>9, <1>10, <1>11, <1>12

LEMMA NewTextSplit ==
  ASSUME NEW o, NEW cs \in Rows, NEW k \in 1..Len(cs), NEW at \in Nat, at < cs[k].length,
         Good(o, cs[k]) \/ cs[k].type # "insert",
         NEW h1, NEW h2, Halved(o, cs[k], at, h1, h2), NEW sp, Splits(cs, k, h1, h2, sp), NewText(cs)
  PROVE  NewText(sp)
<1>1. PICK N \in Nat : N = Len(cs)
  BY RowLen
<1>2. k \in 1..N /\ Len(sp) = N + 1
  BY <1>1 DEF Splits
<1>3. ASSUME cs[k].type = "insert"
      PROVE  /\ \A x \in 1..Len(h1.text) : h1.text[x] > 10
             /\ \A x \in 1..Len(h2.text) : h2.text[x] > 10
  <2>1. PICK u \in Texts : u = cs[k].text /\ \A x \in 1..Len(u) : u[x] > 10
    <3>1. cs[k] \in Chunks
      BY ElementOfSeq DEF Rows
    <3>2. cs[k].text \in Texts
      BY <3>1, ChunkType
    <3> QED BY <1>3, <3>2 DEF NewText
  <2>2. PICK l \in Nat : l = Len(u) /\ at < l
    BY <1>3, <2>1, LenType DEF Good
  <2>3. at \in 0..l
    BY <2>2
  <2>4. PICK v \in Texts : v = Take(u, at) /\ Len(v) = at /\ \A x \in 1..at : v[x] = u[x]
    BY <2>2, <2>3, TakeIs
  <2>5. PICK w \in Texts : w = Drop(u, at) /\ Len(w) = l - at /\ \A x \in 1..l - at : w[x] = u[at + x]
    BY <2>2, <2>3, DropIs
  <2>6. h1.text = v /\ h2.text = w
    BY <1>3, <2>1, <2>4, <2>5 DEF Halved
  <2>7. \A x \in 1..at : x \in 1..l
    BY <2>2
  <2>8. \A x \in 1..l - at : at + x \in 1..l
    BY <2>2
  <2>9. \A x \in 1..Len(v) : v[x] > 10
    BY <2>1, <2>2, <2>4, <2>7
  <2>10. \A x \in 1..Len(w) : w[x] > 10
    BY <2>1, <2>2, <2>5, <2>8
  <2> QED BY <2>6, <2>9, <2>10
<1>4. h1.type = cs[k].type /\ h2.type = cs[k].type
  BY DEF Halved
<1>5. ASSUME NEW y \in 1..N + 1, sp[y].type = "insert"
      PROVE  \A x \in 1..Len(sp[y].text) : sp[y].text[x] > 10
  <2>1. CASE y \in 1..k - 1
    <3>1. sp[y] = cs[y] /\ y \in 1..Len(cs)
      BY <1>1, <1>2, <2>1 DEF Splits
    <3> QED BY <1>5, <3>1 DEF NewText
  <2>2. CASE y = k
    BY <1>3, <1>4, <1>5, <2>2 DEF Splits
  <2>3. CASE y = k + 1
    BY <1>3, <1>4, <1>5, <2>3 DEF Splits
  <2>4. CASE y > k + 1
    <3>1. PICK z \in k + 1..N : z + 1 = y
      BY <1>2, <2>4
    <3>2. sp[z + 1] = cs[z]
      BY <1>1 DEF Splits
    <3>3. z \in 1..Len(cs)
      BY <1>1, <1>2
    <3> QED BY <1>5, <3>1, <3>2, <3>3 DEF NewText
  <2>5. y \in 1..k - 1 \/ y = k \/ y = k + 1 \/ y > k + 1
    BY <1>2
  <2> QED BY <2>1, <2>2, <2>3, <2>4, <2>5
<1> QED BY <1>2, <1>5 DEF NewText

LEMMA PlaceOf ==
  ASSUME NEW o, NEW cs, NEW k \in Nat, NEW p \in Nat, k = p + 1
  PROVE  Place(o, cs, k) = Len(Flat(o, cs, p))
<1>1. k - 1 = p
  OBVIOUS
<1> QED BY <1>1 DEF Place

(* A split makes a chunk begin at i, and no empty one if none began there.   *)
LEMMA SplitFresh ==
  ASSUME NEW o, Small(o), NEW cs, Formed(o, cs), NEW i \in Nat, NEW k \in 1..Len(cs),
         NEW at \in Nat, NEW h1, NEW h2, NEW sp, Parted(o, cs, i, k, at, h1, h2, sp),
         NEW t, NEW E, Fresh(o, t, cs, E),
         NEW y \in 1..Len(sp), y # k \/ (i \notin E /\ ~BeginsAt(t, i))
  PROVE  FreshAt(o, t, sp, y, E \cup {i})
<1>1. o \in Texts /\ cs \in Rows /\ sp \in Rows
  BY DEF Small, Formed, Rows, Parted, Splits
<1>2. PICK N \in Nat : N = Len(cs)
  BY <1>1, RowLen
<1>3. PICK p \in Nat : k \in Nat /\ k = p + 1 /\ p \in 0..N - 1 /\ k \in 1..N /\ p = k - 1
  BY <1>2
<1>4. Len(sp) = N + 1 /\ k \in 0..Len(sp) - 1 /\ Splits(cs, k, h1, h2, sp) /\ Halved(o, cs[k], at, h1, h2)
  BY <1>2, <1>3 DEF Parted, Splits
<1>5. CASE y < k
  <2>1. PICK z \in 0..k - 1 : y = z + 1 /\ z \in Nat /\ y \in Nat
    BY <1>3, <1>5
  <2>2. Flat(o, sp, z) = Flat(o, cs, z)
    BY DEF Parted
  <2>3. Place(o, sp, y) = Place(o, cs, y)
    BY <2>1, <2>2, PlaceOf
  <2>4. sp[y] = cs[y] /\ y \in 1..Len(cs)
    BY <1>2, <1>3, <1>4, <1>5 DEF Splits
  <2> QED BY <2>3, <2>4 DEF Fresh, FreshAt
<1>6. CASE y = k \/ y = k + 1
  <2> SUFFICES ASSUME sp[y].type = "insert"
               PROVE  Len(sp[y].text) > 0 /\ (Place(o, sp, y) \in E \cup {i} \/ BeginsAt(t, Place(o, sp, y)))
    BY DEF FreshAt
  <2>1. sp[k] = h1 /\ sp[k + 1] = h2 /\ h1.type = cs[k].type /\ h2.type = cs[k].type
    BY <1>4 DEF Splits, Halved
  <2>2. cs[k].type = "insert" /\ h1.type = "insert" /\ h2.type = "insert"
    BY <1>6, <2>1
  <2>3. /\ Place(o, cs, k) \in E \/ BeginsAt(t, Place(o, cs, k))
        /\ Len(cs[k].text) > 0
    BY <2>2 DEF Fresh, FreshAt
  <2>4. PICK c \in Texts, u \in Texts, v \in Texts :
          /\ c = cs[k].text /\ u = h1.text /\ v = h2.text /\ c = Cat(u, v) /\ Len(u) = at /\ at < Len(c)
    <3>1. h1 \in Chunks /\ h2 \in Chunks /\ cs[k] \in Chunks
      BY <1>1, <1>4, ElementOfSeq DEF Halved, Rows
    <3>2. h1.text \in Texts /\ h2.text \in Texts /\ cs[k].text \in Texts
      BY <3>1, ChunkType
    <3>3. Good(o, cs[k])
      <4>1. k # N
        BY <1>2, <2>2 DEF Formed, Open
      <4>2. k \in 1..Len(cs) - 1
        BY <1>2, <1>3, <4>1
      <4> QED BY <4>2 DEF Formed
    <3>4. at < Len(cs[k].text)
      BY <2>2, <3>3 DEF Good, Parted
    <3>5. Content(o, cs[k]) = cs[k].text /\ Content(o, h1) = h1.text /\ Content(o, h2) = h2.text
      BY <2>2 DEF Content
    <3> QED BY <1>4, <3>2, <3>4, <3>5 DEF Halved
  <2>5. PICK a \in Nat, b \in Nat : a = Place(o, cs, k) /\ b = Len(v) /\ a + at = i /\ at + b = Len(c)
    <3>1. Place(o, cs, k) = Len(Flat(o, cs, p))
      BY <1>3, PlaceOf
    <3>2. Len(Flat(o, cs, p)) = LengthOf(cs, p)
      BY <1>2, <1>3, FlatLength
    <3>3. LengthOf(cs, p) + at = i
      BY <1>3 DEF Parted
    <3>4. Place(o, cs, k) \in Nat
      BY <1>1, PlaceIs
    <3>5. Len(v) \in Nat /\ Len(c) = Len(u) + Len(v)
      BY <2>4, CatType, LenType
    <3>6. Place(o, cs, k) + at = i /\ at + Len(v) = Len(c)
      BY <2>4, <3>1, <3>2, <3>3, <3>5
    <3> QED BY <3>4, <3>5, <3>6, Zenon
  <2>6. CASE y = k
    <3>1. Place(o, sp, k) = a
      <4>1. p \in 0..k - 1
        BY <1>3
      <4>2. Flat(o, sp, p) = Flat(o, cs, p)
        BY <4>1 DEF Parted
      <4> QED BY <1>3, <2>5, <4>2, PlaceOf
    <3>2. a \in E \/ BeginsAt(t, a)
      BY <2>3, <2>5
    <3>3. at # 0
      <4> SUFFICES ASSUME at = 0 PROVE FALSE
        OBVIOUS
      <4>1. a = i
        BY <2>5
      <4> QED BY <2>6, <3>2, <4>1
    <3>4. Len(sp[y].text) > 0
      BY <2>1, <2>4, <2>6, <3>3
    <3> QED BY <2>6, <3>1, <3>2, <3>4
  <2>7. CASE y = k + 1
    <3>1. Place(o, sp, y) = i
      <4>1. Place(o, sp, y) = Len(Flat(o, sp, k))
        BY <1>3, <2>7, PlaceOf
      <4>2. Formed(o, sp) /\ LengthOf(sp, k) = i
        BY DEF Parted
      <4>3. Len(Flat(o, sp, k)) = LengthOf(sp, k)
        BY <1>4, <4>2, FlatLength
      <4> QED BY <4>1, <4>2, <4>3
    <3>2. Len(sp[y].text) > 0
      <4>1. b > 0
        BY <2>4, <2>5
      <4> QED BY <2>1, <2>4, <2>5, <2>7, <4>1
    <3> QED BY <3>1, <3>2
  <2> QED BY <1>6, <2>6, <2>7
<1>7. CASE y > k + 1
  <2>1. PICK z \in k + 1..N : z + 1 = y /\ z \in Nat /\ y \in Nat /\ z \in 1..N
    BY <1>3, <1>4, <1>7
  <2>2. PICK w \in Nat : z = w + 1 /\ k <= w /\ w <= N
    BY <1>3, <2>1
  <2>3. Flat(o, sp, z) = Flat(o, cs, w)
    BY <1>2, <2>1, <2>2 DEF Parted, SameLater
  <2>4. Place(o, sp, y) = Place(o, cs, z)
    BY <2>1, <2>2, <2>3, PlaceOf
  <2>5. sp[z + 1] = cs[z]
    BY <1>2, <1>4 DEF Splits
  <2>6. sp[y] = cs[z] /\ z \in 1..Len(cs)
    BY <1>2, <2>1, <2>5
  <2> QED BY <2>4, <2>6 DEF Fresh, FreshAt
<1>8. y < k \/ y = k \/ y = k + 1 \/ y > k + 1
  BY <1>3, <1>4
<1> QED BY <1>5, <1>6, <1>7, <1>8

(* The first k chunks stay where they are; the others move from behind j to *)
(* behind c.                                                                *)
Unmoved(o, sp, k, new) == \A y \in 1..k : Place(o, new, y) = Place(o, sp, y)
Moved(o, sp, m, N, new, d) ==
  \A x \in m + 1..N, y \in d + 1..Len(new) : x - m = y - d =>
    \E r \in Nat : /\ Place(o, sp, x) = Len(Flat(o, sp, m)) + r
                   /\ Place(o, new, y) = Len(Flat(o, new, d)) + r

LEMMA SplicedPlace ==
  ASSUME NEW o \in Texts, NEW sp \in Rows, NEW N \in Nat, N = Len(sp), NEW k \in 1..N,
         NEW m \in k..N, NEW q, NEW b \in Nat, NEW n \in Nat, n + m = N,
         NEW new, Spliced(sp, k, m, q, b, n, new),
         NEW d \in Nat, d = k + b
  PROVE  /\ Unmoved(o, sp, k, new)
         /\ Moved(o, sp, m, N, new, d)
<1>1. new \in Rows /\ Len(new) = d + n
  BY DEF Spliced
<1>2. ASSUME NEW y \in 1..k PROVE Place(o, new, y) = Place(o, sp, y)
  <2>1. PICK z \in 0..k : y = z + 1 /\ z \in Nat /\ y \in Nat
    OBVIOUS
  <2>2. SameStart(o, sp, k, new)
    BY SplicedFlat
  <2>3. Flat(o, new, z) = Flat(o, sp, z)
    BY <2>2 DEF SameStart
  <2> QED BY <2>1, <2>3, PlaceOf
<1>3. ASSUME NEW x \in m + 1..N, NEW y \in d + 1..Len(new), x - m = y - d
      PROVE  \E r \in Nat : /\ Place(o, sp, x) = Len(Flat(o, sp, m)) + r
                            /\ Place(o, new, y) = Len(Flat(o, new, d)) + r
  <2>1. PICK z \in 0..n : x = (m + z) + 1 /\ y = (d + z) + 1 /\ x \in Nat /\ y \in Nat /\ m + z \in Nat /\ d + z \in Nat
    <3>1. PICK z \in Int : z = (x - m) - 1
      OBVIOUS
    <3>2. z \in 0..n /\ x = (m + z) + 1 /\ y = (d + z) + 1
      BY <1>1, <1>3, <3>1
    <3> QED BY <3>2
  <2>2. Shared(o, sp, m, m + z, new, k + b, (k + b) + z)
    BY SplicedFlat
  <2>3. Shared(o, sp, m, m + z, new, d, d + z)
    BY <2>2
  <2>4. PICK r \in Texts : /\ Flat(o, sp, m + z) = Cat(Flat(o, sp, m), r)
                           /\ Flat(o, new, d + z) = Cat(Flat(o, new, d), r)
    BY <2>3, Zenon DEF Shared
  <2>5. PICK f \in Texts, g \in Texts : f = Flat(o, sp, m) /\ g = Flat(o, new, d)
    <3>1. m \in 0..Len(sp) /\ d \in 0..Len(new)
      BY <1>1
    <3> QED BY <1>1, <3>1, FlatIs, Zenon DEF Rows
  <2>6. Len(Cat(f, r)) = Len(f) + Len(r) /\ Len(Cat(g, r)) = Len(g) + Len(r) /\ Len(r) \in Nat
    BY CatType, LenType
  <2>7. Place(o, sp, x) = Len(Flat(o, sp, m + z)) /\ Place(o, new, y) = Len(Flat(o, new, d + z))
    BY <2>1, PlaceOf
  <2>8. Place(o, sp, x) = Len(Flat(o, sp, m)) + Len(r) /\ Place(o, new, y) = Len(Flat(o, new, d)) + Len(r)
    BY <2>4, <2>5, <2>6, <2>7
  <2> QED BY <2>6, <2>8, Zenon
<1> QED BY <1>2, <1>3 DEF Moved, Unmoved

(* u is t with what is between i and j replaced by a text that ends at c.   *)
Kept(t, i, j, u, c) ==
  /\ i \in Nat /\ j \in Nat /\ c \in Nat /\ i <= j /\ j <= Len(t) /\ i <= c
  /\ Len(u) = c + (Len(t) - j)
  /\ \A p \in 1..i : u[p] = t[p]
  /\ \A x \in 1..Len(t) - j : u[c + x] = t[j + x]

LEMMA BeginsKept ==
  ASSUME NEW t \in Texts, NEW u \in Texts, NEW i, NEW j, NEW c, Kept(t, i, j, u, c),
         NEW a \in Nat, a < i, BeginsAt(t, a)
  PROVE  BeginsAt(u, a)
<1>1. Len(t) \in Nat /\ Len(u) \in Nat
  BY LenType
<1>2. i \in Nat /\ i <= Len(u)
  BY <1>1 DEF Kept
<1>3. a + 1 \in 1..i /\ a < Len(u) /\ (a # 0 => a \in 1..i)
  BY <1>1, <1>2
<1>4. u[a + 1] = t[a + 1] /\ (a # 0 => u[a] = t[a])
  BY <1>3 DEF Kept
<1> QED BY <1>3, <1>4 DEF BeginsAt

LEMMA BeginsMoved ==
  ASSUME NEW t \in Texts, NEW u \in Texts, NEW i, NEW j, NEW c, Kept(t, i, j, u, c),
         NEW r \in Nat, r > 0, BeginsAt(t, j + r)
  PROVE  BeginsAt(u, c + r)
<1>1. PICK l \in Nat, e \in Nat, f \in Nat : l = Len(t) /\ e = j /\ f = c /\ e <= l /\ Len(u) = f + (l - e)
  BY LenType DEF Kept
<1>2. /\ e + r < l /\ t[(e + r) + 1] > 10 /\ (e + r = 0 \/ t[e + r] # t[(e + r) + 1] - 1)
  BY <1>1 DEF BeginsAt
<1>3. /\ r \in 1..l - e /\ r + 1 \in 1..l - e /\ f + r < Len(u) /\ e + r # 0
      /\ (e + r) + 1 = e + (r + 1) /\ (f + r) + 1 = f + (r + 1)
  BY <1>1, <1>2
<1>4. \A x \in 1..l - e : u[f + x] = t[e + x]
  BY <1>1 DEF Kept
<1>5. u[f + r] = t[e + r] /\ u[(f + r) + 1] = t[(e + r) + 1]
  BY <1>3, <1>4
<1>6. BeginsAt(u, f + r)
  BY <1>2, <1>3, <1>5 DEF BeginsAt
<1> QED BY <1>1, <1>6

LEMMA PlaceBefore ==
  ASSUME NEW o \in Texts, NEW cs \in Rows, NEW k \in 1..Len(cs), NEW y \in 1..k,
         cs[y].type = "insert", Len(cs[y].text) > 0
  PROVE  Place(o, cs, y) \in Nat /\ Place(o, cs, y) < Len(Flat(o, cs, k))
<1>1. y \in 1..Len(cs) /\ y \in Nat /\ k \in Nat /\ y <= k /\ k <= Len(cs)
  BY RowLen
<1>2. PICK a \in Nat, c \in Texts : a = Place(o, cs, y) /\ c = cs[y].text /\ a + Len(c) = Len(Flat(o, cs, y))
  <2>1. Content(o, cs[y]) = cs[y].text
    BY DEF Content
  <2> QED BY <1>1, <2>1, PlaceIs
<1>3. Len(Flat(o, cs, y)) <= Len(Flat(o, cs, k)) /\ Len(Flat(o, cs, k)) \in Nat
  BY <1>1, FlatGrows
<1>4. Len(c) \in Nat
  BY LenType
<1> QED BY <1>2, <1>3, <1>4

LEMMA FreshEarlier ==
  ASSUME NEW o \in Texts, NEW sp \in Rows, NEW k \in 1..Len(sp), NEW y \in 1..k,
         NEW t \in Texts, NEW u \in Texts, NEW i, NEW j, NEW c, Kept(t, i, j, u, c),
         i = Len(Flat(o, sp, k)), NEW E, \A e \in E : e \in Nat /\ i <= e, FreshAt(o, t, sp, y, E),
         NEW new, new[y] = sp[y], Place(o, new, y) = Place(o, sp, y)
  PROVE  FreshAt(o, u, new, y, {})
<1> SUFFICES ASSUME new[y].type = "insert"
             PROVE  Len(new[y].text) > 0 /\ BeginsAt(u, Place(o, new, y))
  BY DEF FreshAt
<1>1. /\ Len(sp[y].text) > 0
      /\ Place(o, sp, y) \in E \/ BeginsAt(t, Place(o, sp, y))
  BY DEF FreshAt
<1>2. PICK a \in Nat : a = Place(o, sp, y) /\ a < i
  BY <1>1, PlaceBefore
<1>3. a \notin E
  <2>1. i \in Nat
    BY DEF Kept
  <2> QED BY <1>2, <2>1
<1>4. BeginsAt(u, a)
  BY <1>1, <1>2, <1>3, BeginsKept
<1> QED BY <1>1, <1>2, <1>4

(* If inserted text goes on at j of t, it begins at c of u. *)
Joint(t, j, u, c) == j < Len(t) /\ t[j + 1] > 10 => BeginsAt(u, c)

LEMMA FreshLater ==
  ASSUME NEW o \in Texts, NEW sp \in Rows, NEW x \in 1..Len(sp), NEW y,
         NEW t \in Texts, NEW u \in Texts, NEW i, NEW j \in Nat, NEW c \in Nat, Kept(t, i, j, u, c),
         t = Flat(o, sp, Len(sp)), NewText(sp),
         NEW E, \A e \in E : e \in Nat /\ e <= j, FreshAt(o, t, sp, x, E),
         NEW new, new[y] = sp[x], NEW r \in Nat, Place(o, sp, x) = j + r, Place(o, new, y) = c + r,
         Joint(t, j, u, c)
  PROVE  FreshAt(o, u, new, y, {})
<1> SUFFICES ASSUME new[y].type = "insert"
             PROVE  Len(new[y].text) > 0 /\ BeginsAt(u, Place(o, new, y))
  BY DEF FreshAt
<1>1. /\ Len(sp[x].text) > 0
      /\ Place(o, sp, x) \in E \/ BeginsAt(t, Place(o, sp, x))
  BY DEF FreshAt
<1>2. CASE r > 0
  <2>1. BeginsAt(t, j + r)
    <3>1. j + r \notin E
      BY <1>2
    <3> QED BY <1>1, <3>1
  <2>2. BeginsAt(u, c + r)
    BY <1>2, <2>1, BeginsMoved
  <2> QED BY <1>1, <2>2
<1>3. CASE r = 0
  <2>1. Len(sp[x].text) \in Nat
    <3>1. sp[x] \in Chunks
      BY ElementOfSeq DEF Rows
    <3> QED BY <3>1, ChunkType, LenType
  <2>2. 1 \in 1..Len(sp[x].text)
    BY <1>1, <2>1
  <2>3. /\ Place(o, sp, x) + 1 \in 1..Len(t)
        /\ t[Place(o, sp, x) + 1] = sp[x].text[1]
    BY <2>2, InsertedAt
  <2>4. sp[x].text[1] > 10
    BY <2>2 DEF NewText
  <2>5. j + r = j /\ c + r = c
    BY <1>3
  <2>6. PICK l \in Nat : l = Len(t)
    BY LenType
  <2>7. j + 1 \in 1..l /\ t[j + 1] > 10
    BY <2>3, <2>4, <2>5, <2>6
  <2>8. j < l
    BY <2>7
  <2> QED BY <1>1, <2>5, <2>6, <2>7, <2>8 DEF Joint
<1> QED BY <1>2, <1>3

LEMMA FreshSpliced ==
  ASSUME NEW o \in Texts, NEW sp \in Rows, NEW N \in Nat, N = Len(sp), NEW k \in 1..N,
         NEW m \in k..N, NEW q, NEW b \in Nat, NEW n \in Nat, n + m = N,
         NEW new, Spliced(sp, k, m, q, b, n, new), NEW d \in Nat, d = k + b,
         NEW t \in Texts, t = Flat(o, sp, N), NEW u \in Texts,
         NEW i \in Nat, NEW j \in Nat, NEW c \in Nat, Kept(t, i, j, u, c),
         i = Len(Flat(o, sp, k)), j = Len(Flat(o, sp, m)), c = Len(Flat(o, new, d)),
         NewText(sp), NEW E \in SUBSET {i, j},
         \A y \in 1..N : y <= k \/ y > m => FreshAt(o, t, sp, y, E),
         Joint(t, j, u, c),
         \A x \in 1..b : FreshAt(o, u, new, k + x, {})
  PROVE  Fresh(o, u, new, {})
<1>1. Len(new) = (k + b) + n /\ Len(new) = d + n
  BY DEF Spliced
<1>2. \A e \in E : e \in Nat /\ i <= e /\ e <= j
  BY DEF Kept
<1>3. /\ Unmoved(o, sp, k, new)
      /\ Moved(o, sp, m, N, new, d)
  BY SplicedPlace
<1>4. ASSUME NEW y \in 1..Len(new) PROVE FreshAt(o, u, new, y, {})
  <2>0. y \in 1..(k + b) + n
    BY <1>1
  <2>1. From(sp, N, k, m, q, b, new, y)
    BY <2>0, SplicedFrom
  <2>2. ASSUME y \in 1..k, new[y] = sp[y] PROVE FreshAt(o, u, new, y, {})
    <3>1. y \in 1..N /\ y <= k /\ k \in 1..Len(sp)
      BY <2>2
    <3>2. FreshAt(o, t, sp, y, E)
      BY <3>1
    <3>3. Place(o, new, y) = Place(o, sp, y)
      BY <1>3, <2>2 DEF Unmoved
    <3> QED BY <1>2, <2>2, <3>1, <3>2, <3>3, FreshEarlier, ZenonT(40)
  <2>3. CASE \E x \in 1..b : y = k + x /\ new[y] = q[x]
    BY <2>3
  <2>4. ASSUME NEW x \in m + 1..N, y > k + b, x - m = y - (k + b), new[y] = sp[x]
        PROVE  FreshAt(o, u, new, y, {})
    <3>1. x \in 1..N /\ x > m /\ x \in 1..Len(sp)
      OBVIOUS
    <3>2. FreshAt(o, t, sp, x, E)
      BY <3>1
    <3>3. y \in d + 1..Len(new) /\ x - m = y - d
      BY <1>1, <2>4
    <3>4. PICK r \in Nat : Place(o, sp, x) = j + r /\ Place(o, new, y) = c + r
      BY <1>3, <3>3 DEF Moved
    <3>5. new[y] = sp[x] /\ t = Flat(o, sp, Len(sp)) /\ \A e \in E : e \in Nat /\ e <= j
      BY <1>2, <2>4
    <3> QED BY <3>1, <3>2, <3>4, <3>5, FreshLater
  <2> QED BY <2>1, <2>2, <2>3, <2>4 DEF From
<1> QED BY <1>4 DEF Fresh

-----------------------------------------------------------------------------
(* The characters of a text, of which the edits so far made none above M. *)

Told(t, M) ==
  /\ \A p \in 1..Len(t) : t[p] # 10 /\ t[p] <= M
  /\ \A p, q \in 1..Len(t) : t[p] = t[q] => p = q
  /\ \A a, b, c \in 1..Len(t) :
       a < b /\ b < c /\ t[a] > 10 /\ t[c] = t[a] + 1 => t[b] > 10

InsertionOf(t, i, s, l, u) ==
  /\ Kept(t, i, i, u, i + l)
  /\ \A x \in 1..l : u[i + x] = s[x]

LEMMA InsertionKeeps ==
  ASSUME NEW t \in Texts, NEW i \in 0..Len(t), NEW s \in Texts, NEW l \in Nat, l = Len(s)
  PROVE  /\ Cat(Cat(Take(t, i), s), Drop(t, i)) \in Texts
         /\ InsertionOf(t, i, s, l, Cat(Cat(Take(t, i), s), Drop(t, i)))
<1>1. PICK n \in Nat : n = Len(t) /\ i \in Nat /\ i <= n
  BY LenType
<1>2. PICK a \in Texts : a = Take(t, i) /\ Len(a) = i /\ \A x \in 1..i : a[x] = t[x]
  BY TakeIs
<1>3. PICK b \in Texts : b = Drop(t, i) /\ Len(b) = n - i /\ \A x \in 1..n - i : b[x] = t[i + x]
  BY <1>1, DropIs
<1>4. PICK v \in Texts : v = Cat(a, s) /\ CatOf(a, i, s, l, v)
  BY <1>2, CatLengths, CatType
<1>5. Len(v) = i + l
  BY <1>4 DEF CatOf
<1>6. PICK u \in Texts : u = Cat(v, b) /\ CatOf(v, Len(v), b, Len(b), u)
  BY CatLengths, CatType
<1>7. PICK c \in Nat, d \in Nat : c = i + l /\ d = n - i /\ CatOf(v, c, b, d, u)
  BY <1>1, <1>3, <1>5, <1>6
<1>8. \A x \in 1..i : u[x] = t[x]
  <2>1. \A x \in 1..i : x \in 1..c
    BY <1>1, <1>7
  <2> QED BY <1>2, <1>4, <1>7, <2>1 DEF CatOf
<1>9. \A x \in 1..l : u[i + x] = s[x]
  <2>1. \A x \in 1..l : i + x \in 1..c
    BY <1>1, <1>7
  <2> QED BY <1>4, <1>7, <2>1 DEF CatOf
<1>10. \A x \in 1..n - i : u[c + x] = t[i + x]
  BY <1>3, <1>7 DEF CatOf
<1>11. Len(u) = c + (n - i)
  BY <1>7 DEF CatOf
<1>12. i <= c
  BY <1>1, <1>7
<1>13. Kept(t, i, i, u, c)
  BY <1>1, <1>8, <1>10, <1>11, <1>12 DEF Kept
<1> QED BY <1>2, <1>3, <1>4, <1>6, <1>7, <1>9, <1>13 DEF InsertionOf

LEMMA DeletionKeeps ==
  ASSUME NEW t \in Texts, NEW i \in 0..Len(t), NEW j \in i..Len(t)
  PROVE  /\ Cat(Take(t, i), Drop(t, j)) \in Texts
         /\ Kept(t, i, j, Cat(Take(t, i), Drop(t, j)), i)
<1>1. PICK n \in Nat : n = Len(t) /\ i \in Nat /\ j \in Nat /\ i <= j /\ j <= n /\ j \in 0..Len(t)
  BY LenType
<1>2. PICK a \in Texts : a = Take(t, i) /\ Len(a) = i /\ \A x \in 1..i : a[x] = t[x]
  BY TakeIs
<1>3. PICK b \in Texts : b = Drop(t, j) /\ Len(b) = n - j /\ \A x \in 1..n - j : b[x] = t[j + x]
  BY <1>1, DropIs
<1>0. PICK u \in Texts : u = Cat(a, b) /\ CatOf(a, Len(a), b, Len(b), u)
  BY CatLengths, CatType
<1>4. CatOf(a, i, b, n - j, u)
  BY <1>0, <1>2, <1>3
<1>5. \A x \in 1..i : u[x] = t[x]
  BY <1>2, <1>4 DEF CatOf
<1>6. \A x \in 1..n - j : u[i + x] = t[j + x]
  BY <1>3, <1>4 DEF CatOf
<1>7. Len(u) = i + (n - j)
  BY <1>4 DEF CatOf
<1>8. Kept(t, i, j, u, i)
  BY <1>1, <1>5, <1>6, <1>7 DEF Kept
<1> QED BY <1>0, <1>2, <1>3, <1>8

(* Where the characters of u are from. *)
LEMMA KeptFrom ==
  ASSUME NEW t \in Texts, NEW u \in Texts, NEW i \in Nat, NEW j \in Nat, NEW c \in Nat,
         Kept(t, i, j, u, c), NEW y \in 1..Len(u)
  PROVE  \/ y \in 1..i /\ y \in 1..Len(t) /\ u[y] = t[y]
         \/ y > i /\ y <= c
         \/ \E p \in j + 1..Len(t) : y - c = p - j /\ u[y] = t[p]
<1>1. PICK n \in Nat : n = Len(t)
  BY LenType
<1>2. i <= j /\ j <= n /\ i <= c /\ Len(u) = c + (n - j)
  BY <1>1 DEF Kept
<1>3. CASE y \in 1..i
  BY <1>1, <1>2, <1>3 DEF Kept
<1>4. CASE y > c
  <2>1. PICK x \in 1..n - j : x = y - c
    BY <1>2, <1>4
  <2>2. u[c + x] = t[j + x]
    BY <1>1 DEF Kept
  <2>3. PICK p \in j + 1..n : p = j + x
    BY <1>1, <1>2
  <2>4. c + x = y /\ y - c = p - j
    BY <2>1, <2>3
  <2> QED BY <1>1, <2>2, <2>3, <2>4
<1> QED BY <1>2, <1>3, <1>4

(* The place in t of a character of u before i, and behind it.              *)
Source(p, y, i, j) == \/ p = y /\ y <= i
                      \/ p = (y - i) + j /\ y > i

LEMMA ToldKept ==
  ASSUME NEW t \in Texts, NEW u \in Texts, NEW i \in Nat, NEW j \in Nat, Kept(t, i, j, u, i),
         NEW M \in Nat, Told(t, M)
  PROVE  Told(u, M)
<1>1. PICK n \in Nat, m \in Nat : n = Len(t) /\ m = Len(u) /\ i <= j
  BY LenType DEF Kept
<1>2. ASSUME NEW y \in 1..m
      PROVE  \E p \in 1..n : u[y] = t[p] /\ Source(p, y, i, j)
  <2>1. y \in 1..Len(u)
    BY <1>1
  <2>2. \/ y \in 1..i /\ y \in 1..Len(t) /\ u[y] = t[y]
        \/ y > i /\ y <= i
        \/ \E p \in j + 1..Len(t) : y - i = p - j /\ u[y] = t[p]
    BY <2>1, KeptFrom
  <2>3. CASE y \in 1..i /\ y \in 1..Len(t) /\ u[y] = t[y]
    BY <1>1, <2>3 DEF Source
  <2>4. ASSUME NEW p \in j + 1..n, y - i = p - j, u[y] = t[p]
        PROVE  \E r \in 1..n : u[y] = t[r] /\ Source(r, y, i, j)
    <3>1. p \in 1..n /\ p = (y - i) + j /\ y > i
      BY <2>4
    <3> QED BY <2>4, <3>1 DEF Source
  <2> QED BY <1>1, <2>2, <2>3, <2>4
<1>3. \A y \in 1..m : u[y] # 10 /\ u[y] <= M
  BY <1>1, <1>2 DEF Told
<1>4. ASSUME NEW y \in 1..m, NEW z \in 1..m, u[y] = u[z] PROVE y = z
  <2>1. PICK p \in 1..n : u[y] = t[p] /\ Source(p, y, i, j)
    BY <1>2
  <2>2. PICK r \in 1..n : u[z] = t[r] /\ Source(r, z, i, j)
    BY <1>2
  <2>3. p = r
    BY <1>1, <1>4, <2>1, <2>2 DEF Told
  <2>4. Source(p, y, i, j) /\ Source(p, z, i, j)
    BY <2>1, <2>2, <2>3
  <2> QED BY <1>1, <2>4 DEF Source
<1>5. ASSUME NEW a \in 1..m, NEW b \in 1..m, NEW c \in 1..m, a < b, b < c, u[a] > 10, u[c] = u[a] + 1
      PROVE  u[b] > 10
  <2>1. PICK p \in 1..n : u[a] = t[p] /\ Source(p, a, i, j)
    BY <1>2
  <2>2. PICK r \in 1..n : u[b] = t[r] /\ Source(r, b, i, j)
    BY <1>2
  <2>3. PICK s \in 1..n : u[c] = t[s] /\ Source(s, c, i, j)
    BY <1>2
  <2>4. p < r
    <3>1. Source(p, a, i, j) /\ Source(r, b, i, j)
      BY <2>1, <2>2
    <3> QED BY <1>1, <1>5, <3>1 DEF Source
  <2>5. r < s
    <3>1. Source(s, c, i, j) /\ Source(r, b, i, j)
      BY <2>2, <2>3
    <3> QED BY <1>1, <1>5, <3>1 DEF Source
  <2>6. t[p] > 10 /\ t[s] = t[p] + 1
    BY <1>5, <2>1, <2>3
  <2>7. t[r] > 10
    BY <1>1, <2>4, <2>5, <2>6 DEF Told
  <2> QED BY <2>2, <2>7
<1> QED BY <1>1, <1>3, <1>4, <1>5 DEF Told

(* The place in t of a character of u that was not inserted.                *)
Origin(p, y, i, l) == \/ p = y /\ y <= i
                      \/ p = y - l /\ y > i + l

(* An edit inserts at most nine characters in a row, above all others.      *)
LEMMA ToldInserted ==
  ASSUME NEW t \in Texts, NEW u \in Texts, NEW i \in Nat, NEW M \in Nat, 9 <= M, Told(t, M),
         NEW s, NEW l \in 1..9, \A x \in 1..l : s[x] = M + 1 + x, InsertionOf(t, i, s, l, u)
  PROVE  Told(u, M + 10)
<1>1. PICK n \in Nat, m \in Nat : n = Len(t) /\ m = Len(u)
  BY LenType
<1>2. ASSUME NEW y \in 1..m
      PROVE  \/ \E x \in 1..l : y = i + x /\ u[y] = M + 1 + x
             \/ \E p \in 1..n : u[y] = t[p] /\ Origin(p, y, i, l)
  <2>1. PICK c \in Nat : c = i + l /\ Kept(t, i, i, u, c)
    BY DEF InsertionOf
  <2>2. \/ y \in 1..i /\ y \in 1..Len(t) /\ u[y] = t[y]
        \/ y > i /\ y <= c
        \/ \E p \in i + 1..Len(t) : y - c = p - i /\ u[y] = t[p]
    BY <1>1, <2>1, KeptFrom, SMTT(30)
  <2>3. CASE y \in 1..i /\ y \in 1..Len(t) /\ u[y] = t[y]
    BY <1>1, <2>3 DEF Origin
  <2>4. CASE y > i /\ y <= c
    <3>1. PICK x \in 1..l : y = i + x
      <4>1. y - i \in 1..l /\ y = i + (y - i)
        BY <2>1, <2>4
      <4> QED BY <4>1
    <3>2. u[i + x] = s[x]
      BY DEF InsertionOf
    <3> QED BY <3>1, <3>2
  <2>5. ASSUME NEW p \in i + 1..n, y - c = p - i, u[y] = t[p]
        PROVE  \E r \in 1..n : u[y] = t[r] /\ Origin(r, y, i, l)
    <3>1. p \in 1..n /\ p = y - l /\ y > i + l
      BY <2>1, <2>5
    <3> QED BY <2>5, <3>1 DEF Origin
  <2> QED BY <1>1, <2>2, <2>3, <2>4, <2>5
<1>3. \A p \in 1..n : t[p] # 10 /\ t[p] <= M /\ t[p] \in Nat
  BY <1>1, At DEF Told
<1>4. ASSUME NEW y \in 1..m PROVE u[y] # 10 /\ u[y] <= M + 10
  <2>1. ASSUME NEW x \in 1..l, u[y] = M + 1 + x PROVE u[y] # 10 /\ u[y] <= M + 10
    BY <2>1
  <2>2. ASSUME NEW p \in 1..n, u[y] = t[p] PROVE u[y] # 10 /\ u[y] <= M + 10
    BY <1>3, <2>2
  <2> QED BY <1>2, <2>1, <2>2
<1>5. ASSUME NEW y \in 1..m, NEW z \in 1..m, u[y] = u[z] PROVE y = z
  <2>1. ASSUME NEW x \in 1..l, y = i + x, u[y] = M + 1 + x PROVE y = z
    <3>1. ASSUME NEW w \in 1..l, z = i + w, u[z] = M + 1 + w PROVE y = z
      BY <1>5, <2>1, <3>1
    <3>2. ASSUME NEW p \in 1..n, u[z] = t[p] PROVE FALSE
      BY <1>3, <1>5, <2>1, <3>2
    <3> QED BY <1>2, <3>1, <3>2
  <2>2. ASSUME NEW p \in 1..n, u[y] = t[p], Origin(p, y, i, l) PROVE y = z
    <3>1. ASSUME NEW w \in 1..l, u[z] = M + 1 + w PROVE FALSE
      <4>1. t[p] = M + 1 + w
        BY <1>5, <2>2, <3>1
      <4>2. t[p] \in Nat /\ t[p] <= M
        BY <1>3
      <4> QED BY <4>1, <4>2
    <3>2. ASSUME NEW q \in 1..n, u[z] = t[q], Origin(q, z, i, l) PROVE y = z
      <4>1. p = q
        BY <1>1, <1>5, <2>2, <3>2 DEF Told
      <4>2. Origin(p, y, i, l) /\ Origin(p, z, i, l)
        BY <2>2, <3>2, <4>1
      <4> QED BY <4>2 DEF Origin
    <3> QED BY <1>2, <3>1, <3>2
  <2> QED BY <1>2, <2>1, <2>2
<1>6. ASSUME NEW a \in 1..m, NEW b \in 1..m, NEW c \in 1..m, a < b, b < c, u[a] > 10, u[c] = u[a] + 1
      PROVE  u[b] > 10
  <2>1. ASSUME NEW x \in 1..l, u[b] = M + 1 + x PROVE u[b] > 10
    BY <2>1
  <2>2. ASSUME NEW r \in 1..n, u[b] = t[r], Origin(r, b, i, l) PROVE u[b] > 10
    <3>1. ASSUME NEW x \in 1..l, a = i + x, u[a] = M + 1 + x PROVE FALSE
      <4>1. ASSUME NEW w \in 1..l, c = i + w, u[c] = M + 1 + w PROVE FALSE
        <5>1. w = x + 1
          BY <1>6, <3>1, <4>1
        <5> QED BY <1>6, <3>1, <4>1, <5>1
      <4>2. ASSUME NEW p \in 1..n, u[c] = t[p] PROVE FALSE
        BY <1>3, <1>6, <3>1, <4>2
      <4> QED BY <1>2, <4>1, <4>2
    <3>2. ASSUME NEW p \in 1..n, u[a] = t[p], Origin(p, a, i, l) PROVE u[b] > 10
      <4>1. ASSUME NEW w \in 1..l, u[c] = M + 1 + w PROVE FALSE
        BY <1>3, <1>6, <3>2, <4>1
      <4>2. ASSUME NEW q \in 1..n, u[c] = t[q], Origin(q, c, i, l) PROVE u[b] > 10
        <5>1. p < r
          BY <1>6, <2>2, <3>2 DEF Origin
        <5>2. r < q
          BY <1>6, <2>2, <4>2 DEF Origin
        <5>3. t[p] > 10 /\ t[q] = t[p] + 1
          BY <1>6, <3>2, <4>2
        <5>4. t[r] > 10
          BY <1>1, <5>1, <5>2, <5>3 DEF Told
        <5> QED BY <2>2, <5>4
      <4> QED BY <1>2, <4>1, <4>2
    <3> QED BY <1>2, <3>1, <3>2
  <2> QED BY <1>2, <2>1, <2>2
<1> QED BY <1>1, <1>4, <1>5, <1>6 DEF Told

NewRow(q, b) == \A y \in 1..b : \A x \in 1..Len(q[y].text) : q[y].text[x] > 10

LEMMA NewTextSpliced ==
  ASSUME NEW sp, NEW N \in Nat, NEW k \in 1..N, N = Len(sp), NEW m \in k..N, NEW q, NEW b \in Nat,
         NEW n \in Nat, n + m = N, NEW new, Spliced(sp, k, m, q, b, n, new), NewText(sp),
         NewRow(q, b)
  PROVE  NewText(new)
<1>1. Len(new) = (k + b) + n
  BY DEF Spliced
<1>2. ASSUME NEW y \in 1..(k + b) + n, new[y].type = "insert"
      PROVE  \A x \in 1..Len(new[y].text) : new[y].text[x] > 10
  <2>1. From(sp, N, k, m, q, b, new, y)
    BY SplicedFrom
  <2>2. ASSUME NEW x \in 1..N, new[y] = sp[x] PROVE \A z \in 1..Len(new[y].text) : new[y].text[z] > 10
    BY <1>2, <2>2 DEF NewText
  <2>3. ASSUME NEW x \in 1..b, new[y] = q[x] PROVE \A z \in 1..Len(new[y].text) : new[y].text[z] > 10
    BY <2>3 DEF NewRow
  <2>4. CASE y \in 1..k /\ new[y] = sp[y]
    <3>1. y \in 1..N
      BY <2>4
    <3> QED BY <2>2, <2>4, <3>1
  <2>5. ASSUME NEW x \in m + 1..N, new[y] = sp[x] PROVE \A z \in 1..Len(new[y].text) : new[y].text[z] > 10
    <3>1. x \in 1..N
      OBVIOUS
    <3> QED BY <2>2, <2>5, <3>1
  <2> QED BY <2>1, <2>3, <2>4, <2>5 DEF From
<1> QED BY <1>1, <1>2 DEF NewText

-----------------------------------------------------------------------------
(* What an edit keeps. *)

Built(o, t, cs, M) ==
  /\ Formed(o, cs) /\ t \in Texts /\ t = Flat(o, cs, Len(cs)) /\ NewText(cs) /\ Told(t, M)

LEMMA NewTextParted ==
  ASSUME NEW o, Small(o), NEW cs, Formed(o, cs), NewText(cs), NEW i, NEW k, NEW at, NEW h1, NEW h2,
         NEW sp, Parted(o, cs, i, k, at, h1, h2, sp)
  PROVE  NewText(sp)
<1>1. cs \in Rows /\ k \in 1..Len(cs) /\ at \in Nat
  BY DEF Formed, Rows, Parted
<1>2. Good(o, cs[k]) \/ cs[k].type # "insert"
  <2>1. k \in 1..Len(cs) - 1 \/ k = Len(cs)
    BY <1>1, RowLen
  <2> QED BY <2>1 DEF Formed, Open
<1>3. at < cs[k].length /\ Halved(o, cs[k], at, h1, h2) /\ Splits(cs, k, h1, h2, sp)
  BY DEF Parted
<1> QED BY <1>1, <1>2, <1>3, NewTextSplit

(* Text above M goes on above M. *)
LEMMA JointInserted ==
  ASSUME NEW t \in Texts, NEW u \in Texts, NEW i \in Nat, NEW M \in Nat, 9 <= M, Told(t, M),
         NEW s, NEW l \in 1..9, \A x \in 1..l : s[x] = M + 1 + x, InsertionOf(t, i, s, l, u)
  PROVE  Joint(t, i, u, i + l) /\ BeginsAt(u, i)
<1>1. PICK n \in Nat, c \in Nat : n = Len(t) /\ c = i + l /\ i <= n /\ Len(u) = c + (n - i)
  BY LenType DEF InsertionOf, Kept
<1>2. /\ \A p \in 1..i : u[p] = t[p]
      /\ \A x \in 1..n - i : u[c + x] = t[i + x]
      /\ \A x \in 1..l : u[i + x] = s[x]
  BY <1>1 DEF InsertionOf, Kept
<1>3. \A p \in 1..n : t[p] <= M /\ t[p] \in Nat
  BY <1>1, At DEF Told
<1>4. BeginsAt(u, i)
  <2>1. u[i + 1] = M + 2
    <3>1. 1 \in 1..l
      OBVIOUS
    <3>2. u[i + 1] = s[1] /\ s[1] = M + 1 + 1
      BY <1>2, <3>1
    <3> QED BY <3>2
  <2>2. i < Len(u)
    BY <1>1
  <2>3. i = 0 \/ u[i] # u[i + 1] - 1
    <3>1. CASE i # 0
      <4>1. i \in 1..i /\ i \in 1..n
        BY <1>1, <3>1
      <4>2. u[i] = t[i] /\ t[i] <= M /\ t[i] \in Nat
        BY <1>2, <1>3, <4>1
      <4> QED BY <2>1, <4>2
    <3> QED BY <3>1
  <2> QED BY <2>1, <2>2, <2>3 DEF BeginsAt
<1>5. ASSUME i < n, t[i + 1] > 10 PROVE BeginsAt(u, c)
  <2>1. u[c + 1] = t[i + 1] /\ t[i + 1] <= M /\ t[i + 1] \in Nat
    <3>1. 1 \in 1..n - i /\ i + 1 \in 1..n
      BY <1>5
    <3> QED BY <1>2, <1>3, <3>1
  <2>2. u[c] = M + 1 + l
    <3>1. l \in 1..l
      OBVIOUS
    <3>2. u[i + l] = s[l] /\ s[l] = M + 1 + l
      BY <1>2, <3>1
    <3> QED BY <1>1, <3>2
  <2>3. c < Len(u)
    BY <1>1, <1>5
  <2>4. u[c] # u[c + 1] - 1
    BY <2>1, <2>2
  <2> QED BY <1>5, <2>1, <2>3, <2>4 DEF BeginsAt
<1> QED BY <1>1, <1>4, <1>5 DEF Joint

(* What was inserted in two edits never goes on across a deletion, unless   *)
(* inserted text begins where the deletion does.                            *)
LEMMA JointDeleted ==
  ASSUME NEW t \in Texts, NEW u \in Texts, NEW i \in Nat, NEW j \in Nat, i < j, NEW M \in Nat,
         Told(t, M), Kept(t, i, j, u, i), ~BeginsAt(t, i)
  PROVE  Joint(t, j, u, i)
<1>1. PICK n \in Nat : n = Len(t) /\ j <= n /\ Len(u) = i + (n - j)
  BY LenType DEF Kept
<1>2. SUFFICES ASSUME j < n, t[j + 1] > 10 PROVE BeginsAt(u, i)
  BY <1>1 DEF Joint
<1>3. u[i + 1] = t[j + 1]
  <2>1. 1 \in 1..n - j
    BY <1>2
  <2> QED BY <1>1, <2>1 DEF Kept
<1>4. i < Len(u)
  BY <1>1, <1>2
<1>5. CASE i = 0
  BY <1>2, <1>3, <1>4, <1>5 DEF BeginsAt
<1>6. CASE i # 0
  <2>1. i \in 1..i /\ i \in 1..n /\ i + 1 \in 1..n /\ j + 1 \in 1..n /\ i < i + 1 /\ i + 1 < j + 1
    BY <1>1, <1>2, <1>6
  <2>2. u[i] = t[i]
    BY <2>1 DEF Kept
  <2>3. ASSUME t[i] = t[j + 1] - 1 PROVE FALSE
    <3>1. t[i] \in Nat /\ t[j + 1] \in Nat /\ t[i + 1] \in Nat
      BY <1>1, <2>1, At
    <3>2. t[i] # 10
      BY <1>1, <2>1 DEF Told
    <3>3. t[i] > 10 /\ t[j + 1] = t[i] + 1
      BY <1>2, <2>3, <3>1, <3>2
    <3>4. t[i + 1] > 10
      BY <1>1, <2>1, <3>3 DEF Told
    <3>5. t[i + 1] # t[j + 1]
      BY <1>1, <1>2, <2>1 DEF Told
    <3>6. t[i] # t[i + 1] - 1
      BY <2>3, <3>1, <3>5
    <3>7. i < Len(t)
      BY <1>1, <2>1
    <3> QED BY <3>4, <3>6, <3>7 DEF BeginsAt
  <2> QED BY <1>2, <1>3, <1>4, <2>2, <2>3 DEF BeginsAt
<1> QED BY <1>5, <1>6

(* An insertion: i is in the text, s is newer than all of it.              *)
Inserts(o, t, cs, M, i, s, l, new, u) ==
  /\ Small(o) /\ M \in Nat /\ 9 <= M /\ Built(o, t, cs, M) /\ i \in 0..Len(t)
  /\ s \in Texts /\ l \in 1..9 /\ l = Len(s) /\ \A x \in 1..l : s[x] = M + 1 + x
  /\ new = WithInserted(cs, i, s) /\ u = Cat(Cat(Take(t, i), s), Drop(t, i))

Inserting(o, cs, i, s, new) ==
  \E k, at, h1, h2, n, sp :
    Inserted(o, cs, i, s, k, at, h1, h2, sp, n, new)

LEMMA InsertsIs ==
  ASSUME NEW o, NEW t, NEW cs, NEW M, NEW i, NEW s, NEW l, NEW new, NEW u,
         Inserts(o, t, cs, M, i, s, l, new, u)
  PROVE  /\ Inserting(o, cs, i, s, new)
         /\ InsertionOf(t, i, s, l, u) /\ t \in Texts /\ u \in Texts /\ i \in Nat /\ l \in Nat
<1>1. t \in Texts /\ t = Flat(o, cs, Len(cs)) /\ Formed(o, cs) /\ Small(o)
  BY DEF Inserts, Built
<1>2. i \in 0..Len(t) /\ s \in Texts /\ l = Len(s) /\ l \in Nat
  BY DEF Inserts
<1>3. Len(t) \in Nat
  BY <1>1, LenType
<1>4. i \in Nat
  BY <1>2, <1>3
<1>5. u = Cat(Cat(Take(t, i), s), Drop(t, i)) /\ new = WithInserted(cs, i, s)
  BY DEF Inserts
<1>6. u \in Texts /\ InsertionOf(t, i, s, l, u)
  BY <1>1, <1>2, <1>5, InsertionKeeps
<1>7. i \in 0..Len(Flat(o, cs, Len(cs)))
  BY <1>1, <1>2, Zenon
<1>8. \E k, at, h1, h2, n : Inserted(o, cs, i, s, k, at, h1, h2, Split(cs, i), n, new)
  BY <1>1, <1>2, <1>5, <1>7, InsertedIs, Zenon
<1>9. Inserting(o, cs, i, s, new)
  BY <1>8, Zenon DEF Inserting
<1> QED BY <1>1, <1>2, <1>4, <1>6, <1>9

LEMMA InsertRow ==
  ASSUME NEW s \in Texts, NEW l \in Nat, l = Len(s)
  PROVE  /\ <<Insert(s)>> \in Rows /\ Len(<<Insert(s)>>) = 1
         /\ <<Insert(s)>>[1] = Insert(s) /\ Insert(s).text = s /\ Insert(s).type = "insert"
<1>1. Insert(s) \in Chunks /\ Insert(s).text = s /\ Insert(s).type = "insert"
  BY InsertType
<1> QED BY <1>1 DEF Rows

LEMMA InsertBuilt ==
  ASSUME NEW o, NEW t, NEW cs, NEW M, NEW i, NEW s, NEW l, NEW new, NEW u,
         Inserts(o, t, cs, M, i, s, l, new, u)
  PROVE  Built(o, u, new, M + 10)
<1>1. InsertionOf(t, i, s, l, u) /\ t \in Texts /\ u \in Texts /\ i \in Nat /\ l \in Nat
      /\ Inserting(o, cs, i, s, new)
  BY InsertsIs, Zenon
<1>2. PICK k, at, h1, h2, n, sp : Inserted(o, cs, i, s, k, at, h1, h2, sp, n, new)
  BY <1>1, Zenon DEF Inserting
<1>3. Small(o) /\ Formed(o, cs) /\ t = Flat(o, cs, Len(cs)) /\ NewText(cs) /\ Told(t, M)
  BY DEF Inserts, Built
<1>4. M \in Nat /\ 9 <= M /\ s \in Texts /\ l \in 1..9 /\ l = Len(s) /\ \A x \in 1..l : s[x] = M + 1 + x
      /\ u = Cat(Cat(Take(t, i), s), Drop(t, i))
  BY DEF Inserts
<1>5. Told(u, M + 10)
  BY <1>1, <1>3, <1>4, ToldInserted
<1>6. Formed(o, new) /\ Flat(o, new, Len(new)) = u
  <2>1. Formed(o, new)
    BY <1>2 DEF Inserted
  <2>2. Flat(o, new, Len(new)) = Cat(Cat(Take(Flat(o, cs, Len(cs)), i), s), Drop(Flat(o, cs, Len(cs)), i))
    BY <1>2 DEF Inserted
  <2>3. Flat(o, new, Len(new)) = Cat(Cat(Take(t, i), s), Drop(t, i))
    <3>1. t = Flat(o, cs, Len(cs))
      BY <1>3
    <3>2. PICK v : v = Flat(o, cs, Len(cs))
      OBVIOUS
    <3>3. Flat(o, new, Len(new)) = Cat(Cat(Take(v, i), s), Drop(v, i))
      BY <2>2, <3>2
    <3> QED BY <3>1, <3>2, <3>3
  <2>4. u = Cat(Cat(Take(t, i), s), Drop(t, i))
    BY <1>4
  <2> QED BY <2>1, <2>3, <2>4
<1>7. Parted(o, cs, i, k, at, h1, h2, sp) /\ sp \in Rows /\ n \in Nat /\ n + k = Len(sp)
      /\ Spliced(sp, k, k, <<Insert(s)>>, 1, n, new)
  BY <1>2 DEF Inserted
<1>8. NewText(sp)
  BY <1>3, <1>7, NewTextParted
<1>9. Formed(o, sp) /\ k \in 1..Len(cs) /\ Len(sp) = Len(cs) + 1
  BY <1>7 DEF Parted, Splits
<1>10. PICK N \in Nat : N = Len(sp)
  BY <1>7, RowLen, Zenon
<1>11. k \in 1..N /\ k \in k..N
  BY <1>9, <1>10, <1>3 DEF Formed
<1>12. PICK b \in Nat : b = 1
  OBVIOUS
<1>13. PICK q : q = <<Insert(s)>>
  OBVIOUS
<1>14. NewRow(q, b)
  <2>1. q[1].text = s
    BY <1>13, <1>4, InsertRow
  <2>2. \A x \in 1..Len(s) : s[x] > 10
    BY <1>4
  <2> QED BY <2>1, <2>2, <1>12 DEF NewRow
<1>15. Spliced(sp, k, k, q, b, n, new) /\ n + k = N /\ n \in Nat
  BY <1>7, <1>10, <1>12, <1>13, Zenon
<1>16. NewText(new)
  BY <1>8, <1>10, <1>11, <1>14, <1>15, NewTextSpliced
<1> QED BY <1>1, <1>5, <1>6, <1>16 DEF Built

LEMMA InsertFresh ==
  ASSUME NEW o, NEW t, NEW cs, NEW M, NEW i, NEW s, NEW l, NEW new, NEW u,
         Inserts(o, t, cs, M, i, s, l, new, u), Fresh(o, t, cs, {}), ~BeginsAt(t, i)
  PROVE  Fresh(o, u, new, {})
<1>1. InsertionOf(t, i, s, l, u) /\ t \in Texts /\ u \in Texts /\ i \in Nat /\ l \in Nat
      /\ Inserting(o, cs, i, s, new)
  BY InsertsIs, Zenon
<1>2. PICK k, at, h1, h2, n, sp : Inserted(o, cs, i, s, k, at, h1, h2, sp, n, new)
  BY <1>1, Zenon DEF Inserting
<1>3. Small(o) /\ Formed(o, cs) /\ t = Flat(o, cs, Len(cs)) /\ NewText(cs) /\ Told(t, M)
  BY DEF Inserts, Built
<1>4. M \in Nat /\ 9 <= M /\ s \in Texts /\ l \in 1..9 /\ l = Len(s) /\ \A x \in 1..l : s[x] = M + 1 + x
      /\ u = Cat(Cat(Take(t, i), s), Drop(t, i)) /\ i \in 0..Len(t)
  BY DEF Inserts
<1>5. Joint(t, i, u, i + l) /\ BeginsAt(u, i)
  BY <1>1, <1>3, <1>4, JointInserted
<1>7. Parted(o, cs, i, k, at, h1, h2, sp) /\ sp \in Rows /\ n \in Nat /\ n + k = Len(sp)
      /\ Spliced(sp, k, k, <<Insert(s)>>, 1, n, new)
      /\ Flat(o, new, k + 1) = Cat(Take(Flat(o, cs, Len(cs)), i), s)
  BY <1>2 DEF Inserted
<1>8. NewText(sp)
  BY <1>3, <1>7, NewTextParted
<1>9. /\ Formed(o, sp) /\ k \in 1..Len(cs) /\ Len(sp) = Len(cs) + 1
      /\ Flat(o, sp, Len(sp)) = t /\ Flat(o, sp, k) = Take(t, i) /\ at \in Nat
  BY <1>3, <1>7 DEF Parted, Splits
<1>10. PICK N \in Nat : N = Len(sp)
  BY <1>7, RowLen, Zenon
<1>11. k \in 1..N /\ k \in k..N
  BY <1>9, <1>10, <1>3 DEF Formed
<1>12. PICK b \in Nat : b = 1
  OBVIOUS
<1>13. PICK q : q = <<Insert(s)>>
  OBVIOUS
<1>14. PICK c \in Nat : c = i + l
  BY <1>1
<1>15. Spliced(sp, k, k, q, b, n, new) /\ n + k = N /\ n \in Nat
  BY <1>7, <1>10, <1>12, <1>13, Zenon
<1>16. PICK d \in Nat : d = k + b
  BY <1>11, <1>12
<1>17. o \in Texts
  BY <1>3 DEF Small
<1>18. Kept(t, i, i, u, c)
  BY <1>1, <1>14, Zenon DEF InsertionOf
<1>19. Take(t, i) \in Texts /\ Len(Take(t, i)) = i
  BY <1>1, <1>4, TakeIs
<1>20. i = Len(Flat(o, sp, k))
  BY <1>9, <1>19
<1>21. Flat(o, new, d) = Cat(Take(t, i), s)
  BY <1>3, <1>7, <1>12, <1>16
<1>22. Len(Flat(o, new, d)) = Len(Take(t, i)) + Len(s)
  BY <1>4, <1>19, <1>21, CatType
<1>23. c = Len(Flat(o, new, d))
  BY <1>4, <1>14, <1>19, <1>22
<1>24. PICK E \in SUBSET {i, i} : E = {} \cup {i}
  OBVIOUS
<1>25. \A y \in 1..N : FreshAt(o, t, sp, y, E)
  <2> TAKE y \in 1..N
  <2>0. PICK Z : Z = {}
    OBVIOUS
  <2>1. y \in 1..Len(sp)
    BY <1>10
  <2>2. k \in 1..Len(cs) /\ at \in Nat
    BY <1>9
  <2>3. i \notin Z /\ Fresh(o, t, cs, Z)
    BY <2>0
  <2>4. FreshAt(o, t, sp, y, Z \cup {i})
    BY <1>1, <1>3, <1>7, <2>1, <2>2, <2>3, SplitFresh
  <2> QED BY <2>0, <2>4, <1>24
<1>26. FreshAt(o, u, new, k + 1, {})
  <2>1. new[k + 1] = q[1]
    BY <1>12, <1>15 DEF Spliced
  <2>2. q[1].text = s /\ q[1].type = "insert"
    BY <1>13, <1>4, InsertRow
  <2>3. Len(new[k + 1].text) > 0
    BY <2>1, <2>2, <1>4
  <2>4. SameStart(o, sp, k, new)
    BY <1>7, <1>10, <1>11, <1>12, <1>15, <1>17, SplicedFlat
  <2>5. Flat(o, new, k) = Flat(o, sp, k)
    BY <2>4, <1>11 DEF SameStart
  <2>6. PICK y \in Nat : y = k + 1
    BY <1>11
  <2>7. Place(o, new, y) = Len(Flat(o, new, k))
    BY <2>6, <1>11, PlaceOf
  <2>8. Place(o, new, y) = i
    BY <2>5, <2>7, <1>20
  <2> QED BY <2>3, <2>6, <2>8, <1>5 DEF FreshAt
<1>27. \A x \in 1..b : FreshAt(o, u, new, k + x, {})
  BY <1>12, <1>26
<1>28. Joint(t, i, u, c)
  BY <1>5, <1>14
<1>29. t = Flat(o, sp, N)
  BY <1>9, <1>10
<1> HIDE DEF Spliced
<1> QED BY <1>1, <1>7, <1>8, <1>10, <1>11, <1>15, <1>16, <1>17, <1>18, <1>20, <1>23, <1>24, <1>25, <1>27, <1>28,
           <1>29, FreshSpliced

(* A deletion.                                                             *)
Deletes(o, t, cs, M, i, j, new, u) ==
  /\ Small(o) /\ M \in Nat /\ Built(o, t, cs, M) /\ i \in 0..Len(t) /\ j \in 0..Len(t) /\ i < j
  /\ new = WithDeleted(cs, i, j) /\ u = Cat(Take(t, i), Drop(t, j))

Deleting(o, cs, i, j, new) ==
  \E k, at, h1, h2, sp, l, ta, g1, g2, sq, n :
    Deleted(o, cs, i, j, k, at, h1, h2, sp, l, ta, g1, g2, sq, n, new)

LEMMA DeletesIs ==
  ASSUME NEW o, NEW t, NEW cs, NEW M, NEW i, NEW j, NEW new, NEW u, Deletes(o, t, cs, M, i, j, new, u)
  PROVE  /\ Deleting(o, cs, i, j, new) /\ Kept(t, i, j, u, i)
         /\ t \in Texts /\ u \in Texts /\ i \in Nat /\ j \in Nat
<1>1. t \in Texts /\ t = Flat(o, cs, Len(cs)) /\ Formed(o, cs) /\ Small(o)
  BY DEF Deletes, Built
<1>2. i \in 0..Len(t) /\ j \in 0..Len(t) /\ i < j
  BY DEF Deletes
<1>3. Len(t) \in Nat
  BY <1>1, LenType
<1>4. i \in Nat /\ j \in Nat /\ j \in i..Len(t)
  BY <1>2, <1>3
<1>5. u = Cat(Take(t, i), Drop(t, j)) /\ new = WithDeleted(cs, i, j)
  BY DEF Deletes
<1>6. u \in Texts /\ Kept(t, i, j, u, i)
  BY <1>1, <1>2, <1>4, <1>5, DeletionKeeps
<1>7. i \in 0..Len(Flat(o, cs, Len(cs))) /\ j \in 0..Len(Flat(o, cs, Len(cs)))
  BY <1>1, <1>2, Zenon
<1>8. \E k, at, h1, h2, sp, l, ta, g1, g2, sq, n :
         Deleted(o, cs, i, j, k, at, h1, h2, sp, l, ta, g1, g2, sq, n, new)
  BY <1>1, <1>2, <1>5, <1>7, DeletedIs, Zenon
<1>9. Deleting(o, cs, i, j, new)
  BY <1>8, Zenon DEF Deleting
<1> QED BY <1>1, <1>4, <1>6, <1>9

LEMMA DeleteBuilt ==
  ASSUME NEW o, NEW t, NEW cs, NEW M, NEW i, NEW j, NEW new, NEW u, Deletes(o, t, cs, M, i, j, new, u)
  PROVE  Built(o, u, new, M)
<1>1. Kept(t, i, j, u, i) /\ t \in Texts /\ u \in Texts /\ i \in Nat /\ j \in Nat
      /\ Deleting(o, cs, i, j, new)
  BY DeletesIs, Zenon
<1>2. PICK k, at, h1, h2, sp, l, ta, g1, g2, sq, n :
         Deleted(o, cs, i, j, k, at, h1, h2, sp, l, ta, g1, g2, sq, n, new)
  BY <1>1, Zenon DEF Deleting
<1>3. Small(o) /\ Formed(o, cs) /\ t = Flat(o, cs, Len(cs)) /\ NewText(cs) /\ Told(t, M) /\ M \in Nat
  BY DEF Deletes, Built
<1>4. u = Cat(Take(t, i), Drop(t, j))
  BY DEF Deletes
<1>5. Told(u, M)
  BY <1>1, <1>3, ToldKept
<1>6. Formed(o, new) /\ Flat(o, new, Len(new)) = u
  <2>1. Formed(o, new)
    BY <1>2 DEF Deleted
  <2>2. Flat(o, new, Len(new)) = Cat(Take(Flat(o, cs, Len(cs)), i), Drop(Flat(o, cs, Len(cs)), j))
    BY <1>2 DEF Deleted
  <2>3. Flat(o, new, Len(new)) = Cat(Take(t, i), Drop(t, j))
    <3>1. t = Flat(o, cs, Len(cs))
      BY <1>3
    <3>2. PICK v : v = Flat(o, cs, Len(cs))
      OBVIOUS
    <3>3. Flat(o, new, Len(new)) = Cat(Take(v, i), Drop(v, j))
      BY <2>2, <3>2
    <3> QED BY <3>1, <3>2, <3>3
  <2> QED BY <2>1, <2>3, <1>4
<1>7. Parted(o, cs, i, k, at, h1, h2, sp) /\ Parted(o, sp, j, l, ta, g1, g2, sq)
      /\ sq \in Rows /\ l \in k + 1..Len(sp) /\ n \in Nat /\ n + l = Len(sq)
      /\ Spliced(sq, k, l, <<>>, 0, n, new)
  BY <1>2 DEF Deleted
<1>8. Formed(o, sp) /\ k \in 1..Len(cs) /\ Len(sp) = Len(cs) + 1
  BY <1>7 DEF Parted, Splits
<1>9. NewText(sp)
  BY <1>3, <1>7, NewTextParted
<1>10. NewText(sq)
  BY <1>3, <1>7, <1>8, <1>9, NewTextParted
<1>11. Len(sq) = Len(sp) + 1
  BY <1>7 DEF Parted, Splits
<1>12. PICK N \in Nat : N = Len(sq)
  BY <1>7, RowLen, Zenon
<1>13. Len(cs) \in Nat
  BY <1>3 DEF Formed
<1>14. k \in 1..N /\ l \in k..N
  BY <1>7, <1>8, <1>11, <1>12, <1>13
<1>15. PICK b \in Nat : b = 0
  OBVIOUS
<1>16. PICK q : q = <<>>
  OBVIOUS
<1>17. NewRow(q, b)
  BY <1>15 DEF NewRow
<1>18. Spliced(sq, k, l, q, b, n, new) /\ n + l = N /\ n \in Nat
  BY <1>7, <1>12, <1>15, <1>16, Zenon
<1>19. NewText(new)
  BY <1>10, <1>12, <1>14, <1>17, <1>18, NewTextSpliced
<1> QED BY <1>1, <1>5, <1>6, <1>19 DEF Built

LEMMA DeleteFresh ==
  ASSUME NEW o, NEW t, NEW cs, NEW M, NEW i, NEW j, NEW new, NEW u, Deletes(o, t, cs, M, i, j, new, u),
         Fresh(o, t, cs, {}), ~BeginsAt(t, i)
  PROVE  Fresh(o, u, new, {})
<1>1. Kept(t, i, j, u, i) /\ t \in Texts /\ u \in Texts /\ i \in Nat /\ j \in Nat
      /\ Deleting(o, cs, i, j, new)
  BY DeletesIs, Zenon
<1>2. PICK k, at, h1, h2, sp, l, ta, g1, g2, sq, n :
         Deleted(o, cs, i, j, k, at, h1, h2, sp, l, ta, g1, g2, sq, n, new)
  BY <1>1, Zenon DEF Deleting
<1>3. Small(o) /\ Formed(o, cs) /\ t = Flat(o, cs, Len(cs)) /\ NewText(cs) /\ Told(t, M) /\ M \in Nat
  BY DEF Deletes, Built
<1>4. i < j /\ i \in 0..Len(t) /\ j \in 0..Len(t)
  BY DEF Deletes
<1>5. Joint(t, j, u, i)
  BY <1>1, <1>3, <1>4, JointDeleted
<1>7. Parted(o, cs, i, k, at, h1, h2, sp) /\ Parted(o, sp, j, l, ta, g1, g2, sq)
      /\ sq \in Rows /\ l \in k + 1..Len(sp) /\ n \in Nat /\ n + l = Len(sq)
      /\ Spliced(sq, k, l, <<>>, 0, n, new) /\ Flat(o, new, k) = Take(Flat(o, cs, Len(cs)), i)
  BY <1>2 DEF Deleted
<1>8. /\ Formed(o, sp) /\ k \in 1..Len(cs) /\ Len(sp) = Len(cs) + 1
      /\ Flat(o, sp, Len(sp)) = t /\ Flat(o, sp, k) = Take(t, i) /\ at \in Nat
  BY <1>3, <1>7 DEF Parted, Splits
<1>9. NewText(sp)
  BY <1>3, <1>7, NewTextParted
<1>10. NewText(sq)
  BY <1>3, <1>7, <1>8, <1>9, NewTextParted
<1>11. /\ Len(sq) = Len(sp) + 1 /\ Flat(o, sq, Len(sq)) = t /\ Flat(o, sq, l) = Take(t, j)
       /\ ta \in Nat /\ l \in 1..Len(sp)
       /\ \A x \in 0..l - 1 : Flat(o, sq, x) = Flat(o, sp, x)
  BY <1>7, <1>8 DEF Parted, Splits
<1>12. PICK N \in Nat : N = Len(sq)
  BY <1>7, RowLen, Zenon
<1>13. Len(cs) \in Nat
  BY <1>3 DEF Formed
<1>14. k \in 1..N /\ l \in k..N
  BY <1>7, <1>8, <1>11, <1>12, <1>13
<1>15. PICK b \in Nat : b = 0
  OBVIOUS
<1>16. PICK q : q = <<>>
  OBVIOUS
<1>17. o \in Texts
  BY <1>3 DEF Small
<1>18. Spliced(sq, k, l, q, b, n, new) /\ n + l = N /\ n \in Nat
  BY <1>7, <1>12, <1>15, <1>16, Zenon
<1>19. PICK d \in Nat : d = k + b
  BY <1>14, <1>15
<1>20. Flat(o, sq, k) = Take(t, i)
  BY <1>7, <1>8, <1>11
<1>21. Take(t, i) \in Texts /\ Len(Take(t, i)) = i /\ Len(Take(t, j)) = j
  BY <1>1, <1>4, TakeIs
<1>22. i = Len(Flat(o, sq, k)) /\ j = Len(Flat(o, sq, l))
  BY <1>11, <1>20, <1>21
<1>23. i = Len(Flat(o, new, d))
  <2>1. d = k
    BY <1>14, <1>15, <1>19
  <2>2. Flat(o, new, k) = Take(t, i)
    BY <1>3, <1>7
  <2> QED BY <2>1, <2>2, <1>21
<1>24. PICK E \in SUBSET {i, j} : E = {i, j}
  OBVIOUS
<1>25. PICK Z : Z = {}
  OBVIOUS
<1>26. Fresh(o, t, sp, Z \cup {i})
  <2>1. SUFFICES ASSUME NEW y \in 1..Len(sp) PROVE FreshAt(o, t, sp, y, Z \cup {i})
    BY DEF Fresh
  <2>2. i \notin Z /\ Fresh(o, t, cs, Z)
    BY <1>25
  <2>3. k \in 1..Len(cs) /\ at \in Nat
    BY <1>8
  <2> QED BY <1>1, <1>3, <1>7, <2>1, <2>2, <2>3, SplitFresh
<1>27. \A y \in 1..N : y <= k \/ y > l => FreshAt(o, t, sq, y, E)
  <2> SUFFICES ASSUME NEW y \in 1..N, y <= k \/ y > l PROVE FreshAt(o, t, sq, y, E)
    OBVIOUS
  <2>1. PICK F : F = Z \cup {i}
    OBVIOUS
  <2>2. y \in 1..Len(sq) /\ y # l
    BY <1>7, <1>8, <1>12, <1>13, <1>14
  <2>3. l \in 1..Len(sp) /\ ta \in Nat
    BY <1>11
  <2>4. Fresh(o, t, sp, F)
    BY <2>1, <1>26
  <2>5. FreshAt(o, t, sq, y, F \cup {j})
    BY <1>1, <1>3, <1>7, <1>8, <2>2, <2>3, <2>4, SplitFresh
  <2>6. F \cup {j} = E
    BY <2>1, <1>24, <1>25
  <2> QED BY <2>5, <2>6
<1>28. \A x \in 1..b : FreshAt(o, u, new, k + x, {})
  BY <1>15
<1>29. t = Flat(o, sq, N)
  BY <1>11, <1>12
<1> QED BY <1>1, <1>5, <1>7, <1>10, <1>12, <1>14, <1>17, <1>18, <1>19, <1>22, <1>23, <1>24, <1>27, <1>28,
           <1>29, FreshSpliced

(* Characters are not more for being bounded by more.                      *)
LEMMA ToldMore ==
  ASSUME NEW t \in Texts, NEW M \in Nat, NEW L \in Nat, M <= L, Told(t, M)
  PROVE  Told(t, L)
BY At, LenType DEF Told

-----------------------------------------------------------------------------
(* The mutations, one after the other. *)

After(t, d, n) ==
  LET after[k \in 0..Len(d)] == IF k = 0 THEN t ELSE Patched(after[k-1], d[k])
  IN after[n]

Runs(t, d, N) ==
  /\ After(t, d, 0) = t
  /\ \A n \in 1..N : After(t, d, n) = Patched(After(t, d, n - 1), d[n])

LEMMA AfterIs ==
  ASSUME NEW t, NEW d, NEW N \in Nat, N = Len(d)
  PROVE  Runs(t, d, N)
<1> DEFINE Next1(f, n) == IF n = 0 THEN t ELSE Patched(f[n-1], d[n])
<1> DEFINE Does(f, m) == f = [n \in 0..m |-> Next1(f, n)]
<1> DEFINE S == {m \in Nat : \E f : Does(f, m)}
<1>1. 0 \in S
  <2>1. Does([n \in 0..0 |-> t], 0)
    OBVIOUS
  <2> QED BY <2>1
<1>2. ASSUME NEW m \in Nat, m \in S PROVE m + 1 \in S
  <2>1. PICK f : Does(f, m)
    BY <1>2
  <2>2. PICK g : g = [n \in 0..m + 1 |-> IF n <= m THEN f[n] ELSE Patched(f[m], d[m + 1])]
    OBVIOUS
  <2>3. \A n \in 0..m + 1 : g[n] = Next1(g, n)
    <3> SUFFICES ASSUME NEW n \in 0..m + 1 PROVE g[n] = Next1(g, n)
      OBVIOUS
    <3>1. CASE n = 0
      BY <2>1, <2>2, <3>1
    <3>2. CASE n # 0 /\ n <= m
      <4>1. n - 1 \in 0..m /\ n \in 0..m /\ n - 1 \in 0..m + 1
        BY <3>2
      <4>2. g[n] = f[n] /\ g[n - 1] = f[n - 1]
        BY <2>2, <3>2, <4>1
      <4>3. f[n] = Patched(f[n - 1], d[n])
        BY <2>1, <3>2, <4>1
      <4> QED BY <3>2, <4>2, <4>3
    <3>3. CASE n = m + 1
      <4>1. g[n] = Patched(f[m], d[m + 1]) /\ g[m] = f[m] /\ n - 1 = m
        BY <2>2, <3>3
      <4> QED BY <3>3, <4>1
    <3> QED BY <3>1, <3>2, <3>3
  <2>4. Does(g, m + 1)
    BY <2>2, <2>3
  <2> QED BY <2>4
<1>3. Nat \subseteq S
  <2> HIDE DEF S
  <2> QED BY <1>1, <1>2, NatInduct
<1>4. \E f : Does(f, N)
  BY <1>3
<1>5. PICK f : f = CHOOSE g : Does(g, N)
  OBVIOUS
<1>6. Does(f, N)
  BY <1>4, <1>5
<1>7. \A n : After(t, d, n) = f[n]
  BY <1>5 DEF After
<1>8. \A n \in 0..N : f[n] = Next1(f, n)
  BY <1>6
<1>9. f[0] = t
  BY <1>8
<1>10. ASSUME NEW n \in 1..N PROVE f[n] = Patched(f[n - 1], d[n])
  BY <1>8
<1> QED BY <1>7, <1>9, <1>10 DEF Runs

-----------------------------------------------------------------------------
(* What the three loops have made after n turns. *)

Merged(cs, n) ==
  LET merged[k \in 0..Len(cs)] ==
        IF k = 0 THEN NothingMerged ELSE Merge(merged[k-1], cs[k])
  IN merged[n]

MergeRuns(cs, N) ==
  /\ Merged(cs, 0) = NothingMerged
  /\ \A n \in 1..N : Merged(cs, n) = Merge(Merged(cs, n - 1), cs[n])

LEMMA MergedIs ==
  ASSUME NEW cs, NEW N \in Nat, N = Len(cs)
  PROVE  MergeRuns(cs, N)
<1> DEFINE Next1(f, n) == IF n = 0 THEN NothingMerged ELSE Merge(f[n-1], cs[n])
<1> DEFINE Does(f, m) == f = [n \in 0..m |-> Next1(f, n)]
<1> DEFINE S == {m \in Nat : \E f : Does(f, m)}
<1>1. 0 \in S
  <2>1. Does([n \in 0..0 |-> NothingMerged], 0)
    OBVIOUS
  <2> QED BY <2>1
<1>2. ASSUME NEW m \in Nat, m \in S PROVE m + 1 \in S
  <2>1. PICK f : Does(f, m)
    BY <1>2
  <2>2. PICK g : g = [n \in 0..m + 1 |-> IF n <= m THEN f[n] ELSE Merge(f[m], cs[m + 1])]
    OBVIOUS
  <2>3. \A n \in 0..m + 1 : g[n] = Next1(g, n)
    <3> SUFFICES ASSUME NEW n \in 0..m + 1 PROVE g[n] = Next1(g, n)
      OBVIOUS
    <3>1. CASE n = 0
      BY <2>1, <2>2, <3>1
    <3>2. CASE n # 0 /\ n <= m
      <4>1. n - 1 \in 0..m /\ n \in 0..m /\ n - 1 \in 0..m + 1
        BY <3>2
      <4>2. g[n] = f[n] /\ g[n - 1] = f[n - 1]
        BY <2>2, <3>2, <4>1
      <4>3. f[n] = Merge(f[n - 1], cs[n])
        BY <2>1, <3>2, <4>1
      <4> QED BY <3>2, <4>2, <4>3
    <3>3. CASE n = m + 1
      <4>1. g[n] = Merge(f[m], cs[m + 1]) /\ g[m] = f[m] /\ n - 1 = m
        BY <2>2, <3>3
      <4> QED BY <3>3, <4>1
    <3> QED BY <3>1, <3>2, <3>3
  <2>4. Does(g, m + 1)
    BY <2>2, <2>3
  <2> QED BY <2>4
<1>3. Nat \subseteq S
  <2> HIDE DEF S
  <2> QED BY <1>1, <1>2, NatInduct
<1>4. \E f : Does(f, N)
  BY <1>3
<1>5. PICK f : f = CHOOSE g : Does(g, N)
  OBVIOUS
<1>6. Does(f, N)
  BY <1>4, <1>5
<1>7. \A n : Merged(cs, n) = f[n]
  BY <1>5 DEF Merged
<1>8. \A n \in 0..N : f[n] = Next1(f, n)
  BY <1>6
<1>9. f[0] = NothingMerged
  BY <1>8
<1>10. ASSUME NEW n \in 1..N PROVE f[n] = Merge(f[n - 1], cs[n])
  BY <1>8
<1> QED BY <1>7, <1>9, <1>10 DEF MergeRuns

NothingMutated == [start |-> Infinity, diff |-> <<>>]

Mutated(cs, n) ==
  LET last[k \in 0..Len(cs)] ==
        IF k = 0 THEN NothingMutated ELSE Mutate(last[k-1], cs[Len(cs) + 1 - k])
  IN last[n]

MutateRuns(cs, N) ==
  /\ Mutated(cs, 0) = NothingMutated
  /\ \A n \in 1..N : Mutated(cs, n) = Mutate(Mutated(cs, n - 1), cs[Len(cs) + 1 - n])

LEMMA MutatedIs ==
  ASSUME NEW cs, NEW N \in Nat, N = Len(cs)
  PROVE  MutateRuns(cs, N)
<1> DEFINE Next1(f, n) == IF n = 0 THEN NothingMutated ELSE Mutate(f[n-1], cs[Len(cs) + 1 - n])
<1> DEFINE Does(f, m) == f = [n \in 0..m |-> Next1(f, n)]
<1> DEFINE S == {m \in Nat : \E f : Does(f, m)}
<1>1. 0 \in S
  <2>1. Does([n \in 0..0 |-> NothingMutated], 0)
    OBVIOUS
  <2> QED BY <2>1
<1>2. ASSUME NEW m \in Nat, m \in S PROVE m + 1 \in S
  <2>1. PICK f : Does(f, m)
    BY <1>2
  <2>2. PICK g : g = [n \in 0..m + 1 |-> IF n <= m THEN f[n] ELSE Mutate(f[m], cs[Len(cs) + 1 - (m + 1)])]
    OBVIOUS
  <2>3. \A n \in 0..m + 1 : g[n] = Next1(g, n)
    <3> SUFFICES ASSUME NEW n \in 0..m + 1 PROVE g[n] = Next1(g, n)
      OBVIOUS
    <3>1. CASE n = 0
      BY <2>1, <2>2, <3>1
    <3>2. CASE n # 0 /\ n <= m
      <4>1. n - 1 \in 0..m /\ n \in 0..m /\ n - 1 \in 0..m + 1
        BY <3>2
      <4>2. g[n] = f[n] /\ g[n - 1] = f[n - 1]
        BY <2>2, <3>2, <4>1
      <4>3. f[n] = Mutate(f[n - 1], cs[Len(cs) + 1 - n])
        BY <2>1, <3>2, <4>1
      <4> QED BY <3>2, <4>2, <4>3
    <3>3. CASE n = m + 1
      <4>1. g[n] = Mutate(f[m], cs[Len(cs) + 1 - (m + 1)]) /\ g[m] = f[m] /\ n - 1 = m
        BY <2>2, <3>3
      <4> QED BY <3>3, <4>1
    <3> QED BY <3>1, <3>2, <3>3
  <2>4. Does(g, m + 1)
    BY <2>2, <2>3
  <2> QED BY <2>4
<1>3. Nat \subseteq S
  <2> HIDE DEF S
  <2> QED BY <1>1, <1>2, NatInduct
<1>4. \E f : Does(f, N)
  BY <1>3
<1>5. PICK f : f = CHOOSE g : Does(g, N)
  OBVIOUS
<1>6. Does(f, N)
  BY <1>4, <1>5
<1>7. \A n : Mutated(cs, n) = f[n]
  BY <1>5 DEF Mutated
<1>8. \A n \in 0..N : f[n] = Next1(f, n)
  BY <1>6
<1>9. f[0] = NothingMutated
  BY <1>8
<1>10. ASSUME NEW n \in 1..N PROVE f[n] = Mutate(f[n - 1], cs[Len(cs) + 1 - n])
  BY <1>8
<1> QED BY <1>7, <1>9, <1>10 DEF MutateRuns

JoinedOf(d, n) ==
  LET last[k \in 0..Len(d)] ==
        IF k = 0 THEN <<>> ELSE Join(d[Len(d) + 1 - k], last[k-1])
  IN last[n]

JoinRuns(d, N) ==
  /\ JoinedOf(d, 0) = <<>>
  /\ \A n \in 1..N : JoinedOf(d, n) = Join(d[Len(d) + 1 - n], JoinedOf(d, n - 1))

LEMMA JoinedOfIs ==
  ASSUME NEW d, NEW N \in Nat, N = Len(d)
  PROVE  JoinRuns(d, N)
<1> DEFINE Next1(f, n) == IF n = 0 THEN <<>> ELSE Join(d[Len(d) + 1 - n], f[n-1])
<1> DEFINE Does(f, m) == f = [n \in 0..m |-> Next1(f, n)]
<1> DEFINE S == {m \in Nat : \E f : Does(f, m)}
<1>1. 0 \in S
  <2>1. Does([n \in 0..0 |-> <<>>], 0)
    OBVIOUS
  <2> QED BY <2>1
<1>2. ASSUME NEW m \in Nat, m \in S PROVE m + 1 \in S
  <2>1. PICK f : Does(f, m)
    BY <1>2
  <2>2. PICK g : g = [n \in 0..m + 1 |-> IF n <= m THEN f[n] ELSE Join(d[Len(d) + 1 - (m + 1)], f[m])]
    OBVIOUS
  <2>3. \A n \in 0..m + 1 : g[n] = Next1(g, n)
    <3> SUFFICES ASSUME NEW n \in 0..m + 1 PROVE g[n] = Next1(g, n)
      OBVIOUS
    <3>1. CASE n = 0
      BY <2>1, <2>2, <3>1
    <3>2. CASE n # 0 /\ n <= m
      <4>1. n - 1 \in 0..m /\ n \in 0..m /\ n - 1 \in 0..m + 1
        BY <3>2
      <4>2. g[n] = f[n] /\ g[n - 1] = f[n - 1]
        BY <2>2, <3>2, <4>1
      <4>3. f[n] = Join(d[Len(d) + 1 - n], f[n - 1])
        BY <2>1, <3>2, <4>1
      <4> QED BY <3>2, <4>2, <4>3
    <3>3. CASE n = m + 1
      <4>1. g[n] = Join(d[Len(d) + 1 - (m + 1)], f[m]) /\ g[m] = f[m] /\ n - 1 = m
        BY <2>2, <3>3
      <4> QED BY <3>3, <4>1
    <3> QED BY <3>1, <3>2, <3>3
  <2>4. Does(g, m + 1)
    BY <2>2, <2>3
  <2> QED BY <2>4
<1>3. Nat \subseteq S
  <2> HIDE DEF S
  <2> QED BY <1>1, <1>2, NatInduct
<1>4. \E f : Does(f, N)
  BY <1>3
<1>5. PICK f : f = CHOOSE g : Does(g, N)
  OBVIOUS
<1>6. Does(f, N)
  BY <1>4, <1>5
<1>7. \A n : JoinedOf(d, n) = f[n]
  BY <1>5 DEF JoinedOf
<1>8. \A n \in 0..N : f[n] = Next1(f, n)
  BY <1>6
<1>9. f[0] = <<>>
  BY <1>8
<1>10. ASSUME NEW n \in 1..N PROVE f[n] = Join(d[Len(d) + 1 - n], f[n - 1])
  BY <1>8
<1> QED BY <1>7, <1>9, <1>10 DEF JoinRuns

LEMMA Loops ==
  /\ \A t, d : PatchedBy(t, d) = After(t, d, Len(d))
  /\ \A cs : MergeInserts(cs) = Merged(cs, Len(cs)).out
  /\ \A cs : MutationsOf(cs) = Mutated(cs, Len(cs)).diff
  /\ \A d : MergeDeletes(d) = JoinedOf(d, Len(d))
<1>1. \A t, d : PatchedBy(t, d) = After(t, d, Len(d))
  BY DEF PatchedBy, After
<1>2. \A cs : MergeInserts(cs) = Merged(cs, Len(cs)).out
  BY DEF MergeInserts, Merged
<1>3. \A cs : MutationsOf(cs) = Mutated(cs, Len(cs)).diff
  BY DEF MutationsOf, Mutated, NothingMutated
<1>4. \A d : MergeDeletes(d) = JoinedOf(d, Len(d))
  BY DEF MergeDeletes, JoinedOf
<1> QED BY <1>1, <1>2, <1>3, <1>4

-----------------------------------------------------------------------------
(* Mutations. *)

MRows == Seq(Mutations)

LEMMA MutationType ==
  \A m \in Mutations : /\ m.type \in {"insert", "delete"} /\ m.start \in Nat /\ m.end \in Nat
                       /\ m.text \in Texts
BY DEF Mutations, Texts

LEMMA MutationMade ==
  /\ \A a, b \in Nat : /\ Deletion(a, b) \in Mutations /\ Deletion(a, b).type = "delete"
                       /\ Deletion(a, b).start = a /\ Deletion(a, b).end = b
                       /\ Deletion(a, b).text = <<>>
  /\ \A a \in Nat, s \in Texts :
       /\ Insertion(a, s) \in Mutations /\ Insertion(a, s).type = "insert"
       /\ Insertion(a, s).start = a /\ Insertion(a, s).end = a /\ Insertion(a, s).text = s
<1>1. <<>> \in Seq(Nat)
  OBVIOUS
<1> QED BY <1>1 DEF Deletion, Insertion, Mutations, Texts

LEMMA MRowLen == \A d \in MRows : Len(d) \in Nat
BY DEF MRows

LEMMA MRowAt == \A d \in MRows : \A x \in 1..Len(d) : d[x] \in Mutations
<1> SUFFICES ASSUME NEW d \in Seq(Mutations), NEW x \in 1..Len(d) PROVE d[x] \in Mutations
  BY DEF MRows
<1> QED BY ElementOfSeq

LEMMA MRowNothing == <<>> \in MRows /\ Len(<<>>) = 0
BY DEF MRows

(* e is d and then m; m and then d. *)
Then(d, m, e) ==
  /\ e \in MRows /\ Len(e) = Len(d) + 1 /\ e[Len(d) + 1] = m
  /\ \A x \in 1..Len(d) : e[x] = d[x]
Ahead(m, d, e) ==
  /\ e \in MRows /\ Len(e) = Len(d) + 1 /\ e[1] = m
  /\ \A x \in 1..Len(d) : e[x + 1] = d[x]

LEMMA AppendThen ==
  ASSUME NEW d \in MRows, NEW m \in Mutations
  PROVE  Then(d, m, Append(d, m))
<1>1. d \in Seq(Mutations)
  BY DEF MRows
<1>2. Append(d, m) \in Seq(Mutations)
  BY <1>1
<1>3. Len(Append(d, m)) = Len(d) + 1 /\ Append(d, m)[Len(d) + 1] = m
  BY <1>1
<1>4. \A x \in 1..Len(d) : Append(d, m)[x] = d[x]
  BY <1>1
<1> QED BY <1>2, <1>3, <1>4 DEF Then, MRows

LEMMA ConsAhead ==
  ASSUME NEW d \in MRows, NEW m \in Mutations
  PROVE  Ahead(m, d, <<m>> \o d)
<1>1. d \in Seq(Mutations) /\ <<m>> \in Seq(Mutations) /\ Len(<<m>>) = 1
  BY DEF MRows
<1>2. <<m>> \o d \in Seq(Mutations) /\ Len(<<m>> \o d) = Len(d) + 1
  BY <1>1
<1>3. (<<m>> \o d)[1] = m
  BY <1>1
<1>4. \A x \in 1..Len(d) : (<<m>> \o d)[x + 1] = d[x]
  BY <1>1
<1> QED BY <1>2, <1>3, <1>4 DEF Ahead, MRows

LEMMA TailAhead ==
  ASSUME NEW d \in MRows, d # <<>>
  PROVE  Tail(d) \in MRows /\ Ahead(d[1], Tail(d), d)
<1>1. d \in Seq(Mutations) /\ Len(d) \in Nat /\ Len(d) > 0
  BY DEF MRows
<1>2. Tail(d) \in Seq(Mutations) /\ Len(Tail(d)) = Len(d) - 1
  BY <1>1
<1>3. \A x \in 1..Len(d) - 1 : d[x + 1] = Tail(d)[x]
  BY <1>1
<1> QED BY <1>1, <1>2, <1>3 DEF Ahead, MRows

LEMMA AfterShift ==
  ASSUME NEW t, NEW d \in MRows, NEW e \in MRows, NEW N \in Nat, N = Len(d), NEW a \in Nat, a + N <= Len(e),
         \A x \in 1..N : e[a + x] = d[x]
  PROVE  After(t, e, a + N) = PatchedBy(After(t, e, a), d)
<1> DEFINE u == After(t, e, a)
<1> DEFINE S == {n \in Nat : n <= N => After(t, e, a + n) = After(u, d, n)}
<1>0. PICK K \in Nat : K = Len(e)
  BY MRowLen, Zenon
<1>1. /\ \A n \in 1..K : After(t, e, n) = Patched(After(t, e, n - 1), e[n])
      /\ After(u, d, 0) = u /\ \A n \in 1..N : After(u, d, n) = Patched(After(u, d, n - 1), d[n])
  <2>1. Runs(t, e, K) /\ Runs(u, d, N)
    BY <1>0, AfterIs
  <2> HIDE DEF u
  <2> QED BY <2>1 DEF Runs
<1> HIDE DEF u
<1>2. 0 \in S
  BY <1>1 DEF u
<1>3. ASSUME NEW n \in Nat, n \in S PROVE n + 1 \in S
  <2> SUFFICES ASSUME n + 1 <= N PROVE After(t, e, a + (n + 1)) = After(u, d, n + 1)
    OBVIOUS
  <2>1. PICK p \in Nat : p = n + 1
    OBVIOUS
  <2>2. PICK q \in Nat : q = a + p
    BY <2>1
  <2>3. p \in 1..N /\ q \in 1..K /\ p - 1 = n /\ q - 1 = a + n
    BY <1>0, <2>1, <2>2
  <2>4. e[q] = d[p]
    BY <2>2, <2>3
  <2>5. After(t, e, q) = Patched(After(t, e, q - 1), e[q]) /\ After(u, d, p) = Patched(After(u, d, p - 1), d[p])
    BY <1>1, <2>3
  <2>6. After(t, e, a + n) = After(u, d, n)
    BY <1>3, <2>1, <2>3
  <2>7. After(t, e, q) = After(u, d, p)
    BY <2>3, <2>4, <2>5, <2>6
  <2> QED BY <2>1, <2>2, <2>7
<1>4. Nat \subseteq S
  <2> HIDE DEF S
  <2> QED BY <1>2, <1>3, NatInduct
<1>5. After(t, e, a + N) = After(u, d, N)
  BY <1>4
<1>6. PatchedBy(u, d) = After(u, d, N)
  BY Loops
<1> QED BY <1>5, <1>6 DEF u

LEMMA PatchedThen ==
  ASSUME NEW t, NEW d \in MRows, NEW m, NEW e, Then(d, m, e)
  PROVE  PatchedBy(t, e) = Patched(PatchedBy(t, d), m)
<1>1. PICK N \in Nat : N = Len(d)
  BY MRowLen, Zenon
<1>2. PICK K \in Nat : K = N + 1
  OBVIOUS
<1>3. e \in MRows /\ K = Len(e) /\ e[K] = m /\ \A x \in 1..N : e[x] = d[x]
  BY <1>1, <1>2 DEF Then
<1>4. PICK a \in Nat : a = 0
  OBVIOUS
<1>5. a + N <= Len(e) /\ (\A x \in 1..N : e[a + x] = d[x]) /\ a + N = N
  BY <1>2, <1>3, <1>4
<1>6. After(t, e, a + N) = PatchedBy(After(t, e, a), d)
  BY <1>1, <1>3, <1>5, AfterShift
<1>7. After(t, e, a) = t /\ After(t, e, K) = Patched(After(t, e, K - 1), e[K])
  <2>1. Runs(t, e, K)
    BY <1>2, <1>3, AfterIs
  <2> QED BY <1>2, <1>4, <2>1 DEF Runs
<1>8. PatchedBy(t, e) = After(t, e, K)
  BY <1>3, Loops
<1>9. K - 1 = N
  BY <1>2
<1> QED BY <1>3, <1>5, <1>6, <1>7, <1>8, <1>9

LEMMA PatchedAhead ==
  ASSUME NEW t, NEW d \in MRows, NEW m, NEW e, Ahead(m, d, e)
  PROVE  PatchedBy(t, e) = PatchedBy(Patched(t, m), d)
<1>1. PICK N \in Nat : N = Len(d)
  BY MRowLen, Zenon
<1>2. PICK K \in Nat : K = N + 1
  OBVIOUS
<1>3. e \in MRows /\ K = Len(e) /\ e[1] = m /\ \A x \in 1..N : e[x + 1] = d[x]
  BY <1>1, <1>2 DEF Ahead
<1>4. PICK a \in Nat : a = 1
  OBVIOUS
<1>5. a + N <= Len(e) /\ (\A x \in 1..N : e[a + x] = d[x]) /\ a + N = K
  BY <1>2, <1>3, <1>4
<1>6. After(t, e, a + N) = PatchedBy(After(t, e, a), d)
  BY <1>1, <1>3, <1>5, AfterShift
<1>7. After(t, e, a) = Patched(After(t, e, a - 1), e[a]) /\ After(t, e, 0) = t
  <2>1. Runs(t, e, K)
    BY <1>2, <1>3, AfterIs
  <2> QED BY <1>2, <1>4, <2>1 DEF Runs
<1>8. PatchedBy(t, e) = After(t, e, K)
  BY <1>3, Loops
<1>9. a - 1 = 0
  BY <1>4
<1>10. After(t, e, a) = Patched(t, m)
  BY <1>3, <1>4, <1>7, <1>9
<1> QED BY <1>5, <1>6, <1>8, <1>10

LEMMA PatchedIs ==
  \A t, m : Patched(t, m) = Cat(Cat(Take(t, m.start), m.text), Drop(t, m.end))
BY DEF Patched, Cat, Take, Drop

LEMMA TakeFirst ==
  ASSUME NEW s \in Texts, NEW t \in Texts, NEW n \in 0..Len(s)
  PROVE  Take(Cat(s, t), n) = Take(s, n)
<1>1. Take(s, n) \in Texts /\ Len(Take(s, n)) = n /\ Drop(s, n) \in Texts
  BY TakeIs, DropIs
<1>2. PICK r \in Texts : r = Cat(Drop(s, n), t)
  BY <1>1, CatType
<1>3. Cat(s, t) = Cat(Take(s, n), r)
  <2>1. Cat(Take(s, n), Drop(s, n)) = s
    BY CatTakeDrop
  <2>2. Cat(Cat(Take(s, n), Drop(s, n)), t) = Cat(Take(s, n), Cat(Drop(s, n), t))
    BY <1>1, CatAssoc
  <2> QED BY <1>2, <2>1, <2>2
<1>4. Take(Cat(Take(s, n), r), Len(Take(s, n))) = Take(s, n)
  BY <1>1, <1>2, Cut
<1> QED BY <1>1, <1>3, <1>4

(* An insertion behind s; a deletion of the end of a beginning of o.       *)
LEMMA InsertionPatch ==
  ASSUME NEW s \in Texts, NEW r \in Texts, NEW p \in Nat, p = Len(s), NEW c \in Texts
  PROVE  Patched(Cat(s, r), Insertion(p, c)) = Cat(s, Cat(c, r))
<1>1. PICK m : m = Insertion(p, c)
  OBVIOUS
<1>2. m.start = p /\ m.end = p /\ m.text = c
  BY <1>1, MutationMade
<1>3. Take(Cat(s, r), p) = s /\ Drop(Cat(s, r), p) = r
  BY Cut
<1>4. Patched(Cat(s, r), m) = Cat(Cat(s, c), r)
  BY <1>2, <1>3, PatchedIs
<1> QED BY <1>1, <1>4, CatAssoc

LEMMA DeletionPatch ==
  ASSUME NEW o \in Texts, NEW q \in 0..Len(o), NEW e \in 0..q, NEW r \in Texts
  PROVE  Patched(Cat(Take(o, q), r), Deletion(e, q)) = Cat(Take(o, e), r)
<1>0. Len(o) \in Nat
  BY LenType
<1>1. PICK m : m = Deletion(e, q)
  OBVIOUS
<1>2. m.start = e /\ m.end = q /\ m.text = <<>>
  BY <1>0, <1>1, MutationMade
<1>3. Take(o, q) \in Texts /\ Len(Take(o, q)) = q /\ Take(o, e) \in Texts
  BY <1>0, TakeIs
<1>4. Drop(Cat(Take(o, q), r), q) = r
  BY <1>3, Cut
<1>5. Take(Cat(Take(o, q), r), e) = Take(Take(o, q), e)
  BY <1>3, TakeFirst
<1>6. Take(Take(o, q), e) = Take(o, e)
  BY TakeTake
<1>7. Cat(Take(o, e), <<>>) = Take(o, e)
  BY <1>3, CatNothing
<1>8. Patched(Cat(Take(o, q), r), m) = Cat(Cat(Take(o, e), <<>>), r)
  BY <1>2, <1>4, <1>5, <1>6, PatchedIs
<1> QED BY <1>1, <1>7, <1>8

LEMMA JoinPatch ==
  ASSUME NEW w \in Texts, NEW c \in 0..Len(w), NEW b \in 0..c, NEW a \in 0..b
  PROVE  Patched(Patched(w, Deletion(b, c)), Deletion(a, b)) = Patched(w, Deletion(a, c))
<1>0. Len(w) \in Nat
  BY LenType
<1>1. b \in 0..Len(w) /\ a \in 0..c
  BY <1>0
<1>2. Cat(Take(w, c), Drop(w, c)) = w /\ Drop(w, c) \in Texts
  BY CatTakeDrop, DropIs
<1>3. Patched(w, Deletion(b, c)) = Cat(Take(w, b), Drop(w, c))
  <2>1. Patched(Cat(Take(w, c), Drop(w, c)), Deletion(b, c)) = Cat(Take(w, b), Drop(w, c))
    BY <1>2, DeletionPatch
  <2> QED BY <1>2, <2>1
<1>4. Patched(w, Deletion(a, c)) = Cat(Take(w, a), Drop(w, c))
  <2>1. Patched(Cat(Take(w, c), Drop(w, c)), Deletion(a, c)) = Cat(Take(w, a), Drop(w, c))
    BY <1>1, <1>2, DeletionPatch
  <2> QED BY <1>2, <2>1
<1>5. Patched(Cat(Take(w, b), Drop(w, c)), Deletion(a, b)) = Cat(Take(w, a), Drop(w, c))
  BY <1>1, <1>2, DeletionPatch
<1> QED BY <1>3, <1>4, <1>5

(* A mutation of a text of length n.                                       *)
Fits(n, m) ==
  /\ m \in Mutations /\ m.start <= m.end /\ m.end <= n
  /\ m.type = "delete" => m.text = <<>>
InOrder(o, d) ==
  /\ d \in MRows
  /\ \A k \in 1..Len(d) : Fits(Len(o), d[k])
  /\ \A k \in 1..Len(d) - 1 : d[k + 1].end <= d[k].start

LEMMA PatchedLength ==
  ASSUME NEW t \in Texts, NEW m, Fits(Len(t), m)
  PROVE  Patched(t, m) \in Texts /\ m.start <= Len(Patched(t, m))
<1>1. m.start \in Nat /\ m.end \in Nat /\ m.text \in Texts /\ m.start <= m.end /\ m.end <= Len(t)
  BY MutationType DEF Fits
<1>2. Len(t) \in Nat
  BY LenType
<1>3. m.start \in 0..Len(t) /\ m.end \in 0..Len(t)
  BY <1>1, <1>2
<1>4. Take(t, m.start) \in Texts /\ Len(Take(t, m.start)) = m.start /\ Drop(t, m.end) \in Texts
  BY <1>3, TakeIs, DropIs
<1>5. PICK s \in Texts : s = Cat(Take(t, m.start), m.text)
  BY <1>1, <1>4, CatType
<1>6. Len(s) = m.start + Len(m.text) /\ Len(m.text) \in Nat
  <2>1. PICK h \in Texts : h = Take(t, m.start)
    BY <1>4
  <2>2. PICK x \in Texts : x = m.text
    BY <1>1
  <2>3. Len(Cat(h, x)) = Len(h) + Len(x) /\ Len(x) \in Nat
    BY CatType, LenType
  <2>4. s = Cat(h, x)
    BY <1>5, <2>1, <2>2
  <2> QED BY <1>4, <2>1, <2>2, <2>3, <2>4
<1>7. Patched(t, m) = Cat(s, Drop(t, m.end))
  BY <1>5, PatchedIs
<1>8. Cat(s, Drop(t, m.end)) \in Texts /\ Len(Cat(s, Drop(t, m.end))) = Len(s) + Len(Drop(t, m.end))
  BY <1>4, <1>5, CatType
<1>9. Len(Drop(t, m.end)) \in Nat
  BY <1>4, LenType
<1> QED BY <1>1, <1>6, <1>7, <1>8, <1>9

LEMMA OrderThen ==
  ASSUME NEW o, NEW d, InOrder(o, d), NEW m, Fits(Len(o), m), NEW e, Then(d, m, e),
         Len(d) > 0 => m.end <= d[Len(d)].start
  PROVE  InOrder(o, e) /\ Len(e) > 0 /\ e[Len(e)] = m
<1>1. PICK N \in Nat : N = Len(d)
  BY MRowLen, Zenon DEF InOrder
<1>2. e \in MRows /\ Len(e) = N + 1 /\ e[N + 1] = m /\ \A x \in 1..N : e[x] = d[x]
  BY <1>1 DEF Then
<1>3. \A k \in 1..N + 1 : Fits(Len(o), e[k])
  <2> SUFFICES ASSUME NEW k \in 1..N + 1 PROVE Fits(Len(o), e[k])
    OBVIOUS
  <2>1. CASE k = N + 1
    BY <1>2, <2>1
  <2>2. CASE k # N + 1
    <3>1. k \in 1..N
      BY <2>2
    <3> QED BY <1>1, <1>2, <3>1 DEF InOrder
  <2> QED BY <2>1, <2>2
<1>4. \A k \in 1..N : e[k + 1].end <= e[k].start
  <2> SUFFICES ASSUME NEW k \in 1..N PROVE e[k + 1].end <= e[k].start
    OBVIOUS
  <2>1. CASE k = N
    BY <1>1, <1>2, <2>1
  <2>2. CASE k # N
    <3>1. k \in 1..Len(d) - 1 /\ k + 1 \in 1..N
      BY <1>1, <2>2
    <3>2. d[k + 1].end <= d[k].start
      BY <3>1 DEF InOrder
    <3> QED BY <1>2, <3>1, <3>2
  <2> QED BY <2>1, <2>2
<1> QED BY <1>2, <1>3, <1>4 DEF InOrder

-----------------------------------------------------------------------------
(* The mutations of formed chunks make their text of the old one. *)

Accs == [start : Nat, diff : MRows]

(* The turn of c makes new of acc.                                          *)
Turn(acc, c, new) ==
  /\ new \in Accs
  /\ c.type = "insert" => /\ new.start = acc.start
                          /\ Then(acc.diff, Insertion(acc.start, c.text), new.diff)
  /\ c.type = "copy" =>
       /\ new.start = c.start
       /\ c.start + c.length < acc.start => Then(acc.diff, Deletion(c.start + c.length, acc.start), new.diff)
       /\ ~(c.start + c.length < acc.start) => new.diff = acc.diff

LEMMA MutateTurn ==
  ASSUME NEW acc \in Accs, NEW c \in Chunks
  PROVE  Turn(acc, c, Mutate(acc, c))
<1>1. acc.start \in Nat /\ acc.diff \in MRows /\ c.start \in Nat /\ c.length \in Nat /\ c.text \in Texts
      /\ c.type \in {"copy", "insert"}
  BY ChunkType DEF Accs
<1>2. CASE c.type = "insert"
  <2>1. PICK e : e = Append(acc.diff, Insertion(acc.start, c.text))
    OBVIOUS
  <2>2. Insertion(acc.start, c.text) \in Mutations
    BY <1>1, MutationMade
  <2>3. Then(acc.diff, Insertion(acc.start, c.text), e)
    BY <1>1, <2>1, <2>2, AppendThen
  <2>4. e \in MRows
    BY <2>3 DEF Then
  <2>5. Mutate(acc, c) = [acc EXCEPT !.diff = e]
    BY <1>2, <2>1 DEF Mutate
  <2>6. Mutate(acc, c) \in Accs /\ Mutate(acc, c).start = acc.start /\ Mutate(acc, c).diff = e
    BY <2>4, <2>5 DEF Accs
  <2> QED BY <1>2, <2>3, <2>6 DEF Turn
<1>3. CASE c.type = "copy"
  <2>1. PICK e : e = IF c.start + c.length < acc.start
                     THEN Append(acc.diff, Deletion(c.start + c.length, acc.start)) ELSE acc.diff
    OBVIOUS
  <2>2. Mutate(acc, c) = [start |-> c.start, diff |-> e]
    BY <1>3, <2>1 DEF Mutate
  <2>3. CASE c.start + c.length < acc.start
    <3>1. PICK q \in Nat : q = c.start + c.length
      BY <1>1
    <3>2. e = Append(acc.diff, Deletion(q, acc.start)) /\ Deletion(q, acc.start) \in Mutations
      BY <1>1, <2>1, <2>3, <3>1, MutationMade
    <3>3. Then(acc.diff, Deletion(q, acc.start), e)
      BY <1>1, <3>2, AppendThen
    <3>4. e \in MRows
      BY <3>3 DEF Then
    <3>5. Mutate(acc, c) \in Accs /\ Mutate(acc, c).start = c.start /\ Mutate(acc, c).diff = e
      BY <1>1, <2>2, <3>4 DEF Accs
    <3> QED BY <1>3, <2>3, <3>1, <3>3, <3>5 DEF Turn
  <2>4. CASE ~(c.start + c.length < acc.start)
    <3>1. Mutate(acc, c) \in Accs /\ Mutate(acc, c).start = c.start /\ Mutate(acc, c).diff = acc.diff
      BY <1>1, <2>1, <2>2, <2>4 DEF Accs
    <3> QED BY <1>3, <2>4, <3>1 DEF Turn
  <2> QED BY <2>3, <2>4
<1> QED BY <1>1, <1>2, <1>3

(* p chunks are left: r is the text of the others, which follows what is    *)
(* copied of o before their beginning.                                      *)
Remains(o, cs, N, p, acc) ==
  \E r \in Texts : /\ PatchedBy(o, acc.diff) = Cat(Take(o, acc.start), r)
                   /\ Flat(o, cs, N) = Cat(Flat(o, cs, p), r)
CopiedFrom(cs, N, p, start) ==
  \E y \in p + 1..N : cs[y].type = "copy" /\ cs[y].start = start
MutInv(o, cs, N, p, acc) ==
  /\ acc \in Accs /\ acc.start <= Len(o) /\ InOrder(o, acc.diff)
  /\ Len(acc.diff) > 0 => acc.start <= acc.diff[Len(acc.diff)].start
  /\ CopiedFrom(cs, N, p, acc.start)
  /\ cs[p + 1].type = "copy" => acc.start = cs[p + 1].start
  /\ Remains(o, cs, N, p, acc)

LEMMA MutFirst ==
  ASSUME NEW o, Small(o), NEW cs, Formed(o, cs), NEW N \in Nat, N = Len(cs), NEW p \in Nat, N = p + 1,
         NEW new, Turn(NothingMutated, cs[N], new)
  PROVE  MutInv(o, cs, N, p, new)
<1>1. cs \in Rows /\ Open(o, cs[N]) /\ o \in Texts
  BY DEF Formed, Rows, Small
<1>2. N \in 1..N /\ N \in p + 1..N
  OBVIOUS
<1>3. cs[N] \in Chunks /\ Flat(o, cs, N) = Cat(Flat(o, cs, p), Content(o, cs[N])) /\ Content(o, cs[N]) \in Texts
  <2>1. PICK k \in Nat : k = N
    OBVIOUS
  <2>2. k = p + 1 /\ k <= Len(cs)
    BY <2>1
  <2>3. cs \in Seq(Chunks)
    BY DEF Formed
  <2>4. cs[k] \in Chunks /\ Flat(o, cs, k) = Cat(Flat(o, cs, p), Content(o, cs[k])) /\ Content(o, cs[k]) \in Texts
    BY <1>1, <2>2, <2>3, FlatNext
  <2> QED BY <2>1, <2>4
<1>4. PICK c \in Chunks : c = cs[N]
  BY <1>3
<1>5. c.type = "copy" /\ c.length = Infinity /\ c.start \in Nat /\ c.start <= Len(o) /\ Len(o) \in Nat
  BY <1>1, <1>4, ChunkType, LenType DEF Open
<1>6. ~(c.start + c.length < NothingMutated.start) /\ NothingMutated.diff = <<>>
  BY <1>5 DEF NothingMutated, Infinity
<1>7. new \in Accs /\ new.start = c.start /\ new.diff = <<>>
  BY <1>4, <1>5, <1>6 DEF Turn
<1>8. InOrder(o, <<>>) /\ Len(<<>>) = 0
  BY MRowNothing DEF InOrder
<1>9. CopiedFrom(cs, N, p, new.start)
  BY <1>2, <1>4, <1>5, <1>7 DEF CopiedFrom
<1>10. PatchedBy(o, <<>>) = o
  <2>1. PICK d : d = <<>>
    OBVIOUS
  <2>2. PICK z \in Nat : z = 0
    OBVIOUS
  <2>3. z = Len(d)
    BY <2>1, <2>2, MRowNothing
  <2>4. Runs(o, d, z)
    BY <2>3, AfterIs
  <2>5. PatchedBy(o, d) = After(o, d, z)
    BY <2>3, Loops
  <2> QED BY <2>1, <2>2, <2>4, <2>5 DEF Runs
<1>11. Content(o, c) = Drop(o, c.start)
  <2>1. Content(o, c) = Span(o, c.start, Len(o))
    BY <1>1, <1>4, OpenContent
  <2>2. Take(o, Len(o)) = o
    BY <1>1, TakeAll
  <2> QED BY <2>1, <2>2 DEF Span
<1>12. o = Cat(Take(o, c.start), Content(o, c))
  <2>1. c.start \in 0..Len(o)
    BY <1>5
  <2> QED BY <1>1, <1>11, <2>1, CatTakeDrop
<1>13. Remains(o, cs, N, p, new)
  BY <1>3, <1>4, <1>7, <1>10, <1>12 DEF Remains
<1> QED BY <1>4, <1>5, <1>7, <1>8, <1>9, <1>13 DEF MutInv

(* What the chunk cs[x] adds to the text that the chunks before it stand for. *)
LEMMA ChunkAdded ==
  ASSUME NEW o \in Texts, NEW cs \in Rows, NEW N \in Nat, N = Len(cs), NEW x \in 1..N - 1,
         NEW p \in Nat, x = p + 1
  PROVE  /\ cs[x] \in Chunks /\ Flat(o, cs, x) = Cat(Flat(o, cs, p), Content(o, cs[x]))
         /\ Flat(o, cs, p) \in Texts
<1>1. PICK k \in Nat : k = x
  OBVIOUS
<1>2. k = p + 1 /\ k <= Len(cs)
  BY <1>1
<1>3. cs \in Seq(Chunks)
  BY DEF Rows
<1>4. /\ cs[k] \in Chunks /\ Flat(o, cs, k) = Cat(Flat(o, cs, p), Content(o, cs[k]))
      /\ Flat(o, cs, p) \in Texts
  BY <1>2, <1>3, FlatNext
<1> QED BY <1>1, <1>4

(* The turn of cs[x], with p = x - 1.                                       *)
LEMMA MutInsert ==
  ASSUME NEW o, Small(o), NEW cs, Formed(o, cs), NEW N \in Nat, N = Len(cs), NEW x \in 1..N - 1,
         NEW p \in Nat, x = p + 1, NEW acc, MutInv(o, cs, N, x, acc), NEW new, Turn(acc, cs[x], new),
         cs[x].type = "insert"
  PROVE  MutInv(o, cs, N, p, new)
<1>1. cs \in Rows /\ o \in Texts
  BY DEF Formed, Rows, Small
<1>2. cs[x] \in Chunks /\ Flat(o, cs, x) = Cat(Flat(o, cs, p), Content(o, cs[x]))
      /\ Flat(o, cs, p) \in Texts
  BY <1>1, ChunkAdded
<1>3. PICK c \in Chunks : c = cs[x]
  BY <1>2
<1>4. c.type = "insert" /\ c.text \in Texts /\ Content(o, c) = c.text
  BY <1>3, ChunkType DEF Content
<1>5. acc \in Accs /\ acc.start <= Len(o) /\ InOrder(o, acc.diff) /\ Remains(o, cs, N, x, acc)
      /\ CopiedFrom(cs, N, x, acc.start) /\ (Len(acc.diff) > 0 => acc.start <= acc.diff[Len(acc.diff)].start)
  BY DEF MutInv
<1>6. PICK q \in Nat : q = acc.start
  BY <1>5 DEF Accs
<1>7. PICK m : m = Insertion(q, c.text)
  OBVIOUS
<1>8. m \in Mutations /\ m.type = "insert" /\ m.start = q /\ m.end = q /\ m.text = c.text
  BY <1>4, <1>7, MutationMade
<1>9. new \in Accs /\ new.start = q /\ Then(acc.diff, m, new.diff)
  BY <1>3, <1>4, <1>6, <1>7 DEF Turn
<1>10. Fits(Len(o), m)
  BY <1>5, <1>6, <1>8 DEF Fits
<1>11. InOrder(o, new.diff) /\ Len(new.diff) > 0 /\ new.diff[Len(new.diff)] = m
  BY <1>5, <1>6, <1>8, <1>9, <1>10, OrderThen
<1>12. CopiedFrom(cs, N, p, q)
  <2>1. PICK y \in x + 1..N : cs[y].type = "copy" /\ cs[y].start = q
    BY <1>5, <1>6 DEF CopiedFrom
  <2>2. y \in p + 1..N
    OBVIOUS
  <2> QED BY <2>1, <2>2 DEF CopiedFrom
<1>13. PICK r \in Texts : PatchedBy(o, acc.diff) = Cat(Take(o, q), r) /\ Flat(o, cs, N) = Cat(Flat(o, cs, x), r)
  BY <1>5, <1>6 DEF Remains
<1>14. q \in 0..Len(o)
  BY <1>1, <1>5, <1>6, LenType
<1>15. Take(o, q) \in Texts /\ Len(Take(o, q)) = q
  BY <1>1, <1>14, TakeIs
<1>16. acc.diff \in MRows
  BY <1>5 DEF InOrder
<1>17. PatchedBy(o, new.diff) = Patched(Cat(Take(o, q), r), m)
  BY <1>9, <1>13, <1>16, PatchedThen
<1>18. PatchedBy(o, new.diff) = Cat(Take(o, q), Cat(c.text, r))
  BY <1>4, <1>7, <1>15, <1>17, InsertionPatch
<1>19. Flat(o, cs, N) = Cat(Flat(o, cs, p), Cat(c.text, r))
  BY <1>2, <1>3, <1>4, <1>13, CatAssoc
<1>20. Cat(c.text, r) \in Texts
  BY <1>4, CatType
<1>21. Remains(o, cs, N, p, new)
  BY <1>9, <1>18, <1>19, <1>20 DEF Remains
<1>22. cs[p + 1].type = "insert"
  BY <1>3, <1>4
<1> QED BY <1>5, <1>6, <1>8, <1>9, <1>11, <1>12, <1>21, <1>22 DEF MutInv

LEMMA MutCopy ==
  ASSUME NEW o, Small(o), NEW cs, Formed(o, cs), NEW N \in Nat, N = Len(cs), NEW x \in 1..N - 1,
         NEW p \in Nat, x = p + 1, NEW acc, MutInv(o, cs, N, x, acc), NEW new, Turn(acc, cs[x], new),
         cs[x].type = "copy"
  PROVE  MutInv(o, cs, N, p, new)
<1>1. cs \in Rows /\ o \in Texts
  BY DEF Formed, Rows, Small
<1>2. cs[x] \in Chunks /\ Flat(o, cs, x) = Cat(Flat(o, cs, p), Content(o, cs[x]))
      /\ Flat(o, cs, p) \in Texts
  BY <1>1, ChunkAdded
<1>3. PICK c \in Chunks : c = cs[x]
  BY <1>2
<1>4. c.type = "copy" /\ c.start \in Nat /\ c.length \in Nat /\ Good(o, c) /\ Len(o) \in Nat
  BY <1>1, <1>3, ChunkType, LenType DEF Formed
<1>5. acc \in Accs /\ acc.start <= Len(o) /\ InOrder(o, acc.diff) /\ Remains(o, cs, N, x, acc)
      /\ CopiedFrom(cs, N, x, acc.start) /\ (Len(acc.diff) > 0 => acc.start <= acc.diff[Len(acc.diff)].start)
  BY DEF MutInv
<1>6. PICK q \in Nat : q = acc.start
  BY <1>5 DEF Accs
<1>7. PICK e \in Nat : e = c.start + c.length
  BY <1>4
<1>8. e <= q
  <2>1. PICK y \in x + 1..N : cs[y].type = "copy" /\ cs[y].start = q
    BY <1>5, <1>6 DEF CopiedFrom
  <2>2. x \in 1..N /\ y \in 1..N /\ x < y
    OBVIOUS
  <2>3. Before(cs[x], cs[y])
    BY <2>2 DEF Formed
  <2> QED BY <1>3, <1>4, <1>7, <2>1, <2>3 DEF Before
<1>9. Content(o, c) = Span(o, c.start, e) /\ e \in 0..Len(o) /\ c.start \in 0..e
  BY <1>4, <1>7, GoodContent
<1>10. Cat(Take(o, c.start), Content(o, c)) = Take(o, e) /\ Content(o, c) \in Texts
       /\ Take(o, c.start) \in Texts
  <2>1. c.start \in 0..Len(o)
    BY <1>4, <1>9
  <2> QED BY <1>1, <1>9, <2>1, SpanIs, TakeIs
<1>11. PICK r \in Texts : PatchedBy(o, acc.diff) = Cat(Take(o, q), r) /\ Flat(o, cs, N) = Cat(Flat(o, cs, x), r)
  BY <1>5, <1>6 DEF Remains
<1>12. q \in 0..Len(o) /\ e \in 0..q
  BY <1>1, <1>4, <1>5, <1>6, <1>8
<1>13. acc.diff \in MRows
  BY <1>5 DEF InOrder
<1>14. new \in Accs /\ new.start = c.start
  BY <1>3, <1>4 DEF Turn
<1>15. /\ PatchedBy(o, new.diff) = Cat(Take(o, e), r) /\ InOrder(o, new.diff)
       /\ Len(new.diff) > 0 => c.start <= new.diff[Len(new.diff)].start
  <2>1. CASE e < q
    <3>1. PICK m : m = Deletion(e, q)
      OBVIOUS
    <3>2. Then(acc.diff, m, new.diff)
      BY <1>3, <1>4, <1>6, <1>7, <2>1, <3>1 DEF Turn
    <3>3. m \in Mutations /\ m.type = "delete" /\ m.start = e /\ m.end = q /\ m.text = <<>>
      BY <3>1, MutationMade
    <3>4. Fits(Len(o), m)
      BY <1>8, <1>12, <3>3 DEF Fits
    <3>5. InOrder(o, new.diff) /\ Len(new.diff) > 0 /\ new.diff[Len(new.diff)] = m
      BY <1>5, <1>6, <3>2, <3>3, <3>4, OrderThen
    <3>6. PatchedBy(o, new.diff) = Patched(Cat(Take(o, q), r), m)
      BY <1>11, <1>13, <3>2, PatchedThen
    <3>7. PatchedBy(o, new.diff) = Cat(Take(o, e), r)
      BY <1>1, <1>12, <3>1, <3>6, DeletionPatch
    <3>8. c.start <= new.diff[Len(new.diff)].start
      BY <1>9, <3>3, <3>5
    <3> QED BY <3>5, <3>7, <3>8
  <2>2. CASE ~(e < q)
    <3>1. e = q
      BY <1>8, <2>2
    <3>2. new.diff = acc.diff
      BY <1>3, <1>4, <1>6, <1>7, <2>2 DEF Turn
    <3>3. Len(new.diff) > 0 => c.start <= new.diff[Len(new.diff)].start
      <4> SUFFICES ASSUME Len(acc.diff) > 0 PROVE c.start <= acc.diff[Len(acc.diff)].start
        BY <3>2
      <4>1. PICK L \in Nat : L = Len(acc.diff)
        BY <1>13, MRowLen, Zenon
      <4>2. L \in 1..Len(acc.diff)
        BY <4>1
      <4>3. acc.diff[L] \in Mutations
        BY <1>13, <4>2, MRowAt
      <4>4. acc.diff[L].start \in Nat /\ q <= acc.diff[L].start
        BY <1>5, <1>6, <4>1, <4>3, MutationType
      <4> QED BY <1>9, <3>1, <4>1, <4>4
    <3> QED BY <1>5, <1>11, <3>1, <3>2, <3>3
  <2> QED BY <2>1, <2>2
<1>16. CopiedFrom(cs, N, p, c.start)
  <2>1. x \in p + 1..N
    OBVIOUS
  <2> QED BY <1>3, <1>4, <2>1 DEF CopiedFrom
<1>17. PatchedBy(o, new.diff) = Cat(Take(o, c.start), Cat(Content(o, c), r))
  <2>1. Cat(Cat(Take(o, c.start), Content(o, c)), r) = Cat(Take(o, c.start), Cat(Content(o, c), r))
    BY <1>10, CatAssoc
  <2> QED BY <1>10, <1>15, <2>1
<1>18. Flat(o, cs, N) = Cat(Flat(o, cs, p), Cat(Content(o, c), r))
  BY <1>2, <1>3, <1>10, <1>11, CatAssoc
<1>19. Cat(Content(o, c), r) \in Texts
  BY <1>10, CatType
<1>20. Remains(o, cs, N, p, new)
  BY <1>14, <1>17, <1>18, <1>19 DEF Remains
<1>21. c.start <= Len(o)
  BY <1>4, <1>9
<1> QED BY <1>3, <1>14, <1>15, <1>16, <1>20, <1>21 DEF MutInv

LEMMA MutationsMake ==
  ASSUME NEW o, Small(o), NEW cs, Formed(o, cs)
  PROVE  /\ InOrder(o, MutationsOf(cs))
         /\ PatchedBy(o, MutationsOf(cs)) = Flat(o, cs, Len(cs))
<1>1. cs \in Rows /\ o \in Texts /\ Len(cs) >= 1
  BY DEF Formed, Rows, Small
<1>2. PICK N \in Nat : N = Len(cs)
  BY <1>1, RowLen, Zenon
<1>3. MutateRuns(cs, N)
  BY <1>2, MutatedIs
<1> DEFINE S == {n \in Nat : n + 1 <= N => MutInv(o, cs, N, N - (n + 1), Mutated(cs, n + 1))}
<1>4. ASSUME NEW x \in 1..N PROVE cs[x] \in Chunks
  <2>1. x \in 1..Len(cs)
    BY <1>2
  <2> QED BY <1>1, <2>1, PlaceIs
<1>5. ASSUME NEW n \in 1..N PROVE Mutated(cs, n) = Mutate(Mutated(cs, n - 1), cs[(N + 1) - n])
  BY <1>2, <1>3 DEF MutateRuns
<1>6. 0 \in S
  <2>1. PICK p \in Nat : N = p + 1
    BY <1>1, <1>2
  <2>2. Mutated(cs, 1) = Mutate(Mutated(cs, 0), cs[N])
    <3>1. 1 \in 1..N /\ (N + 1) - 1 = N /\ 1 - 1 = 0
      BY <2>1
    <3> QED BY <1>5, <3>1
  <2>3. Mutated(cs, 0) = NothingMutated
    BY <1>3 DEF MutateRuns
  <2>4. NothingMutated \in Accs
    BY MRowNothing DEF NothingMutated, Accs, Infinity
  <2>5. cs[N] \in Chunks
    BY <1>4, <2>1
  <2>6. Turn(NothingMutated, cs[N], Mutated(cs, 1))
    BY <2>2, <2>3, <2>4, <2>5, MutateTurn
  <2>7. MutInv(o, cs, N, p, Mutated(cs, 1))
    BY <1>2, <2>1, <2>6, MutFirst
  <2>8. N - (0 + 1) = p /\ 0 + 1 = 1
    BY <2>1
  <2> QED BY <2>7, <2>8
<1>7. ASSUME NEW n \in Nat, n \in S PROVE n + 1 \in S
  <2> SUFFICES ASSUME (n + 1) + 1 <= N
               PROVE  MutInv(o, cs, N, N - ((n + 1) + 1), Mutated(cs, (n + 1) + 1))
    OBVIOUS
  <2>1. PICK a \in Nat : a = n + 1
    OBVIOUS
  <2>2. PICK b \in Nat : b = a + 1
    OBVIOUS
  <2>3. PICK x \in Nat : x = N - a
    BY <2>1
  <2>4. PICK p \in Nat : p = N - b
    BY <2>1, <2>2
  <2>5. x = p + 1 /\ x \in 1..N - 1 /\ b \in 1..N /\ (N + 1) - b = x /\ b - 1 = a /\ x \in 1..N
    BY <2>1, <2>2, <2>3, <2>4
  <2>6. MutInv(o, cs, N, x, Mutated(cs, a))
    BY <1>7, <2>1, <2>3
  <2>7. Mutated(cs, b) = Mutate(Mutated(cs, a), cs[x])
    BY <1>5, <2>5
  <2>8. Mutated(cs, a) \in Accs
    BY <2>6 DEF MutInv
  <2>9. cs[x] \in Chunks
    BY <1>4, <2>5
  <2>10. Turn(Mutated(cs, a), cs[x], Mutated(cs, b))
    BY <2>7, <2>8, <2>9, MutateTurn
  <2>11. cs[x].type \in {"copy", "insert"}
    BY <2>9, ChunkType
  <2>12. MutInv(o, cs, N, p, Mutated(cs, b))
    BY <1>2, <2>5, <2>6, <2>10, <2>11, MutCopy, MutInsert
  <2> QED BY <2>1, <2>2, <2>4, <2>12
<1>8. Nat \subseteq S
  <2> HIDE DEF S
  <2> QED BY <1>6, <1>7, NatInduct
<1>9. PICK z \in Nat : z = 0
  OBVIOUS
<1>10. MutInv(o, cs, N, z, Mutated(cs, N))
  <2>1. PICK n \in Nat : n + 1 = N
    BY <1>1, <1>2
  <2>2. n \in S
    BY <1>8
  <2>3. N - (n + 1) = z
    BY <1>9, <2>1
  <2> QED BY <2>1, <2>2, <2>3
<1>11. PICK acc : acc = Mutated(cs, N)
  OBVIOUS
<1>12. acc.diff = MutationsOf(cs)
  BY <1>2, <1>11, Loops
<1>13. z + 1 = 1
  BY <1>9
<1>14. cs[1].type = "copy" /\ cs[1].start = 0
  BY DEF Formed
<1>15. acc.start = z /\ InOrder(o, acc.diff) /\ Remains(o, cs, N, z, acc)
  BY <1>9, <1>10, <1>11, <1>13, <1>14 DEF MutInv
<1>16. PICK r \in Texts : PatchedBy(o, acc.diff) = Cat(Take(o, z), r) /\ Flat(o, cs, N) = Cat(Flat(o, cs, z), r)
  BY <1>15 DEF Remains
<1>17. Flat(o, cs, z) = <<>>
  BY <1>1, <1>9, FlatIs DEF Rows
<1>18. Take(o, z) = <<>>
  <2>1. z \in 0..Len(o)
    BY <1>1, <1>9, LenType
  <2>2. Take(o, z) \in Texts /\ Len(Take(o, z)) = 0
    BY <1>1, <1>9, <2>1, TakeIs
  <2> QED BY <2>2 DEF Texts
<1> QED BY <1>2, <1>12, <1>15, <1>16, <1>17, <1>18

-----------------------------------------------------------------------------
(* Adjacent deletions merged: the same text, no two of them side by side. *)

(* Behind n mutations the text is long enough for the next.                *)
LongEnough(o, d, N) ==
  \A n \in 0..N : /\ After(o, d, n) \in Texts
                  /\ n < N => d[n + 1].end <= Len(After(o, d, n))

LEMMA AfterLong ==
  ASSUME NEW o \in Texts, NEW d, InOrder(o, d), NEW N \in Nat, N = Len(d)
  PROVE  LongEnough(o, d, N)
<1>1. Runs(o, d, N)
  BY AfterIs
<1> DEFINE P(n) == After(o, d, n) \in Texts /\ (n < N => d[n + 1].end <= Len(After(o, d, n)))
<1> DEFINE S == {n \in Nat : n <= N => P(n)}
<1>2. ASSUME NEW n \in 1..N PROVE Fits(Len(o), d[n])
  BY DEF InOrder
<1>3. 0 \in S
  <2>1. After(o, d, 0) = o
    BY <1>1 DEF Runs
  <2>2. 0 < N => d[0 + 1].end <= Len(o)
    BY <1>2 DEF Fits
  <2> QED BY <2>1, <2>2
<1>4. ASSUME NEW n \in Nat, n \in S PROVE n + 1 \in S
  <2> SUFFICES ASSUME n + 1 <= N PROVE P(n + 1)
    OBVIOUS
  <2>1. PICK a \in Nat : a = n + 1
    OBVIOUS
  <2>2. a \in 1..N /\ a - 1 = n
    BY <2>1
  <2>3. PICK m : m = d[a]
    OBVIOUS
  <2>4. After(o, d, a) = Patched(After(o, d, n), m)
    BY <1>1, <2>2, <2>3 DEF Runs
  <2>5. After(o, d, n) \in Texts /\ m.end <= Len(After(o, d, n))
    BY <1>4, <2>1, <2>2, <2>3
  <2>6. Fits(Len(After(o, d, n)), m)
    BY <1>2, <2>2, <2>3, <2>5 DEF Fits
  <2>7. After(o, d, a) \in Texts /\ m.start <= Len(After(o, d, a))
    BY <2>4, <2>5, <2>6, PatchedLength
  <2>8. ASSUME a < N PROVE d[a + 1].end <= Len(After(o, d, a))
    <3>1. PICK b \in Nat : b = a + 1
      OBVIOUS
    <3>2. a \in 1..Len(d) - 1 /\ b \in 1..N
      BY <2>2, <2>8, <3>1
    <3>3. d[b].end <= m.start
      BY <2>3, <3>1, <3>2 DEF InOrder
    <3>4. d[b].end \in Nat /\ m.start \in Nat /\ Len(After(o, d, a)) \in Nat
      BY <1>2, <2>2, <2>3, <2>7, <3>2, MutationType, LenType DEF Fits
    <3> QED BY <2>7, <3>1, <3>3, <3>4
  <2> QED BY <2>1, <2>7, <2>8
<1>5. Nat \subseteq S
  <2> HIDE DEF S
  <2> QED BY <1>3, <1>4, NatInduct
<1> QED BY <1>5 DEF LongEnough

Apart(m, x) == x.end <= m.start /\ (m.type = "delete" /\ x.type = "delete" => x.end < m.start)
Separate(n, d) ==
  /\ d \in MRows
  /\ \A k \in 1..Len(d) : Fits(n, d[k])
  /\ \A k \in 1..Len(d) - 1 : Apart(d[k], d[k + 1])

LEMMA SeparateAhead ==
  ASSUME NEW n \in Nat, NEW d, Separate(n, d), NEW m, Fits(n, m), NEW e, Ahead(m, d, e),
         Len(d) > 0 => Apart(m, d[1])
  PROVE  Separate(n, e) /\ Len(e) > 0 /\ e[1] = m
<1>1. PICK N \in Nat : N = Len(d)
  BY MRowLen, Zenon DEF Separate
<1>2. e \in MRows /\ Len(e) = N + 1 /\ e[1] = m /\ \A x \in 1..N : e[x + 1] = d[x]
  BY <1>1 DEF Ahead
<1>3. \A k \in 1..N + 1 : Fits(n, e[k])
  <2> SUFFICES ASSUME NEW k \in 1..N + 1 PROVE Fits(n, e[k])
    OBVIOUS
  <2>1. CASE k = 1
    BY <1>2, <2>1
  <2>2. CASE k # 1
    <3>1. PICK x \in 1..N : k = x + 1
      BY <2>2
    <3> QED BY <1>1, <1>2, <3>1 DEF Separate
  <2> QED BY <2>1, <2>2
<1>4. \A k \in 1..N : Apart(e[k], e[k + 1])
  <2> SUFFICES ASSUME NEW k \in 1..N PROVE Apart(e[k], e[k + 1])
    OBVIOUS
  <2>1. e[k + 1] = d[k]
    BY <1>2
  <2>2. CASE k = 1
    BY <1>1, <1>2, <2>1, <2>2
  <2>3. CASE k # 1
    <3>1. PICK x \in 1..N : k = x + 1 /\ x \in 1..Len(d) - 1
      BY <1>1, <2>3
    <3>2. e[k] = d[x] /\ Apart(d[x], d[x + 1])
      BY <1>2, <3>1 DEF Separate
    <3> QED BY <2>1, <3>1, <3>2
  <2> QED BY <2>2, <2>3
<1> QED BY <1>2, <1>3, <1>4 DEF Separate

LEMMA SeparateBehind ==
  ASSUME NEW n \in Nat, NEW d \in MRows, NEW m, NEW e, Separate(n, e), Ahead(m, d, e)
  PROVE  Separate(n, d) /\ Fits(n, m) /\ (Len(d) > 0 => Apart(m, d[1]))
<1>1. PICK N \in Nat : N = Len(d)
  BY MRowLen, Zenon
<1>2. e \in MRows /\ Len(e) = N + 1 /\ e[1] = m /\ \A x \in 1..N : e[x + 1] = d[x]
  BY <1>1 DEF Ahead
<1>3. ASSUME NEW k \in 1..N PROVE Fits(n, d[k])
  <2>1. k + 1 \in 1..Len(e)
    BY <1>2
  <2> QED BY <1>2, <2>1 DEF Separate
<1>4. ASSUME NEW k \in 1..N - 1 PROVE Apart(d[k], d[k + 1])
  <2>1. PICK x \in Nat : x = k + 1
    OBVIOUS
  <2>2. x \in 1..Len(e) - 1 /\ k \in 1..N /\ x \in 1..N
    BY <1>2, <2>1
  <2>3. Apart(e[x], e[x + 1]) /\ e[x] = d[k] /\ e[x + 1] = d[x]
    BY <1>2, <2>1, <2>2 DEF Separate
  <2> QED BY <2>1, <2>3
<1>5. Fits(n, m)
  <2>1. 1 \in 1..Len(e)
    BY <1>2
  <2> QED BY <1>2, <2>1 DEF Separate
<1>6. ASSUME N > 0 PROVE Apart(m, d[1])
  <2>1. 1 \in 1..Len(e) - 1 /\ 1 \in 1..N
    BY <1>2, <1>6
  <2>2. Apart(e[1], e[1 + 1]) /\ e[1 + 1] = d[1]
    BY <1>2, <2>1 DEF Separate
  <2> QED BY <1>2, <2>2
<1> QED BY <1>1, <1>3, <1>4, <1>5, <1>6 DEF Separate

(* m meets out: new is out with m ahead, or joined to its first.           *)
Meets(m, out) ==
  /\ out # <<>> /\ m.type = "delete" /\ out[1].type = "delete" /\ out[1].end = m.start

LEMMA JoinIs ==
  ASSUME NEW out \in MRows, NEW m \in Mutations
  PROVE  /\ Meets(m, out) => Ahead(Deletion(out[1].start, m.end), Tail(out), Join(m, out))
         /\ ~Meets(m, out) => Ahead(m, out, Join(m, out))
<1>1. ASSUME Meets(m, out) PROVE Ahead(Deletion(out[1].start, m.end), Tail(out), Join(m, out))
  <2>1. PICK x : x = Deletion(out[1].start, m.end)
    OBVIOUS
  <2>2. out # <<>>
    BY <1>1 DEF Meets
  <2>3. Len(out) \in Nat /\ Len(out) > 0
    BY <2>2 DEF MRows
  <2>4. out[1] \in Mutations
    <3>1. 1 \in 1..Len(out)
      BY <2>3
    <3> QED BY <3>1, MRowAt
  <2>5. x \in Mutations
    BY <2>1, <2>4, MutationType, MutationMade
  <2>6. Tail(out) \in MRows
    BY <2>2, TailAhead
  <2>7. Join(m, out) = <<x>> \o Tail(out)
    BY <1>1, <2>1 DEF Join, Meets
  <2> QED BY <2>1, <2>5, <2>6, <2>7, ConsAhead
<1>2. ASSUME ~Meets(m, out) PROVE Ahead(m, out, Join(m, out))
  <2>1. Join(m, out) = <<m>> \o out
    BY <1>2 DEF Join, Meets
  <2> QED BY <2>1, ConsAhead
<1> QED BY <1>1, <1>2

(* The first a mutations are left.                                         *)
JoinInv(o, d, N, a, out) ==
  /\ Separate(Len(o), out)
  /\ PatchedBy(After(o, d, a), out) = After(o, d, N)
  /\ a < N => Len(out) > 0 /\ out[1].end = d[a + 1].end
  /\ a = N => Len(out) = 0

LEMMA PatchedSame ==
  ASSUME NEW t, NEW m, NEW x, m.start = x.start, m.end = x.end, m.text = x.text
  PROVE  Patched(t, m) = Patched(t, x)
BY PatchedIs

LEMMA JoinMeets ==
  ASSUME NEW o \in Texts, NEW d, InOrder(o, d), NEW N \in Nat, N = Len(d), NEW a \in 1..N,
         NEW b \in Nat, a = b + 1, NEW out, JoinInv(o, d, N, a, out),
         NEW m, m = d[a], NEW new, new = Join(m, out), Meets(m, out)
  PROVE  JoinInv(o, d, N, b, new)
<1>1. PICK n \in Nat : n = Len(o)
  BY LenType
<1>2. Separate(n, out) /\ PatchedBy(After(o, d, a), out) = After(o, d, N) /\ out \in MRows
  BY <1>1 DEF JoinInv, Separate
<1>3. Fits(n, m) /\ m \in Mutations
  BY <1>1 DEF InOrder, Fits
<1>4. PICK x : x = out[1]
  OBVIOUS
<1>5. PICK r : r = Tail(out)
  OBVIOUS
<1>6. out # <<>> /\ m.type = "delete" /\ x.type = "delete" /\ x.end = m.start
  BY <1>4 DEF Meets
<1>7. r \in MRows /\ Ahead(x, r, out)
  BY <1>2, <1>4, <1>5, <1>6, TailAhead
<1>8. Separate(n, r) /\ Fits(n, x) /\ (Len(r) > 0 => Apart(x, r[1]))
  BY <1>2, <1>7, SeparateBehind
<1>9. PICK y : y = Deletion(x.start, m.end)
  OBVIOUS
<1>10. Ahead(y, r, new)
  BY <1>2, <1>3, <1>4, <1>5, <1>9, JoinIs
<1>11. /\ m.start \in Nat /\ m.end \in Nat /\ m.start <= m.end /\ m.end <= n /\ m.text = <<>>
       /\ x.start \in Nat /\ x.end \in Nat /\ x.start <= x.end /\ x.text = <<>>
  BY <1>3, <1>6, <1>8, MutationType DEF Fits
<1>12. y \in Mutations /\ y.type = "delete" /\ y.start = x.start /\ y.end = m.end /\ y.text = <<>>
  BY <1>9, <1>11, MutationMade
<1>13. Fits(n, y)
  BY <1>6, <1>11, <1>12 DEF Fits
<1>14. Len(r) > 0 => Apart(y, r[1])
  BY <1>6, <1>8, <1>12 DEF Apart
<1>15. Separate(n, new) /\ Len(new) > 0 /\ new[1] = y
  BY <1>8, <1>10, <1>13, <1>14, SeparateAhead
<1>16. LongEnough(o, d, N)
  BY AfterLong
<1>17. PICK w : w = After(o, d, b)
  OBVIOUS
<1>18. w \in Texts /\ m.end <= Len(w)
  <2>1. b \in 0..N /\ b < N
    OBVIOUS
  <2> QED BY <1>16, <1>17, <2>1 DEF LongEnough
<1>19. After(o, d, a) = Patched(w, m)
  <2>1. Runs(o, d, N)
    BY AfterIs
  <2>2. a - 1 = b
    OBVIOUS
  <2> QED BY <1>17, <2>1, <2>2 DEF Runs
<1>20. Patched(Patched(w, m), x) = Patched(w, y)
  <2>1. m.end \in 0..Len(w) /\ m.start \in 0..m.end /\ x.start \in 0..m.start
    BY <1>6, <1>11, <1>18, LenType
  <2>2. Patched(Patched(w, Deletion(m.start, m.end)), Deletion(x.start, m.start)) = Patched(w, Deletion(x.start, m.end))
    BY <1>18, <2>1, JoinPatch
  <2>3. Patched(w, m) = Patched(w, Deletion(m.start, m.end))
    <3>1. PICK v : v = Deletion(m.start, m.end)
      OBVIOUS
    <3>2. v.start = m.start /\ v.end = m.end /\ v.text = <<>>
      BY <1>11, <3>1, MutationMade
    <3> QED BY <1>11, <3>1, <3>2, PatchedSame
  <2>4. ASSUME NEW z PROVE Patched(z, x) = Patched(z, Deletion(x.start, m.start))
    <3>1. PICK v : v = Deletion(x.start, m.start)
      OBVIOUS
    <3>2. v.start = x.start /\ v.end = m.start /\ v.text = <<>>
      BY <1>11, <3>1, MutationMade
    <3> QED BY <1>6, <1>11, <3>1, <3>2, PatchedSame
  <2> QED BY <1>9, <2>2, <2>3, <2>4
<1>21. PatchedBy(w, new) = PatchedBy(Patched(w, y), r)
  BY <1>7, <1>10, PatchedAhead
<1>22. PatchedBy(After(o, d, a), out) = PatchedBy(Patched(After(o, d, a), x), r)
  BY <1>7, PatchedAhead
<1>23. PatchedBy(After(o, d, b), new) = After(o, d, N)
  BY <1>2, <1>17, <1>19, <1>20, <1>21, <1>22
<1> QED BY <1>1, <1>12, <1>15, <1>23 DEF JoinInv

LEMMA JoinMisses ==
  ASSUME NEW o \in Texts, NEW d, InOrder(o, d), NEW N \in Nat, N = Len(d), NEW a \in 1..N,
         NEW b \in Nat, a = b + 1, NEW out, JoinInv(o, d, N, a, out),
         NEW m, m = d[a], NEW new, new = Join(m, out), ~Meets(m, out)
  PROVE  JoinInv(o, d, N, b, new)
<1>1. PICK n \in Nat : n = Len(o)
  BY LenType
<1>2. Separate(n, out) /\ PatchedBy(After(o, d, a), out) = After(o, d, N) /\ out \in MRows
  BY <1>1 DEF JoinInv, Separate
<1>3. Fits(n, m) /\ m \in Mutations
  BY <1>1 DEF InOrder, Fits
<1>4. Ahead(m, out, new)
  BY <1>2, <1>3, JoinIs
<1>5. Len(out) > 0 => Apart(m, out[1])
  <2> SUFFICES ASSUME Len(out) > 0 PROVE Apart(m, out[1])
    OBVIOUS
  <2>1. a < N /\ out[1].end = d[a + 1].end
    BY DEF JoinInv
  <2>2. a \in 1..Len(d) - 1 /\ a + 1 \in 1..N
    BY <2>1
  <2>3. d[a + 1].end <= d[a].start
    BY <2>2 DEF InOrder
  <2>4. out[1].end <= m.start
    BY <2>1, <2>3
  <2>5. out # <<>>
    BY MRowNothing
  <2>6. 1 \in 1..Len(out)
    BY <1>2, MRowLen
  <2>7. out[1] \in Mutations
    BY <1>2, <2>6, MRowAt
  <2>8. out[1].end \in Nat /\ m.start \in Nat
    BY <1>3, <2>7, MutationType
  <2> QED BY <2>4, <2>5, <2>8 DEF Apart, Meets
<1>6. Separate(n, new) /\ Len(new) > 0 /\ new[1] = m
  BY <1>2, <1>3, <1>4, <1>5, SeparateAhead
<1>7. After(o, d, a) = Patched(After(o, d, b), m)
  <2>1. Runs(o, d, N)
    BY AfterIs
  <2>2. a - 1 = b
    OBVIOUS
  <2> QED BY <2>1, <2>2 DEF Runs
<1>8. PatchedBy(After(o, d, b), new) = PatchedBy(Patched(After(o, d, b), m), out)
  BY <1>2, <1>4, PatchedAhead
<1> QED BY <1>1, <1>2, <1>6, <1>7, <1>8 DEF JoinInv

LEMMA DeletesMerged ==
  ASSUME NEW o \in Texts, NEW d, InOrder(o, d)
  PROVE  /\ Separate(Len(o), MergeDeletes(d))
         /\ PatchedBy(o, MergeDeletes(d)) = PatchedBy(o, d)
<1>1. PICK N \in Nat : N = Len(d)
  BY MRowLen, Zenon DEF InOrder
<1>2. JoinRuns(d, N)
  BY <1>1, JoinedOfIs
<1> DEFINE S == {n \in Nat : n <= N => JoinInv(o, d, N, N - n, JoinedOf(d, n))}
<1>3. 0 \in S
  <2>1. JoinedOf(d, 0) = <<>>
    BY <1>2 DEF JoinRuns
  <2>2. PICK w : w = After(o, d, N)
    OBVIOUS
  <2>3. PatchedBy(w, <<>>) = w
    <3>1. PICK e : e = <<>>
      OBVIOUS
    <3>2. PICK z \in Nat : z = 0
      OBVIOUS
    <3>3. z = Len(e)
      BY <3>1, <3>2, MRowNothing
    <3>4. Runs(w, e, z)
      BY <3>3, AfterIs
    <3>5. PatchedBy(w, e) = After(w, e, z)
      BY <3>3, Loops
    <3> QED BY <3>1, <3>2, <3>4, <3>5 DEF Runs
  <2>4. Separate(Len(o), <<>>)
    BY MRowNothing DEF Separate
  <2>5. JoinInv(o, d, N, N, <<>>)
    BY <2>2, <2>3, <2>4, MRowNothing DEF JoinInv
  <2>6. N - 0 = N
    OBVIOUS
  <2> QED BY <2>1, <2>5, <2>6
<1>4. ASSUME NEW n \in Nat, n \in S PROVE n + 1 \in S
  <2> SUFFICES ASSUME n + 1 <= N PROVE JoinInv(o, d, N, N - (n + 1), JoinedOf(d, n + 1))
    OBVIOUS
  <2>1. PICK k \in Nat : k = n + 1
    OBVIOUS
  <2>2. PICK a \in Nat : a = N - n
    BY <2>1
  <2>3. PICK b \in Nat : b = N - k
    BY <2>1
  <2>4. a = b + 1 /\ a \in 1..N /\ k \in 1..N /\ (N + 1) - k = a /\ k - 1 = n
    BY <2>1, <2>2, <2>3
  <2>5. JoinInv(o, d, N, a, JoinedOf(d, n))
    BY <1>4, <2>1, <2>2
  <2>6. JoinedOf(d, k) = Join(d[(N + 1) - k], JoinedOf(d, k - 1))
    BY <1>1, <1>2, <2>4 DEF JoinRuns
  <2>7. JoinedOf(d, k) = Join(d[a], JoinedOf(d, n))
    BY <2>4, <2>6
  <2>8. JoinInv(o, d, N, b, JoinedOf(d, k))
    BY <1>1, <2>4, <2>5, <2>7, JoinMeets, JoinMisses
  <2> QED BY <2>1, <2>3, <2>8
<1>5. Nat \subseteq S
  <2> HIDE DEF S
  <2> QED BY <1>3, <1>4, NatInduct
<1>6. JoinInv(o, d, N, 0, JoinedOf(d, N))
  <2>1. N \in S /\ N - N = 0
    BY <1>5
  <2> QED BY <2>1
<1>7. JoinedOf(d, N) = MergeDeletes(d) /\ PatchedBy(o, d) = After(o, d, N)
  BY <1>1, Loops
<1>8. After(o, d, 0) = o
  <2>1. Runs(o, d, N)
    BY <1>1, AfterIs
  <2> QED BY <2>1 DEF Runs
<1> QED BY <1>6, <1>7, <1>8 DEF JoinInv

-----------------------------------------------------------------------------
(* Inserts merged: formed chunks, with the same characters. *)

RowThen(d, c, e) ==
  /\ e \in Rows /\ Len(e) = Len(d) + 1 /\ e[Len(d) + 1] = c
  /\ \A x \in 1..Len(d) : e[x] = d[x]
Replaced(d, p, c, e) ==
  /\ e \in Rows /\ Len(e) = Len(d) /\ e[p] = c
  /\ \A x \in 1..Len(d) : x # p => e[x] = d[x]

LEMMA RowAppend ==
  ASSUME NEW d \in Rows, NEW c \in Chunks
  PROVE  RowThen(d, c, Append(d, c))
<1>1. d \in Seq(Chunks)
  BY DEF Rows
<1>2. Append(d, c) \in Seq(Chunks)
  BY <1>1
<1>3. Len(Append(d, c)) = Len(d) + 1 /\ Append(d, c)[Len(d) + 1] = c
  BY <1>1
<1>4. \A x \in 1..Len(d) : Append(d, c)[x] = d[x]
  BY <1>1
<1> QED BY <1>2, <1>3, <1>4 DEF RowThen, Rows

LEMMA RowReplace ==
  ASSUME NEW d \in Rows, NEW p \in 1..Len(d), NEW c \in Chunks
  PROVE  Replaced(d, p, c, [d EXCEPT ![p] = c])
<1>1. d \in Seq(Chunks)
  BY DEF Rows
<1>2. PICK e : e = [d EXCEPT ![p] = c]
  OBVIOUS
<1>3. e \in Seq(Chunks) /\ Len(e) = Len(d)
  BY <1>1, <1>2
<1>4. e[p] = c /\ \A x \in 1..Len(d) : x # p => e[x] = d[x]
  BY <1>1, <1>2
<1> QED BY <1>2, <1>3, <1>4 DEF Replaced, Rows

MAccs == [out : Rows, prev : Nat, skip : BOOLEAN]

Appends(acc, c, new) ==
  /\ RowThen(acc.out, c, new.out) /\ new.skip = FALSE
  /\ \/ acc.skip /\ new.prev = acc.prev
     \/ c.type = "copy" /\ new.prev = 0
     \/ ~acc.skip /\ c.type = "insert" /\ acc.prev = 0 /\ new.prev = Len(acc.out) + 1
Removes(acc, c, new) ==
  /\ c.type = "insert" /\ c.text = <<>>
  /\ new.out = acc.out /\ new.prev = acc.prev /\ new.skip = TRUE
Extends(acc, c, new) ==
  /\ ~acc.skip /\ c.type = "insert" /\ acc.prev # 0
  /\ Replaced(acc.out, acc.prev, Insert(Cat(acc.out[acc.prev].text, c.text)), new.out)
  /\ new.prev = acc.prev /\ new.skip = FALSE

LEMMA MergeTurn ==
  ASSUME NEW acc \in MAccs, NEW c \in Chunks, acc.prev # 0 => acc.prev \in 1..Len(acc.out),
         NEW new, new = Merge(acc, c)
  PROVE  new \in MAccs /\ (Appends(acc, c, new) \/ Removes(acc, c, new) \/ Extends(acc, c, new))
<1>1. acc.out \in Rows /\ acc.prev \in Nat /\ acc.skip \in BOOLEAN
  BY DEF MAccs
<1>2. c.type \in {"copy", "insert"} /\ c.text \in Texts
  BY ChunkType
<1>3. PICK e : e = Append(acc.out, c)
  OBVIOUS
<1>4. RowThen(acc.out, c, e) /\ e \in Rows
  BY <1>1, <1>3, RowAppend DEF RowThen
<1>5. CASE acc.skip
  <2>1. new = [acc EXCEPT !.out = e, !.skip = FALSE]
    BY <1>3, <1>5 DEF Merge
  <2>2. new \in MAccs /\ new.out = e /\ new.prev = acc.prev /\ new.skip = FALSE
    BY <1>4, <2>1 DEF MAccs
  <2> QED BY <1>4, <1>5, <2>2 DEF Appends
<1>6. CASE ~acc.skip /\ c.type = "copy"
  <2>0. PICK z \in Nat : z = 0
    OBVIOUS
  <2>1. new = [acc EXCEPT !.out = e, !.prev = z]
    BY <1>3, <1>6, <2>0 DEF Merge
  <2>2. new \in MAccs /\ new.out = e /\ new.prev = z /\ new.skip = acc.skip
    BY <1>4, <2>1 DEF MAccs
  <2>3. new.skip = FALSE
    BY <1>1, <1>6, <2>2
  <2> QED BY <1>4, <1>6, <2>0, <2>2, <2>3 DEF Appends
<1>7. CASE ~acc.skip /\ c.type = "insert" /\ c.text = <<>>
  <2>1. new = [acc EXCEPT !.skip = TRUE]
    BY <1>7 DEF Merge
  <2>2. new \in MAccs /\ new.out = acc.out /\ new.prev = acc.prev /\ new.skip = TRUE
    BY <2>1 DEF MAccs
  <2> QED BY <1>7, <2>2 DEF Removes
<1>8. CASE ~acc.skip /\ c.type = "insert" /\ c.text # <<>> /\ acc.prev = 0
  <2>1. PICK k \in Nat : k = Len(acc.out) + 1
    BY <1>1, RowLen
  <2>2. new = [acc EXCEPT !.out = e, !.prev = k]
    BY <1>3, <1>8, <2>1 DEF Merge
  <2>3. new \in MAccs /\ new.out = e /\ new.prev = k /\ new.skip = acc.skip
    BY <1>4, <2>2 DEF MAccs
  <2>4. new.skip = FALSE
    BY <1>1, <1>8, <2>3
  <2> QED BY <1>4, <1>8, <2>1, <2>3, <2>4 DEF Appends
<1>9. CASE ~acc.skip /\ c.type = "insert" /\ c.text # <<>> /\ acc.prev # 0
  <2>1. PICK p \in 1..Len(acc.out) : p = acc.prev
    BY <1>9
  <2>2. PICK f : f = [acc.out EXCEPT ![p] = Insert(Cat(acc.out[p].text, c.text))]
    OBVIOUS
  <2>3. new = [acc EXCEPT !.out = f]
    BY <1>9, <2>1, <2>2 DEF Merge, Cat
  <2>4. acc.out[p] \in Chunks
    BY <1>1, PlaceIs, Nothing
  <2>5. Insert(Cat(acc.out[p].text, c.text)) \in Chunks
    BY <1>2, <2>4, ChunkType, CatType, InsertType
  <2>6. Replaced(acc.out, p, Insert(Cat(acc.out[p].text, c.text)), f)
    BY <1>1, <2>2, <2>5, RowReplace
  <2>7. f \in Rows
    BY <2>6 DEF Replaced
  <2>8. new \in MAccs /\ new.out = f /\ new.prev = acc.prev /\ new.skip = acc.skip
    BY <2>3, <2>7 DEF MAccs
  <2>9. new.skip = FALSE
    BY <1>1, <1>9, <2>8
  <2> QED BY <1>9, <2>1, <2>6, <2>8, <2>9 DEF Extends
<1> QED BY <1>2, <1>5, <1>6, <1>7, <1>8, <1>9

(* What the first n chunks have become.                                    *)
Shape(o, cs, N, n, out) ==
  /\ out \in Rows /\ Len(out) >= 1 /\ out[1].type = "copy" /\ out[1].start = 0
  /\ \A k \in 1..Len(out) - 1 : Good(o, out[k])
  /\ IF n < N THEN Good(o, out[Len(out)]) ELSE Open(o, out[Len(out)])
  /\ \A a, b \in 1..Len(out) : a < b => Before(out[a], out[b])
  /\ \A a \in 1..Len(out), y \in n + 1..N : Before(out[a], cs[y])

LEMMA ShapeThen ==
  ASSUME NEW o, NEW cs, Formed(o, cs), NEW N \in Nat, N = Len(cs), NEW n \in 1..N, NEW x \in 1..N, x = n + 1,
         NEW out, Shape(o, cs, N, n, out), NEW new, RowThen(out, cs[x], new)
  PROVE  Shape(o, cs, N, x, new)
<1>1. PICK L \in Nat : L = Len(out)
  BY RowLen, Zenon DEF Shape
<1>2. PICK c : c = cs[x]
  OBVIOUS
<1>3. PICK k \in Nat : k = L + 1
  OBVIOUS
<1>4. new \in Rows /\ Len(new) = k /\ new[k] = c /\ \A a \in 1..L : new[a] = out[a]
  BY <1>1, <1>2, <1>3 DEF RowThen
<1>5. n < N /\ L >= 1 /\ out[1].type = "copy" /\ out[1].start = 0
  BY <1>1 DEF Shape
<1>6. new[1].type = "copy" /\ new[1].start = 0
  BY <1>4, <1>5
<1>7. \A a \in 1..k - 1 : Good(o, new[a])
  <2> SUFFICES ASSUME NEW a \in 1..L PROVE Good(o, new[a])
    BY <1>3
  <2>1. Good(o, out[a])
    <3>1. CASE a = L
      BY <1>1, <1>5, <3>1 DEF Shape
    <3>2. CASE a # L
      <4>1. a \in 1..Len(out) - 1
        BY <1>1, <3>2
      <4> QED BY <4>1 DEF Shape
    <3> QED BY <3>1, <3>2
  <2> QED BY <1>4, <2>1
<1>8. IF x < N THEN Good(o, new[k]) ELSE Open(o, new[k])
  <2>1. CASE x < N
    <3>1. x \in 1..Len(cs) - 1
      BY <2>1
    <3>2. Good(o, cs[x])
      BY <3>1 DEF Formed
    <3> QED BY <1>2, <1>4, <2>1, <3>2
  <2>2. CASE ~(x < N)
    <3>1. x = Len(cs)
      BY <2>2
    <3>2. Open(o, cs[x])
      BY <3>1 DEF Formed
    <3> QED BY <1>2, <1>4, <2>2, <3>2
  <2> QED BY <2>1, <2>2
<1>9. ASSUME NEW a \in 1..k, NEW b \in 1..k, a < b PROVE Before(new[a], new[b])
  <2>1. a \in 1..L /\ a \in 1..Len(out)
    BY <1>1, <1>3, <1>9
  <2>2. CASE b = k
    <3>1. x \in n + 1..N
      OBVIOUS
    <3>2. Before(out[a], cs[x])
      BY <2>1, <3>1 DEF Shape
    <3> QED BY <1>2, <1>4, <2>1, <2>2, <3>2
  <2>3. CASE b # k
    <3>1. b \in 1..L /\ b \in 1..Len(out)
      BY <1>1, <1>3, <2>3
    <3>2. Before(out[a], out[b])
      BY <1>9, <2>1, <3>1 DEF Shape
    <3> QED BY <1>4, <2>1, <3>1, <3>2
  <2> QED BY <2>2, <2>3
<1>10. ASSUME NEW a \in 1..k, NEW y \in x + 1..N PROVE Before(new[a], cs[y])
  <2>1. CASE a = k
    <3>1. y \in 1..Len(cs) /\ x \in 1..Len(cs) /\ x < y
      OBVIOUS
    <3>2. Before(cs[x], cs[y])
      BY <3>1 DEF Formed
    <3> QED BY <1>2, <1>4, <2>1, <3>2
  <2>2. CASE a # k
    <3>1. a \in 1..L /\ a \in 1..Len(out) /\ y \in n + 1..N
      BY <1>1, <1>3, <2>2
    <3>2. Before(out[a], cs[y])
      BY <3>1 DEF Shape
    <3> QED BY <1>4, <3>1, <3>2
  <2> QED BY <2>1, <2>2
<1> QED BY <1>3, <1>4, <1>6, <1>7, <1>8, <1>9, <1>10 DEF Shape

LEMMA ShapeSkip ==
  ASSUME NEW o, NEW cs, Formed(o, cs), NEW N \in Nat, N = Len(cs), NEW n \in 1..N, NEW x \in 1..N, x = n + 1,
         NEW out, Shape(o, cs, N, n, out), cs[x].type = "insert"
  PROVE  Shape(o, cs, N, x, out)
<1>1. x # N
  BY DEF Formed, Open
<1>2. n < N /\ x < N
  BY <1>1
<1>3. \A y \in x + 1..N : y \in n + 1..N
  OBVIOUS
<1> QED BY <1>2, <1>3 DEF Shape

LEMMA ShapeReplaced ==
  ASSUME NEW o, NEW cs, NEW N \in Nat, NEW n \in 1..N - 1,
         NEW out, Shape(o, cs, N, n, out), NEW p \in 1..Len(out), out[p].type = "insert",
         NEW c, c.type = "insert", Good(o, c), NEW new, Replaced(out, p, c, new)
  PROVE  Shape(o, cs, N, n, new)
<1>1. PICK L \in Nat : L = Len(out)
  BY RowLen, Zenon DEF Shape
<1>2. new \in Rows /\ Len(new) = L /\ new[p] = c /\ \A x \in 1..L : x # p => new[x] = out[x]
  BY <1>1 DEF Replaced
<1>3. n < N /\ L >= 1 /\ out[1].type = "copy" /\ out[1].start = 0
  BY <1>1 DEF Shape
<1>4. p # 1
  BY <1>3
<1>5. new[1].type = "copy" /\ new[1].start = 0
  BY <1>2, <1>3, <1>4
<1>6. \A k \in 1..L : Good(o, new[k])
  <2> SUFFICES ASSUME NEW k \in 1..L PROVE Good(o, new[k])
    OBVIOUS
  <2>1. Good(o, out[k])
    <3>1. CASE k = L
      BY <1>1, <1>3, <3>1 DEF Shape
    <3>2. CASE k # L
      <4>1. k \in 1..Len(out) - 1
        BY <1>1, <3>2
      <4> QED BY <4>1 DEF Shape
    <3> QED BY <3>1, <3>2
  <2> QED BY <1>2, <2>1
<1>7. ASSUME NEW a \in 1..L, NEW b \in 1..L, a < b PROVE Before(new[a], new[b])
  <2>1. Before(out[a], out[b])
    BY <1>1, <1>7 DEF Shape
  <2>2. CASE a = p \/ b = p
    BY <1>2, <2>2 DEF Before
  <2>3. CASE a # p /\ b # p
    BY <1>2, <2>1, <2>3
  <2> QED BY <2>2, <2>3
<1>8. ASSUME NEW a \in 1..L, NEW y \in n + 1..N PROVE Before(new[a], cs[y])
  <2>1. Before(out[a], cs[y])
    BY <1>1 DEF Shape
  <2>2. CASE a = p
    BY <1>2, <2>2 DEF Before
  <2>3. CASE a # p
    BY <1>2, <2>1, <2>3
  <2> QED BY <2>2, <2>3
<1>9. \A k \in 1..L - 1 : Good(o, new[k])
  BY <1>6
<1>10. Good(o, new[L])
  BY <1>3, <1>6
<1> QED BY <1>2, <1>3, <1>5, <1>7, <1>8, <1>9, <1>10 DEF Shape

(* The text with another chunk behind it, and with more text in one.       *)
LEMMA FlatThen ==
  ASSUME NEW o \in Texts, NEW out \in Rows, NEW c \in Chunks, NEW new, RowThen(out, c, new)
  PROVE  /\ Flat(o, new, Len(new)) = Cat(Flat(o, out, Len(out)), Content(o, c))
         /\ Flat(o, out, Len(out)) \in Texts /\ Content(o, c) \in Texts
<1>1. PICK L \in Nat : L = Len(out)
  BY RowLen, Zenon
<1>2. PICK k \in Nat : k = L + 1
  OBVIOUS
<1>3. new \in Rows /\ Len(new) = k /\ new[k] = c /\ \A a \in 1..L : new[a] = out[a]
  BY <1>1, <1>2 DEF RowThen
<1>4. L <= Len(new) /\ L <= Len(out) /\ k <= Len(new)
  BY <1>1, <1>2, <1>3
<1>5. Flat(o, new, L) = Flat(o, out, L)
  BY <1>3, <1>4, FlatSame DEF Rows
<1>6. /\ Flat(o, new, k) = Cat(Flat(o, new, L), Content(o, new[k]))
      /\ Flat(o, new, L) \in Texts /\ Content(o, new[k]) \in Texts
  BY <1>2, <1>3, <1>4, FlatNext DEF Rows
<1> QED BY <1>1, <1>3, <1>5, <1>6

Around(o, out, p, new, a, b) ==
  /\ a \in Texts /\ b \in Texts
  /\ Flat(o, out, Len(out)) = Cat(Cat(a, Content(o, out[p])), b)
  /\ Flat(o, new, Len(new)) = Cat(Cat(a, Content(o, new[p])), b)
  /\ p = Len(out) => b = <<>>

LEMMA FlatReplaced ==
  ASSUME NEW o \in Texts, NEW out \in Rows, NEW p \in 1..Len(out), NEW c, NEW new, Replaced(out, p, c, new)
  PROVE  \E a, b : Around(o, out, p, new, a, b)
<1>1. PICK L \in Nat : L = Len(out)
  BY RowLen, Zenon
<1>2. new \in Rows /\ Len(new) = L /\ \A x \in 1..L : x # p => new[x] = out[x]
  BY <1>1 DEF Replaced
<1>3. PICK q \in Nat : p = q + 1
  BY <1>1
<1>4. PICK k \in Nat : k = p
  BY <1>1
<1>5. k <= Len(out) /\ k <= Len(new) /\ q <= Len(out) /\ q <= Len(new) /\ k = q + 1
      /\ out \in Seq(Chunks) /\ new \in Seq(Chunks)
  BY <1>1, <1>2, <1>3, <1>4 DEF Rows
<1>6. \A x \in 1..q : out[x] = new[x]
  BY <1>1, <1>2, <1>3
<1>7. Flat(o, out, q) = Flat(o, new, q)
  BY <1>5, <1>6, FlatSame
<1>8. /\ Flat(o, out, k) = Cat(Flat(o, out, q), Content(o, out[k])) /\ Flat(o, out, q) \in Texts
      /\ Flat(o, new, k) = Cat(Flat(o, new, q), Content(o, new[k]))
      /\ Flat(o, out, k) \in Texts /\ Flat(o, new, k) \in Texts
  BY <1>5, FlatNext
<1>9. PICK a \in Texts : a = Flat(o, out, q)
  BY <1>8
<1>10. Flat(o, out, k) = Cat(a, Content(o, out[p])) /\ Flat(o, new, k) = Cat(a, Content(o, new[p]))
  BY <1>4, <1>7, <1>8, <1>9
<1>11. CASE k = L
  <2>1. <<>> \in Texts
    BY Nothing
  <2>2. Flat(o, out, L) = Cat(Flat(o, out, k), <<>>) /\ Flat(o, new, L) = Cat(Flat(o, new, k), <<>>)
    BY <1>8, <1>11, CatNothing
  <2> QED BY <1>1, <1>2, <1>9, <1>10, <2>1, <2>2 DEF Around
<1>12. CASE k # L
  <2>1. PICK m \in Nat : k + m = L
    <3>1. k <= L
      BY <1>1, <1>4
    <3>2. L - k \in Nat /\ k + (L - k) = L
      BY <3>1
    <3> QED BY <3>2
  <2>2. k + m <= Len(out) /\ k + m <= Len(new)
    BY <1>1, <1>2, <2>1
  <2>3. Alike(out, k, new, k, m)
    <3>1. ASSUME NEW x \in 1..m PROVE new[k + x] = out[k + x]
      <4>1. k + x \in 1..L /\ k + x # p
        BY <1>4, <2>1
      <4> QED BY <1>2, <4>1
    <3> QED BY <3>1 DEF Alike
  <2>4. Shared(o, out, k, k + m, new, k, k + m)
    BY <1>5, <2>2, <2>3, FlatShift
  <2>5. PICK r \in Texts : Flat(o, out, L) = Cat(Flat(o, out, k), r) /\ Flat(o, new, L) = Cat(Flat(o, new, k), r)
    BY <2>1, <2>4 DEF Shared
  <2> QED BY <1>1, <1>2, <1>4, <1>9, <1>10, <1>12, <2>5 DEF Around
<1> QED BY <1>11, <1>12

(* The same characters, and as many.                                       *)
Letters(s, t) == Len(s) = Len(t) /\ Characters(s) = Characters(t)

LEMMA LettersThen ==
  ASSUME NEW s \in Texts, NEW t \in Texts, NEW c \in Texts, Letters(s, t)
  PROVE  Letters(Cat(s, c), Cat(t, c))
<1>1. Len(Cat(s, c)) = Len(s) + Len(c) /\ Len(Cat(t, c)) = Len(t) + Len(c)
  BY CatType
<1>2. Characters(Cat(s, c)) = Characters(s) \cup Characters(c)
      /\ Characters(Cat(t, c)) = Characters(t) \cup Characters(c)
  BY CharactersCat
<1> QED BY <1>1, <1>2 DEF Letters

LEMMA LettersInto ==
  ASSUME NEW a \in Texts, NEW s \in Texts, NEW b \in Texts, NEW c \in Texts, NEW t \in Texts,
         Letters(Cat(Cat(a, s), b), t)
  PROVE  Letters(Cat(Cat(a, Cat(s, c)), b), Cat(t, c))
<1>1. PICK as \in Texts : as = Cat(a, s)
  BY CatType
<1>2. PICK sc \in Texts : sc = Cat(s, c)
  BY CatType
<1>3. PICK asc \in Texts : asc = Cat(a, sc)
  BY CatType
<1>4. Len(as) = Len(a) + Len(s) /\ Len(sc) = Len(s) + Len(c) /\ Len(asc) = Len(a) + Len(sc)
  BY <1>1, <1>2, <1>3, CatType
<1>5. Len(Cat(as, b)) = Len(as) + Len(b) /\ Len(Cat(asc, b)) = Len(asc) + Len(b) /\ Len(Cat(t, c)) = Len(t) + Len(c)
  BY CatType
<1>6. Len(a) \in Nat /\ Len(s) \in Nat /\ Len(b) \in Nat /\ Len(c) \in Nat /\ Len(t) \in Nat
  BY LenType
<1>7. Len(Cat(asc, b)) = Len(Cat(as, b)) + Len(c)
  BY <1>4, <1>5, <1>6
<1>8. Characters(as) = Characters(a) \cup Characters(s) /\ Characters(sc) = Characters(s) \cup Characters(c)
      /\ Characters(asc) = Characters(a) \cup Characters(sc)
  BY <1>1, <1>2, <1>3, CharactersCat
<1>9. Characters(Cat(as, b)) = Characters(as) \cup Characters(b)
      /\ Characters(Cat(asc, b)) = Characters(asc) \cup Characters(b)
      /\ Characters(Cat(t, c)) = Characters(t) \cup Characters(c)
  BY CharactersCat
<1>10. Characters(Cat(asc, b)) = Characters(Cat(as, b)) \cup Characters(c)
  <2> HIDE <1>1, <1>2, <1>3
  <2> QED BY <1>8, <1>9
<1>11. Letters(Cat(as, b), t)
  BY <1>1
<1>12. Letters(Cat(asc, b), Cat(t, c))
  BY <1>5, <1>7, <1>9, <1>10, <1>11 DEF Letters
<1> QED BY <1>2, <1>3, <1>12

MergeInv(o, cs, N, n, acc) ==
  /\ acc \in MAccs /\ Shape(o, cs, N, n, acc.out)
  /\ acc.prev # 0 => acc.prev \in 1..Len(acc.out) /\ acc.out[acc.prev].type = "insert"
  /\ Letters(Flat(o, acc.out, Len(acc.out)), Flat(o, cs, n))

(* Nothing was removed, and inserts went to the end.                       *)
Exact(o, cs, n, acc) ==
  /\ acc.skip = FALSE /\ (acc.prev = 0 \/ acc.prev = Len(acc.out))
  /\ Flat(o, acc.out, Len(acc.out)) = Flat(o, cs, n)

Merging(o, cs, N, n, x, c, acc, new) ==
  /\ o \in Texts /\ Formed(o, cs) /\ N \in Nat /\ N = Len(cs) /\ n \in 1..N /\ x \in 1..N /\ x = n + 1
  /\ c \in Chunks /\ c = cs[x] /\ MergeInv(o, cs, N, n, acc) /\ new \in MAccs

LEMMA MergingFlat ==
  ASSUME NEW o, NEW cs, NEW N, NEW n, NEW x, NEW c, NEW acc, NEW new, Merging(o, cs, N, n, x, c, acc, new)
  PROVE  /\ Flat(o, cs, x) = Cat(Flat(o, cs, n), Content(o, c))
         /\ Flat(o, cs, n) \in Texts /\ Content(o, c) \in Texts
<1>1. PICK k \in Nat : k = x
  BY DEF Merging
<1>2. PICK m \in Nat : m = n
  BY DEF Merging
<1>3. k = m + 1 /\ k <= Len(cs) /\ cs \in Seq(Chunks) /\ o \in Texts /\ c = cs[k]
  BY <1>1, <1>2 DEF Merging, Formed
<1> QED BY <1>1, <1>2, <1>3, FlatNext

LEMMA MergeAppends ==
  ASSUME NEW o, NEW cs, NEW N, NEW n, NEW x, NEW c, NEW acc, NEW new, Merging(o, cs, N, n, x, c, acc, new),
         Appends(acc, c, new)
  PROVE  /\ MergeInv(o, cs, N, x, new)
         /\ Exact(o, cs, n, acc) => Exact(o, cs, x, new)
<1>1. PICK L \in Nat : L = Len(acc.out)
  BY RowLen, Zenon DEF Merging, MergeInv, Shape
<1>2. /\ o \in Texts /\ Formed(o, cs) /\ N \in Nat /\ N = Len(cs) /\ n \in 1..N /\ x \in 1..N /\ x = n + 1
      /\ c \in Chunks /\ c = cs[x] /\ new \in MAccs
  BY DEF Merging
<1>3. MergeInv(o, cs, N, n, acc) /\ RowThen(acc.out, c, new.out)
  BY DEF Merging, Appends
<1>4. Shape(o, cs, N, n, acc.out) /\ acc.out \in Rows
  BY <1>3 DEF MergeInv, Shape
<1>5. Shape(o, cs, N, x, new.out)
  BY <1>2, <1>3, <1>4, ShapeThen
<1>6. Len(new.out) = L + 1 /\ new.out[L + 1] = c /\ \A k \in 1..L : new.out[k] = acc.out[k]
  BY <1>1, <1>3 DEF RowThen
<1>7. acc.prev # 0 => acc.prev \in 1..L /\ acc.out[acc.prev].type = "insert"
  BY <1>1, <1>3 DEF MergeInv
<1>8. c.type = "copy" \/ c.type = "insert"
  BY <1>2, ChunkType
<1>9. new.prev # 0 => new.prev \in 1..Len(new.out) /\ new.out[new.prev].type = "insert"
  <2>1. CASE new.prev = acc.prev
    BY <1>6, <1>7, <2>1
  <2>2. CASE new.prev = L + 1 /\ c.type = "insert"
    BY <1>6, <2>2
  <2>3. CASE new.prev = 0
    BY <2>3
  <2> QED BY <1>1, <2>1, <2>2, <2>3 DEF Appends
<1>10. /\ Flat(o, new.out, Len(new.out)) = Cat(Flat(o, acc.out, Len(acc.out)), Content(o, c))
       /\ Flat(o, acc.out, Len(acc.out)) \in Texts
  BY <1>2, <1>3, <1>4, FlatThen
<1>11. Flat(o, cs, x) = Cat(Flat(o, cs, n), Content(o, c)) /\ Flat(o, cs, n) \in Texts /\ Content(o, c) \in Texts
  BY MergingFlat
<1>12. Letters(Flat(o, acc.out, Len(acc.out)), Flat(o, cs, n))
  BY <1>3 DEF MergeInv
<1>13. Letters(Flat(o, new.out, Len(new.out)), Flat(o, cs, x))
  BY <1>10, <1>11, <1>12, LettersThen
<1>14. MergeInv(o, cs, N, x, new)
  BY <1>2, <1>5, <1>9, <1>13 DEF MergeInv
<1>15. ASSUME Exact(o, cs, n, acc) PROVE Exact(o, cs, x, new)
  <2>1. new.skip = FALSE /\ (new.prev = 0 \/ new.prev = Len(new.out))
    BY <1>1, <1>6, <1>15 DEF Exact, Appends
  <2>2. Flat(o, new.out, Len(new.out)) = Flat(o, cs, x)
    BY <1>10, <1>11, <1>15 DEF Exact
  <2> QED BY <2>1, <2>2 DEF Exact
<1> QED BY <1>14, <1>15

LEMMA MergeRemoves ==
  ASSUME NEW o, NEW cs, NEW N, NEW n, NEW x, NEW c, NEW acc, NEW new, Merging(o, cs, N, n, x, c, acc, new),
         Removes(acc, c, new)
  PROVE  MergeInv(o, cs, N, x, new)
<1>2. /\ o \in Texts /\ Formed(o, cs) /\ N \in Nat /\ N = Len(cs) /\ n \in 1..N /\ x \in 1..N /\ x = n + 1
      /\ c \in Chunks /\ c = cs[x] /\ new \in MAccs
  BY DEF Merging
<1>3. MergeInv(o, cs, N, n, acc) /\ new.out = acc.out /\ new.prev = acc.prev /\ c.type = "insert" /\ c.text = <<>>
  BY DEF Merging, Removes
<1>4. Shape(o, cs, N, n, acc.out)
  BY <1>3 DEF MergeInv
<1>5. Shape(o, cs, N, x, acc.out)
  BY <1>2, <1>3, <1>4, ShapeSkip
<1>6. Content(o, c) = <<>>
  BY <1>3 DEF Content
<1>7. Flat(o, cs, x) = Cat(Flat(o, cs, n), Content(o, c)) /\ Flat(o, cs, n) \in Texts
  BY MergingFlat
<1>8. Flat(o, cs, x) = Flat(o, cs, n)
  BY <1>6, <1>7, CatNothing
<1> QED BY <1>2, <1>3, <1>5, <1>8 DEF MergeInv

LEMMA MergeExtends ==
  ASSUME NEW o, NEW cs, NEW N, NEW n, NEW x, NEW c, NEW acc, NEW new, Merging(o, cs, N, n, x, c, acc, new),
         Extends(acc, c, new)
  PROVE  /\ MergeInv(o, cs, N, x, new)
         /\ Exact(o, cs, n, acc) => Exact(o, cs, x, new)
<1>1. PICK L \in Nat : L = Len(acc.out)
  BY RowLen, Zenon DEF Merging, MergeInv, Shape
<1>2. /\ o \in Texts /\ Formed(o, cs) /\ N \in Nat /\ N = Len(cs) /\ n \in 1..N /\ x \in 1..N /\ x = n + 1
      /\ c \in Chunks /\ c = cs[x] /\ new \in MAccs
  BY DEF Merging
<1>3. /\ MergeInv(o, cs, N, n, acc) /\ c.type = "insert" /\ new.prev = acc.prev /\ new.skip = FALSE
      /\ acc.prev # 0
  BY DEF Merging, Extends
<1>4. Shape(o, cs, N, n, acc.out) /\ acc.out \in Rows
  BY <1>3 DEF MergeInv, Shape
<1>5. PICK p \in 1..Len(acc.out) : p = acc.prev
  BY <1>3 DEF MergeInv
<1>6. acc.out[p].type = "insert" /\ acc.out[p] \in Chunks
  BY <1>2, <1>3, <1>4, <1>5, PlaceIs DEF MergeInv
<1>7. PICK s \in Texts : s = acc.out[p].text
  BY <1>6, ChunkType
<1>8. PICK t \in Texts : t = c.text
  BY <1>2, ChunkType
<1>9. PICK u \in Texts : u = Cat(s, t)
  BY CatType
<1>10. PICK i : i = Insert(u)
  OBVIOUS
<1>11. Replaced(acc.out, p, i, new.out)
  BY <1>5, <1>7, <1>8, <1>9, <1>10 DEF Extends
<1>12. i.type = "insert" /\ i.length = Len(i.text) /\ i.text = u
  BY <1>10, InsertType
<1>13. Good(o, i)
  BY <1>12 DEF Good
<1>14. x # N
  BY <1>2, <1>3 DEF Formed, Open
<1>15. n \in 1..N - 1
  BY <1>2, <1>14
<1>16. Shape(o, cs, N, n, new.out)
  BY <1>2, <1>4, <1>6, <1>11, <1>12, <1>13, <1>15, ShapeReplaced
<1>17. Shape(o, cs, N, x, new.out)
  BY <1>2, <1>3, <1>16, ShapeSkip
<1>18. Len(new.out) = L /\ new.out[p] = i
  BY <1>1, <1>11 DEF Replaced
<1>19. PICK a, b : Around(o, acc.out, p, new.out, a, b)
  BY <1>2, <1>4, <1>11, FlatReplaced
<1>20. Content(o, acc.out[p]) = s /\ Content(o, new.out[p]) = u /\ Content(o, c) = t
  BY <1>3, <1>6, <1>7, <1>8, <1>12, <1>18 DEF Content
<1>21. /\ a \in Texts /\ b \in Texts
       /\ Flat(o, acc.out, Len(acc.out)) = Cat(Cat(a, s), b)
       /\ Flat(o, new.out, Len(new.out)) = Cat(Cat(a, u), b)
       /\ p = Len(acc.out) => b = <<>>
  BY <1>19, <1>20 DEF Around
<1>22. Flat(o, cs, x) = Cat(Flat(o, cs, n), t) /\ Flat(o, cs, n) \in Texts
  BY <1>20, MergingFlat
<1>23. Letters(Cat(Cat(a, s), b), Flat(o, cs, n))
  BY <1>3, <1>21 DEF MergeInv
<1>24. Letters(Cat(Cat(a, Cat(s, t)), b), Cat(Flat(o, cs, n), t))
  BY <1>21, <1>22, <1>23, LettersInto
<1>25. Letters(Flat(o, new.out, Len(new.out)), Flat(o, cs, x))
  BY <1>9, <1>21, <1>22, <1>24
<1>26. new.prev \in 1..Len(new.out) /\ new.out[new.prev].type = "insert"
  BY <1>1, <1>3, <1>5, <1>12, <1>18
<1>27. MergeInv(o, cs, N, x, new)
  BY <1>2, <1>17, <1>25, <1>26 DEF MergeInv
<1>28. ASSUME Exact(o, cs, n, acc) PROVE Exact(o, cs, x, new)
  <2>1. p = Len(acc.out) /\ Flat(o, acc.out, Len(acc.out)) = Flat(o, cs, n)
    BY <1>3, <1>5, <1>28 DEF Exact
  <2>2. new.prev = Len(new.out)
    BY <1>1, <1>3, <1>5, <1>18, <2>1
  <2>3. Cat(Cat(a, s), b) = Cat(a, s) /\ Cat(Cat(a, u), b) = Cat(a, u)
    BY <1>21, <2>1, CatType, CatNothing
  <2>4. Flat(o, cs, x) = Cat(Cat(a, s), t)
    BY <1>21, <1>22, <2>1, <2>3
  <2>5. Cat(Cat(a, s), t) = Cat(a, u)
    BY <1>9, <1>21, CatAssoc
  <2>6. Flat(o, new.out, Len(new.out)) = Flat(o, cs, x)
    BY <1>21, <2>3, <2>4, <2>5
  <2> QED BY <1>3, <2>2, <2>6 DEF Exact
<1> QED BY <1>27, <1>28

(* No insert is empty.                                                     *)
Filled(cs) == \A k \in 1..Len(cs) : cs[k].type = "insert" => cs[k].text # <<>>

LEMMA MergeStep ==
  ASSUME NEW o \in Texts, NEW cs, Formed(o, cs), NEW N \in Nat, N = Len(cs), NEW n \in 1..N, NEW x \in 1..N,
         x = n + 1, NEW acc, MergeInv(o, cs, N, n, acc), NEW new, new = Merge(acc, cs[x])
  PROVE  /\ MergeInv(o, cs, N, x, new)
         /\ Filled(cs) /\ Exact(o, cs, n, acc) => Exact(o, cs, x, new)
<1>1. cs \in Rows
  BY DEF Formed, Rows
<1>2. PICK c \in Chunks : c = cs[x]
  BY <1>1, PlaceIs
<1>3. acc \in MAccs /\ (acc.prev # 0 => acc.prev \in 1..Len(acc.out))
  BY DEF MergeInv
<1>4. new \in MAccs /\ (Appends(acc, c, new) \/ Removes(acc, c, new) \/ Extends(acc, c, new))
  BY <1>2, <1>3, MergeTurn
<1>5. Merging(o, cs, N, n, x, c, acc, new)
  BY <1>2, <1>4 DEF Merging
<1>6. CASE Appends(acc, c, new)
  BY <1>5, <1>6, MergeAppends
<1>7. CASE Extends(acc, c, new)
  BY <1>5, <1>7, MergeExtends
<1>8. CASE Removes(acc, c, new)
  <2>1. ~Filled(cs)
    BY <1>2, <1>8 DEF Removes, Filled
  <2> QED BY <1>5, <1>8, <2>1, MergeRemoves
<1> QED BY <1>4, <1>6, <1>7, <1>8

LEMMA ShapeFormed ==
  ASSUME NEW o, NEW cs, NEW N \in Nat, NEW out, Shape(o, cs, N, N, out)
  PROVE  Formed(o, out)
<1>1. ~(N < N)
  OBVIOUS
<1> QED BY <1>1 DEF Shape, Formed, Rows

LEMMA InsertsMerged ==
  ASSUME NEW o, Small(o), NEW cs, Formed(o, cs)
  PROVE  /\ Formed(o, MergeInserts(cs))
         /\ Letters(Flat(o, MergeInserts(cs), Len(MergeInserts(cs))), Flat(o, cs, Len(cs)))
         /\ Filled(cs) => Flat(o, MergeInserts(cs), Len(MergeInserts(cs))) = Flat(o, cs, Len(cs))
<1>1. cs \in Rows /\ o \in Texts /\ Len(cs) >= 1
  BY DEF Formed, Rows, Small
<1>2. PICK N \in Nat : N = Len(cs)
  BY <1>1, RowLen, Zenon
<1>3. MergeRuns(cs, N)
  BY <1>2, MergedIs
<1> DEFINE P(k) == MergeInv(o, cs, N, k, Merged(cs, k)) /\ (Filled(cs) => Exact(o, cs, k, Merged(cs, k)))
<1> DEFINE S == {n \in Nat : n + 1 <= N => P(n + 1)}
<1>4. ASSUME NEW k \in 1..N PROVE Merged(cs, k) = Merge(Merged(cs, k - 1), cs[k])
  BY <1>3 DEF MergeRuns
<1>5. 0 \in S
  <2>1. PICK c \in Chunks : c = cs[1]
    <3>1. 1 \in 1..Len(cs)
      BY <1>1, <1>2
    <3> QED BY <1>1, <3>1, PlaceIs
  <2>2. c.type = "copy" /\ c.start = 0
    BY <2>1 DEF Formed
  <2>3. PICK new : new = Merged(cs, 1)
    OBVIOUS
  <2>4. new = Merge(NothingMerged, c)
    <3>1. 1 \in 1..N /\ 1 - 1 = 0
      BY <1>1, <1>2
    <3>2. Merged(cs, 0) = NothingMerged
      BY <1>3 DEF MergeRuns
    <3> QED BY <1>4, <2>1, <2>3, <3>1, <3>2
  <2>5. NothingMerged \in MAccs /\ NothingMerged.out = <<>> /\ NothingMerged.prev = 0
        /\ NothingMerged.skip = FALSE
    BY RowsNothing DEF NothingMerged, MAccs
  <2>6. new \in MAccs /\ (Appends(NothingMerged, c, new) \/ Removes(NothingMerged, c, new) \/ Extends(NothingMerged, c, new))
    BY <2>4, <2>5, MergeTurn
  <2>7. Appends(NothingMerged, c, new)
    BY <2>2, <2>6 DEF Removes, Extends
  <2>8. RowThen(<<>>, c, new.out) /\ new.skip = FALSE /\ new.prev = 0
    BY <2>2, <2>5, <2>7 DEF Appends
  <2>9. PICK out : out = new.out
    OBVIOUS
  <2>10. out \in Rows /\ Len(out) = 1 /\ out[1] = c
    BY <2>8, <2>9, RowsNothing DEF RowThen
  <2>11. Shape(o, cs, N, 1, out)
    <3>1. IF 1 < N THEN Good(o, out[1]) ELSE Open(o, out[1])
      <4>1. CASE 1 < N
        <5>1. 1 \in 1..Len(cs) - 1
          BY <1>2, <4>1
        <5>2. Good(o, cs[1])
          BY <5>1 DEF Formed
        <5> QED BY <2>1, <2>10, <4>1, <5>2
      <4>2. CASE ~(1 < N)
        <5>1. 1 = Len(cs)
          BY <1>1, <1>2, <4>2
        <5>2. Open(o, cs[1])
          BY <5>1 DEF Formed
        <5> QED BY <2>1, <2>10, <4>2, <5>2
      <4> QED BY <4>1, <4>2
    <3>2. ASSUME NEW a \in 1..1, NEW y \in 1 + 1..N PROVE Before(out[a], cs[y])
      <4>1. 1 \in 1..Len(cs) /\ y \in 1..Len(cs) /\ 1 < y /\ a = 1
        BY <1>1, <1>2
      <4>2. Before(cs[1], cs[y])
        BY <4>1 DEF Formed
      <4> QED BY <2>1, <2>10, <4>1, <4>2
    <3>3. \A k \in 1..Len(out) - 1 : Good(o, out[k])
      BY <2>10
    <3>4. \A a, b \in 1..Len(out) : a < b => Before(out[a], out[b])
      BY <2>10
    <3>5. out \in Rows /\ Len(out) >= 1 /\ out[1].type = "copy" /\ out[1].start = 0
      BY <2>2, <2>10
    <3> QED BY <2>10, <3>1, <3>2, <3>3, <3>4, <3>5 DEF Shape
  <2>12. Flat(o, out, Len(out)) = Flat(o, cs, 1)
    <3>1. PICK m \in Nat : m = 1
      OBVIOUS
    <3>2. m <= Len(out) /\ m <= Len(cs) /\ (\A x \in 1..m : out[x] = cs[x]) /\ out \in Seq(Chunks) /\ cs \in Seq(Chunks)
      BY <1>1, <1>2, <2>1, <2>10, <3>1 DEF Rows
    <3>3. Flat(o, out, m) = Flat(o, cs, m)
      BY <1>1, <3>2, FlatSame
    <3> QED BY <2>10, <3>1, <3>3
  <2>13. MergeInv(o, cs, N, 1, new)
    BY <2>6, <2>8, <2>9, <2>11, <2>12 DEF MergeInv, Letters
  <2>14. Exact(o, cs, 1, new)
    BY <2>8, <2>9, <2>12 DEF Exact
  <2>15. 0 + 1 = 1
    OBVIOUS
  <2> QED BY <2>3, <2>13, <2>14, <2>15
<1>6. ASSUME NEW n \in Nat, n \in S PROVE n + 1 \in S
  <2> SUFFICES ASSUME (n + 1) + 1 <= N PROVE P((n + 1) + 1)
    OBVIOUS
  <2>1. PICK k \in Nat : k = n + 1
    OBVIOUS
  <2>2. PICK x \in Nat : x = k + 1
    OBVIOUS
  <2>3. k \in 1..N /\ x \in 1..N /\ x - 1 = k
    BY <2>1, <2>2
  <2>4. P(k)
    BY <1>6, <2>1, <2>3
  <2>5. Merged(cs, x) = Merge(Merged(cs, k), cs[x])
    BY <1>4, <2>3
  <2>6. /\ MergeInv(o, cs, N, x, Merged(cs, x))
        /\ Filled(cs) /\ Exact(o, cs, k, Merged(cs, k)) => Exact(o, cs, x, Merged(cs, x))
    BY <1>1, <1>2, <2>2, <2>3, <2>4, <2>5, MergeStep
  <2>7. P(x)
    BY <2>4, <2>6
  <2> QED BY <2>1, <2>2, <2>7
<1>7. Nat \subseteq S
  <2> HIDE DEF S
  <2> QED BY <1>5, <1>6, NatInduct
<1>8. P(N)
  <2>1. PICK n \in Nat : n + 1 = N
    BY <1>1, <1>2
  <2>2. n \in S
    BY <1>7
  <2> QED BY <2>1, <2>2
<1>9. PICK acc : acc = Merged(cs, N)
  OBVIOUS
<1>10. acc.out = MergeInserts(cs)
  BY <1>2, <1>9, Loops
<1>11. MergeInv(o, cs, N, N, acc) /\ (Filled(cs) => Exact(o, cs, N, acc))
  BY <1>8, <1>9
<1>12. Shape(o, cs, N, N, acc.out)
  BY <1>11 DEF MergeInv
<1>13. Formed(o, acc.out)
  BY <1>12, ShapeFormed
<1>14. Letters(Flat(o, acc.out, Len(acc.out)), Flat(o, cs, N))
  BY <1>11 DEF MergeInv
<1>15. Filled(cs) => Flat(o, acc.out, Len(acc.out)) = Flat(o, cs, N)
  BY <1>11 DEF Exact
<1> QED BY <1>2, <1>10, <1>13, <1>14, <1>15

-----------------------------------------------------------------------------
(* The theorems. *)

LEMMA TheDiff ==
  ASSUME NEW o, Small(o), NEW cs, Formed(o, cs), NEW ms, ms = MergeInserts(cs),
         NEW d, d = MergeDeletes(MutationsOf(ms))
  PROVE  /\ Formed(o, ms) /\ Separate(Len(o), d)
         /\ Letters(PatchedBy(o, d), Flat(o, cs, Len(cs)))
         /\ Filled(cs) => PatchedBy(o, d) = Flat(o, cs, Len(cs))
<1>1. /\ Formed(o, ms) /\ Letters(Flat(o, ms, Len(ms)), Flat(o, cs, Len(cs)))
      /\ Filled(cs) => Flat(o, ms, Len(ms)) = Flat(o, cs, Len(cs))
  BY InsertsMerged
<1>2. InOrder(o, MutationsOf(ms)) /\ PatchedBy(o, MutationsOf(ms)) = Flat(o, ms, Len(ms))
  BY <1>1, MutationsMake
<1>3. o \in Texts
  BY DEF Small
<1>4. Separate(Len(o), d) /\ PatchedBy(o, d) = PatchedBy(o, MutationsOf(ms))
  BY <1>2, <1>3, DeletesMerged
<1> QED BY <1>1, <1>2, <1>4

Typed(cs) ==
  /\ cs \in Seq(Chunks)
  /\ \A i \in 1..Len(cs) : cs[i].type = "insert" => cs[i].length = Len(cs[i].text)

LEMMA FormedTyped ==
  ASSUME NEW o, NEW cs, Formed(o, cs)
  PROVE  Typed(cs)
<1>1. PICK N \in Nat : N = Len(cs)
  BY RowLen, Zenon DEF Formed, Rows
<1>2. ASSUME NEW i \in 1..N, cs[i].type = "insert" PROVE cs[i].length = Len(cs[i].text)
  <2>1. i # N
    BY <1>1, <1>2 DEF Formed, Open
  <2>2. i \in 1..Len(cs) - 1
    BY <1>1, <2>1
  <2>3. Good(o, cs[i])
    BY <2>2 DEF Formed
  <2> QED BY <1>2, <2>3 DEF Good
<1> QED BY <1>1, <1>2 DEF Typed, Formed

(* While it is being edited the text is what the chunks say, and every      *)
(* insert has a text, whose place is where inserted text begins, unless an  *)
(* edit began there.                                                        *)
Newest == 10 * edits + 9
Editing == ~done => /\ Built(old, text, chunks, Newest) /\ diff = <<>>
                    /\ ~opened => Fresh(old, text, chunks, {})
IInv ==
  /\ Small(old) /\ text \in Texts /\ Typed(chunks) /\ edits \in 0..MaxEdits
  /\ diff \in MRows /\ done \in BOOLEAN /\ opened \in BOOLEAN
  /\ Editing /\ EndToBeginning /\ EditorHasTheText

LEMMA IInvDiff == IInv => DiffInv
<1> SUFFICES ASSUME IInv PROVE DiffInv
  OBVIOUS
<1>1. old \in Seq(Nat) /\ text \in Seq(Nat)
  BY DEF IInv, Small, Texts
<1>2. chunks \in Seq(Chunks) /\ \A i \in 1..Len(chunks) : chunks[i].type = "insert" => chunks[i].length = Len(chunks[i].text)
  BY DEF IInv, Typed
<1>3. diff \in Seq(Mutations)
  BY DEF IInv, MRows
<1> QED BY <1>1, <1>2, <1>3 DEF IInv, DiffInv, TypeOK

LEMMA FirstChunk ==
  ASSUME NEW o, Small(o), NEW c, c = Copy(0, Infinity), NEW cs, cs = <<c>>
  PROVE  /\ Formed(o, cs) /\ Flat(o, cs, Len(cs)) = o /\ NewText(cs) /\ \A t, E : Fresh(o, t, cs, E)
<1>1. c \in Chunks /\ c.type = "copy" /\ c.start = 0 /\ c.length = Infinity
  BY CopyType DEF Infinity
<1>2. cs \in Seq(Chunks) /\ Len(cs) = 1 /\ cs[1] = c
  BY <1>1
<1>3. o \in Texts /\ Len(o) \in Nat
  BY LenType DEF Small
<1>4. Open(o, c)
  BY <1>1, <1>3 DEF Open
<1>5. Formed(o, cs)
  <2>1. cs[Len(cs)] = c
    BY <1>2
  <2>2. \A k \in 1..Len(cs) - 1 : Good(o, cs[k])
    BY <1>2
  <2>3. \A a, b \in 1..Len(cs) : a < b => Before(cs[a], cs[b])
    BY <1>2
  <2> QED BY <1>1, <1>2, <1>4, <2>1, <2>2, <2>3 DEF Formed
<1>6. Content(o, c) = o
  <2>1. Content(o, c) = Span(o, c.start, Len(o))
    BY <1>1, <1>4, OpenContent
  <2>2. Take(o, Len(o)) = o
    BY <1>3, TakeAll
  <2>3. PICK z \in Nat : z = 0
    OBVIOUS
  <2>4. z \in 0..Len(o)
    BY <1>3, <2>3
  <2>5. Cat(Take(o, z), Drop(o, z)) = o /\ Take(o, z) \in Texts /\ Len(Take(o, z)) = 0 /\ Drop(o, z) \in Texts
    BY <1>3, <2>3, <2>4, CatTakeDrop, TakeIs, DropIs
  <2>6. Take(o, z) = <<>>
    BY <2>5 DEF Texts
  <2>7. Drop(o, z) = o
    BY <2>5, <2>6, CatNothing
  <2> QED BY <1>1, <2>1, <2>2, <2>3, <2>7 DEF Span
<1>7. Flat(o, cs, Len(cs)) = o
  <2>1. PICK z \in Nat : z = 0
    OBVIOUS
  <2>2. PICK k \in Nat : k = z + 1
    BY <2>1
  <2>3. k <= Len(cs) /\ k = Len(cs)
    BY <1>2, <2>1, <2>2
  <2>4. Flat(o, cs, k) = Cat(Flat(o, cs, z), Content(o, cs[k]))
    BY <1>2, <1>3, <2>2, <2>3, FlatNext
  <2>5. Flat(o, cs, z) = <<>>
    BY <1>2, <1>3, <2>1, FlatIs
  <2> QED BY <1>2, <1>3, <1>6, <2>3, <2>4, <2>5, CatNothing
<1>8. NewText(cs) /\ \A t, E : Fresh(o, t, cs, E)
  BY <1>1, <1>2 DEF NewText, Fresh, FreshAt
<1> QED BY <1>5, <1>7, <1>8

LEMMA InitInductive == Init => IInv
<1> SUFFICES ASSUME Init PROVE IInv
  OBVIOUS
<1>1. PICK n \in Lengths : old = [i \in 1..n |-> i]
  BY DEF Init
<1>2. n \in 0..9
  BY LengthsAssumption
<1>3. old \in Seq(Nat) /\ Len(old) = n /\ \A i \in 1..n : old[i] = i
  BY <1>1, <1>2
<1>4. Small(old)
  BY <1>2, <1>3 DEF Small, Texts
<1>5. Told(old, 9)
  BY <1>2, <1>3 DEF Told
<1>6. /\ text = old /\ chunks = <<Copy(0, Infinity)>> /\ edits = 0
      /\ diff = <<>> /\ done = FALSE /\ opened = FALSE
  BY DEF Init
<1>7. /\ Formed(old, chunks) /\ Flat(old, chunks, Len(chunks)) = old /\ NewText(chunks)
      /\ \A t, E : Fresh(old, t, chunks, E)
  BY <1>4, <1>6, FirstChunk
<1>8. text \in Texts /\ Newest = 9
  BY <1>4, <1>6 DEF Small, Newest
<1>9. Editing
  BY <1>5, <1>6, <1>7, <1>8 DEF Editing, Built
<1>10. Typed(chunks)
  BY <1>7, FormedTyped
<1>11. diff \in MRows /\ Len(diff) = 0
  BY <1>6, MRowNothing
<1>12. EndToBeginning
  BY <1>11 DEF EndToBeginning
<1>13. edits \in 0..MaxEdits
  BY <1>6, BoundsAssumption
<1> QED BY <1>4, <1>6, <1>8, <1>9, <1>10, <1>11, <1>12, <1>13 DEF IInv, EditorHasTheText

LEMMA InsertInductive ==
  ASSUME IInv, NEW i \in 0..Len(text), NEW n \in 1..MaxInsert,
         ApplyInsert(i, [k \in 1..n |-> 10 * (edits + 1) + k])
  PROVE  IInv'
<1>1. PICK s : s = [k \in 1..n |-> 10 * (edits + 1) + k]
  OBVIOUS
<1>2. /\ ~done /\ edits < MaxEdits /\ edits' = edits + 1 /\ opened' = (opened \/ Begins(i))
      /\ text' = SubSeq(text, 1, i) \o s \o SubSeq(text, i + 1, Len(text))
      /\ chunks' = WithInserted(chunks, i, s)
      /\ old' = old /\ diff' = diff /\ done' = done
  BY <1>1 DEF ApplyInsert, Edit, WithInserted
<1>3. text' = Cat(Cat(Take(text, i), s), Drop(text, i))
  BY <1>2 DEF Cat, Take, Drop
<1>4. edits \in Nat /\ edits' \in 0..MaxEdits /\ n \in 1..9
  BY <1>2, BoundsAssumption DEF IInv
<1>5. s \in Seq(Nat) /\ Len(s) = n /\ \A x \in 1..n : s[x] = 10 * (edits + 1) + x
  BY <1>1, <1>4
<1>6. PICK M \in Nat : M = Newest
  BY <1>4 DEF Newest
<1>7. 9 <= M /\ (\A x \in 1..n : s[x] = M + 1 + x) /\ Newest' = M + 10
  BY <1>2, <1>4, <1>5, <1>6 DEF Newest
<1>8. Small(old) /\ Built(old, text, chunks, M) /\ diff = <<>> /\ (~opened => Fresh(old, text, chunks, {}))
  BY <1>2, <1>6 DEF IInv, Editing
<1>9. Inserts(old, text, chunks, M, i, s, n, chunks', text')
  BY <1>2, <1>3, <1>4, <1>5, <1>7, <1>8 DEF Inserts, Texts
<1>10. Built(old, text', chunks', M + 10)
  BY <1>9, InsertBuilt
<1>11. ASSUME ~opened' PROVE Fresh(old, text', chunks', {})
  <2>1. ~opened /\ ~BeginsAt(text, i)
    BY <1>2, <1>11 DEF Begins, BeginsAt
  <2> QED BY <1>8, <1>9, <2>1, InsertFresh
<1>12. Editing'
  BY <1>2, <1>7, <1>8, <1>10, <1>11 DEF Editing
<1>13. Typed(chunks')
  BY <1>10, FormedTyped DEF Built
<1>14. diff' = <<>> /\ diff' \in MRows /\ EndToBeginning'
  BY <1>2, <1>8 DEF IInv, EndToBeginning
<1>15. EditorHasTheText'
  BY <1>2 DEF EditorHasTheText
<1>16. Small(old') /\ text' \in Texts /\ opened' \in BOOLEAN /\ done' \in BOOLEAN
  BY <1>2, <1>10 DEF IInv, Built
<1> QED BY <1>4, <1>12, <1>13, <1>14, <1>15, <1>16 DEF IInv

LEMMA DeleteInductive ==
  ASSUME IInv, NEW i \in 0..Len(text), NEW j \in i + 1..Len(text), ApplyDelete(i, j)
  PROVE  IInv'
<1>2. /\ ~done /\ edits < MaxEdits /\ edits' = edits + 1 /\ opened' = (opened \/ Begins(i))
      /\ text' = SubSeq(text, 1, i) \o SubSeq(text, j + 1, Len(text))
      /\ chunks' = WithDeleted(chunks, i, j)
      /\ old' = old /\ diff' = diff /\ done' = done
  BY DEF ApplyDelete, Edit, WithDeleted
<1>3. text' = Cat(Take(text, i), Drop(text, j))
  BY <1>2 DEF Cat, Take, Drop
<1>4. edits \in Nat /\ edits' \in 0..MaxEdits
  BY <1>2, BoundsAssumption DEF IInv
<1>5. text \in Texts
  BY DEF IInv
<1>6. PICK M \in Nat : M = Newest
  BY <1>4 DEF Newest
<1>7. Newest' = M + 10
  BY <1>2, <1>4, <1>6 DEF Newest
<1>8. Small(old) /\ Built(old, text, chunks, M) /\ diff = <<>> /\ (~opened => Fresh(old, text, chunks, {}))
  BY <1>2, <1>6 DEF IInv, Editing
<1>9. Deletes(old, text, chunks, M, i, j, chunks', text')
  <2>1. j \in 0..Len(text) /\ i < j
    BY <1>5, LenType
  <2> QED BY <1>2, <1>3, <1>8, <2>1 DEF Deletes
<1>10. Built(old, text', chunks', M + 10)
  <2>1. Built(old, text', chunks', M)
    BY <1>9, DeleteBuilt
  <2>2. text' \in Texts /\ Told(text', M)
    BY <2>1 DEF Built
  <2>3. Told(text', M + 10)
    BY <2>2, ToldMore
  <2> QED BY <2>1, <2>3 DEF Built
<1>11. ASSUME ~opened' PROVE Fresh(old, text', chunks', {})
  <2>1. ~opened /\ ~BeginsAt(text, i)
    BY <1>2, <1>11 DEF Begins, BeginsAt
  <2> QED BY <1>8, <1>9, <2>1, DeleteFresh
<1>12. Editing'
  BY <1>2, <1>7, <1>8, <1>10, <1>11 DEF Editing
<1>13. Typed(chunks')
  BY <1>10, FormedTyped DEF Built
<1>14. diff' = <<>> /\ diff' \in MRows /\ EndToBeginning'
  BY <1>2, <1>8 DEF IInv, EndToBeginning
<1>15. EditorHasTheText'
  BY <1>2 DEF EditorHasTheText
<1>16. Small(old') /\ text' \in Texts /\ opened' \in BOOLEAN /\ done' \in BOOLEAN
  BY <1>2, <1>10 DEF IInv, Built
<1> QED BY <1>4, <1>12, <1>13, <1>14, <1>15, <1>16 DEF IInv

LEMMA DiffInductive ==
  ASSUME IInv, GetSimpleDiff
  PROVE  IInv'
<1>1. /\ ~done /\ done' = TRUE /\ old' = old /\ text' = text /\ edits' = edits /\ opened' = opened
      /\ chunks' = MergeInserts(chunks) /\ diff' = MergeDeletes(MutationsOf(MergeInserts(chunks)))
  BY DEF GetSimpleDiff
<1>2. diff' = MergeDeletes(MutationsOf(chunks'))
  BY <1>1
<1>3. Small(old) /\ Built(old, text, chunks, Newest) /\ (~opened => Fresh(old, text, chunks, {}))
  BY <1>1 DEF IInv, Editing
<1>4. Formed(old, chunks) /\ text = Flat(old, chunks, Len(chunks))
  BY <1>3 DEF Built
<1>5. /\ Formed(old, chunks') /\ Separate(Len(old), diff')
      /\ Letters(PatchedBy(old, diff'), text)
      /\ Filled(chunks) => PatchedBy(old, diff') = text
  BY <1>1, <1>2, <1>3, <1>4, TheDiff
<1>6. ~opened => Filled(chunks)
  <2> SUFFICES ASSUME ~opened PROVE Filled(chunks)
    OBVIOUS
  <2>1. Fresh(old, text, chunks, {})
    BY <1>3
  <2> QED BY <2>1, MRowNothing DEF Fresh, FreshAt, Filled
<1>7. Edited' = PatchedBy(old, diff')
  BY <1>1 DEF Edited
<1>8. EditorHasTheText'
  BY <1>1, <1>5, <1>6, <1>7 DEF EditorHasTheText, Letters
<1>9. Typed(chunks')
  BY <1>5, FormedTyped
<1>10. EndToBeginning' /\ diff' \in MRows
  BY <1>5 DEF Separate, Apart, EndToBeginning
<1>11. Editing'
  BY <1>1 DEF Editing
<1>12. Small(old') /\ text' \in Texts /\ edits' \in 0..MaxEdits /\ done' \in BOOLEAN /\ opened' \in BOOLEAN
  BY <1>1 DEF IInv
<1> QED BY <1>8, <1>9, <1>10, <1>11, <1>12 DEF IInv

LEMMA NextInductive == IInv /\ [Next]_vars => IInv'
<1> SUFFICES ASSUME IInv, [Next]_vars PROVE IInv'
  OBVIOUS
<1>1. CASE UNCHANGED vars
  <2>1. /\ old' = old /\ text' = text /\ chunks' = chunks /\ edits' = edits /\ diff' = diff
        /\ done' = done /\ opened' = opened
    BY <1>1 DEF vars
  <2>2. Editing' = Editing
    BY <2>1 DEF Editing, Newest
  <2>3. EndToBeginning' = EndToBeginning
    BY <2>1 DEF EndToBeginning
  <2>4. EditorHasTheText' = EditorHasTheText
    BY <2>1 DEF EditorHasTheText, Edited
  <2> QED BY <2>1, <2>2, <2>3, <2>4 DEF IInv
<1>2. CASE \E i \in 0..Len(text) : \E n \in 1..MaxInsert :
             ApplyInsert(i, [k \in 1..n |-> 10 * (edits + 1) + k])
  BY <1>2, InsertInductive
<1>3. CASE \E i \in 0..Len(text) : \E j \in i + 1..Len(text) : ApplyDelete(i, j)
  BY <1>3, DeleteInductive
<1>4. CASE GetSimpleDiff
  BY <1>4, DiffInductive
<1> QED BY <1>1, <1>2, <1>3, <1>4 DEF Next

LEMMA Inductive == Spec => []IInv
BY InitInductive, NextInductive, PTL DEF Spec

(* The chunks and the diff have the types of the code, and the diff is in  *)
(* the order that simple_differ.js:4 and :178 promise: its operations do   *)
(* not overlap, they go from the end to the beginning, and no two          *)
(* deletions are side by side.                                             *)
THEOREM DiffCorrect == Spec => []DiffInv
<1>1. IInv => DiffInv
  BY IInvDiff
<1> QED BY <1>1, Inductive, PTL

(* What patchClientText makes of the editor has every character that       *)
(* patch_apply_ left, and no other; and it is the text that patch_apply_   *)
(* made, unless an edit began where inserted text begins.                  *)
THEOREM EditorCorrect == Spec => []EditorHasTheText
<1>1. IInv => EditorHasTheText
  BY DEF IInv
<1> QED BY <1>1, Inductive, PTL
=============================================================================

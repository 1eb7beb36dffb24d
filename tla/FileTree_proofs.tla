--------------------------- MODULE FileTree_proofs ---------------------------
(***************************************************************************)
(* Theorems about FileTree for every number of sessions, names and inputs  *)
(* and every depth.                                                        *)
(***************************************************************************)
EXTENDS FileTree, SequenceTheorems, FiniteSetTheorems, TLAPS

(* What makes IdsDiffer inductive: while no two lists were given ids at the *)
(* same time, at most one is in the middle of Id.next, it has read the      *)
(* counter as it is, and what it writes is above every id given so far.     *)
Midway(l) == step[l] \in {"read", "written"}

IdTypes ==
  /\ next \in Int /\ overlapped \in BOOLEAN
  /\ step \in [Lists -> {"none", "read", "written", "made", "open"}]
  /\ seen \in [Lists -> Int] /\ formId \in [Lists -> Int]

CounterInv ==
  /\ \A l, m \in Lists : Midway(l) /\ Midway(m) => l = m
  /\ \A l \in Lists : step[l] = "read" => seen[l] = next
  /\ \A l \in Lists : step[l] = "written" => \A m \in Lists : formId[m] < next
  /\ \A l \in Lists : formId[l] <= next /\ next >= -1
  /\ \A l, m \in Lists : l # m /\ formId[l] = formId[m] => formId[l] = -1

IdInv == IdTypes /\ (overlapped \/ CounterInv)

LEMMA InitIds == Init => IdInv
<1> SUFFICES ASSUME Init PROVE IdInv
  OBVIOUS
<1>1. /\ next = -1 /\ overlapped = FALSE
      /\ step = [l \in Lists |-> "none"]
      /\ seen = [l \in Lists |-> -1] /\ formId = [l \in Lists |-> -1]
  BY DEF Init
<1>2. -1 \in Int
  OBVIOUS
<1>3. IdTypes
  <2>1. seen \in [Lists -> Int] /\ formId \in [Lists -> Int]
    BY <1>1, <1>2
  <2>2. step \in [Lists -> {"none", "read", "written", "made", "open"}]
    BY <1>1
  <2> QED BY <1>1, <1>2, <2>1, <2>2 DEF IdTypes
<1>4. \A l \in Lists : step[l] = "none" /\ formId[l] = -1
  BY <1>1
<1>5. CounterInv
  BY <1>1, <1>4 DEF CounterInv, Midway
<1> QED BY <1>3, <1>5 DEF IdInv

(* Most steps have nothing to do with ids. *)
LEMMA KeepIds == IdInv /\ UNCHANGED <<next, step, seen, overlapped, formId>> => IdInv'
BY DEF IdInv, IdTypes, CounterInv, Midway

LEMMA ReadNextKeepsIds == ASSUME NEW l \in Lists, IdInv, ReadNext(l) PROVE IdInv'
<1>1. /\ step[l] = "none" /\ step' = [step EXCEPT ![l] = "read"]
      /\ seen' = [seen EXCEPT ![l] = next]
      /\ next' = next /\ formId' = formId
  BY DEF ReadNext, Advance, fileLists
<1>2. IdTypes'
  <2>1. overlapped' \in BOOLEAN
    BY DEF ReadNext
  <2> QED BY <1>1, <2>1 DEF IdInv, IdTypes
<1>3. ASSUME ~overlapped' PROVE CounterInv'
  <2>1. ~overlapped /\ \A m \in Lists : ~Midway(m)
    BY <1>3 DEF ReadNext, Midway
  <2>2. CounterInv
    BY <2>1 DEF IdInv
  <2> QED BY <1>1, <2>1, <2>2 DEF IdInv, IdTypes, CounterInv, Midway
<1> QED BY <1>2, <1>3 DEF IdInv

LEMMA WriteNextKeepsIds == ASSUME NEW l \in Lists, IdInv, WriteNext(l) PROVE IdInv'
<1>1. /\ step[l] = "read" /\ step' = [step EXCEPT ![l] = "written"]
      /\ next' = seen[l] + 1
      /\ seen' = seen /\ formId' = formId /\ overlapped' = overlapped
  BY DEF WriteNext, Advance, fileLists
<1>2. IdTypes'
  BY <1>1 DEF IdInv, IdTypes
<1>3. ASSUME ~overlapped PROVE CounterInv'
  <2>1. CounterInv
    BY <1>3 DEF IdInv
  <2>2. seen[l] = next /\ next \in Int /\ next' = next + 1
    BY <1>1, <2>1 DEF CounterInv, IdInv, IdTypes
  <2>3. \A m \in Lists : formId[m] \in Int /\ formId[m] <= next /\ next >= -1
    BY <2>1 DEF CounterInv, IdInv, IdTypes
  <2>4. \A m \in Lists : Midway(m)' => m = l
    BY <1>1, <2>1 DEF CounterInv, IdInv, IdTypes, Midway
  <2> QED BY <1>1, <2>1, <2>2, <2>3, <2>4 DEF CounterInv, IdInv, IdTypes, Midway
<1> QED BY <1>1, <1>2, <1>3 DEF IdInv

LEMMA TakeIdKeepsIds == ASSUME NEW l \in Lists, IdInv, TakeId(l) PROVE IdInv'
<1>1. /\ step[l] = "written" /\ step' = [step EXCEPT ![l] = "made"]
      /\ formId' = [formId EXCEPT ![l] = next]
      /\ next' = next /\ seen' = seen /\ overlapped' = overlapped
  BY DEF TakeId, Advance
<1>2. IdTypes'
  BY <1>1 DEF IdInv, IdTypes
<1>3. ASSUME ~overlapped PROVE CounterInv'
  <2>1. CounterInv
    BY <1>3 DEF IdInv
  <2>2. \A m \in Lists : formId[m] \in Int /\ formId[m] < next
    BY <1>1, <2>1 DEF CounterInv, IdInv, IdTypes
  <2>3. \A m \in Lists : ~Midway(m)'
    BY <1>1, <2>1 DEF CounterInv, IdInv, IdTypes, Midway
  <2> QED BY <1>1, <2>1, <2>2, <2>3 DEF CounterInv, IdInv, IdTypes, Midway
<1> QED BY <1>1, <1>2, <1>3 DEF IdInv

LEMMA SetUpKeepsIds == ASSUME NEW l \in Lists, IdInv, SetUp(l) PROVE IdInv'
<1>1. /\ step[l] = "made" /\ step' = [step EXCEPT ![l] = "open"]
      /\ UNCHANGED <<next, seen, overlapped, formId>>
  BY DEF SetUp, Advance
<1> QED BY <1>1 DEF IdInv, IdTypes, CounterInv, Midway

LEMMA NextKeepsIds == IdInv /\ [Next]_vars => IdInv'
<1> SUFFICES ASSUME IdInv, [Next]_vars PROVE IdInv'
  OBVIOUS
<1> DEFINE Same == UNCHANGED <<next, step, seen, overlapped, formId>>
<1>1. ASSUME NEW l \in Lists, ReadNext(l) \/ WriteNext(l) \/ TakeId(l) \/ SetUp(l)
      PROVE IdInv'
  BY <1>1, ReadNextKeepsIds, WriteNextKeepsIds, TakeIdKeepsIds, SetUpKeepsIds
<1>2. ASSUME NEW l \in Lists, ClickFolder(l) \/ ClickBack(l) PROVE Same
  BY <1>2 DEF ClickFolder, ClickBack, GoTo, ids, fileLists
<1>3. ASSUME NEW l \in Lists, SubmitNew(l) \/ ClickDelete(l) PROVE Same
  BY <1>3 DEF SubmitNew, ClickDelete, Ask, ids, fileLists
<1>4. ASSUME NEW l \in Lists, OpenEditor(l) \/ Save(l) \/ Reload(l) PROVE Same
  BY <1>4 DEF OpenEditor, Save, Reload, ids, fileLists
<1>5. ASSUME NEW l \in Lists, React(l) PROVE Same
  BY <1>5 DEF React, ids
<1>6. ASSUME HandleNewFile \/ HandleNewDir \/ HandleDelete \/ DeleteChild PROVE Same
  BY <1>6 DEF HandleNewFile, HandleNewDir, HandleDelete, DeleteChild, ids, fileLists
<1>7. ASSUME DeleteInner \/ FinishDelete PROVE Same
  BY <1>7 DEF DeleteInner, FinishDelete, ids, fileLists
<1>8. ASSUME HandleChdir \/ FinishChdir \/ HandleAdd PROVE Same
  BY <1>8 DEF HandleChdir, FinishChdir, HandleAdd, ids, fileLists
<1>9. ASSUME UNCHANGED vars PROVE Same
  BY <1>9 DEF vars, ids, fileLists
<1> QED
  BY <1>1, <1>2, <1>3, <1>4, <1>5, <1>6, <1>7, <1>8, <1>9, KeepIds DEF Next

(* Two lists never share an id unless they were given them at the same time: *)
(* the counter of object Id (FileList.scala:7) is not synchronised, and an   *)
(* overlap of two requests is all it takes, and the only thing.              *)
THEOREM OnlyOverlapsShareIds == Spec => []IdsDiffer
<1>1. IdInv => IdsDiffer
  BY DEF IdInv, CounterInv, IdsDiffer
<1> QED BY InitIds, NextKeepsIds, <1>1, PTL DEF Spec

-----------------------------------------------------------------------------
(* The inductive invariant of the other properties. *)

Counted == {l \in Lists : step[l] \in {"written", "made", "open"}}

(* Ids stay below the number of lists: a counter read late only falls behind. *)
IdsAreCounted ==
  /\ next + 1 <= Cardinality(Counted)
  /\ \A l \in Lists : step[l] = "read" => seen[l] + 1 <= Cardinality(Counted)
  /\ \A l \in Lists : step[l] \in {"written", "made", "open"} => next \in Ids
  /\ \A l \in Lists : formId[l] \in Ids <=> step[l] \in {"made", "open"}

(* Files and folders have a place in the tree, and its root is neither made *)
(* nor deleted.                                                             *)
PlacesInv ==
  /\ Root \in dirs /\ Root \notin files \cup editing
  /\ \A k \in 1..Len(mailbox) :
       mailbox[k].op \in {"newfile", "newdir", "delete"} => mailbox[k].path # Root
  /\ \A k \in 1..Len(frames) :
       /\ frames[k].path # Root
       /\ \A n \in frames[k].left : Append(frames[k].path, n) \in Paths
  /\ \A l \in Lists : /\ Open(l) <=> dirName[l] # None
                      /\ \A n \in view[l].folders \cup view[l].files :
                           Open(l) /\ Append(dirName[l], n) \in Paths

TreeTypes == TypeOK /\ IdsAreCounted /\ PlacesInv

Adds(l, m) == m.op = "add" /\ m.list = l
Moves(i, m) == m.op = "chdir" /\ m.form = i
Listed(l, q) == \E k \in 1..Len(q) : Adds(l, q[k])
Sent(i, q) == \E k \in 1..Len(q) : Moves(i, q[k])
BeingMoved(i) == writing # None /\ writing.form = i

(* A list that is open is a listener or will be; one that is not has nothing. *)
ListenersInv ==
  \A l \in Lists :
    /\ Open(l) <=> l \in listeners \/ Listed(l, mailbox)
    /\ ~Open(l) => inbox[l] = <<>> /\ currentDir[l] = Root

(* An update is on its way, or is going to be sent. *)
Told(l) == inbox[l] # <<>> \/ l \notin listeners \/ writing # None

FollowInv ==
  \A l \in Lists : Open(l) =>
    /\ Told(l) \/ dirMap[formId[l]] \in {None, dirName[l]}
    /\ dirMap[formId[l]] = None => dirName[l] = Root \/ BeingMoved(formId[l])

FreshInv ==
  \A l \in Lists : Open(l) /\ l \notin unannounced =>
    \/ view[l] = Listing(dirName[l])
    \/ \E k \in 1..Len(inbox[l]) : inbox[l][k] = dirName[l]

StrandedInv ==
  \A i \in Ids :
    dirMap[i] \in dirs \cup {None} \/ i \in adrift \/ BeingMoved(i) \/ Sent(i, mailbox)

(* Where form i will be once the moves on their way are done: the last one counts. *)
Ends(i, q, d) ==
  \E k \in 1..Len(q) : /\ Moves(i, q[k]) /\ q[k].path = d
                       /\ \A j \in k+1..Len(q) : ~Moves(i, q[j])
Now(i, d) == IF BeingMoved(i) THEN writing.path = d ELSE dirMap[i] = d
Goes(i, d) == Ends(i, mailbox, d) \/ (~Sent(i, mailbox) /\ Now(i, d))

ShownInv ==
  /\ \A i \in Ids : Goes(i, None) \/ \E l \in Lists : formId[l] = i
  /\ \A l \in Lists \ moved : formId[l] \in Ids =>
       Goes(formId[l], currentDir[l]) \/ (Goes(formId[l], None) /\ currentDir[l] = Root)

FoldersInv ==
  TreeTypes /\ ListenersInv /\ FollowInv /\ FreshInv /\ StrandedInv /\ ShownInv

-----------------------------------------------------------------------------
(* Paths, requests and ids. *)

LEMMA PathFacts ==
  /\ Root \in Paths
  /\ \A p \in Paths : p \in Seq(Names) /\ Len(p) \in 0..MaxDepth
  /\ \A p \in Seq(Names) : Len(p) <= MaxDepth => p \in Paths
<1>3. \A p \in Paths : p \in Seq(Names) /\ Len(p) \in 0..MaxDepth
  <2> SUFFICES ASSUME NEW n \in 0..MaxDepth, NEW p \in [1..n -> Names]
               PROVE  p \in Seq(Names) /\ Len(p) \in 0..MaxDepth
    BY DEF Paths
  <2>1. p \in Seq(Names)
    OBVIOUS
  <2>2. Len(p) = n
    BY <2>1, LenProperties
  <2> QED BY <2>1, <2>2
<1>4. ASSUME NEW p \in Seq(Names), Len(p) <= MaxDepth PROVE p \in Paths
  <2>1. p \in [1..Len(p) -> Names] /\ Len(p) \in 0..MaxDepth
    BY <1>4, LenProperties, BoundsAssumption
  <2> QED BY <2>1 DEF Paths
<1>5. Root \in Seq(Names) /\ Len(Root) <= MaxDepth
  BY BoundsAssumption DEF Root
<1> QED BY <1>3, <1>4, <1>5

LEMMA ParentFacts ==
  /\ \A p \in Paths : p # Root => Parent(p) \in Paths
  /\ \A p \in Paths, n \in Names :
       /\ Append(p, n) # Root /\ Parent(Append(p, n)) = p
       /\ Len(p) < MaxDepth => Append(p, n) \in Paths
<1>1. ASSUME NEW p \in Paths, p # Root PROVE Parent(p) \in Paths
  <2>1. p \in Seq(Names) /\ Len(p) \in 0..MaxDepth /\ Len(p) # 0
    BY <1>1, PathFacts, EmptySeq DEF Root
  <2>2. PICK n \in Nat : n = Len(p) - 1 /\ n <= MaxDepth
    <3>1. Len(p) - 1 \in Nat /\ Len(p) - 1 <= MaxDepth
      BY <2>1, BoundsAssumption
    <3> QED BY <3>1
  <2>3. \A i \in 1..n : p[i] \in Names
    BY <2>1, <2>2, ElementOfSeq, BoundsAssumption
  <2>4. SubSeq(p, 1, n) \in Seq(Names) /\ Len(SubSeq(p, 1, n)) = n
    BY <2>3, SubSeqProperties
  <2>5. SubSeq(p, 1, n) \in Paths
    BY <2>2, <2>4, PathFacts
  <2> QED BY <2>2, <2>5 DEF Parent
<1>2. ASSUME NEW p \in Paths, NEW n \in Names
      PROVE  /\ Append(p, n) # Root /\ Parent(Append(p, n)) = p
             /\ Len(p) < MaxDepth => Append(p, n) \in Paths
  <2>1. p \in Seq(Names) /\ Len(p) \in Nat
    BY PathFacts, LenProperties
  <2>2. /\ Append(p, n) \in Seq(Names) /\ Len(Append(p, n)) = Len(p) + 1
        /\ \A i \in 1..Len(p) : Append(p, n)[i] = p[i]
    BY <2>1, AppendProperties
  <2>3. Append(p, n) # Root
    BY <2>1, <2>2, EmptySeq DEF Root
  <2>4. Parent(Append(p, n)) = p
    <3>1. Parent(Append(p, n)) = SubSeq(Append(p, n), 1, Len(p))
      BY <2>1, <2>2 DEF Parent
    <3> DEFINE s == SubSeq(Append(p, n), 1, Len(p))
    <3>2. \A i \in 1..Len(p) : Append(p, n)[i] \in Names
      BY <2>1, <2>2, ElementOfSeq
    <3>3. s \in Seq(Names) /\ Len(s) = Len(p) /\ \A i \in 1..Len(p) : s[i] = p[i]
      BY <2>1, <2>2, <3>2, SubSeqProperties
    <3> HIDE DEF s
    <3>4. s = p
      BY <2>1, <3>3, SeqEqual
    <3> QED BY <3>1, <3>4 DEF s
  <2>5. Len(p) < MaxDepth => Append(p, n) \in Paths
    <3>1. PICK q \in Seq(Names) : q = Append(p, n)
      BY <2>2
    <3>2. Len(p) < MaxDepth => Len(q) <= MaxDepth
      BY <2>1, <2>2, <3>1, BoundsAssumption
    <3> QED BY <3>1, <3>2, PathFacts
  <2> QED BY <2>3, <2>4, <2>5
<1> QED BY <1>1, <1>2

LEMMA RequestKinds ==
  \A m \in Requests :
    /\ m.op \in {"newfile", "newdir", "delete"} => m.path \in Paths
    /\ m.op = "chdir" => m \in Chdirs /\ m.form \in Ids /\ m.path \in Paths
    /\ m.op = "add" => m.list \in Lists
BY DEF Requests, Chdirs

LEMMA ChdirFacts ==
  /\ None \notin Chdirs
  /\ \A m \in Chdirs : m \in Requests /\ m.form \in Ids /\ m.path \in Paths /\ m.path # None
BY NoneAssumption DEF Requests, Chdirs

LEMMA FrameTypes ==
  ASSUME NEW p \in Paths, p # Root, dirs \subseteq Paths, files \subseteq Paths
  PROVE  /\ Frame(p) \in Frames /\ Frame(p).path = p
         /\ \A n \in Frame(p).left : Append(p, n) \in Paths
BY DEF Frame, Frames, ChildrenIn

LEMMA ListingTypes ==
  ASSUME NEW d \in Paths, dirs \subseteq Paths, files \subseteq Paths
  PROVE  /\ Listing(d) \in Views
         /\ \A n \in Listing(d).folders \cup Listing(d).files : Append(d, n) \in Paths
BY DEF Listing, Views, Gone, ChildrenIn

LEMMA HeadTail ==
  ASSUME NEW A, NEW q \in Seq(A), q # <<>>
  PROVE  /\ Head(q) \in A /\ Tail(q) \in Seq(A) /\ Len(q) \in Nat \ {0}
         /\ Head(q) = q[1] /\ Len(Tail(q)) = Len(q) - 1
         /\ \A k \in 1..Len(Tail(q)) : k + 1 \in 1..Len(q) /\ Tail(q)[k] = q[k+1]
BY HeadTailProperties, LenProperties, EmptySeq

IsCat(A, r, p, q) ==
  /\ r \in Seq(A) /\ Len(p) \in Nat /\ Len(q) \in Nat /\ Len(r) = Len(p) + Len(q)
  /\ \A k \in 1..Len(p) : r[k] = p[k]
  /\ \A k \in 1..Len(q) : r[Len(p) + k] = q[k]

LEMMA Cat == \A A, r : \A p, q \in Seq(A) : r = p \o q => IsCat(A, r, p, q)
<1> SUFFICES ASSUME NEW A, NEW r, NEW p \in Seq(A), NEW q \in Seq(A), r = p \o q
             PROVE  IsCat(A, r, p, q)
  OBVIOUS
<1>1. Len(p) \in Nat /\ Len(q) \in Nat
  BY LenProperties
<1>2. /\ r \in Seq(A) /\ Len(r) = Len(p) + Len(q)
      /\ \A k \in 1..Len(r) : r[k] = IF k <= Len(p) THEN p[k] ELSE q[k - Len(p)]
  BY ConcatProperties
<1>3. \A k \in 1..Len(q) : Len(p) + k \in 1..Len(r) /\ ~(Len(p) + k <= Len(p))
                          /\ (Len(p) + k) - Len(p) = k
  BY <1>1, <1>2
<1> QED BY <1>1, <1>2, <1>3 DEF IsCat

LEMMA InitTree == Init => TreeTypes
<1> SUFFICES ASSUME Init PROVE TreeTypes
  OBVIOUS
<1>0. <<>> \in Seq(Requests) /\ <<>> \in Seq(Frames) /\ <<>> \in Seq(Paths \cup {None})
      /\ Len(<<>>) = 0
  OBVIOUS
<1>1. Gone \in Views /\ Gone.folders = {} /\ Gone.files = {}
  BY DEF Gone, Views
<1>2. TypeOK
  <2>1. 0 \in 0..MaxInputs /\ Root \in Paths
    BY BoundsAssumption, PathFacts
  <2>2. /\ dirMap \in [Ids -> Paths \cup {None}] /\ seen \in [Lists -> Ids \cup {-1}]
        /\ formId \in [Lists -> Ids \cup {-1}] /\ dirName \in [Lists -> Paths \cup {None}]
        /\ view \in [Lists -> Views] /\ inbox \in [Lists -> Seq(Paths \cup {None})]
        /\ currentDir \in [Lists -> Paths]
    BY <1>0, <1>1, <2>1 DEF Init
  <2>3. FirstDirs \subseteq Paths /\ FirstFiles \subseteq Paths
    BY DirsAssumption
  <2> QED BY <1>0, <2>1, <2>2, <2>3 DEF Init, TypeOK
<1>3. Counted = {} /\ Cardinality({}) = 0 /\ -1 \notin Ids
  BY FS_EmptySet DEF Init, Counted, Ids
<1>4. IdsAreCounted
  BY <1>3 DEF Init, IdsAreCounted
<1>5. PlacesInv
  BY <1>0, <1>1, DirsAssumption DEF Init, PlacesInv, Open
<1> QED BY <1>2, <1>4, <1>5 DEF TreeTypes

-----------------------------------------------------------------------------
(* Types. *)

LEMMA KeepCount ==
  ASSUME IdsAreCounted, UNCHANGED <<next, step, seen, formId>>
  PROVE  IdsAreCounted'
BY DEF IdsAreCounted, Counted

(* One more list has an id. *)
LEMMA CountOne ==
  ASSUME TypeOK, NEW l \in Lists, step[l] \in {"none", "read"}, step' = [step EXCEPT ![l] = "written"]
  PROVE  /\ Counted' = Counted \cup {l} /\ Cardinality(Counted) \in Nat
         /\ Cardinality(Counted') = Cardinality(Counted) + 1
         /\ Cardinality(Counted') <= Cardinality(Lists) /\ Cardinality(Lists) \in Nat
<1>1. Counted' = Counted \cup {l} /\ l \notin Counted
  BY DEF Counted, TypeOK
<1>2. IsFiniteSet(Counted) /\ IsFiniteSet(Lists)
  BY BoundsAssumption, FS_Subset DEF Counted
<1>3. Cardinality(Counted') = Cardinality(Counted) + 1 /\ Cardinality(Counted) \in Nat
  BY <1>1, <1>2, FS_AddElement, FS_CardinalityType
<1>4. Counted' \subseteq Lists
  BY <1>1 DEF Counted
<1> QED BY <1>1, <1>2, <1>3, <1>4, FS_Subset, FS_CardinalityType

LEMMA ReadNextTypes == ASSUME TreeTypes, NEW l \in Lists, ReadNext(l) PROVE TreeTypes'
<1>1. /\ step[l] = "none" /\ step' = [step EXCEPT ![l] = "read"]
      /\ seen' = [seen EXCEPT ![l] = next] /\ next' = next
      /\ UNCHANGED <<disk, fileManager, fileLists, pages, history>>
  BY DEF ReadNext, Advance
<1>2. overlapped' \in BOOLEAN
  BY DEF ReadNext
<1>3. TypeOK'
  BY <1>1, <1>2 DEF TreeTypes, TypeOK, disk, fileManager, fileLists, pages, history
<1>4. IdsAreCounted'
  <2>1. Counted' = Counted
    BY <1>1 DEF TreeTypes, TypeOK, Counted
  <2> QED BY <1>1, <2>1 DEF TreeTypes, TypeOK, IdsAreCounted, fileLists
<1>5. PlacesInv'
  <2>1. \A m \in Lists : Open(m)' <=> Open(m)
    BY <1>1 DEF TreeTypes, TypeOK, Open
  <2> QED BY <1>1, <2>1 DEF TreeTypes, PlacesInv, disk, fileManager, fileLists, pages
<1> QED BY <1>3, <1>4, <1>5 DEF TreeTypes

LEMMA WriteNextTypes == ASSUME TreeTypes, NEW l \in Lists, WriteNext(l) PROVE TreeTypes'
<1>1. /\ step[l] = "read" /\ step' = [step EXCEPT ![l] = "written"]
      /\ seen' = seen /\ next' = seen[l] + 1 /\ overlapped' = overlapped
      /\ UNCHANGED <<disk, fileManager, fileLists, pages, history>>
  BY DEF WriteNext, Advance
<1>2. /\ Cardinality(Counted) \in Nat /\ Cardinality(Counted') = Cardinality(Counted) + 1
      /\ Cardinality(Counted') <= Cardinality(Lists) /\ Cardinality(Lists) \in Nat
  BY <1>1, CountOne DEF TreeTypes
<1>3. /\ seen[l] + 1 <= Cardinality(Counted) /\ seen[l] \in Ids \cup {-1}
      /\ \A m \in Lists : step[m] = "read" => seen[m] + 1 <= Cardinality(Counted)
  BY <1>1 DEF TreeTypes, TypeOK, IdsAreCounted
<1>4. next' \in Ids /\ next' + 1 <= Cardinality(Counted')
  BY <1>1, <1>2, <1>3 DEF Ids
<1>5. TypeOK'
  BY <1>1, <1>4 DEF TreeTypes, TypeOK, disk, fileManager, fileLists, pages, history
<1>6. IdsAreCounted'
  <2>1. \A m \in Lists : seen[m] \in Int
    BY DEF TreeTypes, TypeOK, Ids
  <2>2. \A m \in Lists : step'[m] = "read" => seen'[m] + 1 <= Cardinality(Counted')
    BY <1>1, <1>2, <1>3, <2>1 DEF TreeTypes, TypeOK
  <2>3. \A m \in Lists : formId'[m] \in Ids <=> step'[m] \in {"made", "open"}
    BY <1>1 DEF TreeTypes, TypeOK, IdsAreCounted, fileLists
  <2> QED BY <1>4, <2>2, <2>3 DEF IdsAreCounted
<1>7. PlacesInv'
  <2>1. \A m \in Lists : Open(m)' <=> Open(m)
    BY <1>1 DEF TreeTypes, TypeOK, Open
  <2> QED BY <1>1, <2>1 DEF TreeTypes, PlacesInv, disk, fileManager, fileLists, pages
<1> QED BY <1>5, <1>6, <1>7 DEF TreeTypes

LEMMA TakeIdTypes == ASSUME TreeTypes, NEW l \in Lists, TakeId(l) PROVE TreeTypes'
<1>1. /\ step[l] = "written" /\ step' = [step EXCEPT ![l] = "made"]
      /\ formId' = [formId EXCEPT ![l] = next]
      /\ UNCHANGED <<next, seen, overlapped, disk, fileManager, dirName, view, inbox,
                     pages, unannounced, adrift>>
      /\ moved' \subseteq moved \cup {l}
  BY DEF TakeId, Advance
<1>2. next \in Ids /\ -1 \notin Ids
  BY <1>1 DEF TreeTypes, IdsAreCounted, Ids
<1>3. TypeOK'
  BY <1>1, <1>2 DEF TreeTypes, TypeOK, disk, fileManager, pages
<1>4. IdsAreCounted'
  <2>1. Counted' = Counted
    BY <1>1 DEF TreeTypes, TypeOK, Counted
  <2> QED BY <1>1, <1>2, <2>1 DEF TreeTypes, TypeOK, IdsAreCounted
<1>5. PlacesInv'
  <2>1. \A m \in Lists : Open(m)' <=> Open(m)
    BY <1>1 DEF TreeTypes, TypeOK, Open
  <2> QED BY <1>1, <2>1 DEF TreeTypes, PlacesInv, disk, fileManager, pages
<1> QED BY <1>3, <1>4, <1>5 DEF TreeTypes

(* What a list shows when it has rendered folder d. *)
LEMMA RenderTypes ==
  ASSUME TreeTypes, NEW l \in Lists, NEW d \in Paths \cup {None}, Render(l, d),
         UNCHANGED <<dirs, files>>
  PROVE  /\ dirName' \in [Lists -> Paths \cup {None}] /\ view' \in [Lists -> Views]
         /\ unannounced' \subseteq Lists
         /\ dirName'[l] \in Paths
         /\ \A n \in view'[l].folders \cup view'[l].files : Append(dirName'[l], n) \in Paths
         /\ \A m \in Lists \ {l} : dirName'[m] = dirName[m] /\ view'[m] = view[m]
<1> DEFINE f == IF d = None THEN Root ELSE d
<1>1. f \in Paths /\ dirs \subseteq Paths /\ files \subseteq Paths
  BY PathFacts DEF TreeTypes, TypeOK
<1>2. dirName' = [dirName EXCEPT ![l] = f] /\ view' = [view EXCEPT ![l] = Listing(f)]
      /\ unannounced' = unannounced \ {l}
  BY DEF Render
<1>3. Listing(f) \in Views /\ \A n \in Listing(f).folders \cup Listing(f).files : Append(f, n) \in Paths
  BY <1>1, ListingTypes
<1> HIDE DEF f
<1> QED BY <1>1, <1>2, <1>3 DEF TreeTypes, TypeOK

LEMMA SetUpTypes == ASSUME TreeTypes, NEW l \in Lists, SetUp(l) PROVE TreeTypes'
<1>1. /\ step[l] = "made" /\ step' = [step EXCEPT ![l] = "open"]
      /\ mailbox' = Append(mailbox, [op |-> "add", list |-> l])
      /\ Render(l, dirName[l])
      /\ UNCHANGED <<next, seen, overlapped, disk, listeners, dirMap, changed, frames, writing,
                     formId, inbox, pages, adrift, moved>>
  BY DEF SetUp, Advance
<1>2. dirName[l] \in Paths \cup {None}
  BY DEF TreeTypes, TypeOK
<1>3. /\ dirName' \in [Lists -> Paths \cup {None}] /\ view' \in [Lists -> Views]
      /\ unannounced' \subseteq Lists
      /\ dirName'[l] \in Paths
      /\ \A n \in view'[l].folders \cup view'[l].files : Append(dirName'[l], n) \in Paths
      /\ \A m \in Lists \ {l} : dirName'[m] = dirName[m] /\ view'[m] = view[m]
  BY <1>1, <1>2, RenderTypes DEF disk
<1> DEFINE a == [op |-> "add", list |-> l]
<1>4. a \in Requests /\ a.op = "add"
  BY DEF Requests
<1> HIDE DEF a
<1>5. /\ mailbox \in Seq(Requests) /\ mailbox' \in Seq(Requests)
      /\ Len(mailbox') = Len(mailbox) + 1 /\ Len(mailbox) \in Nat
      /\ mailbox'[Len(mailbox) + 1] = a
      /\ \A k \in 1..Len(mailbox) : mailbox'[k] = mailbox[k]
  BY <1>1, <1>4, AppendProperties, LenProperties DEF a, TreeTypes, TypeOK
<1>6. TypeOK'
  BY <1>1, <1>3, <1>5 DEF TreeTypes, TypeOK, disk, pages
<1>7. IdsAreCounted'
  <2>1. Counted' = Counted
    BY <1>1 DEF TreeTypes, TypeOK, Counted
  <2> QED BY <1>1, <2>1 DEF TreeTypes, TypeOK, IdsAreCounted
<1>8. PlacesInv'
  <2>1. \A m \in Lists \ {l} : Open(m)' <=> Open(m)
    BY <1>1 DEF TreeTypes, TypeOK, Open
  <2>2. Open(l)' /\ dirName'[l] # None
    BY <1>1, <1>3, NoneAssumption DEF TreeTypes, TypeOK, Open
  <2>3. \A k \in 1..Len(mailbox') :
          mailbox'[k].op \in {"newfile", "newdir", "delete"} => mailbox'[k].path # Root
    BY <1>4, <1>5 DEF TreeTypes, PlacesInv
  <2>4. \A m \in Lists : /\ Open(m)' <=> dirName'[m] # None
                         /\ \A n \in view'[m].folders \cup view'[m].files :
                              Open(m)' /\ Append(dirName'[m], n) \in Paths
    BY <1>3, <2>1, <2>2 DEF TreeTypes, PlacesInv
  <2> QED BY <1>1, <2>3, <2>4 DEF TreeTypes, PlacesInv, disk, pages
<1> QED BY <1>6, <1>7, <1>8 DEF TreeTypes

(* The mailbox: what is added and what is taken. *)
BelowRoot(q) ==
  \A k \in 1..Len(q) : q[k].op \in {"newfile", "newdir", "delete"} => q[k].path # Root

LEMMA SendTypes ==
  ASSUME TreeTypes, NEW m \in Requests, Send(m),
         m.op \in {"newfile", "newdir", "delete"} => m.path # Root
  PROVE  mailbox' \in Seq(Requests) /\ BelowRoot(mailbox')
<1>1. /\ mailbox \in Seq(Requests) /\ mailbox' \in Seq(Requests)
      /\ Len(mailbox') = Len(mailbox) + 1 /\ Len(mailbox) \in Nat
      /\ mailbox'[Len(mailbox) + 1] = m
      /\ \A k \in 1..Len(mailbox) : mailbox'[k] = mailbox[k]
  BY AppendProperties, LenProperties DEF Send, TreeTypes, TypeOK
<1> QED BY <1>1 DEF TreeTypes, PlacesInv, BelowRoot

LEMMA ReceiveTypes ==
  ASSUME TreeTypes, NEW o, Receive(o), mailbox' = Tail(mailbox)
  PROVE  /\ mailbox' \in Seq(Requests) /\ BelowRoot(mailbox')
         /\ Head(mailbox) \in Requests /\ Head(mailbox).op = o
         /\ o \in {"newfile", "newdir", "delete"} => Head(mailbox).path # Root
<1>1. /\ Head(mailbox) \in Requests /\ mailbox' \in Seq(Requests) /\ Head(mailbox) = mailbox[1]
      /\ Len(mailbox) \in Nat \ {0}
      /\ \A k \in 1..Len(mailbox') : k + 1 \in 1..Len(mailbox) /\ mailbox'[k] = mailbox[k+1]
  BY HeadTail DEF Receive, TreeTypes, TypeOK
<1>2. 1 \in 1..Len(mailbox)
  BY <1>1
<1> QED BY <1>1, <1>2 DEF Receive, TreeTypes, PlacesInv, BelowRoot

LEMMA SameLists ==
  ASSUME PlacesInv, UNCHANGED <<step, dirName, view>>
  PROVE  \A l \in Lists : /\ Open(l)' <=> dirName'[l] # None
                          /\ \A n \in view'[l].folders \cup view'[l].files :
                               Open(l)' /\ Append(dirName'[l], n) \in Paths
BY DEF PlacesInv, Open

LEMMA GoToTypes ==
  ASSUME TreeTypes, NEW l \in Lists, NEW p \in Paths, GoTo(l, p)
  PROVE  TreeTypes'
<1> DEFINE m == [op |-> "chdir", form |-> formId[l], path |-> p]
<1>1. /\ Input(l) /\ Send(m)
      /\ currentDir' = [currentDir EXCEPT ![l] = p]
      /\ moved' = (moved \ {l}) \cup SharersOf(l)
      /\ UNCHANGED <<disk, listeners, dirMap, changed, frames, writing, fileLists, ids,
                     editing, unannounced, adrift>>
  BY DEF GoTo
<1>2. formId[l] \in Ids
  BY <1>1 DEF TreeTypes, IdsAreCounted, Input, Open
<1>3. m \in Requests /\ m.op = "chdir"
  BY <1>2 DEF Requests, Chdirs
<1> HIDE DEF m
<1>4. mailbox' \in Seq(Requests) /\ BelowRoot(mailbox')
  BY <1>1, <1>3, SendTypes
<1>5. inputs' \in 0..MaxInputs
  BY <1>1, BoundsAssumption DEF Input, TreeTypes, TypeOK
<1>6. TypeOK'
  BY <1>1, <1>4, <1>5 DEF TreeTypes, TypeOK, disk, fileLists, ids, SharersOf
<1>7. IdsAreCounted'
  BY <1>1, KeepCount DEF TreeTypes, ids, fileLists
<1>8. PlacesInv'
  BY <1>1, <1>4, SameLists DEF TreeTypes, PlacesInv, BelowRoot, disk, fileLists, ids
<1> QED BY <1>6, <1>7, <1>8 DEF TreeTypes

(* A click goes to a folder that has a place in the tree. *)
LEMMA ClickTypes ==
  ASSUME TreeTypes, NEW l \in Lists, ClickFolder(l) \/ ClickBack(l)
  PROVE  TreeTypes' /\ \E p \in Paths : GoTo(l, p)
<1>1. \E p \in Paths : GoTo(l, p)
  <2>1. CASE ClickFolder(l)
    BY <2>1 DEF ClickFolder, TreeTypes, PlacesInv
  <2>2. CASE ClickBack(l)
    <3>1. Open(l) /\ dirName[l] # Root
      BY <2>2 DEF ClickBack, GoTo, Input
    <3>2. dirName[l] \in Paths
      BY <3>1 DEF TreeTypes, TypeOK, PlacesInv
    <3> QED BY <2>2, <3>1, <3>2, ParentFacts DEF ClickBack
  <2> QED BY <2>1, <2>2
<1> QED BY <1>1, GoToTypes

LEMMA AskTypes ==
  ASSUME TreeTypes, NEW l \in Lists, NEW p \in Paths, p # Root,
         NEW o \in {"newfile", "newdir", "delete"}, Ask(l, [op |-> o, path |-> p])
  PROVE  TreeTypes'
<1> DEFINE m == [op |-> o, path |-> p]
<1>1. /\ Input(l) /\ Send(m)
      /\ UNCHANGED <<disk, listeners, dirMap, changed, frames, writing, fileLists, ids,
                     currentDir, editing, history>>
  BY DEF Ask
<1>2. m \in Requests /\ m.path # Root
  BY DEF Requests
<1> HIDE DEF m
<1>4. mailbox' \in Seq(Requests) /\ BelowRoot(mailbox')
  BY <1>1, <1>2, SendTypes
<1>5. inputs' \in 0..MaxInputs
  BY <1>1, BoundsAssumption DEF Input, TreeTypes, TypeOK
<1>6. TypeOK'
  BY <1>1, <1>4, <1>5 DEF TreeTypes, TypeOK, disk, fileLists, ids, history
<1>7. IdsAreCounted'
  BY <1>1, KeepCount DEF TreeTypes, ids, fileLists
<1>8. PlacesInv'
  BY <1>1, <1>4, SameLists DEF TreeTypes, PlacesInv, BelowRoot, disk, fileLists, ids
<1> QED BY <1>6, <1>7, <1>8 DEF TreeTypes

LEMMA SubmitDeleteTypes ==
  ASSUME TreeTypes, NEW l \in Lists, SubmitNew(l) \/ ClickDelete(l)
  PROVE  /\ TreeTypes'
         /\ \E p \in Paths \ {Root}, o \in {"newfile", "newdir", "delete"} :
              Ask(l, [op |-> o, path |-> p])
<1>1. \E p \in Paths \ {Root}, o \in {"newfile", "newdir", "delete"} :
        Ask(l, [op |-> o, path |-> p])
  <2>1. CASE SubmitNew(l)
    <3>1. Len(currentDir[l]) < MaxDepth /\ currentDir[l] \in Paths
      BY <2>1 DEF SubmitNew, TreeTypes, TypeOK
    <3>2. PICK n \in Names, o \in {"newfile", "newdir"} :
            Ask(l, [op |-> o, path |-> Append(currentDir[l], n)])
      BY <2>1 DEF SubmitNew
    <3>3. Append(currentDir[l], n) \in Paths \ {Root}
      BY <3>1, ParentFacts
    <3> QED BY <3>2, <3>3
  <2>2. CASE ClickDelete(l)
    <3>1. PICK n \in view[l].folders \cup view[l].files :
            Ask(l, [op |-> "delete", path |-> Append(dirName[l], n)])
      BY <2>2 DEF ClickDelete
    <3>2. Append(dirName[l], n) \in Paths
      BY DEF TreeTypes, PlacesInv
    <3>3. n \in Names /\ dirName[l] \in Paths
      <4>1. Open(l) /\ view[l] \in Views
        BY DEF TreeTypes, TypeOK, PlacesInv
      <4> QED BY <4>1 DEF Views, TreeTypes, TypeOK, PlacesInv
    <3> QED BY <3>1, <3>2, <3>3, ParentFacts
  <2> QED BY <2>1, <2>2
<1> QED BY <1>1, AskTypes

LEMMA PageTypes ==
  ASSUME TreeTypes, NEW l \in Lists, OpenEditor(l) \/ Save(l) \/ Reload(l)
  PROVE  TreeTypes'
<1>1. inputs' \in 0..MaxInputs
  BY BoundsAssumption DEF OpenEditor, Save, Reload, Input, TreeTypes, TypeOK
<1>2. UNCHANGED <<dirs, fileManager, fileLists, ids>>
  BY DEF OpenEditor, Save, Reload, disk
<1>3. /\ editing' \subseteq Paths \ {Root}
      /\ files' \subseteq Paths \ {Root}
      /\ currentDir' \in [Lists -> Paths]
      /\ unannounced' \subseteq Lists /\ adrift' = adrift /\ moved' \subseteq Lists
  <2>0. /\ editing \subseteq Paths \ {Root} /\ files \subseteq Paths \ {Root}
        /\ currentDir \in [Lists -> Paths] /\ Root \in Paths
        /\ unannounced \subseteq Lists /\ moved \subseteq Lists
    BY PathFacts DEF TreeTypes, TypeOK, PlacesInv
  <2>1. CASE OpenEditor(l)
    <3>1. PICK n \in view[l].files : editing' = editing \cup {Append(dirName[l], n)}
      BY <2>1 DEF OpenEditor
    <3>2. Append(dirName[l], n) \in Paths
      BY DEF TreeTypes, PlacesInv
    <3>3. n \in Names /\ dirName[l] \in Paths
      <4>1. Open(l) /\ view[l] \in Views
        BY DEF TreeTypes, TypeOK, PlacesInv
      <4> QED BY <4>1 DEF Views, TreeTypes, TypeOK, PlacesInv
    <3>4. Append(dirName[l], n) # Root
      BY <3>3, ParentFacts
    <3> QED BY <2>0, <2>1, <3>1, <3>2, <3>4 DEF OpenEditor, disk, history
  <2>2. CASE Save(l)
    <3>1. PICK p \in editing :
            /\ files' = files \cup {p}
            /\ unannounced' = unannounced \cup (IF p \in files THEN {} ELSE Showing({Parent(p)}))
      BY <2>2 DEF Save
    <3>2. unannounced' \subseteq Lists
      BY <2>0, <3>1 DEF Showing
    <3> QED BY <2>0, <2>2, <3>1, <3>2 DEF Save
  <2>3. CASE Reload(l)
    BY <2>0, <2>3 DEF Reload, disk
  <2> QED BY <2>1, <2>2, <2>3
<1>4. TypeOK'
  BY <1>1, <1>2, <1>3 DEF TreeTypes, TypeOK, fileManager, fileLists, ids
<1>5. IdsAreCounted'
  BY <1>2, KeepCount DEF TreeTypes, ids, fileLists
<1>6. PlacesInv'
  BY <1>2, <1>3, SameLists DEF TreeTypes, PlacesInv, fileManager, fileLists, ids
<1> QED BY <1>4, <1>5, <1>6 DEF TreeTypes

(* The steps of FileManager. *)
LEMMA UpdateTypes ==
  ASSUME TreeTypes, NEW d \in Paths \cup {None}, NEW others, Update(d, others)
  PROVE  /\ changed' \in Paths \cup {None} /\ unannounced' \subseteq Lists
         /\ inbox' \in [Lists -> Seq(Paths \cup {None})]
<1>1. \A l \in Lists : /\ inbox[l] \in Seq(Paths \cup {None})
                       /\ Append(inbox[l], d) \in Seq(Paths \cup {None})
  BY AppendProperties DEF TreeTypes, TypeOK
<1>2. inbox' \in [Lists -> Seq(Paths \cup {None})]
  BY <1>1 DEF Update, Notify
<1> QED BY <1>2 DEF Update, Showing, TreeTypes, TypeOK

(* What every one of them leaves alone. *)
ManagersOnly == UNCHANGED <<ids, formId, dirName, view, pages>>

LEMMA ManagerTypes ==
  ASSUME TreeTypes, ManagersOnly,
         dirs' \subseteq Paths, Root \in dirs', files' \subseteq Paths \ {Root},
         mailbox' \in Seq(Requests), BelowRoot(mailbox'), listeners' \subseteq Lists,
         dirMap' \in [Ids -> Paths \cup {None}], changed' \in Paths \cup {None},
         frames' \in Seq(Frames), writing' \in Chdirs \cup {None},
         \A k \in 1..Len(frames') :
           /\ frames'[k].path # Root
           /\ \A n \in frames'[k].left : Append(frames'[k].path, n) \in Paths,
         inbox' \in [Lists -> Seq(Paths \cup {None})],
         unannounced' \subseteq Lists, adrift' \subseteq Ids, moved' \subseteq Lists
  PROVE  TreeTypes'
<1>1. TypeOK'
  BY DEF TreeTypes, TypeOK, ManagersOnly, ids, pages
<1>2. IdsAreCounted'
  BY KeepCount DEF TreeTypes, ManagersOnly, ids
<1>3. PlacesInv'
  BY SameLists DEF TreeTypes, PlacesInv, BelowRoot, ManagersOnly, ids, pages
<1> QED BY <1>1, <1>2, <1>3 DEF TreeTypes

LEMMA TreeFacts ==
  ASSUME TreeTypes
  PROVE  /\ dirs \subseteq Paths /\ Root \in dirs /\ files \subseteq Paths \ {Root}
         /\ mailbox \in Seq(Requests) /\ BelowRoot(mailbox) /\ listeners \subseteq Lists
         /\ dirMap \in [Ids -> Paths \cup {None}] /\ changed \in Paths \cup {None}
         /\ frames \in Seq(Frames) /\ writing \in Chdirs \cup {None}
         /\ \A k \in 1..Len(frames) :
              /\ frames[k].path # Root
              /\ \A n \in frames[k].left : Append(frames[k].path, n) \in Paths
         /\ inbox \in [Lists -> Seq(Paths \cup {None})]
         /\ unannounced \subseteq Lists /\ adrift \subseteq Ids /\ moved \subseteq Lists
BY DEF TreeTypes, TypeOK, PlacesInv, BelowRoot

LEMMA HandleNewTypes ==
  ASSUME TreeTypes, HandleNewFile \/ HandleNewDir
  PROVE  TreeTypes'
<1> DEFINE p == Head(mailbox).path
<1>1. /\ mailbox' \in Seq(Requests) /\ BelowRoot(mailbox')
      /\ p \in Paths /\ p # Root
  BY ReceiveTypes, RequestKinds DEF HandleNewFile, HandleNewDir
<1>2. Parent(p) \in Paths
  BY <1>1, ParentFacts
<1>3. /\ dirs \subseteq dirs' /\ dirs' \subseteq dirs \cup {p} /\ files' \subseteq files \cup {p}
      /\ UNCHANGED <<listeners, dirMap, frames, writing, adrift, moved>> /\ ManagersOnly
      /\ UNCHANGED <<changed, inbox, unannounced>> \/ \E others : Update(Parent(p), others)
  <2>1. CASE HandleNewFile
    BY <2>1 DEF HandleNewFile, ManagersOnly
  <2>2. CASE HandleNewDir
    BY <2>2 DEF HandleNewDir, ManagersOnly
  <2> QED BY <2>1, <2>2
<1>4. /\ changed' \in Paths \cup {None} /\ unannounced' \subseteq Lists
      /\ inbox' \in [Lists -> Seq(Paths \cup {None})]
  BY <1>2, <1>3, UpdateTypes, TreeFacts
<1> HIDE DEF p
<1> QED BY <1>1, <1>3, <1>4, TreeFacts, ManagerTypes

LEMMA HandleDeleteTypes == ASSUME TreeTypes, HandleDelete PROVE TreeTypes'
<1> DEFINE p == Head(mailbox).path
<1>1. /\ mailbox' \in Seq(Requests) /\ BelowRoot(mailbox')
      /\ p \in Paths /\ p # Root
  BY ReceiveTypes, RequestKinds DEF HandleDelete
<1>2. Frame(p) \in Frames /\ Frame(p).path = p /\ \A n \in Frame(p).left : Append(p, n) \in Paths
  BY <1>1, TreeFacts, FrameTypes
<1>3. frames' \in Seq(Frames) /\ Len(frames') = 1 /\ frames'[1] = Frame(p)
  BY <1>2 DEF HandleDelete
<1>4. \A k \in 1..Len(frames') :
        /\ frames'[k].path # Root
        /\ \A n \in frames'[k].left : Append(frames'[k].path, n) \in Paths
  BY <1>1, <1>2, <1>3
<1>5. /\ UNCHANGED <<disk, listeners, dirMap, changed, writing, inbox, history>> /\ ManagersOnly
  BY DEF HandleDelete, fileLists, ManagersOnly
<1> HIDE DEF p
<1> QED BY <1>1, <1>3, <1>4, <1>5, TreeFacts, ManagerTypes DEF disk, history

LEMMA TopTypes ==
  ASSUME TreeTypes, frames # <<>>
  PROVE  /\ Top \in Frames /\ Top.path \in Paths /\ Top.path # Root
         /\ \A n \in Top.left : n \in Names /\ Append(Top.path, n) \in Paths
         /\ Inner \in Seq(Frames) /\ Len(frames) \in Nat \ {0}
         /\ Len(Inner) = Len(frames) - 1 /\ \A k \in 1..Len(Inner) : Inner[k] = frames[k]
<1>1. frames \in Seq(Frames) /\ Len(frames) \in Nat \ {0}
  BY TreeFacts, EmptySeq
<1>2. Len(frames) \in 1..Len(frames)
  BY <1>1
<1>3. Top \in Frames
  BY <1>1, <1>2, ElementOfSeq DEF Top
<1>4. /\ Top.path # Root /\ Top.path \in Paths
      /\ \A n \in Top.left : n \in Names /\ Append(Top.path, n) \in Paths
  BY <1>2, <1>3, TreeFacts DEF Top, Frames
<1>5. PICK n \in Nat : n = Len(frames) - 1
  BY <1>1
<1>6. \A i \in 1..n : frames[i] \in Frames
  BY <1>1, <1>5, ElementOfSeq
<1>7. /\ SubSeq(frames, 1, n) \in Seq(Frames) /\ Len(SubSeq(frames, 1, n)) = n
      /\ \A k \in 1..n : SubSeq(frames, 1, n)[k] = frames[k]
  BY <1>6, SubSeqProperties
<1> QED BY <1>1, <1>3, <1>4, <1>5, <1>7 DEF Inner

LEMMA DeleteChildTypes == ASSUME TreeTypes, DeleteChild PROVE TreeTypes'
<1>1. /\ Top \in Frames /\ Top.path \in Paths /\ Top.path # Root
      /\ \A n \in Top.left : n \in Names /\ Append(Top.path, n) \in Paths
      /\ Inner \in Seq(Frames) /\ Len(frames) \in Nat \ {0}
      /\ Len(Inner) = Len(frames) - 1 /\ \A k \in 1..Len(Inner) : Inner[k] = frames[k]
  BY TopTypes DEF DeleteChild
<1>2. PICK n \in Top.left :
        frames' = Inner \o <<[Top EXCEPT !.left = @ \ {n}], Frame(Append(Top.path, n))>>
  BY DEF DeleteChild
<1> DEFINE f == [Top EXCEPT !.left = @ \ {n}]
           p == Append(Top.path, n)
           g == Frame(p)
           two == <<f, g>>
<1>3. f \in Frames /\ f.path = Top.path /\ f.left \subseteq Top.left
  BY <1>1 DEF Frames
<1>4. p \in Paths /\ p # Root
  BY <1>1, ParentFacts
<1>5. g \in Frames /\ g.path = p /\ \A m \in g.left : Append(p, m) \in Paths
  BY <1>4, TreeFacts, FrameTypes
<1> HIDE DEF f, g, p
<1>6. two \in Seq(Frames) /\ Len(two) = 2 /\ two[1] = f /\ two[2] = g
  BY <1>3, <1>5
<1> HIDE DEF two
<1>7. /\ frames' \in Seq(Frames) /\ Len(frames') = Len(frames) + 1
      /\ \A k \in 1..Len(Inner) : frames'[k] = Inner[k]
      /\ frames'[Len(Inner) + 1] = f /\ frames'[Len(Inner) + 2] = g
  <2>1. frames' = Inner \o two
    BY <1>2 DEF two, f, g, p
  <2>2. Inner \in Seq(Frames)
    BY <1>1
  <2>3. /\ frames' \in Seq(Frames) /\ Len(Inner) \in Nat
        /\ Len(frames') = Len(Inner) + Len(two)
        /\ \A k \in 1..Len(Inner) : frames'[k] = Inner[k]
        /\ \A k \in 1..Len(two) : frames'[Len(Inner) + k] = two[k]
    <3>1. two \in Seq(Frames)
      BY <1>6
    <3>2. IsCat(Frames, frames', Inner, two)
      BY <2>1, <2>2, <3>1, Cat, Zenon
    <3> QED BY <3>2 DEF IsCat
  <2>4. 1 \in 1..Len(two) /\ 2 \in 1..Len(two)
    BY <1>6
  <2> QED BY <1>1, <1>6, <2>3, <2>4
<1>8. \A k \in 1..Len(frames') :
        /\ frames'[k].path # Root
        /\ \A m \in frames'[k].left : Append(frames'[k].path, m) \in Paths
  <2> SUFFICES ASSUME NEW k \in 1..Len(frames')
               PROVE  /\ frames'[k].path # Root
                      /\ \A m \in frames'[k].left : Append(frames'[k].path, m) \in Paths
    OBVIOUS
  <2>1. CASE k <= Len(Inner)
    <3>1. frames'[k] = frames[k] /\ k \in 1..Len(frames)
      BY <1>1, <1>7, <2>1
    <3> QED BY <3>1, TreeFacts
  <2>2. CASE k = Len(frames)
    <3>1. frames'[k] = f
      BY <1>1, <1>6, <1>7, <2>2
    <3> QED BY <1>1, <1>3, <3>1
  <2>3. CASE k = Len(frames) + 1
    <3>1. frames'[k] = g
      BY <1>1, <1>6, <1>7, <2>3
    <3> QED BY <1>4, <1>5, <3>1
  <2> QED BY <1>1, <1>7, <2>1, <2>2, <2>3
<1>9. /\ UNCHANGED <<disk, mailbox, listeners, dirMap, changed, writing, inbox, history>>
      /\ ManagersOnly
  BY DEF DeleteChild, fileLists, ManagersOnly
<1> QED BY <1>7, <1>8, <1>9, TreeFacts, ManagerTypes DEF disk, history

LEMMA DeleteInnerTypes == ASSUME TreeTypes, DeleteInner PROVE TreeTypes'
<1>0. frames # <<>>
  BY DEF DeleteInner
<1>1. /\ Top.path \in Paths /\ Top.path # Root
      /\ Inner \in Seq(Frames) /\ Len(frames) \in Nat \ {0}
      /\ Len(Inner) = Len(frames) - 1 /\ \A k \in 1..Len(Inner) : Inner[k] = frames[k]
  BY <1>0, TopTypes
<1>2. dirs \ {Top.path} \subseteq dirs' /\ dirs' \subseteq dirs /\ files' \subseteq files
  BY DEF DeleteInner, Erase
<1>3. frames' = Inner
  BY DEF DeleteInner
<1>4. \A k \in 1..Len(frames') :
        /\ frames'[k].path # Root
        /\ \A m \in frames'[k].left : Append(frames'[k].path, m) \in Paths
  <2>1. \A k \in 1..Len(Inner) : k \in 1..Len(frames) /\ Inner[k] = frames[k]
    BY <1>1
  <2> QED BY <1>3, <2>1, TreeFacts
<1>5. unannounced' \subseteq Lists /\ adrift' \subseteq Ids
  BY TreeFacts DEF DeleteInner, Showing, FormsIn
<1>6. UNCHANGED <<mailbox, listeners, dirMap, changed, writing, inbox, moved>> /\ ManagersOnly
  BY DEF DeleteInner, fileLists, ManagersOnly
<1> QED BY <1>1, <1>2, <1>3, <1>4, <1>5, <1>6, TreeFacts, ManagerTypes

(* What is sent when a folder is gone: a move to the folder above for each form in it. *)
LEMMA OrdersFacts ==
  ASSUME NEW S, IsFiniteSet(S), NEW q \in Orders(S)
  PROVE  /\ q \in Seq(S) /\ \A k \in 1..Len(q) : q[k] \in S
         /\ \A m \in S : \E k \in 1..Len(q) : q[k] = m
<1>1. Cardinality(S) \in Nat
  BY FS_CardinalityType
<1>2. q \in [1..Cardinality(S) -> S] /\ \A m \in S : \E k \in DOMAIN q : q[k] = m
  BY DEF Orders
<1>3. q \in Seq(S) /\ Len(q) = Cardinality(S)
  BY <1>1, <1>2
<1> QED BY <1>2, <1>3

LEMMA SendHomeFacts ==
  ASSUME NEW p \in Paths, p # Root, NEW home \in SendHome(p)
  PROVE  /\ home \in Seq(Requests) /\ Len(home) \in Nat
         /\ \A k \in 1..Len(home) : /\ home[k].op = "chdir" /\ home[k].form \in FormsIn(p)
                                    /\ home[k].path = Parent(p)
         /\ \A i \in FormsIn(p) : \E k \in 1..Len(home) : Moves(i, home[k])
<1> DEFINE S == ToParent(p, FormsIn(p))
           f == [i \in FormsIn(p) |-> [op |-> "chdir", form |-> i, path |-> Parent(p)]]
<1>1. IsFiniteSet(FormsIn(p))
  <2>1. IsFiniteSet(Ids)
    BY BoundsAssumption, FS_CardinalityType, FS_Interval DEF Ids
  <2> QED BY <2>1, FS_Subset DEF FormsIn
<1>2. IsFiniteSet(S)
  <2>1. f \in Surjection(FormsIn(p), S)
    BY DEF Surjection, ToParent
  <2> QED BY <1>1, <2>1, FS_Surjection
<1>3. \A m \in S : /\ m \in Requests /\ m.op = "chdir" /\ m.form \in FormsIn(p)
                   /\ m.path = Parent(p)
  BY ParentFacts DEF ToParent, Requests, Chdirs, FormsIn
<1>4. \A i \in FormsIn(p) : \E m \in S : Moves(i, m)
  <2> SUFFICES ASSUME NEW i \in FormsIn(p) PROVE \E m \in S : Moves(i, m)
    OBVIOUS
  <2>1. [op |-> "chdir", form |-> i, path |-> Parent(p)] \in S
    BY DEF ToParent
  <2> QED BY <2>1 DEF Moves
<1> HIDE DEF S
<1>5. home \in Seq(S) /\ (\A k \in 1..Len(home) : home[k] \in S)
      /\ \A m \in S : \E k \in 1..Len(home) : home[k] = m
  BY <1>2, OrdersFacts DEF SendHome, S
<1>6. home \in Seq(Requests) /\ Len(home) \in Nat
  BY <1>3, <1>5, LenProperties
<1> QED BY <1>3, <1>4, <1>5, <1>6

LEMMA FinishDeleteTypes == ASSUME TreeTypes, FinishDelete PROVE TreeTypes'
<1>0. frames # <<>>
  <2>1. Len(<<>>) = 0
    OBVIOUS
  <2>2. Len(frames) = 1
    BY Zenon DEF FinishDelete
  <2> QED BY <2>1, <2>2
<1>1. Top.path \in Paths /\ Top.path # Root
  BY <1>0, TopTypes
<1>2. dirs \ {Top.path} \subseteq dirs' /\ dirs' \subseteq dirs /\ files' \subseteq files
  BY DEF FinishDelete, Erase
<1>3. frames' = <<>> /\ Len(<<>>) = 0 /\ <<>> \in Seq(Frames)
  BY DEF FinishDelete
<1>4. PICK home \in SendHome(Top.path) : mailbox' = mailbox \o home
  BY DEF FinishDelete
<1>5. /\ home \in Seq(Requests) /\ Len(home) \in Nat
      /\ \A k \in 1..Len(home) : home[k].op = "chdir"
  BY <1>1, SendHomeFacts
<1>6. mailbox' \in Seq(Requests) /\ BelowRoot(mailbox')
  <2>1. mailbox \in Seq(Requests) /\ BelowRoot(mailbox) /\ Len(mailbox) \in Nat
    BY TreeFacts, LenProperties
  <2>2. /\ mailbox' \in Seq(Requests) /\ Len(mailbox') = Len(mailbox) + Len(home)
        /\ \A k \in 1..Len(mailbox') :
             mailbox'[k] = IF k <= Len(mailbox) THEN mailbox[k] ELSE home[k - Len(mailbox)]
    BY <1>4, <1>5, <2>1, ConcatProperties
  <2>3. ASSUME NEW k \in 1..Len(mailbox'), k > Len(mailbox) PROVE mailbox'[k].op = "chdir"
    <3>1. k - Len(mailbox) \in 1..Len(home)
      BY <1>5, <2>1, <2>2, <2>3
    <3> QED BY <1>5, <2>1, <2>2, <2>3, <3>1
  <2>4. ASSUME NEW k \in 1..Len(mailbox'), k <= Len(mailbox)
        PROVE  k \in 1..Len(mailbox) /\ mailbox'[k] = mailbox[k]
    BY <2>1, <2>2, <2>4
  <2> QED BY <2>1, <2>2, <2>3, <2>4 DEF BelowRoot
<1>7. /\ changed' \in Paths \cup {None} /\ unannounced' \subseteq Lists
      /\ inbox' \in [Lists -> Seq(Paths \cup {None})]
  BY <1>1, ParentFacts, UpdateTypes DEF FinishDelete
<1>8. /\ moved' \subseteq Lists /\ UNCHANGED <<listeners, dirMap, writing, adrift>> /\ ManagersOnly
  BY TreeFacts DEF FinishDelete, ManagersOnly
<1> QED BY <1>1, <1>2, <1>3, <1>6, <1>7, <1>8, TreeFacts, ManagerTypes

LEMMA ChdirTypes == ASSUME TreeTypes, HandleChdir \/ FinishChdir \/ HandleAdd PROVE TreeTypes'
<1>1. CASE HandleChdir
  <2>1. /\ mailbox' \in Seq(Requests) /\ BelowRoot(mailbox') /\ writing' \in Chdirs \cup {None}
    BY <1>1, ReceiveTypes, RequestKinds DEF HandleChdir
  <2>2. UNCHANGED <<disk, listeners, dirMap, changed, frames, inbox, history>> /\ ManagersOnly
    BY <1>1 DEF HandleChdir, fileLists, ManagersOnly
  <2> QED BY <2>1, <2>2, TreeFacts, ManagerTypes DEF disk, history
<1>2. CASE FinishChdir
  <2>1. writing \in Chdirs /\ writing.form \in Ids /\ writing.path \in Paths
    BY <1>2, TreeFacts, ChdirFacts DEF FinishChdir
  <2>2. writing' = None /\ dirMap' = [dirMap EXCEPT ![writing.form] = writing.path]
    BY <1>2 DEF FinishChdir
  <2>3. /\ changed' \in Paths \cup {None} /\ unannounced' \subseteq Lists
        /\ inbox' \in [Lists -> Seq(Paths \cup {None})]
    BY <1>2, UpdateTypes DEF FinishChdir
  <2>4. adrift' \subseteq Ids
    BY <1>2, <2>1, TreeFacts DEF FinishChdir
  <2>5. UNCHANGED <<disk, mailbox, listeners, frames, moved>> /\ ManagersOnly
    BY <1>2 DEF FinishChdir, ManagersOnly
  <2>6. dirMap' \in [Ids -> Paths \cup {None}]
    BY <2>1, <2>2, TreeFacts
  <2> QED BY <2>2, <2>3, <2>4, <2>5, <2>6, TreeFacts, ManagerTypes DEF disk
<1>3. CASE HandleAdd
  <2>1. /\ mailbox' \in Seq(Requests) /\ BelowRoot(mailbox') /\ Head(mailbox).list \in Lists
    BY <1>3, ReceiveTypes, RequestKinds DEF HandleAdd
  <2>2. listeners' \subseteq Lists
    BY <1>3, <2>1, TreeFacts DEF HandleAdd
  <2>3. inbox' \in [Lists -> Seq(Paths \cup {None})]
    BY <1>3, TreeFacts, AppendProperties DEF HandleAdd
  <2>4. UNCHANGED <<disk, dirMap, changed, frames, writing, history>> /\ ManagersOnly
    BY <1>3 DEF HandleAdd, ManagersOnly
  <2> QED BY <2>1, <2>2, <2>3, <2>4, TreeFacts, ManagerTypes DEF disk, history
<1> QED BY <1>1, <1>2, <1>3

LEMMA ReactTypes == ASSUME TreeTypes, NEW l \in Lists, Open(l), React(l) PROVE TreeTypes'
<1>1. inbox' \in [Lists -> Seq(Paths \cup {None})]
  <2>1. Tail(inbox[l]) \in Seq(Paths \cup {None})
    BY HeadTail, TreeFacts DEF React
  <2> QED BY <2>1, TreeFacts DEF React
<1>2. UNCHANGED <<disk, fileManager, formId, ids, pages, adrift, moved>>
  BY DEF React
<1>3. \/ UNCHANGED <<dirName, view, unannounced>>
      \/ \E d \in Paths \cup {None} : Render(l, d)
  <2>1. formId[l] \in Ids
    BY DEF TreeTypes, IdsAreCounted, Open
  <2>2. Read(formId[l]) \subseteq Paths \cup {None}
    BY <2>1, TreeFacts, ChdirFacts DEF Read
  <2>3. dirName[l] \in Paths \cup {None}
    BY DEF TreeTypes, TypeOK
  <2> QED BY <2>2, <2>3 DEF React
<1>4. /\ dirName' \in [Lists -> Paths \cup {None}] /\ view' \in [Lists -> Views]
      /\ unannounced' \subseteq Lists
      /\ \A m \in Lists : /\ Open(m)' <=> dirName'[m] # None
                          /\ \A n \in view'[m].folders \cup view'[m].files :
                               Open(m)' /\ Append(dirName'[m], n) \in Paths
  <2>1. \A m \in Lists : Open(m)' <=> Open(m)
    BY <1>2 DEF ids, Open
  <2>2. CASE UNCHANGED <<dirName, view, unannounced>>
    BY <2>1, <2>2 DEF TreeTypes, TypeOK, PlacesInv
  <2>3. CASE \E d \in Paths \cup {None} : Render(l, d)
    <3>1. /\ dirName' \in [Lists -> Paths \cup {None}] /\ view' \in [Lists -> Views]
          /\ unannounced' \subseteq Lists
          /\ dirName'[l] \in Paths
          /\ \A n \in view'[l].folders \cup view'[l].files : Append(dirName'[l], n) \in Paths
          /\ \A m \in Lists \ {l} : dirName'[m] = dirName[m] /\ view'[m] = view[m]
      BY <1>2, <2>3, RenderTypes DEF disk
    <3>2. \A m \in Lists : /\ Open(m) <=> dirName[m] # None
                           /\ \A n \in view[m].folders \cup view[m].files :
                                Open(m) /\ Append(dirName[m], n) \in Paths
      BY DEF TreeTypes, PlacesInv
    <3> QED BY <2>1, <3>1, <3>2, NoneAssumption
  <2> QED BY <1>3, <2>2, <2>3
<1>5. TypeOK'
  BY <1>1, <1>2, <1>4 DEF TreeTypes, TypeOK, disk, fileManager, ids, pages
<1>6. IdsAreCounted'
  BY <1>2, KeepCount DEF TreeTypes, ids
<1>7. PlacesInv'
  BY <1>2, <1>4 DEF TreeTypes, PlacesInv, disk, fileManager, pages
<1> QED BY <1>5, <1>6, <1>7 DEF TreeTypes

-----------------------------------------------------------------------------
(* What is in the mailbox once a message is sent or taken. *)

LEMMA SentOne ==
  ASSUME TreeTypes, NEW m \in Requests, Send(m)
  PROVE  /\ \A l \in Lists : Listed(l, mailbox') <=> Listed(l, mailbox) \/ Adds(l, m)
         /\ \A i \in Ids : Sent(i, mailbox') <=> Sent(i, mailbox) \/ Moves(i, m)
         /\ \A i \in Ids, d \in Paths \cup {None} :
              Ends(i, mailbox', d) <=>
                (Moves(i, m) /\ m.path = d) \/ (~Moves(i, m) /\ Ends(i, mailbox, d))
<1>1. /\ mailbox \in Seq(Requests)
      /\ Len(mailbox') = Len(mailbox) + 1 /\ Len(mailbox) \in Nat
      /\ mailbox'[Len(mailbox) + 1] = m
      /\ \A k \in 1..Len(mailbox) : mailbox'[k] = mailbox[k]
  BY AppendProperties, LenProperties DEF Send, TreeTypes, TypeOK
<1> PICK q : q = mailbox
  OBVIOUS
<1> PICK r : r = mailbox'
  OBVIOUS
<1>2. PICK n \in Nat : n = Len(q)
  BY <1>1
<1>3. Len(r) = n + 1 /\ r[n + 1] = m /\ \A k \in 1..n : r[k] = q[k]
  BY <1>1, <1>2
<1>4. \A l \in Lists : Listed(l, r) <=> Listed(l, q) \/ Adds(l, m)
  BY <1>2, <1>3 DEF Listed
<1>5. \A i \in Ids : Sent(i, r) <=> Sent(i, q) \/ Moves(i, m)
  BY <1>2, <1>3 DEF Sent
<1>6. \A i \in Ids, d \in Paths \cup {None} :
        Ends(i, r, d) <=> (Moves(i, m) /\ m.path = d) \/ (~Moves(i, m) /\ Ends(i, q, d))
  <2> SUFFICES ASSUME NEW i \in Ids, NEW d \in Paths \cup {None}
               PROVE  Ends(i, r, d) <=> (Moves(i, m) /\ m.path = d) \/ (~Moves(i, m) /\ Ends(i, q, d))
    OBVIOUS
  <2>1. CASE Moves(i, m)
    <3>1. ASSUME m.path = d PROVE Ends(i, r, d)
      BY <1>2, <1>3, <2>1, <3>1 DEF Ends
    <3>2. ASSUME Ends(i, r, d) PROVE m.path = d
      <4>1. PICK k \in 1..(n + 1) : /\ Moves(i, r[k]) /\ r[k].path = d
                                    /\ \A j \in k+1..(n + 1) : ~Moves(i, r[j])
        BY <1>3, <3>2 DEF Ends
      <4>2. k = n + 1
        BY <1>2, <1>3, <2>1, <4>1
      <4> QED BY <1>3, <4>1, <4>2
    <3> QED BY <2>1, <3>1, <3>2
  <2>2. CASE ~Moves(i, m)
    <3>1. ASSUME Ends(i, q, d) PROVE Ends(i, r, d)
      <4>1. PICK k \in 1..n : /\ Moves(i, q[k]) /\ q[k].path = d
                              /\ \A j \in k+1..n : ~Moves(i, q[j])
        BY <1>2, <3>1 DEF Ends
      <4>2. k \in 1..(n + 1) /\ r[k] = q[k] /\ \A j \in k+1..(n + 1) : ~Moves(i, r[j])
        BY <1>2, <1>3, <2>2, <4>1
      <4> QED BY <1>3, <4>1, <4>2 DEF Ends
    <3>2. ASSUME Ends(i, r, d) PROVE Ends(i, q, d)
      <4>1. PICK k \in 1..(n + 1) : /\ Moves(i, r[k]) /\ r[k].path = d
                                    /\ \A j \in k+1..(n + 1) : ~Moves(i, r[j])
        BY <1>3, <3>2 DEF Ends
      <4>2. k \in 1..n
        BY <1>2, <1>3, <2>2, <4>1
      <4>3. r[k] = q[k] /\ \A j \in k+1..n : ~Moves(i, q[j])
        BY <1>2, <1>3, <4>1, <4>2
      <4> QED BY <1>2, <4>1, <4>2, <4>3 DEF Ends
    <3> QED BY <2>2, <3>1, <3>2
  <2> QED BY <2>1, <2>2
<1> QED BY <1>4, <1>5, <1>6

LEMMA TookOne ==
  ASSUME TreeTypes, mailbox # <<>>, mailbox' = Tail(mailbox)
  PROVE  /\ \A l \in Lists : Listed(l, mailbox) <=> Listed(l, mailbox') \/ Adds(l, Head(mailbox))
         /\ \A i \in Ids : Sent(i, mailbox) <=> Sent(i, mailbox') \/ Moves(i, Head(mailbox))
         /\ \A i \in Ids, d \in Paths \cup {None} :
              Ends(i, mailbox, d) <=>
                \/ Ends(i, mailbox', d)
                \/ /\ ~Sent(i, mailbox') /\ Moves(i, Head(mailbox))
                   /\ Head(mailbox).path = d
<1>1. /\ Len(mailbox) \in Nat \ {0} /\ Head(mailbox) = mailbox[1]
      /\ Len(mailbox') = Len(mailbox) - 1
      /\ \A k \in 1..Len(mailbox') : mailbox'[k] = mailbox[k + 1]
  BY HeadTail, TreeFacts
<1> PICK q : q = mailbox
  OBVIOUS
<1> PICK r : r = mailbox'
  OBVIOUS
<1> PICK h : h = Head(mailbox)
  OBVIOUS
<1>2. PICK n \in Nat : n = Len(r)
  <2>1. mailbox' \in Seq(Requests)
    BY HeadTail, TreeFacts
  <2>2. r \in Seq(Requests)
    BY <2>1, Zenon
  <2>3. Len(r) \in Nat
    BY <2>2, LenProperties, Zenon
  <2> QED BY <2>3, Zenon
<1>3. Len(q) = n + 1 /\ q[1] = h /\ \A k \in 1..n : r[k] = q[k + 1]
  <2>1. q[1] = h
    BY <1>1, Zenon
  <2>2. Len(r) = Len(q) - 1 /\ Len(q) \in Nat /\ \A k \in 1..Len(r) : r[k] = q[k + 1]
    BY <1>1, Zenon
  <2>3. PICK x \in Nat : x = Len(q)
    BY <2>2
  <2>4. x = n + 1
    BY <1>2, <2>2, <2>3
  <2> QED BY <1>2, <2>1, <2>2, <2>3, <2>4, Zenon
<1>a. \A k \in 1..(n + 1) : k = 1 \/ (k - 1 \in 1..n /\ q[k] = r[k - 1])
  <2> SUFFICES ASSUME NEW k \in 1..(n + 1), k # 1 PROVE k - 1 \in 1..n /\ q[k] = r[k - 1]
    OBVIOUS
  <2>1. k - 1 \in 1..n /\ (k - 1) + 1 = k
    BY <1>2
  <2> QED BY <1>3, <2>1
<1>b. \A k \in 1..n : k + 1 \in 1..(n + 1)
  BY <1>2
<1>c. 1 \in 1..(n + 1)
  BY <1>2
<1>4. \A l \in Lists : Listed(l, q) <=> Listed(l, r) \/ Adds(l, h)
  <2>1. ASSUME NEW l \in Lists, Listed(l, q) PROVE Listed(l, r) \/ Adds(l, h)
    BY <1>2, <1>3, <1>a, <2>1 DEF Listed
  <2>2. ASSUME NEW l \in Lists, Listed(l, r) \/ Adds(l, h) PROVE Listed(l, q)
    BY <1>2, <1>3, <1>b, <1>c, <2>2 DEF Listed
  <2> QED BY <2>1, <2>2
<1>5. \A i \in Ids : Sent(i, q) <=> Sent(i, r) \/ Moves(i, h)
  <2>1. ASSUME NEW i \in Ids, Sent(i, q) PROVE Sent(i, r) \/ Moves(i, h)
    BY <1>2, <1>3, <1>a, <2>1 DEF Sent
  <2>2. ASSUME NEW i \in Ids, Sent(i, r) \/ Moves(i, h) PROVE Sent(i, q)
    BY <1>2, <1>3, <1>b, <1>c, <2>2 DEF Sent
  <2> QED BY <2>1, <2>2
<1>6. \A i \in Ids, d \in Paths \cup {None} :
        Ends(i, q, d) <=>
          \/ Ends(i, r, d)
          \/ ~Sent(i, r) /\ Moves(i, h) /\ h.path = d
  <2> SUFFICES ASSUME NEW i \in Ids, NEW d \in Paths \cup {None}
               PROVE  Ends(i, q, d) <=>
                        \/ Ends(i, r, d)
                        \/ ~Sent(i, r) /\ Moves(i, h) /\ h.path = d
    OBVIOUS
  <2>1. ASSUME Ends(i, r, d) PROVE Ends(i, q, d)
    <3>1. PICK k \in 1..n : /\ Moves(i, r[k]) /\ r[k].path = d
                            /\ \A j \in k+1..n : ~Moves(i, r[j])
      BY <1>2, <2>1 DEF Ends
    <3>2. k + 1 \in 1..(n + 1) /\ q[k + 1] = r[k]
      BY <1>3, <1>b, <3>1
    <3>3. \A j \in (k + 1)+1..(n + 1) : ~Moves(i, q[j])
      <4> SUFFICES ASSUME NEW j \in (k + 1)+1..(n + 1) PROVE ~Moves(i, q[j])
        OBVIOUS
      <4>1. j - 1 \in k+1..n /\ j \in 1..(n + 1) /\ j # 1
        BY <1>2, <3>1
      <4> QED BY <1>a, <3>1, <4>1
    <3> QED BY <1>3, <3>1, <3>2, <3>3 DEF Ends
  <2>2. ASSUME ~Sent(i, r), Moves(i, h), h.path = d PROVE Ends(i, q, d)
    <3>1. \A j \in 1+1..(n + 1) : ~Moves(i, q[j])
      <4> SUFFICES ASSUME NEW j \in 1+1..(n + 1) PROVE ~Moves(i, q[j])
        OBVIOUS
      <4>1. j \in 1..(n + 1) /\ j # 1
        BY <1>2
      <4> QED BY <1>2, <1>a, <2>2, <4>1 DEF Sent
    <3> QED BY <1>2, <1>3, <2>2, <3>1 DEF Ends
  <2>3. ASSUME Ends(i, q, d), ~Ends(i, r, d)
        PROVE  ~Sent(i, r) /\ Moves(i, h) /\ h.path = d
    <3>1. PICK k \in 1..(n + 1) : /\ Moves(i, q[k]) /\ q[k].path = d
                                  /\ \A j \in k+1..(n + 1) : ~Moves(i, q[j])
      BY <1>3, <2>3 DEF Ends
    <3>2. k = 1
      <4> SUFFICES ASSUME k # 1 PROVE Ends(i, r, d)
        BY <2>3
      <4>1. k - 1 \in 1..n /\ q[k] = r[k - 1] /\ (k - 1) + 1 = k
        BY <1>a, <1>2
      <4>2. \A j \in (k - 1)+1..n : ~Moves(i, r[j])
        <5> SUFFICES ASSUME NEW j \in k..n PROVE ~Moves(i, r[j])
          BY <4>1
        <5>1. j \in 1..n /\ j + 1 \in k+1..(n + 1)
          BY <1>2
        <5> QED BY <1>3, <3>1, <5>1
      <4> QED BY <1>2, <3>1, <4>1, <4>2 DEF Ends
    <3>3. ~Sent(i, r)
      <4> SUFFICES ASSUME NEW j \in 1..n PROVE ~Moves(i, r[j])
        BY <1>2 DEF Sent
      <4>1. j + 1 \in k+1..(n + 1)
        BY <1>2, <3>2
      <4> QED BY <1>3, <3>1, <4>1
    <3> QED BY <1>3, <3>1, <3>2, <3>3
  <2> QED BY <2>1, <2>2, <2>3
<1> QED BY <1>4, <1>5, <1>6

(* The moves that 'delete sends home. *)
LEMMA SentMany ==
  ASSUME TreeTypes, NEW p \in Paths, p # Root, NEW home \in SendHome(p),
         mailbox' = mailbox \o home
  PROVE  /\ \A l \in Lists : Listed(l, mailbox') <=> Listed(l, mailbox)
         /\ \A i \in Ids : Sent(i, mailbox') <=> Sent(i, mailbox) \/ i \in FormsIn(p)
         /\ \A i \in Ids \ FormsIn(p), d \in Paths \cup {None} :
              Ends(i, mailbox', d) <=> Ends(i, mailbox, d)
<1>1. /\ home \in Seq(Requests)
      /\ \A k \in 1..Len(home) : home[k].op = "chdir" /\ home[k].form \in FormsIn(p)
      /\ \A i \in FormsIn(p) : \E k \in 1..Len(home) : Moves(i, home[k])
  BY SendHomeFacts
<1>2. mailbox \in Seq(Requests)
  BY TreeFacts
<1>3. IsCat(Requests, mailbox', mailbox, home)
  BY <1>1, <1>2, Cat, Zenon
<1> PICK q : q = mailbox
  OBVIOUS
<1> PICK r : r = mailbox'
  OBVIOUS
<1>4. PICK n \in Nat : n = Len(q)
  BY <1>3 DEF IsCat
<1>5. PICK x \in Nat : x = Len(home)
  BY <1>3 DEF IsCat
<1>6. /\ Len(r) = n + x /\ \A k \in 1..n : r[k] = q[k]
      /\ \A k \in 1..x : r[n + k] = home[k]
  BY <1>3, <1>4, <1>5 DEF IsCat
<1>7. \A k \in 1..(n + x) : \/ k \in 1..n /\ r[k] = q[k]
                            \/ \E j \in 1..x : k = n + j /\ r[k] = home[j]
  <2> SUFFICES ASSUME NEW k \in 1..(n + x), k \notin 1..n
               PROVE  \E j \in 1..x : k = n + j /\ r[k] = home[j]
    BY <1>6
  <2>1. PICK j \in Int : j = k - n
    OBVIOUS
  <2>2. j \in 1..x /\ k = n + j
    BY <1>4, <1>5, <2>1
  <2> QED BY <1>6, <2>2
<1>8. /\ \A k \in 1..n : k \in 1..(n + x)
      /\ \A j \in 1..x : n + j \in 1..(n + x)
  BY <1>4, <1>5
<1>9. \A l \in Lists : Listed(l, r) <=> Listed(l, q)
  <2>1. \A l \in Lists, k \in 1..x : ~Adds(l, home[k])
    BY <1>1, <1>5 DEF Adds
  <2>2. \A l \in Lists : Listed(l, q) <=> \E k \in 1..n : Adds(l, q[k])
    BY <1>4 DEF Listed
  <2>3. \A l \in Lists : Listed(l, r) <=> \E k \in 1..(n + x) : Adds(l, r[k])
    BY <1>6 DEF Listed
  <2>4. ASSUME NEW l \in Lists, Listed(l, r) PROVE Listed(l, q)
    BY <1>7, <2>1, <2>2, <2>3, <2>4
  <2>5. ASSUME NEW l \in Lists, Listed(l, q) PROVE Listed(l, r)
    BY <1>6, <1>8, <2>2, <2>3, <2>5
  <2> QED BY <2>4, <2>5
<1>10. \A i \in Ids : Sent(i, r) <=> Sent(i, q) \/ i \in FormsIn(p)
  <2>1. \A i \in Ids, k \in 1..x : Moves(i, home[k]) => i \in FormsIn(p)
    BY <1>1, <1>5 DEF Moves
  <2>2. \A i \in FormsIn(p) : \E k \in 1..x : Moves(i, home[k])
    BY <1>1, <1>5
  <2>3. \A i \in Ids : Sent(i, q) <=> \E k \in 1..n : Moves(i, q[k])
    BY <1>4 DEF Sent
  <2>4. \A i \in Ids : Sent(i, r) <=> \E k \in 1..(n + x) : Moves(i, r[k])
    BY <1>6 DEF Sent
  <2>5. ASSUME NEW i \in Ids, Sent(i, r) PROVE Sent(i, q) \/ i \in FormsIn(p)
    BY <1>7, <2>1, <2>3, <2>4, <2>5
  <2>6. ASSUME NEW i \in Ids, Sent(i, q) \/ i \in FormsIn(p) PROVE Sent(i, r)
    BY <1>6, <1>8, <2>2, <2>3, <2>4, <2>6
  <2> QED BY <2>5, <2>6
<1>11. \A i \in Ids \ FormsIn(p), d \in Paths \cup {None} : Ends(i, r, d) <=> Ends(i, q, d)
  <2> SUFFICES ASSUME NEW i \in Ids \ FormsIn(p), NEW d \in Paths \cup {None}
               PROVE  Ends(i, r, d) <=> Ends(i, q, d)
    OBVIOUS
  <2>1. \A k \in 1..x : ~Moves(i, home[k])
    BY <1>1, <1>5 DEF Moves
  <2>2. \A k \in 1..(n + x) : Moves(i, r[k]) => k \in 1..n
    BY <1>7, <2>1
  <2>3. ASSUME Ends(i, r, d) PROVE Ends(i, q, d)
    <3>1. PICK k \in 1..(n + x) : /\ Moves(i, r[k]) /\ r[k].path = d
                                  /\ \A j \in k+1..(n + x) : ~Moves(i, r[j])
      BY <1>6, <2>3 DEF Ends
    <3>2. k \in 1..n /\ r[k] = q[k]
      BY <1>6, <2>2, <3>1
    <3>3. \A j \in k+1..n : ~Moves(i, q[j])
      BY <1>4, <1>5, <1>6, <3>1
    <3> QED BY <1>4, <3>1, <3>2, <3>3 DEF Ends
  <2>4. ASSUME Ends(i, q, d) PROVE Ends(i, r, d)
    <3>1. PICK k \in 1..n : /\ Moves(i, q[k]) /\ q[k].path = d
                            /\ \A j \in k+1..n : ~Moves(i, q[j])
      BY <1>4, <2>4 DEF Ends
    <3>2. k \in 1..(n + x) /\ r[k] = q[k]
      BY <1>6, <1>8, <3>1
    <3>3. ASSUME NEW j \in k+1..(n + x) PROVE ~Moves(i, r[j])
      <4>1. j \in 1..(n + x)
        BY <1>4, <1>5
      <4>2. CASE j \in 1..n
        BY <1>6, <3>1, <4>2, <1>4, <1>5
      <4>3. CASE j \notin 1..n
        BY <2>2, <4>1, <4>3
      <4> QED BY <4>2, <4>3
    <3> QED BY <1>6, <3>1, <3>2, <3>3 DEF Ends
  <2> QED BY <2>3, <2>4
<1> QED BY <1>9, <1>10, <1>11

-----------------------------------------------------------------------------
(* Lists and listeners. *)

LEMMA KeepListeners ==
  ASSUME ListenersInv, listeners' = listeners,
         \A l \in Lists : Open(l)' <=> Open(l),
         \A l \in Lists : Listed(l, mailbox') <=> Listed(l, mailbox),
         \A l \in Lists : ~Open(l) => inbox'[l] = inbox[l] /\ currentDir'[l] = currentDir[l]
  PROVE  ListenersInv'
BY DEF ListenersInv

LEMMA NotifiedAreOpen ==
  ASSUME TreeTypes, ListenersInv, NEW d, Notify(d)
  PROVE  \A l \in Lists : ~Open(l) => inbox'[l] = inbox[l]
BY DEF Notify, ListenersInv

LEMMA SetUpListeners ==
  ASSUME TreeTypes, ListenersInv, NEW l \in Lists, SetUp(l)
  PROVE  ListenersInv'
<1> DEFINE a == [op |-> "add", list |-> l]
<1>1. /\ step' = [step EXCEPT ![l] = "open"] /\ Send(a)
      /\ UNCHANGED <<listeners, inbox, currentDir>>
  BY DEF SetUp, Advance, Send, pages
<1>2. a \in Requests /\ \A m \in Lists : Adds(m, a) <=> m = l
  BY DEF Requests, Adds
<1>3. \A m \in Lists : Listed(m, mailbox') <=> Listed(m, mailbox) \/ m = l
  BY <1>1, <1>2, SentOne
<1>4. \A m \in Lists : Open(m)' <=> Open(m) \/ m = l
  BY <1>1 DEF Open, TreeTypes, TypeOK
<1> QED BY <1>1, <1>3, <1>4 DEF ListenersInv

LEMMA AddListeners == ASSUME TreeTypes, ListenersInv, HandleAdd PROVE ListenersInv'
<1> DEFINE l == Head(mailbox).list
<1>1. /\ mailbox # <<>> /\ mailbox' = Tail(mailbox) /\ listeners' = listeners \cup {l}
      /\ inbox' = [inbox EXCEPT ![l] = Append(@, changed)]
      /\ UNCHANGED <<step, currentDir>> /\ Head(mailbox).op = "add"
  BY DEF HandleAdd, Receive, ids, pages
<1>2. l \in Lists
  BY ReceiveTypes, RequestKinds DEF HandleAdd
<1>3. \A m \in Lists : Listed(m, mailbox) <=> Listed(m, mailbox') \/ m = l
  BY <1>1, TookOne DEF Adds
<1>4. \A m \in Lists : Open(m)' <=> Open(m)
  BY <1>1 DEF Open
<1>5. \A m \in Lists : m # l => inbox'[m] = inbox[m]
  BY <1>1, <1>2, TreeFacts
<1> HIDE DEF l
<1> QED BY <1>1, <1>2, <1>3, <1>4, <1>5 DEF ListenersInv

(* Messages that say nothing of listeners. *)
LEMMA OtherMessages ==
  ASSUME TreeTypes
  PROVE  /\ \A m \in Requests : Send(m) /\ m.op # "add" =>
              \A l \in Lists : Listed(l, mailbox') <=> Listed(l, mailbox)
         /\ \A o : Receive(o) /\ mailbox' = Tail(mailbox) /\ o # "add" =>
              \A l \in Lists : Listed(l, mailbox') <=> Listed(l, mailbox)
BY SentOne, TookOne DEF Adds, Receive

LEMMA NextListeners == ASSUME TreeTypes, ListenersInv, [Next]_vars PROVE ListenersInv'
<1>1. ASSUME NEW l \in Lists, ReadNext(l) \/ WriteNext(l) \/ TakeId(l) PROVE ListenersInv'
  <2>1. UNCHANGED <<listeners, mailbox, inbox, currentDir>>
    BY <1>1 DEF ReadNext, WriteNext, TakeId, fileManager, fileLists, pages
  <2>2. \A m \in Lists : Open(m)' <=> Open(m)
    BY <1>1 DEF ReadNext, WriteNext, TakeId, Advance, Open, TreeTypes, TypeOK
  <2> QED BY <2>1, <2>2, KeepListeners
<1>2. ASSUME NEW l \in Lists, NEW p \in Paths, GoTo(l, p) PROVE ListenersInv'
  <2>1. [op |-> "chdir", form |-> formId[l], path |-> p] \in Requests /\ Open(l)
    BY <1>2 DEF GoTo, Input, TreeTypes, IdsAreCounted, Open, Requests, Chdirs
  <2>2. \A m \in Lists : Listed(m, mailbox') <=> Listed(m, mailbox)
    BY <1>2, <2>1, OtherMessages DEF GoTo
  <2>3. /\ UNCHANGED <<listeners, inbox, step>>
        /\ \A m \in Lists : m # l => currentDir'[m] = currentDir[m]
    BY <1>2 DEF GoTo, fileLists, ids, TreeTypes, TypeOK
  <2> QED BY <2>1, <2>2, <2>3, KeepListeners DEF Open
<1>3. ASSUME NEW l \in Lists, NEW p \in Paths, NEW o \in {"newfile", "newdir", "delete"},
             Ask(l, [op |-> o, path |-> p])
      PROVE  ListenersInv'
  <2>1. [op |-> o, path |-> p] \in Requests
    BY DEF Requests
  <2>2. \A m \in Lists : Listed(m, mailbox') <=> Listed(m, mailbox)
    BY <1>3, <2>1, OtherMessages DEF Ask
  <2>3. UNCHANGED <<listeners, inbox, step, currentDir>>
    BY <1>3 DEF Ask, fileLists, ids
  <2> QED BY <2>2, <2>3, KeepListeners DEF Open
<1>4. ASSUME NEW l \in Lists, OpenEditor(l) \/ Save(l) \/ Reload(l) PROVE ListenersInv'
  <2>1. /\ UNCHANGED <<listeners, mailbox, inbox, step>> /\ Open(l)
        /\ \A m \in Lists : m # l => currentDir'[m] = currentDir[m]
    BY <1>4 DEF OpenEditor, Save, Reload, Input, fileManager, fileLists, ids, TreeTypes, TypeOK
  <2> QED BY <2>1, KeepListeners DEF Open
<1>5. ASSUME NEW l \in Lists, React(l) PROVE ListenersInv'
  <2>1. /\ UNCHANGED <<listeners, mailbox, step, currentDir>> /\ inbox[l] # <<>>
        /\ \A m \in Lists : m # l => inbox'[m] = inbox[m]
    BY <1>5, TreeFacts DEF React, fileManager, ids, pages
  <2>2. Open(l)
    BY <2>1 DEF ListenersInv
  <2> QED BY <2>1, <2>2, KeepListeners DEF Open
<1>6. ASSUME HandleNewFile \/ HandleNewDir PROVE ListenersInv'
  <2>1. /\ UNCHANGED <<listeners, step, currentDir>> /\ mailbox' = Tail(mailbox)
        /\ Receive("newfile") \/ Receive("newdir")
        /\ inbox' = inbox \/ Notify(Parent(Head(mailbox).path))
    BY <1>6 DEF HandleNewFile, HandleNewDir, Update, ids, pages
  <2>2. \A m \in Lists : Listed(m, mailbox') <=> Listed(m, mailbox)
    BY <2>1, OtherMessages
  <2> QED BY <2>1, <2>2, NotifiedAreOpen, KeepListeners DEF Open
<1>7. ASSUME HandleDelete \/ HandleChdir PROVE ListenersInv'
  <2>1. /\ UNCHANGED <<listeners, step, currentDir, inbox>> /\ mailbox' = Tail(mailbox)
        /\ Receive("delete") \/ Receive("chdir")
    BY <1>7 DEF HandleDelete, HandleChdir, ids, pages, fileLists
  <2>2. \A m \in Lists : Listed(m, mailbox') <=> Listed(m, mailbox)
    BY <2>1, OtherMessages
  <2> QED BY <2>1, <2>2, KeepListeners DEF Open
<1>8. ASSUME DeleteChild \/ DeleteInner PROVE ListenersInv'
  <2>1. UNCHANGED <<listeners, step, currentDir, inbox, mailbox>>
    BY <1>8 DEF DeleteChild, DeleteInner, ids, pages, fileLists
  <2> QED BY <2>1, KeepListeners DEF Open
<1>9. ASSUME FinishDelete PROVE ListenersInv'
  <2>1. Top.path \in Paths /\ Top.path # Root
    <3>1. Len(<<>>) = 0
      OBVIOUS
    <3>2. Len(frames) = 1
      BY <1>9, Zenon DEF FinishDelete
    <3> QED BY <3>1, <3>2, TopTypes
  <2>2. PICK home \in SendHome(Top.path) : mailbox' = mailbox \o home
    BY <1>9 DEF FinishDelete
  <2>3. \A m \in Lists : Listed(m, mailbox') <=> Listed(m, mailbox)
    BY <2>1, <2>2, SentMany
  <2>4. UNCHANGED <<listeners, step, currentDir>> /\ Notify(Parent(Top.path))
    BY <1>9 DEF FinishDelete, Update, ids, pages
  <2> QED BY <2>3, <2>4, NotifiedAreOpen, KeepListeners DEF Open
<1>10. ASSUME FinishChdir PROVE ListenersInv'
  <2>1. UNCHANGED <<listeners, step, currentDir, mailbox>> /\ Notify(None)
    BY <1>10 DEF FinishChdir, Update, ids, pages
  <2> QED BY <2>1, NotifiedAreOpen, KeepListeners DEF Open
<1>11. ASSUME UNCHANGED vars PROVE ListenersInv'
  BY <1>11, KeepListeners DEF vars, fileManager, fileLists, ids, pages, Open
<1> QED
  BY <1>1, <1>2, <1>3, <1>4, <1>5, <1>6, <1>7, <1>8, <1>9, <1>10, <1>11, SetUpListeners,
     AddListeners, ClickTypes, SubmitDeleteTypes DEF Next

LEMMA NextTypes == ASSUME TreeTypes, ListenersInv, [Next]_vars PROVE TreeTypes'
<1>1. ASSUME NEW l \in Lists, React(l) PROVE TreeTypes'
  <2>1. Open(l)
    BY <1>1 DEF React, ListenersInv
  <2> QED BY <1>1, <2>1, ReactTypes
<1>2. ASSUME UNCHANGED vars PROVE TreeTypes'
  <2>1. /\ UNCHANGED <<inputs, dirs, files, mailbox, listeners, dirMap, changed, frames, writing>>
        /\ UNCHANGED <<next, step, seen, formId, dirName, view, inbox, currentDir, editing>>
        /\ UNCHANGED <<unannounced, adrift, moved, overlapped>>
    BY <1>2 DEF vars, disk, fileManager, fileLists, ids, pages, history
  <2> QED BY <2>1 DEF TreeTypes, TypeOK, IdsAreCounted, Counted, PlacesInv, Open
<1> QED
  BY <1>1, <1>2, ReadNextTypes, WriteNextTypes, TakeIdTypes, SetUpTypes, ClickTypes,
     SubmitDeleteTypes, PageTypes, HandleNewTypes, HandleDeleteTypes, DeleteChildTypes,
     DeleteInnerTypes, FinishDeleteTypes, ChdirTypes DEF Next

-----------------------------------------------------------------------------
(* What the lists know of the map. *)

LEMMA NotifyFacts ==
  ASSUME TreeTypes, NEW d \in Paths \cup {None}, Notify(d)
  PROVE  /\ \A l \in Lists : \A k \in 1..Len(inbox[l]) :
              k \in 1..Len(inbox'[l]) /\ inbox'[l][k] = inbox[l][k]
         /\ \A l \in Lists : inbox[l] # <<>> => inbox'[l] # <<>>
         /\ \A l \in listeners : inbox'[l] # <<>> /\ \E k \in 1..Len(inbox'[l]) : inbox'[l][k] = d
<1>1. \A l \in Lists : inbox'[l] = IF l \in listeners THEN Append(inbox[l], d) ELSE inbox[l]
  BY DEF Notify
<1>2. ASSUME NEW l \in listeners
      PROVE  /\ inbox'[l] # <<>> /\ \E k \in 1..Len(inbox'[l]) : inbox'[l][k] = d
             /\ \A k \in 1..Len(inbox[l]) : k \in 1..Len(inbox'[l]) /\ inbox'[l][k] = inbox[l][k]
  <2>1. inbox[l] \in Seq(Paths \cup {None}) /\ inbox'[l] = Append(inbox[l], d)
    BY <1>1, <1>2, TreeFacts
  <2>2. PICK q \in Seq(Paths \cup {None}) : q = inbox[l]
    BY <2>1
  <2>3. PICK r : r = inbox'[l]
    OBVIOUS
  <2>4. /\ Len(r) = Len(q) + 1 /\ Len(q) \in Nat /\ r[Len(q) + 1] = d
        /\ \A k \in 1..Len(q) : r[k] = q[k]
    BY <2>1, <2>2, <2>3, AppendProperties, LenProperties
  <2>5. Len(<<>>) = 0
    OBVIOUS
  <2>6. r # <<>>
    BY <2>4, <2>5
  <2>7. PICK n \in Nat : n = Len(q)
    BY <2>4
  <2>8. n + 1 \in 1..n + 1 /\ \A k \in 1..n : k \in 1..n + 1
    BY <2>7
  <2> QED BY <2>2, <2>3, <2>4, <2>6, <2>7, <2>8
<1> QED BY <1>1, <1>2, TreeFacts

LEMMA KeepFollow ==
  ASSUME FollowInv, UNCHANGED <<listeners, dirMap, writing>>,
         \A l \in Lists : Open(l)' =>
           Open(l) /\ formId'[l] = formId[l] /\ dirName'[l] = dirName[l],
         \A l \in Lists : inbox[l] # <<>> => inbox'[l] # <<>>
  PROVE  FollowInv'
BY DEF FollowInv, Told, BeingMoved

LEMMA SetUpFollow ==
  ASSUME TreeTypes, ListenersInv, FollowInv, NEW l \in Lists, SetUp(l)
  PROVE  FollowInv'
<1>1. /\ step[l] = "made" /\ step' = [step EXCEPT ![l] = "open"] /\ Render(l, dirName[l])
      /\ UNCHANGED <<listeners, dirMap, writing, formId, inbox>>
  BY DEF SetUp, Advance
<1>2. l \notin listeners /\ dirName[l] = None
  BY <1>1 DEF ListenersInv, TreeTypes, PlacesInv, Open
<1>3. dirName' = [dirName EXCEPT ![l] = Root]
  BY <1>1, <1>2 DEF Render
<1>4. \A m \in Lists \ {l} : dirName'[m] = dirName[m] /\ (Open(m)' <=> Open(m))
  BY <1>1, <1>3 DEF Open, TreeTypes, TypeOK
<1>5. dirName'[l] = Root
  BY <1>3 DEF TreeTypes, TypeOK
<1> QED BY <1>1, <1>2, <1>4, <1>5 DEF FollowInv, Told, BeingMoved

LEMMA ReactFollow ==
  ASSUME TreeTypes, ListenersInv, FollowInv, NEW l \in Lists, React(l)
  PROVE  FollowInv'
<1>1. /\ inbox[l] # <<>> /\ UNCHANGED <<listeners, dirMap, writing, formId, step>>
      /\ \A m \in Lists \ {l} : inbox'[m] = inbox[m]
  BY TreeFacts DEF React, fileManager, ids
<1>2. Open(l) /\ dirName[l] # None /\ formId[l] \in Ids
  BY <1>1 DEF ListenersInv, TreeTypes, PlacesInv, IdsAreCounted, Open
<1>3. PICK d \in Read(formId[l]) :
        \/ d \notin {None, dirName[l]} /\ Render(l, d)
        \/ /\ d \in {None, dirName[l]}
           /\ Render(l, dirName[l]) \/ dirName' = dirName
  BY DEF React
<1>4. /\ \A m \in Lists \ {l} : dirName'[m] = dirName[m]
      /\ dirName'[l] = IF d = None THEN dirName[l] ELSE d
  <2>1. dirName \in [Lists -> Paths \cup {None}]
    BY DEF TreeTypes, TypeOK
  <2> QED BY <1>2, <1>3, <2>1 DEF Render
<1>5. ASSUME writing = None
      PROVE  dirMap[formId[l]] \in {None, dirName'[l]}
  BY <1>3, <1>4, <1>5 DEF Read
<1>6. ASSUME dirMap[formId[l]] = None PROVE dirName'[l] = Root \/ BeingMoved(formId[l])
  <2>1. CASE d = None
    BY <1>2, <1>4, <1>6, <2>1 DEF FollowInv
  <2>2. CASE d # None
    BY <1>3, <1>6, <2>2 DEF Read, BeingMoved
  <2> QED BY <2>1, <2>2
<1> QED BY <1>1, <1>4, <1>5, <1>6 DEF FollowInv, Told, BeingMoved, Open

LEMMA ChdirFollow ==
  ASSUME TreeTypes, ListenersInv, FollowInv, HandleChdir \/ FinishChdir \/ HandleAdd
  PROVE  FollowInv'
<1>1. CASE HandleChdir
  <2>1. Head(mailbox) \in Chdirs /\ None \notin Chdirs
    BY <1>1, ReceiveTypes, RequestKinds, ChdirFacts DEF HandleChdir
  <2>2. /\ UNCHANGED <<listeners, dirMap, formId, dirName, step, inbox>>
        /\ writing = None /\ writing' = Head(mailbox)
    BY <1>1 DEF HandleChdir, Receive, Idle, fileLists, ids
  <2> QED BY <2>1, <2>2 DEF FollowInv, Told, BeingMoved, Open
<1>2. CASE FinishChdir
  <2>1. writing \in Chdirs /\ writing.form \in Ids /\ writing.path \in Paths
    BY <1>2, TreeFacts, ChdirFacts DEF FinishChdir
  <2>2. /\ UNCHANGED <<listeners, formId, dirName, step>> /\ Notify(None)
        /\ writing # None /\ writing' = None
        /\ dirMap' = [dirMap EXCEPT ![writing.form] = writing.path]
    BY <1>2 DEF FinishChdir, Update, ids
  <2>3. \A l \in listeners : inbox'[l] # <<>>
    BY <2>2, NotifyFacts
  <2>4. \A i \in Ids : dirMap'[i] = None => dirMap[i] = None /\ i # writing.form
    BY <2>1, <2>2, TreeFacts, NoneAssumption
  <2>5. \A l \in Lists : Open(l) => formId[l] \in Ids
    BY DEF TreeTypes, IdsAreCounted, Open
  <2>6. \A l \in Lists : Told(l)'
    BY <2>2, <2>3 DEF Told
  <2>7. \A l \in Lists : Open(l) /\ dirMap'[formId[l]] = None => dirName[l] = Root
    BY <2>4, <2>5 DEF FollowInv, BeingMoved
  <2> QED BY <2>2, <2>6, <2>7 DEF FollowInv, Open
<1>3. CASE HandleAdd
  <2> DEFINE l == Head(mailbox).list
  <2>1. l \in Lists
    BY <1>3, ReceiveTypes, RequestKinds DEF HandleAdd
  <2>2. /\ UNCHANGED <<dirMap, writing, formId, dirName, step>>
        /\ listeners' = listeners \cup {l}
        /\ inbox' = [inbox EXCEPT ![l] = Append(@, changed)]
    BY <1>3 DEF HandleAdd, ids
  <2>3. inbox'[l] # <<>> /\ \A m \in Lists : m # l => inbox'[m] = inbox[m]
    <3>1. Append(inbox[l], changed) # <<>>
      BY <2>1, TreeFacts, AppendIsConcat, AppendProperties, EmptySeq
    <3> QED BY <2>1, <2>2, <3>1, TreeFacts
  <2> HIDE DEF l
  <2> QED BY <2>1, <2>2, <2>3 DEF FollowInv, Told, BeingMoved, Open
<1> QED BY <1>1, <1>2, <1>3

LEMMA NextFollow == ASSUME TreeTypes, ListenersInv, FollowInv, [Next]_vars PROVE FollowInv'
<1>1. ASSUME NEW l \in Lists, ReadNext(l) \/ WriteNext(l) \/ TakeId(l) PROVE FollowInv'
  <2>1. /\ UNCHANGED <<listeners, dirMap, writing, inbox, dirName>>
        /\ ~Open(l) /\ ~Open(l)' /\ \A m \in Lists \ {l} : step'[m] = step[m] /\ formId'[m] = formId[m]
    BY <1>1 DEF ReadNext, WriteNext, TakeId, Advance, Open, fileManager, fileLists, TreeTypes, TypeOK
  <2> QED BY <2>1, KeepFollow DEF Open
<1>2. ASSUME UNCHANGED <<listeners, dirMap, writing, inbox, dirName, step, formId>> PROVE FollowInv'
  BY <1>2, KeepFollow DEF Open
<1>3. ASSUME NEW l \in Lists, ClickFolder(l) \/ ClickBack(l) \/ SubmitNew(l) \/ ClickDelete(l)
      PROVE  FollowInv'
  BY <1>2, <1>3 DEF ClickFolder, ClickBack, GoTo, SubmitNew, ClickDelete, Ask, fileLists, ids
<1>4. ASSUME NEW l \in Lists, OpenEditor(l) \/ Save(l) \/ Reload(l) PROVE FollowInv'
  BY <1>2, <1>4 DEF OpenEditor, Save, Reload, fileManager, fileLists, ids
<1>5. ASSUME HandleDelete \/ DeleteChild \/ DeleteInner PROVE FollowInv'
  BY <1>2, <1>5 DEF HandleDelete, DeleteChild, DeleteInner, fileLists, ids
<1>6. ASSUME HandleNewFile \/ HandleNewDir PROVE FollowInv'
  <2>1. /\ UNCHANGED <<listeners, dirMap, writing, dirName, step, formId>>
        /\ inbox' = inbox \/ Notify(Parent(Head(mailbox).path))
    BY <1>6 DEF HandleNewFile, HandleNewDir, Update, ids
  <2>2. Parent(Head(mailbox).path) \in Paths
    BY <1>6, ReceiveTypes, RequestKinds, ParentFacts DEF HandleNewFile, HandleNewDir
  <2> QED BY <2>1, <2>2, NotifyFacts, KeepFollow DEF Open
<1>7. ASSUME FinishDelete PROVE FollowInv'
  <2>1. /\ UNCHANGED <<listeners, dirMap, writing, dirName, step, formId>>
        /\ Notify(Parent(Top.path))
    BY <1>7 DEF FinishDelete, Update, ids
  <2>2. Parent(Top.path) \in Paths
    <3>1. Len(<<>>) = 0
      OBVIOUS
    <3>2. Len(frames) = 1
      BY <1>7, Zenon DEF FinishDelete
    <3> QED BY <3>1, <3>2, TopTypes, ParentFacts
  <2> QED BY <2>1, <2>2, NotifyFacts, KeepFollow DEF Open
<1>8. ASSUME UNCHANGED vars PROVE FollowInv'
  BY <1>2, <1>8 DEF vars, fileManager, fileLists, ids
<1> QED
  BY <1>1, <1>3, <1>4, <1>5, <1>6, <1>7, <1>8, SetUpFollow, ReactFollow, ChdirFollow DEF Next

-----------------------------------------------------------------------------
(* Forms in folders that are gone. *)

LEMMA KeepStranded ==
  ASSUME StrandedInv, UNCHANGED <<dirMap, writing>>, dirs \subseteq dirs', adrift \subseteq adrift',
         \A i \in Ids : Sent(i, mailbox) => Sent(i, mailbox')
  PROVE  StrandedInv'
BY DEF StrandedInv, BeingMoved

LEMMA DeleteTop == ASSUME TreeTypes, FinishDelete PROVE Top.path \in Paths /\ Top.path # Root
<1>1. Len(<<>>) = 0
  OBVIOUS
<1>2. Len(frames) = 1
  BY Zenon DEF FinishDelete
<1> QED BY <1>1, <1>2, TopTypes

LEMMA NextStranded == ASSUME TreeTypes, StrandedInv, [Next]_vars PROVE StrandedInv'
<1>1. ASSUME UNCHANGED <<dirMap, writing, dirs, adrift, mailbox>> PROVE StrandedInv'
  BY <1>1, KeepStranded
<1>2. ASSUME NEW l \in Lists, ReadNext(l) \/ WriteNext(l) \/ TakeId(l) PROVE StrandedInv'
  BY <1>1, <1>2 DEF ReadNext, WriteNext, TakeId, fileManager, disk, history
<1>3. ASSUME NEW m \in Requests, Send(m), UNCHANGED <<dirMap, writing, dirs, adrift>>
      PROVE  StrandedInv'
  BY <1>3, SentOne, KeepStranded
<1>4. ASSUME NEW l \in Lists, SetUp(l) PROVE StrandedInv'
  <2>1. [op |-> "add", list |-> l] \in Requests
    BY DEF Requests
  <2> QED BY <1>3, <1>4, <2>1 DEF SetUp, Send, disk
<1>5. ASSUME NEW l \in Lists, NEW p \in Paths, GoTo(l, p) PROVE StrandedInv'
  <2>1. [op |-> "chdir", form |-> formId[l], path |-> p] \in Requests
    BY <1>5 DEF GoTo, Input, TreeTypes, IdsAreCounted, Open, Requests, Chdirs
  <2> QED BY <1>3, <1>5, <2>1 DEF GoTo, disk
<1>6. ASSUME NEW l \in Lists, NEW p \in Paths, NEW o \in {"newfile", "newdir", "delete"},
             Ask(l, [op |-> o, path |-> p])
      PROVE  StrandedInv'
  <2>1. [op |-> o, path |-> p] \in Requests
    BY DEF Requests
  <2> QED BY <1>3, <1>6, <2>1 DEF Ask, disk, history
<1>7. ASSUME NEW l \in Lists, OpenEditor(l) \/ Save(l) \/ Reload(l) \/ React(l) PROVE StrandedInv'
  BY <1>1, <1>7 DEF OpenEditor, Save, Reload, React, fileManager, disk, history
<1>8. ASSUME NEW o, Receive(o), o # "chdir", mailbox' = Tail(mailbox), dirs \subseteq dirs',
             UNCHANGED <<dirMap, writing, adrift>>
      PROVE  StrandedInv'
  BY <1>8, TookOne, KeepStranded DEF Receive, Moves
<1>9. ASSUME HandleNewFile \/ HandleNewDir \/ HandleDelete \/ HandleAdd PROVE StrandedInv'
  <2>1. CASE HandleNewFile
    BY <1>8, <2>1 DEF HandleNewFile
  <2>2. CASE HandleNewDir
    BY <1>8, <2>2 DEF HandleNewDir
  <2>3. CASE HandleDelete
    BY <1>8, <2>3 DEF HandleDelete, disk, history
  <2>4. CASE HandleAdd
    BY <1>8, <2>4 DEF HandleAdd, disk, history
  <2> QED BY <1>9, <2>1, <2>2, <2>3, <2>4
<1>10. ASSUME DeleteChild PROVE StrandedInv'
  BY <1>1, <1>10 DEF DeleteChild, disk, history
<1>11. ASSUME DeleteInner PROVE StrandedInv'
  <2>1. /\ UNCHANGED <<dirMap, writing, mailbox>>
        /\ dirs' = dirs \ (IF Erased(Top.path) THEN {Top.path} ELSE {})
        /\ adrift' = adrift \cup (IF Erased(Top.path) THEN FormsIn(Top.path) ELSE {})
    BY <1>11 DEF DeleteInner, Erase
  <2> QED BY <2>1 DEF StrandedInv, FormsIn, BeingMoved
<1>12. ASSUME FinishDelete PROVE StrandedInv'
  <2>1. PICK home \in SendHome(Top.path) : mailbox' = mailbox \o home
    BY <1>12 DEF FinishDelete
  <2>2. \A i \in Ids : Sent(i, mailbox') <=> Sent(i, mailbox) \/ i \in FormsIn(Top.path)
    BY <1>12, <2>1, DeleteTop, SentMany
  <2>3. /\ UNCHANGED <<dirMap, writing, adrift>>
        /\ dirs' = dirs \ (IF Erased(Top.path) THEN {Top.path} ELSE {})
    BY <1>12 DEF FinishDelete, Erase
  <2> QED BY <2>2, <2>3 DEF StrandedInv, FormsIn, BeingMoved
<1>13. ASSUME HandleChdir PROVE StrandedInv'
  <2>1. /\ Head(mailbox) \in Chdirs /\ None \notin Chdirs /\ mailbox # <<>>
        /\ mailbox' = Tail(mailbox)
        /\ writing = None /\ writing' = Head(mailbox) /\ UNCHANGED <<dirMap, dirs, adrift>>
    BY <1>13, ReceiveTypes, RequestKinds, ChdirFacts DEF HandleChdir, Receive, Idle, disk, history
  <2>2. \A i \in Ids : Sent(i, mailbox) <=> Sent(i, mailbox') \/ Moves(i, Head(mailbox))
    BY <2>1, TookOne
  <2> QED BY <2>1, <2>2 DEF StrandedInv, BeingMoved, Moves
<1>14. ASSUME FinishChdir PROVE StrandedInv'
  <2>1. writing \in Chdirs /\ writing.form \in Ids /\ writing.path \in Paths
    BY <1>14, TreeFacts, ChdirFacts DEF FinishChdir
  <2>2. /\ writing' = None /\ UNCHANGED <<dirs, mailbox>>
        /\ dirMap' = [dirMap EXCEPT ![writing.form] = writing.path]
        /\ adrift' = (adrift \ {writing.form})
                       \cup (IF writing.path \in dirs THEN {} ELSE {writing.form})
    BY <1>14 DEF FinishChdir, disk
  <2>3. \A i \in Ids : dirMap'[i] = IF i = writing.form THEN writing.path ELSE dirMap[i]
    BY <2>1, <2>2, TreeFacts
  <2> QED BY <2>1, <2>2, <2>3 DEF StrandedInv, BeingMoved
<1>15. ASSUME UNCHANGED vars PROVE StrandedInv'
  BY <1>1, <1>15 DEF vars, fileManager, disk, history
<1> QED
  BY <1>2, <1>4, <1>5, <1>6, <1>7, <1>9, <1>10, <1>11, <1>12, <1>13, <1>14, <1>15, ClickTypes,
     SubmitDeleteTypes DEF Next

-----------------------------------------------------------------------------
(* What the lists show. *)

LEMMA SameListing ==
  ASSUME NEW d \in Paths, NEW p \in Paths, d # Parent(p),
         \A q \in Paths \ {p} : /\ q \in dirs' <=> q \in dirs
                                /\ q \in files' <=> q \in files,
         d = p => (d \in dirs' <=> d \in dirs),
         dirs \subseteq Paths, dirs' \subseteq Paths, files \subseteq Paths, files' \subseteq Paths
  PROVE  Listing(d)' = Listing(d)
<1>1. \A n \in Names : Append(d, n) # p
  BY ParentFacts
<1>2. \A n \in Names : /\ Append(d, n) \in dirs' <=> Append(d, n) \in dirs
                       /\ Append(d, n) \in files' <=> Append(d, n) \in files
  BY <1>1
<1>3. ChildrenIn(d, dirs') = ChildrenIn(d, dirs) /\ ChildrenIn(d, files') = ChildrenIn(d, files)
  BY <1>2 DEF ChildrenIn
<1>4. d \in dirs' <=> d \in dirs
  OBVIOUS
<1> QED BY <1>3, <1>4 DEF Listing

Expects(l) == \E k \in 1..Len(inbox[l]) : inbox[l][k] = dirName[l]
Fresh(l) == Open(l) /\ l \notin unannounced => view[l] = Listing(dirName[l]) \/ Expects(l)

LEMMA FreshIsAll == FreshInv <=> \A l \in Lists : Fresh(l)
BY DEF FreshInv, Fresh, Expects

LEMMA KeepFresh ==
  ASSUME NEW l \in Lists, Fresh(l), Open(l)' => Open(l), unannounced \subseteq unannounced',
         dirName'[l] = dirName[l], view'[l] = view[l],
         NEW d, d = dirName[l], Listing(d)' = Listing(d),
         \A k \in 1..Len(inbox[l]) : k \in 1..Len(inbox'[l]) /\ inbox'[l][k] = inbox[l][k]
  PROVE  Fresh(l)'
BY DEF Fresh, Expects

LEMMA QuietFresh ==
  ASSUME FreshInv, UNCHANGED <<dirs, files, dirName, view>>, unannounced \subseteq unannounced',
         \A l \in Lists : Open(l)' => Open(l),
         \A l \in Lists : \A k \in 1..Len(inbox[l]) :
           k \in 1..Len(inbox'[l]) /\ inbox'[l][k] = inbox[l][k]
  PROVE  FreshInv'
<1> SUFFICES ASSUME NEW l \in Lists PROVE Fresh(l)'
  BY DEF FreshInv, Fresh, Expects
<1>1. PICK d : d = dirName[l]
  OBVIOUS
<1>2. Listing(d)' = Listing(d)
  BY DEF Listing, ChildrenIn
<1> QED BY <1>1, <1>2, FreshIsAll, KeepFresh

(* A file or a folder p comes or goes: only its folder and itself look different. *)
LEMMA ChangedFresh ==
  ASSUME TreeTypes, FreshInv, NEW p \in Paths, p # Root,
         dirs' \subseteq Paths, files' \subseteq Paths,
         \A q \in Paths \ {p} : (q \in dirs' <=> q \in dirs) /\ (q \in files' <=> q \in files),
         UNCHANGED <<step, dirName, view>>, unannounced \subseteq unannounced',
         \A l \in Lists : \A k \in 1..Len(inbox[l]) :
           k \in 1..Len(inbox'[l]) /\ inbox'[l][k] = inbox[l][k],
         \A l \in Lists : Open(l) /\ dirName[l] = Parent(p) =>
           l \in unannounced' \/ \E k \in 1..Len(inbox'[l]) : inbox'[l][k] = Parent(p),
         dirs' = dirs \/ \A l \in Lists : Open(l) /\ dirName[l] = p => l \in unannounced'
  PROVE  FreshInv'
<1> SUFFICES ASSUME NEW l \in Lists, Open(l) PROVE Fresh(l)'
  BY DEF FreshInv, Fresh, Expects, Open
<1>1. PICK d : d = dirName[l]
  OBVIOUS
<1>2. d \in Paths
  BY <1>1 DEF TreeTypes, TypeOK, PlacesInv
<1>3. CASE d = Parent(p)
  BY <1>1, <1>3 DEF Fresh, Expects
<1>4. CASE d # Parent(p) /\ d = p /\ dirs' # dirs
  BY <1>1, <1>4 DEF Fresh
<1>5. CASE d # Parent(p) /\ (d = p => dirs' = dirs)
  <2>1. dirs \subseteq Paths /\ files \subseteq Paths
    BY TreeFacts
  <2>2. Listing(d)' = Listing(d)
    BY <1>2, <1>5, <2>1, SameListing
  <2> QED BY <1>1, <2>2, FreshIsAll, KeepFresh DEF Open
<1> QED BY <1>3, <1>4, <1>5

LEMMA RenderFresh ==
  ASSUME TreeTypes, FreshInv, NEW l \in Lists, NEW d \in Paths \cup {None}, Render(l, d),
         UNCHANGED <<dirs, files>>,
         \A m \in Lists \ {l} : (Open(m)' => Open(m)) /\ inbox'[m] = inbox[m]
  PROVE  FreshInv'
<1> SUFFICES ASSUME NEW m \in Lists PROVE Fresh(m)'
  BY DEF FreshInv, Fresh, Expects
<1> DEFINE f == IF d = None THEN Root ELSE d
<1>1. /\ dirName' = [dirName EXCEPT ![l] = f] /\ view' = [view EXCEPT ![l] = Listing(f)]
      /\ unannounced' = unannounced \ {l}
  BY DEF Render
<1>2. CASE m = l
  <2>1. dirName'[l] = f /\ view'[l] = Listing(f)
    BY <1>1 DEF TreeTypes, TypeOK
  <2>2. Listing(f)' = Listing(f)
    BY DEF Listing, ChildrenIn
  <2> HIDE DEF f
  <2> QED BY <1>2, <2>1, <2>2 DEF Fresh
<1>3. CASE m # l
  <2>1. dirName'[m] = dirName[m] /\ view'[m] = view[m]
    BY <1>1, <1>3 DEF TreeTypes, TypeOK
  <2>2. m \in unannounced => m \in unannounced'
    BY <1>1, <1>3
  <2>3. PICK e : e = dirName[m]
    OBVIOUS
  <2>4. Listing(e)' = Listing(e)
    BY DEF Listing, ChildrenIn
  <2>5. Fresh(m)
    BY FreshIsAll
  <2> QED BY <1>3, <2>1, <2>2, <2>3, <2>4, <2>5 DEF Fresh, Expects
<1> QED BY <1>2, <1>3

LEMMA ReactFresh ==
  ASSUME TreeTypes, ListenersInv, FreshInv, NEW l \in Lists, React(l)
  PROVE  FreshInv'
<1>1. /\ inbox[l] # <<>> /\ UNCHANGED <<dirs, files, step>> /\ inbox'[l] = Tail(inbox[l])
      /\ \A m \in Lists \ {l} : inbox'[m] = inbox[m]
  BY TreeFacts DEF React, disk, ids
<1>2. Open(l) /\ formId[l] \in Ids /\ dirName[l] \in Paths
  BY <1>1 DEF ListenersInv, TreeTypes, TypeOK, PlacesInv, IdsAreCounted, Open
<1>3. Read(formId[l]) \subseteq Paths \cup {None}
  BY <1>2, TreeFacts, ChdirFacts DEF Read
<1>4. \/ \E d \in Paths \cup {None} : Render(l, d)
      \/ Head(inbox[l]) # dirName[l] /\ UNCHANGED <<dirName, view, unannounced>>
  BY <1>2, <1>3 DEF React
<1>5. CASE \E d \in Paths \cup {None} : Render(l, d)
  BY <1>1, <1>5, RenderFresh DEF Open
<1>6. CASE Head(inbox[l]) # dirName[l] /\ UNCHANGED <<dirName, view, unannounced>>
  <2> SUFFICES ASSUME NEW m \in Lists PROVE Fresh(m)'
    BY DEF FreshInv, Fresh, Expects
  <2>1. PICK d : d = dirName[m]
    OBVIOUS
  <2>2. Listing(d)' = Listing(d)
    BY <1>1 DEF Listing, ChildrenIn
  <2>3. Fresh(m)
    BY FreshIsAll
  <2>4. ASSUME m = l, Expects(l) PROVE Expects(l)'
    <3>1. /\ Len(inbox[l]) \in Nat \ {0} /\ Head(inbox[l]) = inbox[l][1]
          /\ Len(inbox'[l]) = Len(inbox[l]) - 1
          /\ \A k \in 1..Len(inbox'[l]) : inbox'[l][k] = inbox[l][k + 1]
      BY <1>1, HeadTail, TreeFacts
    <3> PICK q : q = inbox[l]
      OBVIOUS
    <3> PICK r : r = inbox'[l]
      OBVIOUS
    <3>2. PICK k \in 1..Len(q) : q[k] = dirName[l]
      BY <2>4 DEF Expects
    <3>3. k # 1
      BY <1>6, <3>1, <3>2
    <3>4. k - 1 \in 1..Len(r) /\ (k - 1) + 1 = k
      BY <3>1, <3>3
    <3>5. r[k - 1] = q[k]
      BY <3>1, <3>4
    <3> QED BY <1>6, <3>2, <3>4, <3>5 DEF Expects
  <2>5. Expects(m) => Expects(m)'
    BY <1>1, <1>6, <2>4 DEF Expects
  <2> QED BY <1>1, <1>6, <2>1, <2>2, <2>3, <2>5 DEF Fresh, Open
<1> QED BY <1>4, <1>5, <1>6

LEMMA SaveFresh ==
  ASSUME TreeTypes, TreeTypes', FreshInv, NEW l \in Lists, Save(l)
  PROVE  FreshInv'
<1>1. PICK p \in editing :
        /\ files' = files \cup {p}
        /\ unannounced' = unannounced \cup (IF p \in files THEN {} ELSE Showing({Parent(p)}))
  BY DEF Save
<1>2. UNCHANGED <<dirs, step, dirName, view, inbox>>
  BY DEF Save, fileLists, ids
<1>3. p \in Paths /\ p # Root
  BY DEF TreeTypes, TypeOK, PlacesInv
<1>4. CASE p \in files
  <2>1. files' = files
    BY <1>1, <1>4
  <2> QED BY <1>1, <1>2, <2>1, QuietFresh DEF Open
<1>5. CASE p \notin files
  <2>1. \A m \in Lists : Open(m) /\ dirName[m] = Parent(p) => m \in unannounced'
    BY <1>1, <1>5 DEF Showing
  <2> QED BY <1>1, <1>2, <1>3, <2>1, TreeFacts, ChangedFresh
<1> QED BY <1>4, <1>5

LEMMA HandleNewFresh ==
  ASSUME TreeTypes, TreeTypes', FreshInv, HandleNewFile \/ HandleNewDir
  PROVE  FreshInv'
<1>0. PICK p : p = Head(mailbox).path
  OBVIOUS
<1>1. p \in Paths /\ p # Root /\ Parent(p) \in Paths
  BY <1>0, ReceiveTypes, RequestKinds, ParentFacts DEF HandleNewFile, HandleNewDir
<1>2. UNCHANGED <<step, dirName, view>>
  BY DEF HandleNewFile, HandleNewDir, ids
<1>3. \/ UNCHANGED <<dirs, files, inbox, unannounced>>
      \/ files' = files \cup {p} /\ dirs' = dirs /\ Update(Parent(p), {})
      \/ dirs' = dirs \cup {p} /\ files' = files /\ Update(Parent(p), {p})
  BY <1>0 DEF HandleNewFile, HandleNewDir
<1>4. CASE UNCHANGED <<dirs, files, inbox, unannounced>>
  BY <1>2, <1>4, QuietFresh DEF Open
<1>5. ASSUME NEW others \in {{}, {p}}, Update(Parent(p), others),
             files' \subseteq files \cup {p}, files \subseteq files',
             dirs' \subseteq dirs \cup {p}, dirs \subseteq dirs',
             dirs' = dirs \/ others = {p}
      PROVE  FreshInv'
  <2>1. Notify(Parent(p)) /\ unannounced' = unannounced \cup (Showing({Parent(p)}) \ listeners) \cup Showing(others)
    BY <1>5 DEF Update
  <2>2. /\ \A l \in Lists : \A k \in 1..Len(inbox[l]) :
              k \in 1..Len(inbox'[l]) /\ inbox'[l][k] = inbox[l][k]
        /\ \A l \in listeners : \E k \in 1..Len(inbox'[l]) : inbox'[l][k] = Parent(p)
    BY <1>1, <2>1, NotifyFacts
  <2>3. \A m \in Lists : Open(m) /\ dirName[m] = Parent(p) => m \in unannounced' \/ m \in listeners
    BY <2>1 DEF Showing
  <2>4. dirs' = dirs \/ \A m \in Lists : Open(m) /\ dirName[m] = p => m \in unannounced'
    BY <1>5, <2>1 DEF Showing
  <2>5. dirs' \subseteq Paths /\ files' \subseteq Paths
    BY DEF TreeTypes, TypeOK
  <2>6. \A q \in Paths \ {p} : (q \in dirs' <=> q \in dirs) /\ (q \in files' <=> q \in files)
    BY <1>5
  <2>7. unannounced \subseteq unannounced'
    BY <2>1
  <2> QED BY <1>1, <1>2, <2>2, <2>3, <2>4, <2>5, <2>6, <2>7, ChangedFresh
<1>6. CASE files' = files \cup {p} /\ dirs' = dirs /\ Update(Parent(p), {})
  BY <1>5, <1>6
<1>7. CASE dirs' = dirs \cup {p} /\ files' = files /\ Update(Parent(p), {p})
  BY <1>5, <1>7
<1> QED BY <1>3, <1>4, <1>6, <1>7

LEMMA DeleteFresh ==
  ASSUME TreeTypes, TreeTypes', FreshInv, DeleteInner \/ FinishDelete
  PROVE  FreshInv'
<1>0. PICK p : p = Top.path
  OBVIOUS
<1>1. p \in Paths /\ p # Root /\ Parent(p) \in Paths
  <2>1. frames # <<>>
    <3>1. Len(<<>>) = 0
      OBVIOUS
    <3>2. CASE DeleteInner
      BY <3>1, <3>2 DEF DeleteInner
    <3>3. CASE FinishDelete
      <4>1. Len(frames) = 1
        BY <3>3, Zenon DEF FinishDelete
      <4> QED BY <3>1, <4>1
    <3> QED BY <3>2, <3>3
  <2> QED BY <1>0, <2>1, TopTypes, ParentFacts
<1>2. /\ UNCHANGED <<step, dirName, view>>
      /\ dirs' = dirs \ (IF Erased(p) THEN {p} ELSE {}) /\ files' = files \ {p}
      /\ \/ UNCHANGED inbox /\ unannounced' = unannounced \cup Showing({p, Parent(p)})
         \/ Update(Parent(p), {p})
  BY <1>0 DEF DeleteInner, FinishDelete, Erase, fileLists, ids
<1>3. \A q \in Paths \ {p} : (q \in dirs' <=> q \in dirs) /\ (q \in files' <=> q \in files)
  BY <1>2
<1>4. dirs' \subseteq Paths /\ files' \subseteq Paths
  BY DEF TreeTypes, TypeOK
<1>5. CASE UNCHANGED inbox /\ unannounced' = unannounced \cup Showing({p, Parent(p)})
  <2>1. \A m \in Lists : Open(m) /\ dirName[m] \in {p, Parent(p)} => m \in unannounced'
    BY <1>5 DEF Showing
  <2> QED BY <1>1, <1>2, <1>3, <1>4, <1>5, <2>1, ChangedFresh
<1>6. CASE Update(Parent(p), {p})
  <2>1. Notify(Parent(p)) /\ unannounced' = unannounced \cup (Showing({Parent(p)}) \ listeners) \cup Showing({p})
    BY <1>6 DEF Update
  <2>2. /\ \A l \in Lists : \A k \in 1..Len(inbox[l]) :
              k \in 1..Len(inbox'[l]) /\ inbox'[l][k] = inbox[l][k]
        /\ \A l \in listeners : \E k \in 1..Len(inbox'[l]) : inbox'[l][k] = Parent(p)
    BY <1>1, <2>1, NotifyFacts
  <2>3. \A m \in Lists : Open(m) /\ dirName[m] = Parent(p) => m \in unannounced' \/ m \in listeners
    BY <2>1 DEF Showing
  <2>4. \A m \in Lists : Open(m) /\ dirName[m] = p => m \in unannounced'
    BY <2>1 DEF Showing
  <2>5. unannounced \subseteq unannounced'
    BY <2>1
  <2> QED BY <1>1, <1>2, <1>3, <1>4, <2>2, <2>3, <2>4, <2>5, ChangedFresh
<1> QED BY <1>2, <1>5, <1>6

LEMMA NextFresh ==
  ASSUME TreeTypes, TreeTypes', ListenersInv, FreshInv, [Next]_vars
  PROVE  FreshInv'
<1>1. ASSUME UNCHANGED <<dirs, files, dirName, view, inbox, unannounced>>,
             \A l \in Lists : Open(l)' => Open(l)
      PROVE  FreshInv'
  BY <1>1, QuietFresh
<1>2. ASSUME NEW l \in Lists, ReadNext(l) \/ WriteNext(l) \/ TakeId(l) PROVE FreshInv'
  <2>1. UNCHANGED <<dirs, files, dirName, view, inbox, unannounced>>
    BY <1>2 DEF ReadNext, WriteNext, TakeId, disk, fileLists, history
  <2>2. \A m \in Lists : Open(m)' => Open(m)
    BY <1>2 DEF ReadNext, WriteNext, TakeId, Advance, Open, TreeTypes, TypeOK
  <2> QED BY <1>1, <2>1, <2>2
<1>3. ASSUME NEW l \in Lists, SetUp(l) PROVE FreshInv'
  <2>1. Render(l, dirName[l]) /\ dirName[l] \in Paths \cup {None} /\ UNCHANGED <<dirs, files, inbox>>
    BY <1>3 DEF SetUp, disk, TreeTypes, TypeOK
  <2>2. \A m \in Lists \ {l} : Open(m)' => Open(m)
    BY <1>3 DEF SetUp, Advance, Open, TreeTypes, TypeOK
  <2> QED BY <2>1, <2>2, RenderFresh
<1>4. ASSUME UNCHANGED <<dirs, files, dirName, view, inbox, unannounced, step>> PROVE FreshInv'
  BY <1>1, <1>4 DEF Open
<1>5. ASSUME NEW l \in Lists, ClickFolder(l) \/ ClickBack(l) \/ SubmitNew(l) \/ ClickDelete(l)
      PROVE  FreshInv'
  BY <1>4, <1>5 DEF ClickFolder, ClickBack, GoTo, SubmitNew, ClickDelete, Ask, disk, fileLists,
     ids, history
<1>6. ASSUME NEW l \in Lists, OpenEditor(l) \/ Reload(l) PROVE FreshInv'
  BY <1>4, <1>6 DEF OpenEditor, Reload, disk, fileLists, ids, history
<1>7. ASSUME HandleDelete \/ DeleteChild \/ HandleChdir PROVE FreshInv'
  BY <1>4, <1>7 DEF HandleDelete, DeleteChild, HandleChdir, disk, fileLists, ids, history
<1>8. ASSUME FinishChdir PROVE FreshInv'
  <2>1. /\ UNCHANGED <<dirs, files, dirName, view, step>> /\ Notify(None)
        /\ unannounced \subseteq unannounced'
    BY <1>8 DEF FinishChdir, Update, disk, ids
  <2> QED BY <2>1, NotifyFacts, QuietFresh DEF Open
<1>9. ASSUME HandleAdd PROVE FreshInv'
  <2>1. /\ UNCHANGED <<dirs, files, dirName, view, step, unannounced>>
        /\ inbox' = [inbox EXCEPT ![Head(mailbox).list] = Append(@, changed)]
    BY <1>9 DEF HandleAdd, disk, ids, history
  <2>2. changed \in Paths \cup {None}
    BY TreeFacts
  <2>3. ASSUME NEW l \in Lists
        PROVE  \A k \in 1..Len(inbox[l]) : k \in 1..Len(inbox'[l]) /\ inbox'[l][k] = inbox[l][k]
    <3>1. PICK q \in Seq(Paths \cup {None}) : q = inbox[l]
      BY TreeFacts
    <3>2. /\ Len(Append(q, changed)) = Len(q) + 1 /\ Len(q) \in Nat
          /\ \A k \in 1..Len(q) : Append(q, changed)[k] = q[k]
      BY <2>2, AppendProperties, LenProperties
    <3>3. \A k \in 1..Len(q) : k \in 1..Len(Append(q, changed))
      BY <3>2
    <3>4. inbox'[l] \in {q, Append(q, changed)}
      BY <2>1, <3>1, TreeFacts
    <3> QED BY <3>1, <3>2, <3>3, <3>4
  <2> QED BY <2>1, <2>3, QuietFresh DEF Open
<1>10. ASSUME UNCHANGED vars PROVE FreshInv'
  BY <1>4, <1>10 DEF vars, disk, fileLists, ids, history
<1> QED
  BY <1>2, <1>3, <1>5, <1>6, <1>7, <1>8, <1>9, <1>10, SaveFresh, HandleNewFresh, DeleteFresh,
     ReactFresh DEF Next

-----------------------------------------------------------------------------
(* Where new files go. *)

LEMMA KeepShown ==
  ASSUME TreeTypes, ShownInv, UNCHANGED <<formId, currentDir>>, moved \subseteq moved',
         \A i \in Ids, d \in Paths \cup {None} : Goes(i, d) => Goes(i, d)'
  PROVE  ShownInv'
<1>1. \A i \in Ids, d \in Paths \cup {None} :
        Goes(i, d) => Ends(i, mailbox', d)
                        \/ (/\ ~Sent(i, mailbox')
                            /\ IF writing' # None /\ writing'.form = i
                                THEN writing'.path = d ELSE dirMap'[i] = d)
  BY DEF Goes, Now, BeingMoved
<1>2. \A l \in Lists : currentDir[l] \in Paths
  BY DEF TreeTypes, TypeOK
<1>3. \A i \in Ids : Goes(i, None)' \/ \E l \in Lists : formId'[l] = i
  BY DEF ShownInv
<1>4. ASSUME NEW l \in Lists \ moved', formId'[l] \in Ids
      PROVE  \/ Goes(formId[l], currentDir[l])'
             \/ Goes(formId[l], None)' /\ currentDir'[l] = Root
  <2>1. PICK i \in Ids : i = formId[l]
    BY <1>4
  <2>2. PICK d \in Paths : d = currentDir[l]
    BY <1>2
  <2>3. Goes(i, d) \/ (Goes(i, None) /\ d = Root)
    BY <1>4, <2>1, <2>2 DEF ShownInv
  <2>4. Goes(i, d)' \/ (Goes(i, None)' /\ d = Root)
    BY <2>3
  <2> QED BY <2>1, <2>2, <2>4 DEF Goes, Now, BeingMoved
<1> QED BY <1>3, <1>4 DEF ShownInv

LEMMA SameMoves ==
  ASSUME UNCHANGED <<dirMap, writing>>,
         NEW i, NEW d, Sent(i, mailbox') <=> Sent(i, mailbox),
         Ends(i, mailbox', d) <=> Ends(i, mailbox, d)
  PROVE  Goes(i, d) => Goes(i, d)'
BY DEF Goes, Now, BeingMoved

LEMMA TakeIdShown ==
  ASSUME TreeTypes, ListenersInv, ShownInv, NEW l \in Lists, TakeId(l)
  PROVE  ShownInv'
<1>1. /\ step[l] = "written" /\ formId' = [formId EXCEPT ![l] = next]
      /\ UNCHANGED <<mailbox, dirMap, writing, currentDir>>
      /\ moved' = moved \cup (IF \E m \in Lists : formId[m] = next THEN {l} ELSE {})
  BY DEF TakeId, Advance, fileManager, pages
<1>2. next \in Ids /\ formId[l] \notin Ids /\ currentDir[l] = Root
  BY <1>1 DEF TreeTypes, IdsAreCounted, ListenersInv, Open
<1>3. /\ formId'[l] = next
      /\ \A m \in Lists \ {l} : formId'[m] = formId[m]
  BY <1>1 DEF TreeTypes, TypeOK
<1>4. \A i \in Ids, d \in Paths \cup {None} : Goes(i, d) <=> Goes(i, d)'
  BY <1>1 DEF Goes, Now, BeingMoved
<1>5. \A i \in Ids : Goes(i, None)' \/ \E m \in Lists : formId'[m] = i
  BY <1>2, <1>3, <1>4 DEF ShownInv
<1>6. ASSUME NEW m \in Lists \ moved', formId'[m] \in Ids
      PROVE  \/ Goes(formId[m], currentDir[m])'
             \/ Goes(formId[m], None)' /\ currentDir'[m] = Root
  <2>1. PICK i \in Ids : i = formId'[m]
    BY <1>6
  <2>2. PICK d \in Paths : d = currentDir[m]
    BY DEF TreeTypes, TypeOK
  <2>3. Goes(i, d) \/ (Goes(i, None) /\ d = Root)
    <3>1. CASE m = l
      BY <1>1, <1>2, <1>3, <1>6, <2>1, <2>2, <3>1 DEF ShownInv
    <3>2. CASE m # l
      BY <1>1, <1>3, <1>6, <2>1, <2>2, <3>2 DEF ShownInv
    <3> QED BY <3>1, <3>2
  <2>4. Goes(i, d)' \/ (Goes(i, None)' /\ d = Root)
    BY <1>4, <2>3
  <2> QED BY <1>1, <2>1, <2>2, <2>4 DEF Goes, Now, BeingMoved
<1> QED BY <1>5, <1>6 DEF ShownInv

LEMMA GoToShown ==
  ASSUME TreeTypes, ShownInv, NEW l \in Lists, NEW p \in Paths, GoTo(l, p)
  PROVE  ShownInv'
<1> DEFINE m == [op |-> "chdir", form |-> formId[l], path |-> p]
<1>1. /\ Send(m) /\ currentDir' = [currentDir EXCEPT ![l] = p]
      /\ moved' = (moved \ {l}) \cup SharersOf(l)
      /\ UNCHANGED <<dirMap, writing, formId>>
  BY DEF GoTo, fileLists
<1>2. formId[l] \in Ids /\ m \in Requests
  BY DEF GoTo, Input, TreeTypes, IdsAreCounted, Open, Requests, Chdirs
<1>3. \A i \in Ids : Moves(i, m) <=> i = formId[l]
  BY DEF Moves
<1>4. m.path = p
  OBVIOUS
<1> HIDE DEF m
<1>5. /\ \A i \in Ids : Sent(i, mailbox') <=> Sent(i, mailbox) \/ Moves(i, m)
      /\ \A i \in Ids, d \in Paths \cup {None} :
           Ends(i, mailbox', d) <=>
             (Moves(i, m) /\ m.path = d) \/ (~Moves(i, m) /\ Ends(i, mailbox, d))
  BY <1>1, <1>2, SentOne
<1>6. \A i \in Ids \ {formId[l]}, d \in Paths \cup {None} : Goes(i, d) => Goes(i, d)'
  BY <1>1, <1>3, <1>5 DEF Goes, Now, BeingMoved
<1>7. \A i \in Ids : Goes(i, None)' \/ \E k \in Lists : formId'[k] = i
  <2> SUFFICES ASSUME NEW i \in Ids, i # formId[l]
               PROVE  Goes(i, None)' \/ \E k \in Lists : formId'[k] = i
    BY <1>1
  <2>1. Goes(i, None) \/ \E k \in Lists : formId[k] = i
    BY DEF ShownInv
  <2> QED BY <1>1, <1>6, <2>1
<1>8. ASSUME NEW k \in Lists \ moved', formId'[k] \in Ids
      PROVE  \/ Goes(formId[k], currentDir[k])'
             \/ Goes(formId[k], None)' /\ currentDir'[k] = Root
  <2>1. PICK i \in Ids : i = formId[k]
    BY <1>1, <1>8
  <2>2. CASE k = l
    <3>1. Ends(i, mailbox', p)
      BY <1>3, <1>4, <1>5, <2>1, <2>2
    <3>2. currentDir'[k] = p
      BY <1>1, <2>2 DEF TreeTypes, TypeOK
    <3> QED BY <1>1, <2>1, <3>1, <3>2 DEF Goes
  <2>3. CASE k # l
    <3>1. k \notin moved /\ i # formId[l]
      BY <1>1, <1>8, <2>1, <2>3 DEF SharersOf
    <3>2. PICK d \in Paths : d = currentDir[k] /\ d = currentDir'[k]
      BY <1>1, <2>3 DEF TreeTypes, TypeOK
    <3>3. Goes(i, d) \/ (Goes(i, None) /\ d = Root)
      BY <2>1, <3>1, <3>2 DEF ShownInv
    <3>4. Goes(i, d)' \/ (Goes(i, None)' /\ d = Root)
      BY <1>6, <3>1, <3>3
    <3> QED BY <1>1, <2>1, <3>2, <3>4 DEF Goes, Now, BeingMoved
  <2> QED BY <2>2, <2>3
<1> QED BY <1>7, <1>8 DEF ShownInv

LEMMA ReloadShown ==
  ASSUME TreeTypes, ShownInv, NEW l \in Lists, Reload(l)
  PROVE  ShownInv'
<1>1. /\ UNCHANGED <<mailbox, dirMap, writing, formId>> /\ moved' = moved \cup {l}
      /\ \A k \in Lists \ {l} : currentDir'[k] = currentDir[k]
  BY DEF Reload, fileManager, fileLists, TreeTypes, TypeOK
<1> QED BY <1>1 DEF ShownInv, Goes, Now, BeingMoved

LEMMA ChdirShown ==
  ASSUME TreeTypes, ShownInv, HandleChdir \/ FinishChdir
  PROVE  ShownInv'
<1>1. CASE HandleChdir
  <2>1. /\ Head(mailbox) \in Chdirs /\ Head(mailbox).op = "chdir" /\ None \notin Chdirs
        /\ mailbox # <<>> /\ mailbox' = Tail(mailbox)
        /\ writing = None /\ writing' = Head(mailbox)
        /\ UNCHANGED <<dirMap, formId, currentDir, moved>>
    BY <1>1, ReceiveTypes, RequestKinds, ChdirFacts
    DEF HandleChdir, Receive, Idle, fileLists, pages, history
  <2>2. /\ \A i \in Ids : Sent(i, mailbox) <=> Sent(i, mailbox') \/ Moves(i, Head(mailbox))
        /\ \A i \in Ids, d \in Paths \cup {None} :
              Ends(i, mailbox, d) <=>
                \/ Ends(i, mailbox', d)
                \/ /\ ~Sent(i, mailbox') /\ Moves(i, Head(mailbox))
                   /\ Head(mailbox).path = d
    BY <2>1, TookOne
  <2>3. \A i \in Ids, d \in Paths \cup {None} : Goes(i, d) => Goes(i, d)'
    BY <2>1, <2>2 DEF Goes, Now, BeingMoved, Moves
  <2> QED BY <2>1, <2>3, KeepShown
<1>2. CASE FinishChdir
  <2>1. writing \in Chdirs /\ writing.form \in Ids /\ writing.path \in Paths
    BY <1>2, TreeFacts, ChdirFacts DEF FinishChdir
  <2>2. /\ writing # None /\ writing' = None /\ UNCHANGED <<mailbox, formId, currentDir, moved>>
        /\ dirMap' = [dirMap EXCEPT ![writing.form] = writing.path]
    BY <1>2 DEF FinishChdir, pages
  <2>3. \A i \in Ids : dirMap'[i] = IF i = writing.form THEN writing.path ELSE dirMap[i]
    BY <2>1, <2>2, TreeFacts
  <2>4. \A i \in Ids, d \in Paths \cup {None} : Goes(i, d) => Goes(i, d)'
    BY <2>2, <2>3 DEF Goes, Now, BeingMoved
  <2> QED BY <2>2, <2>4, KeepShown
<1> QED BY <1>1, <1>2

LEMMA FinishDeleteShown ==
  ASSUME TreeTypes, ShownInv, FinishDelete
  PROVE  ShownInv'
<1>0. PICK p \in Paths : p = Top.path /\ p # Root
  BY DeleteTop
<1>1. PICK home \in SendHome(p) : mailbox' = mailbox \o home
  BY <1>0 DEF FinishDelete
<1>2. /\ \A i \in Ids : Sent(i, mailbox') <=> Sent(i, mailbox) \/ i \in FormsIn(p)
      /\ \A i \in Ids \ FormsIn(p), d \in Paths \cup {None} :
           Ends(i, mailbox', d) <=> Ends(i, mailbox, d)
  BY <1>0, <1>1, SentMany
<1>3. /\ UNCHANGED <<dirMap, writing, formId, currentDir>>
      /\ moved' = moved \cup {l \in Lists : formId[l] \in FormsIn(p)}
  BY <1>0 DEF FinishDelete, pages
<1>4. \A i \in Ids \ FormsIn(p), d \in Paths \cup {None} : Goes(i, d) => Goes(i, d)'
  BY <1>2, <1>3 DEF Goes, Now, BeingMoved
<1>5. \A i \in FormsIn(p) : ~Goes(i, None)
  <2> SUFFICES ASSUME NEW i \in FormsIn(p), Goes(i, None) PROVE FALSE
    OBVIOUS
  <2>1. i \in Ids /\ dirMap[i] = p /\ p # None
    BY <1>0, NoneAssumption DEF FormsIn
  <2>2. ~Ends(i, mailbox, None)
    <3> SUFFICES ASSUME NEW k \in 1..Len(mailbox), Moves(i, mailbox[k]), mailbox[k].path = None
                 PROVE  FALSE
      BY DEF Ends
    <3>1. mailbox[k] \in Requests
      BY TreeFacts, ElementOfSeq
    <3> QED BY <3>1, RequestKinds, NoneAssumption DEF Moves
  <2>3. writing # None => writing.path # None
    BY TreeFacts, ChdirFacts
  <2> QED BY <2>1, <2>2, <2>3 DEF Goes, Now, BeingMoved
<1>6. \A i \in Ids : Goes(i, None)' \/ \E k \in Lists : formId'[k] = i
  <2> SUFFICES ASSUME NEW i \in Ids PROVE Goes(i, None)' \/ \E k \in Lists : formId[k] = i
    BY <1>3
  <2>1. Goes(i, None) \/ \E k \in Lists : formId[k] = i
    BY DEF ShownInv
  <2> QED BY <1>4, <1>5, <2>1
<1>7. ASSUME NEW k \in Lists \ moved', formId'[k] \in Ids
      PROVE  \/ Goes(formId[k], currentDir[k])'
             \/ Goes(formId[k], None)' /\ currentDir'[k] = Root
  <2>1. PICK i \in Ids : i = formId[k]
    BY <1>3, <1>7
  <2>2. k \notin moved /\ i \notin FormsIn(p)
    BY <1>3, <1>7, <2>1
  <2>3. PICK d \in Paths : d = currentDir[k]
    BY DEF TreeTypes, TypeOK
  <2>4. Goes(i, d) \/ (Goes(i, None) /\ d = Root)
    BY <2>1, <2>2, <2>3 DEF ShownInv
  <2>5. Goes(i, d)' \/ (Goes(i, None)' /\ d = Root)
    BY <1>4, <2>2, <2>4
  <2> QED BY <1>3, <2>1, <2>3, <2>5 DEF Goes, Now, BeingMoved
<1> QED BY <1>6, <1>7 DEF ShownInv

LEMMA NextShown ==
  ASSUME TreeTypes, ListenersInv, ShownInv, [Next]_vars
  PROVE  ShownInv'
<1>1. ASSUME UNCHANGED <<mailbox, dirMap, writing, formId, currentDir, moved>> PROVE ShownInv'
  <2>1. \A i \in Ids, d \in Paths \cup {None} : Goes(i, d) => Goes(i, d)'
    BY <1>1, SameMoves
  <2> QED BY <1>1, <2>1, KeepShown
<1>2. ASSUME UNCHANGED <<dirMap, writing, formId, currentDir, moved>>,
             NEW m \in Requests, Send(m), m.op # "chdir"
      PROVE  ShownInv'
  <2>1. \A i \in Ids, d \in Paths \cup {None} : Goes(i, d) => Goes(i, d)'
    BY <1>2, SentOne DEF Goes, Now, BeingMoved, Moves
  <2> QED BY <1>2, <2>1, KeepShown
<1>3. ASSUME UNCHANGED <<dirMap, writing, formId, currentDir, moved>>,
             NEW o, Receive(o), mailbox' = Tail(mailbox), o # "chdir"
      PROVE  ShownInv'
  <2>1. \A i \in Ids, d \in Paths \cup {None} : Goes(i, d) => Goes(i, d)'
    BY <1>3, TookOne DEF Goes, Now, BeingMoved, Moves, Receive
  <2> QED BY <1>3, <2>1, KeepShown
<1>4. ASSUME NEW l \in Lists, ReadNext(l) \/ WriteNext(l) \/ OpenEditor(l) \/ Save(l) \/ React(l)
      PROVE  ShownInv'
  BY <1>1, <1>4 DEF ReadNext, WriteNext, OpenEditor, Save, React, fileManager, fileLists, pages,
     history
<1>5. ASSUME NEW l \in Lists, SetUp(l) PROVE ShownInv'
  <2>1. [op |-> "add", list |-> l] \in Requests
    BY DEF Requests
  <2> QED BY <1>2, <1>5, <2>1 DEF SetUp, Send, pages
<1>6. ASSUME NEW l \in Lists, NEW p \in Paths, NEW o \in {"newfile", "newdir", "delete"},
             Ask(l, [op |-> o, path |-> p])
      PROVE  ShownInv'
  <2>1. [op |-> o, path |-> p] \in Requests
    BY DEF Requests
  <2> QED BY <1>2, <1>6, <2>1 DEF Ask, fileLists, history
<1>7. ASSUME HandleNewFile \/ HandleNewDir \/ HandleDelete \/ HandleAdd PROVE ShownInv'
  <2>1. CASE HandleNewFile
    BY <1>3, <2>1 DEF HandleNewFile, pages
  <2>2. CASE HandleNewDir
    BY <1>3, <2>2 DEF HandleNewDir, pages
  <2>3. CASE HandleDelete
    BY <1>3, <2>3 DEF HandleDelete, fileLists, pages, history
  <2>4. CASE HandleAdd
    BY <1>3, <2>4 DEF HandleAdd, pages, history
  <2> QED BY <1>7, <2>1, <2>2, <2>3, <2>4
<1>8. ASSUME DeleteChild \/ DeleteInner PROVE ShownInv'
  BY <1>1, <1>8 DEF DeleteChild, DeleteInner, fileLists, pages, history
<1>9. ASSUME UNCHANGED vars PROVE ShownInv'
  BY <1>1, <1>9 DEF vars, fileManager, fileLists, pages, history
<1> QED
  BY <1>4, <1>5, <1>6, <1>7, <1>8, <1>9, TakeIdShown, GoToShown, ClickTypes, SubmitDeleteTypes,
     ReloadShown, ChdirShown, FinishDeleteShown DEF Next

-----------------------------------------------------------------------------
(* The theorems. *)

LEMMA InitFolders == Init => FoldersInv
<1> SUFFICES ASSUME Init PROVE FoldersInv
  OBVIOUS
<1>1. TreeTypes
  BY InitTree
<1>2. /\ mailbox = <<>> /\ listeners = {} /\ writing = None /\ Len(<<>>) = 0
      /\ \A i \in Ids : dirMap[i] = None
      /\ \A l \in Lists : ~Open(l) /\ inbox[l] = <<>> /\ currentDir[l] = Root /\ formId[l] = -1
  BY DEF Init, Open
<1>3. \A i \in Ids : ~Sent(i, mailbox) /\ Goes(i, None)
  BY <1>2 DEF Sent, Goes, Now, BeingMoved
<1>4. ListenersInv
  BY <1>2 DEF ListenersInv, Listed
<1>5. FollowInv /\ FreshInv
  BY <1>2 DEF FollowInv, FreshInv
<1>6. StrandedInv /\ ShownInv
  BY <1>2, <1>3 DEF StrandedInv, ShownInv
<1> QED BY <1>1, <1>4, <1>5, <1>6 DEF FoldersInv

LEMMA NextFolders == FoldersInv /\ [Next]_vars => FoldersInv'
<1> SUFFICES ASSUME FoldersInv, [Next]_vars PROVE FoldersInv'
  OBVIOUS
<1>1. TreeTypes /\ ListenersInv /\ FollowInv /\ FreshInv /\ StrandedInv /\ ShownInv
  BY DEF FoldersInv
<1>2. TreeTypes'
  BY <1>1, NextTypes
<1> QED
  BY <1>1, <1>2, NextListeners, NextFollow, NextFresh, NextStranded, NextShown DEF FoldersInv

LEMMA FoldersHold == Spec => []FoldersInv
BY InitFolders, NextFolders, PTL DEF Spec

(* At rest nobody waits for an update. *)
LEMMA AtRest ==
  ASSUME FoldersInv, Rest, NEW l \in Lists, Open(l)
  PROVE  /\ dirMap[formId[l]] \in {None, dirName[l]} /\ formId[l] \in Ids
         /\ dirMap[formId[l]] = None => dirName[l] = Root
         /\ mailbox = <<>> /\ writing = None /\ \A i \in Ids : ~Sent(i, mailbox)
         /\ Len(inbox[l]) = 0
<1>1. /\ mailbox = <<>> /\ writing = None /\ inbox[l] = <<>> /\ Len(<<>>) = 0
  BY DEF Rest, Idle
<1>2. l \in listeners
  BY <1>1 DEF FoldersInv, ListenersInv, Listed
<1>3. ~Told(l) /\ ~BeingMoved(formId[l])
  BY <1>1, <1>2 DEF Told, BeingMoved
<1>4. formId[l] \in Ids
  BY DEF FoldersInv, TreeTypes, IdsAreCounted, Open
<1>5. \A i \in Ids : ~Sent(i, mailbox)
  BY <1>1 DEF Sent
<1> QED BY <1>1, <1>3, <1>4, <1>5 DEF FoldersInv, FollowInv

(* Every value keeps its type, the ids stay below the number of lists, and a *)
(* list is left in a folder that is not there only if its form was sent      *)
(* there too late or the folder went with one above it: 'delete sends away   *)
(* whoever is in the folder itself (FileManager.scala:205).                  *)
THEOREM TreeIsRight == Spec => []TreeInv
<1>1. FoldersInv => TreeInv
  <2> SUFFICES ASSUME FoldersInv, Rest, NEW l \in Lists, Open(l), dirName[l] \notin dirs
               PROVE  formId[l] \in adrift
    BY DEF FoldersInv, TreeTypes, TreeInv, StrandedByOthersOnly
  <2>1. Root \in dirs
    BY DEF FoldersInv, TreeTypes, PlacesInv
  <2>2. dirMap[formId[l]] \notin dirs \cup {None} /\ formId[l] \in Ids
    <3>1. dirName[l] # None
      BY DEF FoldersInv, TreeTypes, PlacesInv
    <3> QED BY <2>1, <3>1, AtRest
  <2> QED BY <2>2, AtRest DEF FoldersInv, StrandedInv, BeingMoved
<1> QED BY FoldersHold, <1>1, PTL

(* At rest every list is in the folder the map has for its form, although it *)
(* reads the map while the actor writes it, and shows what is in that folder *)
(* but for the changes nobody tells it of (FileManager.scala:212).           *)
THEOREM ListsStayFresh == Spec => []ListsAreFresh
<1>1. FoldersInv => ListsAreFresh
  <2> SUFFICES ASSUME FoldersInv, Rest PROVE ListsFollowTheMap /\
                 \A l \in Lists \ unannounced : Open(l) => view[l] = Listing(dirName[l])
    BY DEF ListsAreFresh
  <2>1. ListsFollowTheMap
    BY AtRest DEF ListsFollowTheMap
  <2>2. ASSUME NEW l \in Lists \ unannounced, Open(l) PROVE view[l] = Listing(dirName[l])
    <3>1. Len(inbox[l]) = 0
      BY <2>2, AtRest
    <3> QED BY <2>2, <3>1 DEF FoldersInv, FreshInv
  <2> QED BY <2>1, <2>2
<1> QED BY FoldersHold, <1>1, PTL

(* At rest the hidden field of a page names the folder its list shows, so    *)
(* that a new file appears where the user looks (FileIn.scala:34), unless    *)
(* the list was sent elsewhere or the page loaded anew after the last click. *)
THEOREM NewFilesAppear == Spec => []NewFilesGoWhereShown
<1>1. FoldersInv => NewFilesGoWhereShown
  <2> SUFFICES ASSUME FoldersInv, Rest, NEW l \in Lists \ moved, Open(l)
               PROVE  currentDir[l] = dirName[l]
    BY DEF NewFilesGoWhereShown
  <2>1. /\ dirMap[formId[l]] \in {None, dirName[l]} /\ formId[l] \in Ids
        /\ dirMap[formId[l]] = None => dirName[l] = Root
        /\ mailbox = <<>> /\ writing = None /\ Len(<<>>) = 0
    BY AtRest
  <2>2. \A d : Goes(formId[l], d) => dirMap[formId[l]] = d
    BY <2>1 DEF Goes, Ends, Now, BeingMoved
  <2>3. currentDir[l] \in Paths /\ currentDir[l] # None
    BY NoneAssumption DEF FoldersInv, TreeTypes, TypeOK
  <2>4. dirMap[formId[l]] = currentDir[l] \/ (dirMap[formId[l]] = None /\ currentDir[l] = Root)
    BY <2>1, <2>2 DEF FoldersInv, ShownInv
  <2> QED BY <2>1, <2>3, <2>4
<1> QED BY FoldersHold, <1>1, PTL
=============================================================================

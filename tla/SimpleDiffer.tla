---------------------------- MODULE SimpleDiffer ----------------------------
(***************************************************************************)
(* How a patch from the server gets into the editor                        *)
(* (mobwrite/static/simple_differ.js and mobwrite_codemirror.js).          *)
(* patch_apply_ works on a copy of the text and tells every insertion and  *)
(* deletion to a SimpleDiffer, which keeps chunks: copied from the old     *)
(* text or inserted.  At the end getSimpleDiff makes of them a diff "in    *)
(* which operations never overlap and are applied from end to beginning",  *)
(* and patchClientText applies that to the editor.                         *)
(*                                                                         *)
(* Characters are numbers: those of the old text are 1, 2, ..., those of   *)
(* the n-th edit come after 10 * n.                                        *)
(***************************************************************************)
EXTENDS Integers, Sequences

CONSTANTS
  Lengths,    \* of the old text
  MaxEdits,   \* bound: insertions and deletions
  MaxInsert   \* bound: characters of an insertion

Infinity == 1000

ASSUME LengthsAssumption == Lengths \subseteq 0..9
ASSUME BoundsAssumption == MaxEdits \in Nat /\ MaxInsert \in 1..9

VARIABLES
  old,     \* the text of the editor
  text,    \* patch_apply_'s copy of it
  chunks,
  edits,   \* so far
  diff,    \* what getSimpleDiff returned
  done,    \* it was called
  opened   \* history: an edit began where inserted text begins

vars == <<old, text, chunks, edits, diff, done, opened>>

Chunks == [type : {"copy", "insert"}, start : Nat, length : Nat, text : Seq(Nat)]
Mutations == [type : {"insert", "delete"}, start : Nat, end : Nat, text : Seq(Nat)]

TypeOK ==
  /\ old \in Seq(Nat) /\ text \in Seq(Nat) /\ chunks \in Seq(Chunks) /\ edits \in 0..MaxEdits
  /\ diff \in Seq(Mutations) /\ done \in BOOLEAN /\ opened \in BOOLEAN
  /\ \A i \in 1..Len(chunks) :
       chunks[i].type = "insert" => chunks[i].length = Len(chunks[i].text)

Copy(start, length) == [type |-> "copy", start |-> start, length |-> length, text |-> <<>>]
Insert(s) == [type |-> "insert", start |-> 0, length |-> Len(s), text |-> s]

Init ==
  /\ \E n \in Lengths : old = [i \in 1..n |-> i]
  /\ text = old /\ chunks = <<Copy(0, Infinity)>> /\ edits = 0
  /\ diff = <<>> /\ done = FALSE /\ opened = FALSE

-----------------------------------------------------------------------------
(* Edits. *)

(* The length of the first k chunks. *)
LengthOf(cs, k) ==
  LET upTo[n \in 0..Len(cs)] == IF n = 0 THEN 0 ELSE upTo[n-1] + cs[n].length
  IN upTo[k]

(* findChunk_: the chunk of an index, and how far in it the index is. *)
FindChunk(cs, i) ==
  CHOOSE k \in 1..Len(cs) : LengthOf(cs, k-1) <= i /\ i < LengthOf(cs, k)
OffsetIn(cs, i) == i - LengthOf(cs, FindChunk(cs, i) - 1)

(* Mutant: the second half is copied from where the first is. *)
HalvesSameStart(c, at) ==
  IF c.type = "insert"
  THEN <<Insert(SubSeq(c.text, 1, at)), Insert(SubSeq(c.text, at + 1, Len(c.text)))>>
  ELSE <<Copy(c.start, at),
         Copy(c.start, IF c.length = Infinity THEN Infinity ELSE c.length - at)>>

(* splitChunk_: either half may be empty. *)
Halves(c, at) ==
  IF c.type = "insert"
  THEN <<Insert(SubSeq(c.text, 1, at)), Insert(SubSeq(c.text, at + 1, Len(c.text)))>>
  ELSE <<Copy(c.start, at),
         Copy(c.start + at, IF c.length = Infinity THEN Infinity ELSE c.length - at)>>

Split(cs, i) ==
  LET k == FindChunk(cs, i) IN
  SubSeq(cs, 1, k - 1) \o Halves(cs[k], OffsetIn(cs, i)) \o SubSeq(cs, k + 1, Len(cs))

(* Inserted text begins at i. *)
Begins(i) ==
  i < Len(text) /\ text[i + 1] > 10 /\ (i = 0 \/ text[i] # text[i + 1] - 1)

Edit(i) ==
  /\ ~done /\ edits < MaxEdits /\ edits' = edits + 1
  /\ opened' = (opened \/ Begins(i))

(* applyInsert *)
ApplyInsert(i, s) ==
  /\ Edit(i)
  /\ text' = SubSeq(text, 1, i) \o s \o SubSeq(text, i + 1, Len(text))
  /\ chunks' = SubSeq(Split(chunks, i), 1, FindChunk(chunks, i)) \o <<Insert(s)>>
                  \o SubSeq(Split(chunks, i), FindChunk(chunks, i) + 1, Len(chunks) + 1)
  /\ UNCHANGED <<old, diff, done>>

(* Mutant: the chunk that the deletion ends in loses its first half only if *)
(* it is the chunk it began in.                                             *)
ApplyDeleteShort(i, j) ==
  LET cs == Split(chunks, i)
      first == FindChunk(chunks, i) + 1
      last == FindChunk(cs, j)
  IN /\ Edit(i)
     /\ text' = SubSeq(text, 1, i) \o SubSeq(text, j + 1, Len(text))
     /\ chunks' = SubSeq(Split(cs, j), 1, first - 1)
                    \o SubSeq(Split(cs, j), IF last = first THEN last + 1 ELSE last, Len(cs) + 1)
     /\ UNCHANGED <<old, diff, done>>

(* applyDelete; nothing is done if i is j. *)
ApplyDelete(i, j) ==
  LET cs == Split(chunks, i)
      first == FindChunk(chunks, i) + 1
      last == FindChunk(cs, j)
  IN /\ Edit(i)
     /\ text' = SubSeq(text, 1, i) \o SubSeq(text, j + 1, Len(text))
     /\ chunks' = SubSeq(Split(cs, j), 1, first - 1) \o SubSeq(Split(cs, j), last + 1, Len(cs) + 1)
     /\ UNCHANGED <<old, diff, done>>

-----------------------------------------------------------------------------
(* The diff. *)

NothingMerged == [out |-> <<>>, prev |-> 0, skip |-> FALSE]

(* The turn of chunk c: prev is the place of prevInsert, 0 for null.  When an *)
(* empty insert is removed the loop goes on behind the chunk that follows it  *)
(* (there is no i--): that chunk is kept as it is.                            *)
Merge(acc, c) ==
  IF acc.skip THEN [acc EXCEPT !.out = Append(@, c), !.skip = FALSE]
  ELSE IF c.type = "copy" THEN [acc EXCEPT !.out = Append(@, c), !.prev = 0]
  ELSE IF c.text = <<>> THEN [acc EXCEPT !.skip = TRUE]
  ELSE IF acc.prev = 0 THEN [acc EXCEPT !.out = Append(@, c), !.prev = Len(acc.out) + 1]
  ELSE [acc EXCEPT !.out[acc.prev] = Insert(@.text \o c.text)]

(* mergeInserts_ *)
MergeInserts(cs) ==
  LET merged[n \in 0..Len(cs)] ==
        IF n = 0 THEN NothingMerged ELSE Merge(merged[n-1], cs[n])
  IN merged[Len(cs)].out

Deletion(from, to) == [type |-> "delete", start |-> from, end |-> to, text |-> <<>>]
Insertion(at, s) == [type |-> "insert", start |-> at, end |-> at, text |-> s]

(* The turn of chunk c, from the last to the first: a gap between copied      *)
(* chunks is deleted, an insertion goes to the beginning of the copied text   *)
(* after it.                                                                  *)
Mutate(acc, c) ==
  IF c.type = "insert"
  THEN [acc EXCEPT !.diff = Append(@, Insertion(acc.start, c.text))]
  ELSE [start |-> c.start,
        diff |-> IF c.start + c.length < acc.start
                 THEN Append(acc.diff, Deletion(c.start + c.length, acc.start))
                 ELSE acc.diff]
MutationsOf(cs) ==
  LET last[n \in 0..Len(cs)] ==
        IF n = 0 THEN [start |-> Infinity, diff |-> <<>>]
        ELSE Mutate(last[n-1], cs[Len(cs) + 1 - n])
  IN last[Len(cs)].diff

(* Mutant: no deletions are merged. *)
MergeNoDeletes(d) == d

(* "Merge adjacent deletes in the simple diff", from its end. *)
Join(m, out) ==
  IF /\ out # <<>> /\ m.type = "delete"
     /\ out[1].type = "delete" /\ out[1].end = m.start
  THEN <<Deletion(out[1].start, m.end)>> \o Tail(out)
  ELSE <<m>> \o out
MergeDeletes(d) ==
  LET last[n \in 0..Len(d)] ==
        IF n = 0 THEN <<>> ELSE Join(d[Len(d) + 1 - n], last[n-1])
  IN last[Len(d)]

GetSimpleDiff ==
  /\ ~done /\ done' = TRUE
  /\ chunks' = MergeInserts(chunks)
  /\ diff' = MergeDeletes(MutationsOf(MergeInserts(chunks)))
  /\ UNCHANGED <<old, text, edits, opened>>

Next ==
  \/ \E i \in 0..Len(text) :
       \/ \E n \in 1..MaxInsert : ApplyInsert(i, [k \in 1..n |-> 10 * (edits + 1) + k])
       \/ \E j \in i + 1..Len(text) : ApplyDelete(i, j)
  \/ GetSimpleDiff

Spec == Init /\ [][Next]_vars

-----------------------------------------------------------------------------
(* Properties. *)

(* patchClientText: the mutations in their order. *)
Patched(t, m) == SubSeq(t, 1, m.start) \o m.text \o SubSeq(t, m.end + 1, Len(t))
PatchedBy(t, d) ==
  LET after[n \in 0..Len(d)] == IF n = 0 THEN t ELSE Patched(after[n-1], d[n])
  IN after[Len(d)]
Edited == PatchedBy(old, diff)

Characters(t) == {t[i] : i \in 1..Len(t)}

(* "operations never overlap and are applied from end to beginning" *)
(* (simple_differ.js:4), with no two deletions side by side (:178).  *)
EndToBeginning ==
  \A k \in 1..Len(diff) - 1 :
    /\ diff[k + 1].end <= diff[k].start
    /\ {diff[k].type, diff[k + 1].type} = {"delete"} => diff[k + 1].end < diff[k].start

(* Chunks and diff are typed and the diff is in the order that is promised. *)
DiffInv == TypeOK /\ EndToBeginning

(* Every character comes through, and no other; and the editor has what       *)
(* patch_apply_ made, unless an edit began where inserted text begins: its    *)
(* chunk then has an empty first half, and mergeInserts_ (:133) moves a later *)
(* insertion in front of what follows that.                                   *)
EditorHasTheText ==
  done => /\ Len(Edited) = Len(text) /\ Characters(Edited) = Characters(text)
          /\ opened \/ Edited = text
=============================================================================

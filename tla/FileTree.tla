------------------------------ MODULE FileTree ------------------------------
(***************************************************************************)
(* The files of a project and the lists of them on its pages.              *)
(* comet/FileManager.scala is one actor: it makes and deletes files and    *)
(* keeps, for the form of every list, the folder that list is in (dirMap). *)
(* comet/FileList.scala is an actor of a session: it renders one folder.   *)
(* snippet/FileIn.scala has the links in a list and the form for a new     *)
(* file, whose folder is a hidden field of the page (currentDir), and      *)
(* snippet/SaveBuffer.scala writes a file without asking the actor.        *)
(*                                                                         *)
(* What the actor sends is dirMap itself, mutable, with the folder that    *)
(* changed: a list reads the map when it gets to the update, on a thread   *)
(* of its own, perhaps while the actor is writing it.                      *)
(***************************************************************************)
EXTENDS Integers, Sequences, FiniteSets

CONSTANTS
  Lists,      \* sessions with the project open; each has one FileList
  Names,      \* names of files and folders
  MaxDepth,   \* bound: length of a path below the project's folder
  FirstDirs, FirstFiles,  \* the project at the start; its files are open in an editor
  None,       \* no folder: an absent key of dirMap, and the empty dirName
  MaxInputs   \* bound: clicks, new files, deletions, saves and reloads

Root == <<>>
Paths == UNION {[1..n -> Names] : n \in 0..MaxDepth}
Parent(p) == SubSeq(p, 1, Len(p) - 1)
Below(p, q) == Len(q) < Len(p) /\ SubSeq(p, 1, Len(q)) = q   \* p is inside q

ASSUME BoundsAssumption == IsFiniteSet(Lists) /\ MaxDepth \in Nat /\ MaxInputs \in Nat
ASSUME DirsAssumption ==
  /\ FirstDirs \subseteq Paths /\ Root \in FirstDirs
  /\ \A p \in FirstDirs : p = Root \/ Parent(p) \in FirstDirs
  /\ FirstFiles \subseteq Paths \ FirstDirs /\ \A p \in FirstFiles : Parent(p) \in FirstDirs

Ids == 0..Cardinality(Lists) - 1

Chdirs == [op : {"chdir"}, form : Ids, path : Paths]
Requests ==
  [op : {"newfile", "newdir", "delete"}, path : Paths] \cup Chdirs
    \cup [op : {"add"}, list : Lists]
ASSUME NoneAssumption == None \notin Paths \cup Chdirs
Gone == [found |-> FALSE, folders |-> {}, files |-> {}]
Views == [found : BOOLEAN, folders : SUBSET Names, files : SUBSET Names]

VARIABLES
  inputs,      \* inputs so far
  dirs, files, \* the project on disk
  mailbox,     \* of FileManager
  listeners,   \* of FileManager
  dirMap,      \* [Ids -> folder or None]
  changed,     \* changedFolder; None is ""
  frames,      \* the calls of delete inside deleteFile, innermost last
  writing,     \* the 'chdir that is being put into dirMap, or None
  next,        \* Id._next
  step, seen,  \* Id.next of each FileList: how far it is, what it read
  formId, dirName, view, inbox,  \* of each FileList
  currentDir,  \* the hidden field on each session's page
  editing,     \* files somebody has in an editor
  unannounced, \* history: lists whose folder changed after they rendered it, with no
               \*          update to tell them
  adrift,      \* history: forms sent to a folder that was not there, or whose folder
               \*          went with one above it
  moved,       \* history: sessions whose list was sent elsewhere, or page was loaded
               \*          anew, after their last click
  overlapped   \* history: two lists were given their ids at the same time

disk == <<dirs, files>>
fileManager == <<mailbox, listeners, dirMap, changed, frames, writing>>
fileLists == <<formId, dirName, view, inbox>>
ids == <<next, step, seen, overlapped>>
pages == <<inputs, currentDir, editing>>
history == <<unannounced, adrift, moved>>
vars == <<disk, fileManager, fileLists, ids, pages, history>>

Frames == [path : Paths, left : SUBSET Names]

TypeOK ==
  /\ inputs \in 0..MaxInputs /\ dirs \subseteq Paths /\ files \subseteq Paths
  /\ mailbox \in Seq(Requests) /\ listeners \subseteq Lists
  /\ dirMap \in [Ids -> Paths \cup {None}] /\ changed \in Paths \cup {None}
  /\ frames \in Seq(Frames) /\ writing \in Chdirs \cup {None}
  /\ next \in Ids \cup {-1} /\ step \in [Lists -> {"none", "read", "written", "made", "open"}]
  /\ seen \in [Lists -> Ids \cup {-1}] /\ formId \in [Lists -> Ids \cup {-1}]
  /\ dirName \in [Lists -> Paths \cup {None}] /\ view \in [Lists -> Views]
  /\ inbox \in [Lists -> Seq(Paths \cup {None})]
  /\ currentDir \in [Lists -> Paths] /\ editing \subseteq Paths
  /\ unannounced \subseteq Lists /\ adrift \subseteq Ids /\ moved \subseteq Lists
  /\ overlapped \in BOOLEAN

Init ==
  /\ inputs = 0 /\ dirs = FirstDirs /\ files = FirstFiles
  /\ mailbox = <<>> /\ listeners = {} /\ dirMap = [i \in Ids |-> None]
  /\ changed = None /\ frames = <<>> /\ writing = None
  /\ next = -1 /\ step = [l \in Lists |-> "none"] /\ seen = [l \in Lists |-> -1]
  /\ formId = [l \in Lists |-> -1] /\ dirName = [l \in Lists |-> None]
  /\ view = [l \in Lists |-> Gone] /\ inbox = [l \in Lists |-> <<>>]
  /\ currentDir = [l \in Lists |-> Root] /\ editing = FirstFiles
  /\ unannounced = {} /\ adrift = {} /\ moved = {} /\ overlapped = FALSE

-----------------------------------------------------------------------------
(* A list is made with the first page of its session. *)

Open(l) == step[l] = "open"
Advance(l, from, to) == step[l] = from /\ step' = [step EXCEPT ![l] = to]

(* Id.next is "_next += 1" and then "_next", on the thread of a request: *)
(* read,                                                                 *)
ReadNext(l) ==
  /\ Advance(l, "none", "read")
  /\ seen' = [seen EXCEPT ![l] = next]
  /\ overlapped' = (overlapped \/ \E m \in Lists : step[m] \in {"read", "written"})
  /\ UNCHANGED <<next, disk, fileManager, fileLists, pages, history>>

(* Mutant: the counter is set, not increased. *)
WriteSame(l) ==
  /\ Advance(l, "read", "written")
  /\ next' = 0
  /\ UNCHANGED <<seen, overlapped, disk, fileManager, fileLists, pages, history>>

(* write *)
WriteNext(l) ==
  /\ Advance(l, "read", "written")
  /\ next' = seen[l] + 1
  /\ UNCHANGED <<seen, overlapped, disk, fileManager, fileLists, pages, history>>

(* Mutant: the value is one ahead of the counter. *)
TakeLater(l) ==
  /\ Advance(l, "written", "made")
  /\ formId' = [formId EXCEPT ![l] = next + 1]
  /\ UNCHANGED <<next, seen, overlapped, disk, fileManager, dirName, view, inbox, pages,
                 history>>

(* and read again. *)
TakeId(l) ==
  /\ Advance(l, "written", "made")
  /\ formId' = [formId EXCEPT ![l] = next]
  /\ moved' = moved \cup (IF \E m \in Lists : formId[m] = next THEN {l} ELSE {})
  /\ UNCHANGED <<next, seen, overlapped, disk, fileManager, dirName, view, inbox,
                 pages, unannounced, adrift>>

ChildrenIn(p, S) == {n \in Names : Append(p, n) \in S}

(* FileIn.listFiles: a folder that is not there is "Project folder not found". *)
Listing(d) ==
  IF d \in dirs
  THEN [found |-> TRUE, folders |-> ChildrenIn(d, dirs), files |-> ChildrenIn(d, files)]
  ELSE Gone

(* FileList.render of folder d; "" is the project's own folder. *)
Render(l, d) ==
  LET folder == IF d = None THEN Root ELSE d IN
  /\ dirName' = [dirName EXCEPT ![l] = folder]
  /\ view' = [view EXCEPT ![l] = Listing(folder)]
  /\ unannounced' = unannounced \ {l}

(* The actor sets itself up: it registers with FileManager and renders. *)
SetUp(l) ==
  /\ Advance(l, "made", "open")
  /\ mailbox' = Append(mailbox, [op |-> "add", list |-> l])
  /\ Render(l, dirName[l])
  /\ UNCHANGED <<next, seen, overlapped, disk, listeners, dirMap, changed, frames, writing,
                 formId, inbox, pages, adrift, moved>>

-----------------------------------------------------------------------------
(* What users do. *)

Send(m) == mailbox' = Append(mailbox, m)
Input(l) == Open(l) /\ inputs < MaxInputs /\ inputs' = inputs + 1
SharersOf(l) == {m \in Lists : m # l /\ formId[m] = formId[l]}

(* Mutant: no SetValById. *)
GoToOnly(l, p) ==
  /\ Input(l)
  /\ Send([op |-> "chdir", form |-> formId[l], path |-> p])
  /\ moved' = (moved \ {l}) \cup SharersOf(l)
  /\ UNCHANGED <<disk, listeners, dirMap, changed, frames, writing, fileLists, ids,
                 currentDir, editing, unannounced, adrift>>

(* goToFolderLink *)
GoTo(l, p) ==
  /\ Input(l)
  /\ Send([op |-> "chdir", form |-> formId[l], path |-> p])
  /\ currentDir' = [currentDir EXCEPT ![l] = p]
  /\ moved' = (moved \ {l}) \cup SharersOf(l)
  /\ UNCHANGED <<disk, listeners, dirMap, changed, frames, writing, fileLists, ids,
                 editing, unannounced, adrift>>

ClickFolder(l) == \E n \in view[l].folders : GoTo(l, Append(dirName[l], n))

(* backlink: none in the project's own folder. *)
ClickBack(l) == dirName[l] # Root /\ GoTo(l, Parent(dirName[l]))

Ask(l, m) ==
  /\ Input(l) /\ Send(m)
  /\ UNCHANGED <<disk, listeners, dirMap, changed, frames, writing, fileLists, ids,
                 currentDir, editing, history>>

(* FileIn.newFile: the folder is the page's hidden field. *)
SubmitNew(l) ==
  /\ Len(currentDir[l]) < MaxDepth
  /\ \E n \in Names, o \in {"newfile", "newdir"} :
       Ask(l, [op |-> o, path |-> Append(currentDir[l], n)])

(* FileIn.deleteFile: a link beside every entry of the list. *)
ClickDelete(l) ==
  \E n \in view[l].folders \cup view[l].files :
    Ask(l, [op |-> "delete", path |-> Append(dirName[l], n)])

(* The link on a file opens it in an editor. *)
OpenEditor(l) ==
  /\ Input(l)
  /\ \E n \in view[l].files : editing' = editing \cup {Append(dirName[l], n)}
  /\ UNCHANGED <<disk, fileManager, fileLists, ids, currentDir, history>>

Showing(folders) == {l \in Lists : Open(l) /\ dirName[l] \in folders}

(* SaveBuffer.setBuffer, on the request's thread: new PrintWriter makes the *)
(* file if it is not there, and fails if its folder is not.                 *)
Save(l) ==
  /\ Input(l)
  /\ \E p \in editing :
       /\ Parent(p) \in dirs /\ p \notin dirs
       /\ files' = files \cup {p}
       /\ unannounced' = unannounced \cup (IF p \in files THEN {} ELSE Showing({Parent(p)}))
  /\ UNCHANGED <<dirs, fileManager, fileLists, ids, currentDir, editing, adrift, moved>>

(* The page is loaded again: the list is the session's and stays where it is, *)
(* the hidden field is "".                                                    *)
Reload(l) ==
  /\ Input(l)
  /\ currentDir' = [currentDir EXCEPT ![l] = Root]
  /\ moved' = moved \cup {l}
  /\ UNCHANGED <<disk, fileManager, fileLists, ids, editing, unannounced, adrift>>

-----------------------------------------------------------------------------
(* FileManager: one message at a time. *)

Idle == frames = <<>> /\ writing = None
Receive(o) == Idle /\ mailbox # <<>> /\ Head(mailbox).op = o

(* updateListeners() *)
Notify(d) ==
  inbox' = [l \in Lists |-> IF l \in listeners THEN Append(inbox[l], d) ELSE inbox[l]]

(* changedFolder = d; updateListeners().  The folders in others change untold. *)
Update(d, others) ==
  /\ changed' = d /\ Notify(d)
  /\ unannounced' = unannounced \cup (Showing({d}) \ listeners) \cup Showing(others)

(* 'newfile: createNewFile is false if the path is taken and throws if its *)
(* folder is not there; the actor survives that.                           *)
HandleNewFile ==
  LET p == Head(mailbox).path IN
  /\ Receive("newfile") /\ mailbox' = Tail(mailbox)
  /\ IF Parent(p) \in dirs /\ p \notin dirs \cup files
     THEN files' = files \cup {p} /\ Update(Parent(p), {})
     ELSE UNCHANGED <<files, changed, inbox, unannounced>>
  /\ UNCHANGED <<dirs, listeners, dirMap, frames, writing, formId, dirName, view, ids,
                 pages, adrift, moved>>

(* 'newdir *)
HandleNewDir ==
  LET p == Head(mailbox).path IN
  /\ Receive("newdir") /\ mailbox' = Tail(mailbox)
  /\ IF Parent(p) \in dirs /\ p \notin dirs \cup files
     THEN dirs' = dirs \cup {p} /\ Update(Parent(p), {p})
     ELSE UNCHANGED <<dirs, changed, inbox, unannounced>>
  /\ UNCHANGED <<files, listeners, dirMap, frames, writing, formId, dirName, view, ids,
                 pages, adrift, moved>>

(* delete(file) starts: a folder is listed once. *)
Frame(p) ==
  [path |-> p, left |-> IF p \in dirs THEN ChildrenIn(p, dirs \cup files) ELSE {}]

HandleDelete ==
  /\ Receive("delete") /\ mailbox' = Tail(mailbox)
  /\ frames' = <<Frame(Head(mailbox).path)>>
  /\ UNCHANGED <<disk, listeners, dirMap, changed, writing, fileLists, ids, pages, history>>

Top == frames[Len(frames)]
Inner == SubSeq(frames, 1, Len(frames) - 1)

(* file.listFiles.foreach(delete(_)) *)
DeleteChild ==
  /\ frames # <<>>
  /\ \E n \in Top.left :
       frames' = Inner \o <<[Top EXCEPT !.left = @ \ {n}], Frame(Append(Top.path, n))>>
  /\ UNCHANGED <<disk, mailbox, listeners, dirMap, changed, writing, fileLists, ids,
                 pages, history>>

(* file.delete: fails on a folder that somebody saved a file into meanwhile. *)
Erased(p) == p \in dirs /\ ChildrenIn(p, dirs \cup files) = {}
Erase(p) ==
  /\ dirs' = dirs \ (IF Erased(p) THEN {p} ELSE {})
  /\ files' = files \ {p}

FormsIn(p) == {i \in Ids : dirMap[i] = p}

(* The inner calls: nobody is told. *)
DeleteInner ==
  LET p == Top.path IN
  /\ Len(frames) > 1 /\ Top.left = {}
  /\ Erase(p) /\ frames' = Inner
  /\ unannounced' = unannounced \cup Showing({p, Parent(p)})
  /\ adrift' = adrift \cup (IF Erased(p) THEN FormsIn(p) ELSE {})
  /\ UNCHANGED <<mailbox, listeners, dirMap, changed, writing, fileLists, ids, pages, moved>>

(* The orders that the messages in S can be sent in: a HashMap has none of its own. *)
Orders(S) == {q \in [1..Cardinality(S) -> S] : \A m \in S : \E k \in DOMAIN q : q[k] = m}
ToParent(p, forms) == {[op |-> "chdir", form |-> i, path |-> Parent(p)] : i \in forms}

(* Mutant: the forms in the folder above are sent on. *)
SendHomeFrom(p) == Orders(ToParent(p, FormsIn(Parent(p))))

(* A 'chdir to the folder above for each form that is in the deleted folder. *)
SendHome(p) == Orders(ToParent(p, FormsIn(p)))

(* The rest of 'delete, once the outermost call is through. *)
FinishDelete ==
  LET p == Top.path IN
  /\ Len(frames) = 1 /\ Top.left = {}
  /\ Erase(p) /\ frames' = <<>>
  /\ \E home \in SendHome(p) : mailbox' = mailbox \o home
  /\ Update(Parent(p), {p})
  /\ moved' = moved \cup {l \in Lists : formId[l] \in FormsIn(p)}
  /\ UNCHANGED <<listeners, dirMap, writing, formId, dirName, view, ids, pages, adrift>>

(* 'chdir puts the folder into the map that the lists read *)
HandleChdir ==
  /\ Receive("chdir") /\ mailbox' = Tail(mailbox)
  /\ writing' = Head(mailbox)
  /\ UNCHANGED <<disk, listeners, dirMap, changed, frames, fileLists, ids, pages, history>>

(* Mutant: no updateListeners(). *)
FinishChdirQuietly ==
  /\ writing # None /\ writing' = None
  /\ dirMap' = [dirMap EXCEPT ![writing.form] = writing.path]
  /\ changed' = None /\ UNCHANGED <<inbox, unannounced>>
  /\ adrift' = (adrift \ {writing.form})
                 \cup (IF writing.path \in dirs THEN {} ELSE {writing.form})
  /\ UNCHANGED <<disk, mailbox, listeners, frames, formId, dirName, view, ids, pages, moved>>

(* and tells them. *)
FinishChdir ==
  /\ writing # None /\ writing' = None
  /\ dirMap' = [dirMap EXCEPT ![writing.form] = writing.path]
  /\ Update(None, {})
  /\ adrift' = (adrift \ {writing.form})
                 \cup (IF writing.path \in dirs THEN {} ELSE {writing.form})
  /\ UNCHANGED <<disk, mailbox, listeners, frames, formId, dirName, view, ids, pages, moved>>

(* ListenerManager: a new listener is sent createUpdate at once. *)
HandleAdd ==
  LET l == Head(mailbox).list IN
  /\ Receive("add") /\ mailbox' = Tail(mailbox)
  /\ listeners' = listeners \cup {l}
  /\ inbox' = [inbox EXCEPT ![l] = Append(@, changed)]
  /\ UNCHANGED <<disk, dirMap, changed, frames, writing, formId, dirName, view, ids, pages,
                 history>>

-----------------------------------------------------------------------------
(* FileList. *)

(* dirMap.get(formId), perhaps while the actor writes: a key may be missed *)
(* while the table is made larger.                                         *)
Read(i) ==
  {dirMap[i]} \cup (IF writing = None THEN {}
                    ELSE {None} \cup (IF writing.form = i THEN {writing.path} ELSE {}))

(* Mutant: only a move to another folder is rendered. *)
ReactToMoves(l) ==
  /\ inbox[l] # <<>> /\ inbox' = [inbox EXCEPT ![l] = Tail(@)]
  /\ \E d \in Read(formId[l]) :
       \/ d \notin {None, dirName[l]} /\ Render(l, d)
       \/ d \in {None, dirName[l]} /\ UNCHANGED <<dirName, view, unannounced>>
  /\ UNCHANGED <<disk, fileManager, formId, ids, pages, adrift, moved>>

(* FileList.lowPriority: a move is rendered; so is a change of its folder. *)
React(l) ==
  /\ inbox[l] # <<>> /\ inbox' = [inbox EXCEPT ![l] = Tail(@)]
  /\ \E d \in Read(formId[l]) :
       \/ d \notin {None, dirName[l]} /\ Render(l, d)
       \/ /\ d \in {None, dirName[l]}
          /\ \/ Head(inbox[l]) = dirName[l] /\ Render(l, dirName[l])
             \/ Head(inbox[l]) # dirName[l] /\ UNCHANGED <<dirName, view, unannounced>>
  /\ UNCHANGED <<disk, fileManager, formId, ids, pages, adrift, moved>>

Next ==
  \/ \E l \in Lists :
       \/ ReadNext(l) \/ WriteNext(l) \/ TakeId(l) \/ SetUp(l)
       \/ ClickFolder(l) \/ ClickBack(l) \/ SubmitNew(l) \/ ClickDelete(l)
       \/ OpenEditor(l) \/ Save(l) \/ Reload(l)
       \/ React(l)
  \/ HandleNewFile \/ HandleNewDir
  \/ HandleDelete \/ DeleteChild \/ DeleteInner \/ FinishDelete
  \/ HandleChdir \/ FinishChdir \/ HandleAdd

Spec == Init /\ [][Next]_vars

-----------------------------------------------------------------------------
(* Properties. *)

Rest == Idle /\ mailbox = <<>> /\ \A l \in Lists : inbox[l] = <<>>

(* Every list comes to be in the folder that FileManager has for its form, *)
(* although it reads the map while the actor writes it (FileList.scala:23, *)
(* FileManager.scala:212).                                                 *)
ListsFollowTheMap ==
  \A l \in Lists : Open(l) /\ dirMap[formId[l]] # None => dirName[l] = dirMap[formId[l]]

(* At rest a list is where the map has it and shows what is there, but for   *)
(* changes nobody tells it of: in a folder inside a deleted one, by a save   *)
(* that makes the file again, to its folder while that is made anew, or      *)
(* before it is a listener.                                                  *)
ListsAreFresh ==
  Rest => /\ ListsFollowTheMap
          /\ \A l \in Lists \ unannounced : Open(l) => view[l] = Listing(dirName[l])

(* A list stays in a folder that is not there only if its form was sent     *)
(* there too late or the folder went with one above it: 'delete sends away  *)
(* whoever is in the folder itself (FileManager.scala:205).                 *)
StrandedByOthersOnly ==
  Rest => \A l \in Lists :
            Open(l) /\ dirName[l] \notin dirs => formId[l] \in adrift

(* With the types, what a reader of the lists can rely on about folders. *)
TreeInv == TypeOK /\ StrandedByOthersOnly

(* New files go to the folder that is shown (the hidden field, FileIn.scala: *)
(* 34), unless the list was sent elsewhere, by 'delete or by a list with the *)
(* same id, or the page loaded anew after the last click.                    *)
NewFilesGoWhereShown ==
  Rest => \A l \in Lists \ moved : Open(l) => currentDir[l] = dirName[l]

(* Forms have ids of their own unless two were made at the same time *)
(* (object Id, FileList.scala:7).                                    *)
IdsDiffer ==
  \A l, m \in Lists : l # m /\ formId[l] = formId[m] /\ formId[l] # -1 => overlapped
=============================================================================

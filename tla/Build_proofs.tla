---------------------------- MODULE Build_proofs ----------------------------
(***************************************************************************)
(* Theorems about Build for every set of builds, users and projects, every *)
(* assignment of owners and every bound.                                   *)
(***************************************************************************)
EXTENDS BuildInv, SequenceTheorems, FiniteSetTheorems, TLAPS

LEMMA TInvInit == Init => TInv
BY NoneAssumption, BoundsAssumption, SMTT(30)
  DEF Init, TInv, TypeOK, RequestInv, CurrentInv, HasLog, MessagerSteps, RunnerSteps, Boxes,
      NoBox

(* The steps of a request thread and its RestMessager. *)
LEMMA TInvRequest ==
  ASSUME TInv, NEW b \in Builds, Start(b) \/ Request(b)
  PROVE  TInv'
<1> USE OwnerAssumption, ProjectAssumption, BoundsAssumption, NoneAssumption
<1> USE DEF TInv, TypeOK, RequestInv, CurrentInv, HasLog
<1>2. CASE Start(b)
  BY <1>2 DEF Start, Open, editorVars, serverVars, runnerVars, messagerVars, history
<1>3. CASE Register(b)
  BY <1>3 DEF Register, editorVars, serverVars, runnerVars, messagerVars, history
<1>4. CASE ZipFile(b)
  BY <1>4 DEF ZipFile, serverVars, runnerVars, messagerVars, history
<1>5. CASE ZipFails(b)
  BY <1>5 DEF ZipFails, editorVars, serverVars, runnerVars, messagerVars, history
<1>6. CASE Put(b)
  BY <1>6 DEF Put, editorVars, messagerVars, RunnerSteps
<1>7. CASE PutRefused(b)
  BY <1>7 DEF PutRefused, editorVars, serverVars, runnerVars, messagerVars, history
<1>8. CASE HandleLog(b)
  <2>1. Head(inbox[b]) \in Logs /\ Tail(inbox[b]) \in Seq(Logs)
    BY <1>8, HeadTailProperties DEF HandleLog
  <2> QED BY <1>8, <2>1 DEF HandleLog, editorVars, serverVars, runnerVars, messagerVars, history
<1>9. CASE Reply(b)
  BY <1>9 DEF Reply, editorVars, serverVars, runnerVars, messagerVars, history
<1> QED BY <1>2, <1>3, <1>4, <1>5, <1>6, <1>7, <1>8, <1>9 DEF Request

(* The steps of a RunCompiler. *)
LEMMA TInvRun ==
  ASSUME TInv, NEW b \in Builds, Run(b)
  PROVE  TInv'
<1> USE OwnerAssumption, ProjectAssumption, BoundsAssumption, NoneAssumption
<1> USE DEF TInv, TypeOK, RequestInv, CurrentInv, HasLog, RunnerStep, RunnerSteps
<1> DEFINE u == owner[b]
<1>0. u \in Users /\ box[u] \in Boxes
  OBVIOUS
<1>1. CASE CreateCompilerBox(b)
  <2>1. [box[u] EXCEPT !.dir = TRUE] \in Boxes
    BY <1>0 DEF Boxes
  <2>2. box' \in [Users -> Boxes]
    BY <1>1, <2>1 DEF CreateCompilerBox
  <2> QED BY <1>1, <2>2 DEF CreateCompilerBox, editorVars, reqVars, messagerVars, history
<1>2. CASE CopyFiles(b)
  <2>1. <<project[b], zipped[project[b]]>> \in Sources
    BY <1>2 DEF CopyFiles, Sources
  <2>2. \A s \in SUBSET Sources : [box[u] EXCEPT !.src = s] \in Boxes
    BY <1>0 DEF Boxes
  <2>3. box[u].src \in SUBSET Sources
    BY <1>0 DEF Boxes
  <2>4. box' \in [Users -> Boxes]
    <3>1. PICK s \in SUBSET Sources : box' = [box EXCEPT ![u].src = s]
      BY <1>2, <2>1, <2>3 DEF CopyFiles
    <3> QED BY <3>1, <2>2
  <2> QED BY <1>2, <2>4 DEF CopyFiles, editorVars, reqVars, messagerVars, history
<1>3. CASE CopyHangs(b)
  BY <1>3 DEF CopyHangs, editorVars, reqVars, serverVars, messagerVars, history
<1>4. CASE MakeMakefile(b)
  <2>1. [box[u] EXCEPT !.made = TRUE, !.list = box[u].src] \in Boxes
    BY <1>0 DEF Boxes
  <2>2. box' \in [Users -> Boxes]
    BY <1>4, <2>1 DEF MakeMakefile
  <2> QED BY <1>4, <2>2 DEF MakeMakefile, editorVars, reqVars, messagerVars, history
<1>5. CASE ReadMakefile(b)
  <2>1. box[u].list \in SUBSET Sources
    BY <1>0 DEF Boxes
  <2>2. runner' \in [Builds -> RunnerSteps \cup {"none", "stuck", "done", "dead"}]
    <3>1. PICK s \in {"parsing", "dead", "executing"} : runner' = [runner EXCEPT ![b] = s]
      BY <1>5, Zenon DEF ReadMakefile
    <3> QED BY <3>1
  <2>3. files' \in [Builds -> SUBSET Sources]
    BY <1>5, <2>1 DEF ReadMakefile
  <2>4. runner[b] = "reading" /\ \A c \in Builds \ {b} : runner'[c] = runner[c]
    BY <1>5 DEF ReadMakefile
  <2> QED BY <1>5, <2>2, <2>3, <2>4
          DEF ReadMakefile, editorVars, reqVars, serverVars, messagerVars, history
<1>6. CASE Execute(b)
  <2>1. \A R \in SUBSET RawLogs : [box[u] EXCEPT !.raw = R] \in Boxes
    BY <1>0 DEF Boxes
  <2>2. box' \in [Users -> Boxes]
    <3>1. CASE box[u].dir
      <4>1. PICK o \in Outcomes : box' = [box EXCEPT ![u].raw =
                               @ \cup {[by |-> b, srcs |-> files[b], out |-> o]}]
        BY <1>6, <3>1 DEF Execute, Outcomes
      <4>2. box[u].raw \cup {[by |-> b, srcs |-> files[b], out |-> o]} \in SUBSET RawLogs
        BY <1>0 DEF Boxes, RawLogs
      <4> QED BY <2>1, <4>1, <4>2
    <3>2. CASE ~box[u].dir
      BY <1>6, <3>2 DEF Execute
    <3> QED BY <3>1, <3>2
  <2>3. exit' \in [Builds -> {"none", "ok", "failed"}]
    BY <1>6 DEF Execute
  <2> QED BY <1>6, <2>2, <2>3 DEF Execute, editorVars, reqVars, messagerVars, history
<1>7. CASE ParseLog(b)
  <2>1. XmlLogs(b, box[u].raw) \subseteq Logs
    BY <1>0 DEF XmlLogs, Boxes, RawLogs, Logs, Verdicts
  <2>2. [box[u] EXCEPT !.xml = @ \cup XmlLogs(b, box[u].raw)] \in Boxes
    BY <1>0, <2>1 DEF Boxes
  <2>3. box' = box \/ box' = [box EXCEPT ![u].xml = @ \cup XmlLogs(b, box[u].raw)]
    BY <1>7, Zenon DEF ParseLog
  <2>6. box' \in [Users -> Boxes]
    BY <2>2, <2>3
  <2>4. runner' \in [Builds -> RunnerSteps \cup {"none", "stuck", "done", "dead"}]
    <3>1. PICK s \in {"dead", "archiving"} : runner' = [runner EXCEPT ![b] = s]
      BY <1>7, Zenon DEF ParseLog
    <3> QED BY <3>1
  <2>5. runner[b] = "parsing" /\ \A c \in Builds \ {b} : runner'[c] = runner[c]
    BY <1>7 DEF ParseLog
  <2> QED BY <1>7, <2>4, <2>5, <2>6 DEF ParseLog, editorVars, reqVars, messagerVars, history
<1>8. CASE ZipBinAndLog(b)
  <2>1. box[u].xml \subseteq Logs
    BY <1>0 DEF Boxes
  <2> QED BY <1>8, <2>1 DEF ZipBinAndLog, editorVars, reqVars, messagerVars, history
<1>9. CASE Notify(b)
  <2>1. mailbox' \in Seq(Builds)
    BY <1>9, AppendProperties DEF Notify
  <2> QED BY <1>9, <2>1 DEF Notify, editorVars, reqVars, serverVars, history
<1> QED BY <1>1, <1>2, <1>3, <1>4, <1>5, <1>6, <1>7, <1>8, <1>9 DEF Run

(* The steps of Messager. *)
LEMMA TInvMessager ==
  ASSUME TInv, Message
  PROVE  TInv'
<1> USE OwnerAssumption, NoneAssumption
<1> USE DEF TInv, TypeOK, RequestInv, CurrentInv, HasLog, MessagerSteps
<1>1. CASE Receive
  <2>1. Head(mailbox) \in Builds /\ Tail(mailbox) \in Seq(Builds)
    BY <1>1, HeadTailProperties DEF Receive
  <2> QED BY <1>1, <2>1 DEF Receive, editorVars, reqVars, serverVars, runnerVars, history
<1>2. CASE GetCompiledZip
  BY <1>2 DEF GetCompiledZip, editorVars, reqVars, serverVars, runnerVars, history
<1>3. CASE GetLog
  <2>1. owner[cur] \in Users
    BY <1>3 DEF GetLog
  <2>2. extracted' \in [Users -> SUBSET Logs]
    <3>1. \/ extracted' = extracted
          \/ extracted' = [extracted EXCEPT ![owner[cur]] = @ \cup fetched[owner[cur]]]
      BY <1>3, Zenon DEF GetLog
    <3>2. extracted[owner[cur]] \cup fetched[owner[cur]] \in SUBSET Logs
      BY <2>1
    <3>3. extracted \in [Users -> SUBSET Logs]
      OBVIOUS
    <3> QED BY ONLY <2>1, <3>1, <3>2, <3>3
  <2>3. pc' = "deleting" => log' \in Logs
    <3>1. pc' = "deleting" => log' \in extracted'[owner[cur]]
      BY <1>3 DEF GetLog
    <3> QED BY <2>1, <2>2, <3>1
  <2>4. (pc' = "dead" /\ log' = log) \/ pc' = "deleting"
    BY <1>3 DEF GetLog
  <2> QED BY <1>3, <2>2, <2>3, <2>4
          DEF GetLog, editorVars, reqVars, serverVars, runnerVars, history
<1>4. CASE DeleteLink
  <2>1. NoBox \in Boxes
    BY DEF NoBox, Boxes
  <2>2. owner[cur] \in Users
    BY <1>4 DEF DeleteLink
  <2>3. box' \in [Users -> Boxes]
    BY <1>4, <2>1, <2>2 DEF DeleteLink
  <2>4. links' \in [Users -> Builds \cup {None}] /\ archive' \in [Users -> SUBSET Logs]
    BY <1>4, <2>2 DEF DeleteLink
  <2>5. pc' \in {"replying", "dead"}
    BY <1>4 DEF DeleteLink
  <2> QED BY <1>4, <2>3, <2>4, <2>5 DEF DeleteLink, editorVars, reqVars, runnerVars, history
<1>5. CASE AnswerRunner
  BY <1>5 DEF AnswerRunner, editorVars, reqVars, serverVars, history
<1>6. CASE ForwardLog
  <2>1. wire' \in Seq(Logs)
    BY <1>6, AppendProperties DEF ForwardLog
  <2> QED BY <1>6, <2>1 DEF ForwardLog, editorVars, reqVars, serverVars, runnerVars, history
<1>7. CASE CleanUp
  BY <1>7 DEF CleanUp, editorVars, reqVars, serverVars, runnerVars, history
<1> QED BY <1>1, <1>2, <1>3, <1>4, <1>5, <1>6, <1>7 DEF Message

(* The steps of users, network and the compile server's JVM. *)
LEMMA TInvEnvironment ==
  ASSUME TInv, (\E p \in Projects : Edit(p)) \/ Deliver \/ Crash \/ Restart
  PROVE  TInv'
<1> USE OwnerAssumption, ProjectAssumption, BoundsAssumption, NoneAssumption
<1> USE DEF TInv, TypeOK, RequestInv, CurrentInv, HasLog, RunnerSteps
<1>1. ASSUME NEW p \in Projects, Edit(p) PROVE TInv'
  <2>1. edits' \in [Projects -> 0..MaxEdits]
    <3>1. edits[p] + 1 \in 0..MaxEdits
      <4>1. edits[p] \in 0..MaxEdits /\ edits[p] < MaxEdits
        BY <1>1 DEF Edit
      <4> QED BY <4>1
    <3> QED BY <1>1, <3>1 DEF Edit
  <2>2. UNCHANGED <<zipped, reqVars, wire, serverVars, runnerVars, messagerVars, history>>
    BY <1>1 DEF Edit
  <2> QED BY <2>1, <2>2 DEF reqVars, serverVars, runnerVars, messagerVars, history
<1>2. CASE Deliver
  <2>1. Head(wire) \in Logs /\ Tail(wire) \in Seq(Logs)
    BY <1>2, HeadTailProperties DEF Deliver
  <2>2. rest # None => Append(inbox[rest], Head(wire)) \in Seq(Logs)
    BY <2>1, AppendProperties
  <2>3. inbox' \in [Builds -> Seq(Logs)]
    BY <1>2, <2>2 DEF Deliver
  <2> QED BY <1>2, <2>1, <2>3 DEF Deliver, editorVars, serverVars, runnerVars, messagerVars, history
<1>3. CASE Crash
  <2>1. runner' \in [Builds -> RunnerSteps \cup {"none", "stuck", "done", "dead"}]
    BY <1>3 DEF Crash
  <2>2. \A c \in Builds : runner[c] = "none" <=> runner'[c] = "none"
    BY <1>3 DEF Crash, Active
  <2>3. crashes' \in 0..MaxCrashes
    BY <1>3 DEF Crash
  <2>4. links' \in [Users -> Builds \cup {None}] /\ serial' \subseteq Users
    BY <1>3 DEF Crash
  <2> QED BY <1>3, <2>1, <2>2, <2>3, <2>4 DEF Crash, editorVars, reqVars, messagerVars
<1>4. CASE Restart
  BY <1>4 DEF Restart, editorVars, reqVars, runnerVars, messagerVars, history
<1> QED BY <1>1, <1>2, <1>3, <1>4

LEMMA TInvStutter == TInv /\ UNCHANGED vars => TInv'
BY DEF vars, TInv, TypeOK, RequestInv, CurrentInv, HasLog, editorVars, reqVars, serverVars,
       runnerVars, messagerVars, history

(* Every variable of the pipeline keeps its type, whatever the interleaving: *)
(* in particular no step of Messager runs without a notification, and no     *)
(* project is copied before its archive exists.                              *)
THEOREM TypeCorrect == Spec => []TypeOK
<1>1. TInv /\ [Next]_vars => TInv'
  BY TInvRequest, TInvRun, TInvMessager, TInvEnvironment, TInvStutter DEF Next
<1> QED BY <1>1, TInvInit, PTL DEF Spec, TInv

-----------------------------------------------------------------------------
LEMMA OwnInvInit == Init => OwnInv
BY BoundsAssumption, NoneAssumption
DEF Init, OwnInv, ServerInv, NotificationInv, UnpackedInv, SerialInv, MessagerInv, Alone, Over,
    Owns, Busy, Clean, Unanswered, HasLog, HandlesSerial, SerialLogIsOwn, MessagerSurvivesSerial

(* Steps that leave the compile server and Messager alone. *)
LEMMA OwnInvQuiet ==
  ASSUME IInv, UNCHANGED <<serverVars, runner, messagerVars, serial>>
  PROVE  OwnInv'
BY DEF IInv, OwnInv, ServerInv, NotificationInv, UnpackedInv, SerialInv, MessagerInv, Alone,
       Over, Owns, Busy, Clean, Destroyed, Notified, Active, Unanswered, HasLog, HandlesSerial,
       SerialLogIsOwn, MessagerSurvivesSerial, serverVars, messagerVars

(* A RunCompiler b moves to another step, short of its notification.  It     *)
(* touches nothing but the box and the archive of its user, so all that has *)
(* to be shown for such a step is that a serial b still owns them.           *)
LEMMA OwnInvRunner ==
  ASSUME IInv, NEW b \in Builds, NEW s,
         runner[b] \in RunnerSteps \ {"awaiting"},
         s \in RunnerSteps \cup {"stuck", "dead"},
         s # "awaiting",
         runner' = [runner EXCEPT ![b] = s],
         \A v \in Users \ {owner[b]} : box'[v] = box[v] /\ archive'[v] = archive[v],
         owner[b] \in serial => Owns(b)',
         UNCHANGED <<up, links, messagerVars, serial>>
  PROVE  OwnInv'
<1> USE DEF IInv, TInv, TypeOK
<1> USE OwnerAssumption
<1>1. /\ pc' = pc /\ cur' = cur /\ log' = log /\ mailbox' = mailbox
      /\ fetched' = fetched /\ extracted' = extracted
  BY DEF messagerVars
<1>2. \A c \in Builds : c # b => runner'[c] = runner[c]
  OBVIOUS
<1>3. ServerInv'
  BY <1>2 DEF OwnInv, ServerInv, Active
<1>4. NotificationInv'
  <2>1. ~Notified(b)
    BY DEF Notified, RunnerSteps
  <2>2. \A i \in 1..Len(mailbox) : mailbox[i] \in Builds
    BY ElementOfSeq
  <2>3. \A c \in Builds : Notified(c) => Notified(c)'
    BY <1>2, <2>1 DEF Notified
  <2>4. Unanswered => cur \in Builds
    BY DEF Unanswered, CurrentInv, MessagerSteps
  <2> QED BY <1>1, <2>2, <2>3, <2>4 DEF OwnInv, NotificationInv, Unanswered
<1>5. UnpackedInv'
  BY <1>1 DEF OwnInv, UnpackedInv, HasLog
<1>6. SerialInv'
  <2> SUFFICES ASSUME NEW u \in serial
               PROVE  /\ Alone(u)' /\ Over(u)'
                      /\ \A c \in Builds : owner[c] = u /\ Busy(c)' => Owns(c)'
    BY DEF SerialInv
  <2>1. \A c \in Builds : Busy(c)' <=> Busy(c)
    BY <1>2 DEF Busy, RunnerSteps
  <2>2. CASE owner[b] = u
    <3>1. Alone(u) /\ Busy(b)
      BY <2>2 DEF OwnInv, SerialInv, Busy, RunnerSteps
    <3> QED BY <2>1, <2>2, <3>1 DEF Alone, Over
  <2>3. CASE owner[b] # u
    <3>1. \A c \in Builds : owner[c] = u => runner'[c] = runner[c]
      BY <1>2, <2>3
    <3>2. box'[u] = box[u] /\ archive'[u] = archive[u] /\ links'[u] = links[u]
      BY <2>3
    <3>3. \A c \in Builds : Destroyed(c)' <=> Destroyed(c)
      BY <1>1 DEF Destroyed
    <3>4. Alone(u)' /\ Over(u)'
      BY <2>1, <3>1, <3>2 DEF OwnInv, SerialInv, Alone, Over, Clean
    <3>5. ASSUME NEW c \in Builds, owner[c] = u, Busy(c)' PROVE Owns(c)'
      <4>1. Owns(c)
        BY <2>1, <3>5 DEF OwnInv, SerialInv
      <4> QED BY ONLY <4>1, <3>1, <3>2, <3>3, <3>5 DEF Owns, Clean
    <3> QED BY <3>4, <3>5
  <2> QED BY <2>2, <2>3
<1>7. MessagerInv'
  BY <1>1 DEF OwnInv, MessagerInv, SerialLogIsOwn, MessagerSurvivesSerial, HandlesSerial, HasLog
<1> QED BY <1>3, <1>4, <1>5, <1>6, <1>7 DEF OwnInv

(* The steps of a RunCompiler, its notification included. *)
LEMMA OwnInvRun ==
  ASSUME IInv, NEW b \in Builds, Run(b)
  PROVE  OwnInv'
<1> USE OwnerAssumption
<1> DEFINE u == owner[b]
<1>0. u \in Users /\ box[u] \in Boxes /\ box \in [Users -> Boxes]
      /\ runner \in [Builds -> RunnerSteps \cup {"none", "stuck", "done", "dead"}]
      /\ archive \in [Users -> SUBSET Logs]
  BY DEF IInv, TInv, TypeOK
<1>1. runner[b] \in RunnerSteps \ {"awaiting"}
  BY DEF Run, RunnerStep, RunnerSteps, CreateCompilerBox, CopyFiles, CopyHangs, MakeMakefile,
         ReadMakefile, Execute, ParseLog, ZipBinAndLog, Notify
<1>2. u \in serial => Owns(b)
  BY <1>1 DEF IInv, OwnInv, SerialInv, Busy, RunnerSteps
<1>3. ~Destroyed(b)
  BY <1>1 DEF IInv, OwnInv, NotificationInv, Destroyed, Unanswered, Notified, RunnerSteps
<1>4. CASE CreateCompilerBox(b)
  <2>1. u \in serial => Owns(b)'
    BY <1>0, <1>2, <1>3, <1>4 DEF Owns, Clean, NoBox, Destroyed, CreateCompilerBox, RunnerStep,
       RunnerSteps, BoxSteps, messagerVars
  <2> QED BY <1>0, <1>1, <1>4, <2>1, OwnInvRunner
          DEF CreateCompilerBox, RunnerStep, RunnerSteps, history
<1>5. CASE CopyFiles(b)
  <2>1. PICK s : box' = [box EXCEPT ![u].src = s]
    BY <1>5 DEF CopyFiles
  <2>2. u \in serial => Owns(b)'
    BY <1>0, <1>2, <1>3, <1>5, <2>1 DEF Owns, Clean, Destroyed, CopyFiles, RunnerStep,
       RunnerSteps, BoxSteps, Boxes, messagerVars
  <2> QED BY <1>0, <1>1, <1>5, <2>1, <2>2, OwnInvRunner
          DEF CopyFiles, RunnerStep, RunnerSteps, history
<1>6. CASE CopyHangs(b)
  <2>1. u \notin serial
    BY <1>2, <1>6 DEF Owns, CopyHangs, RunnerStep
  <2> QED BY <1>0, <1>1, <1>6, <2>1, OwnInvRunner
          DEF CopyHangs, RunnerStep, RunnerSteps, serverVars, history
<1>7. CASE MakeMakefile(b)
  <2>1. u \in serial => Owns(b)'
    BY <1>0, <1>2, <1>3, <1>7 DEF Owns, Clean, Destroyed, MakeMakefile, RunnerStep,
       RunnerSteps, BoxSteps, Boxes, messagerVars
  <2> QED BY <1>0, <1>1, <1>7, <2>1, OwnInvRunner
          DEF MakeMakefile, RunnerStep, RunnerSteps, history
<1>8. CASE ReadMakefile(b)
  <2>1. PICK s \in {"parsing", "dead", "executing"} :
          /\ runner' = [runner EXCEPT ![b] = s]
          /\ s = "dead" => ~box[u].made
    BY <1>8, Zenon DEF ReadMakefile, RunnerStep
  <2>2. runner[b] = "reading"
    BY <1>8 DEF ReadMakefile, RunnerStep
  <2>3. u \in serial => Owns(b)'
    BY <1>0, <1>2, <1>3, <1>8, <2>1, <2>2 DEF Owns, Clean, Destroyed, ReadMakefile,
       RunnerSteps, BoxSteps, serverVars, messagerVars
  <2> QED BY <1>0, <1>1, <1>8, <2>1, <2>3, OwnInvRunner
          DEF ReadMakefile, RunnerSteps, serverVars, history
<1>9. CASE Execute(b)
  <2>1. PICK R : /\ box' = [box EXCEPT ![u].raw = R]
                 /\ \A r \in R : r \in box[u].raw \/ r.by = b
    <3>1. CASE box[u].dir
      <4>1. PICK o : box' = [box EXCEPT ![u].raw =
                               @ \cup {[by |-> b, srcs |-> files[b], out |-> o]}]
        BY <1>9, <3>1 DEF Execute
      <4> DEFINE R == box[u].raw \cup {[by |-> b, srcs |-> files[b], out |-> o]}
      <4>2. box' = [box EXCEPT ![u].raw = R] /\ \A r \in R : r \in box[u].raw \/ r.by = b
        BY <4>1
      <4> QED BY <4>2
    <3>2. CASE ~box[u].dir
      BY <1>0, <1>9, <3>2 DEF Execute, Boxes
    <3> QED BY <3>1, <3>2
  <2>2. u \in serial => Owns(b)'
    BY <1>0, <1>2, <1>3, <1>9, <2>1 DEF Owns, Clean, Destroyed, Execute, RunnerStep,
       RunnerSteps, BoxSteps, Boxes, messagerVars
  <2> QED BY <1>0, <1>1, <1>9, <2>1, <2>2, OwnInvRunner
          DEF Execute, RunnerStep, RunnerSteps, history
<1>10. CASE ParseLog(b)
  <2>1. XmlLogs(b, box[u].raw) # {} /\ \A l \in XmlLogs(b, box[u].raw) : l.by = b
    <3> DEFINE own == {r \in box[u].raw : r.by = b}
    <3>1. CASE own = {}
      <4>1. XmlLogs(b, box[u].raw) = {[by |-> b, srcs |-> {}, verdict |-> "success"]}
        BY <3>1, Zenon DEF XmlLogs
      <4> QED BY <4>1
    <3>2. CASE own # {}
      <4>1. XmlLogs(b, box[u].raw) =
              {[by |-> b, srcs |-> r.srcs,
                verdict |-> IF r.out = "errors" THEN "failure" ELSE "success"] : r \in own}
        BY <3>2, Zenon DEF XmlLogs
      <4>2. PICK q \in own : TRUE
        BY <3>2
      <4>3. [by |-> b, srcs |-> q.srcs,
             verdict |-> IF q.out = "errors" THEN "failure" ELSE "success"]
              \in XmlLogs(b, box[u].raw)
        BY <4>1, <4>2
      <4>4. \A l \in XmlLogs(b, box[u].raw) : l.by = b
        BY <4>1
      <4> QED BY <4>3, <4>4
    <3> QED BY <3>1, <3>2
  <2>2. runner[b] = "parsing" /\ archive' = archive
    BY <1>10, Zenon DEF ParseLog, RunnerStep
  <2>3. CASE runner' = [runner EXCEPT ![b] = "dead"] /\ box' = box
             /\ (u \in serial => \E r \in box[u].raw : r.by = b /\ r.out = "malformed")
    <3>1. u \in serial => Owns(b)'
      BY <1>0, <1>2, <1>3, <1>10, <2>2, <2>3 DEF Owns, Clean, Destroyed, ParseLog,
         RunnerSteps, BoxSteps, messagerVars
    <3> QED BY <1>0, <1>1, <1>10, <2>3, <3>1, OwnInvRunner
            DEF ParseLog, RunnerSteps, history
  <2>4. CASE /\ runner' = [runner EXCEPT ![b] = "archiving"]
             /\ box' = [box EXCEPT ![u].xml = @ \cup XmlLogs(b, box[u].raw)]
    <3>1. u \in serial => Owns(b)'
      BY <1>0, <1>2, <1>3, <1>10, <2>1, <2>2, <2>4 DEF Owns, Clean, Destroyed, ParseLog,
         RunnerSteps, BoxSteps, Boxes, messagerVars
    <3> QED BY <1>0, <1>1, <1>10, <2>4, <3>1, OwnInvRunner
            DEF ParseLog, RunnerSteps, history
  <2>5. u \in serial => box[u].dir
    BY <1>2, <1>3, <2>2 DEF Owns, BoxSteps
  <2> QED BY <1>10, <2>3, <2>4, <2>5, Zenon DEF ParseLog, RunnerStep
<1>11. CASE ZipBinAndLog(b)
  <2>1. u \in serial => Owns(b)'
    BY <1>0, <1>2, <1>3, <1>11 DEF Owns, Clean, Destroyed, ZipBinAndLog, RunnerStep,
       RunnerSteps, BoxSteps, messagerVars
  <2> QED BY <1>0, <1>1, <1>11, <2>1, OwnInvRunner
          DEF ZipBinAndLog, RunnerStep, RunnerSteps, history
<1>12. CASE Notify(b)
  <2> USE DEF Notify, RunnerStep
  <2>1. ServerInv'
    BY <1>0, <1>1, <1>12 DEF IInv, OwnInv, ServerInv, Active, serverVars
  <2>2. NotificationInv'
    <3> DEFINE n == Len(mailbox)
    <3>1. mailbox \in Seq(Builds) /\ n \in Nat
      BY DEF IInv, TInv, TypeOK
    <3>2. /\ Len(mailbox') = n + 1 /\ mailbox'[n + 1] = b
          /\ \A i \in 1..n : mailbox'[i] = mailbox[i] /\ mailbox[i] \in Builds
      BY <1>12, <3>1, AppendProperties, ElementOfSeq
    <3>3. ~Notified(b) /\ Notified(b)'
      BY <1>0, <1>1, <1>12 DEF Notified, RunnerSteps
    <3>4. \A c \in Builds : Notified(c) => Notified(c)'
      BY <1>0, <1>12, <3>3 DEF Notified, history
    <3>5. NotificationInv
      BY DEF IInv, OwnInv
    <3>6. \A i \in 1..n : mailbox[i] # b
      BY <3>3, <3>5 DEF NotificationInv
    <3>7. \A i \in 1..(n + 1) : i \in 1..n \/ i = n + 1
      BY <3>1
    <3>8. Unanswered => cur \in Builds /\ cur # b
      BY <3>3, <3>5 DEF IInv, TInv, CurrentInv, NotificationInv, Unanswered, MessagerSteps
    <3>9. Unanswered' = Unanswered /\ cur' = cur
      BY <1>12 DEF Unanswered
    <3>10. \A i \in 1..Len(mailbox') : Notified(mailbox[i])'
      <4> SUFFICES ASSUME NEW i \in 1..(n + 1) PROVE Notified(mailbox[i])'
        BY <3>2
      <4>1. CASE i = n + 1
        BY <3>2, <3>3, <4>1 DEF Notified
      <4>2. CASE i \in 1..n
        <5>1. Notified(mailbox[i]) /\ mailbox[i] \in Builds /\ mailbox'[i] = mailbox[i]
          BY <3>2, <3>5, <4>2 DEF NotificationInv
        <5> QED BY <3>4, <5>1 DEF Notified
      <4> QED BY <3>7, <4>1, <4>2
    <3>11. \A i, j \in 1..Len(mailbox') : mailbox'[i] = mailbox'[j] => i = j
      BY <3>2, <3>5, <3>6, <3>7 DEF NotificationInv
    <3>12. Unanswered' => Notified(cur)' /\ \A i \in 1..Len(mailbox') : mailbox'[i] # cur'
      <4> SUFFICES ASSUME Unanswered PROVE Notified(cur)' /\ \A i \in 1..(n + 1) : mailbox'[i] # cur
        BY <3>2, <3>9
      <4>1. Notified(cur) /\ \A i \in 1..n : mailbox[i] # cur
        BY <3>5 DEF NotificationInv
      <4>2. Notified(cur)'
        BY <3>4, <3>8, <3>9, <4>1 DEF Notified
      <4> QED BY <3>2, <3>7, <3>8, <4>1, <4>2
    <3> QED BY <3>10, <3>11, <3>12 DEF NotificationInv
  <2>3. UnpackedInv'
    BY <1>12 DEF IInv, OwnInv, UnpackedInv, HasLog
  <2>4. SerialInv'
    BY <1>0, <1>12 DEF IInv, OwnInv, SerialInv, serverVars, history, Alone, Over, Owns, Busy,
       Clean, Destroyed, RunnerSteps, BoxSteps
  <2>5. MessagerInv'
    BY <1>12 DEF IInv, OwnInv, MessagerInv, SerialLogIsOwn, MessagerSurvivesSerial,
       HandlesSerial, HasLog, history
  <2> QED BY <2>1, <2>2, <2>3, <2>4, <2>5 DEF OwnInv
<1> QED BY <1>4, <1>5, <1>6, <1>7, <1>8, <1>9, <1>10, <1>11, <1>12 DEF Run

(* A new build: it makes its user non-serial unless all earlier ones are over. *)
LEMMA OwnInvPut ==
  ASSUME IInv, NEW b \in Builds, Put(b)
  PROVE  OwnInv'
<1> USE OwnerAssumption
<1> USE DEF Put
<1> DEFINE u == owner[b]
<1>0. /\ u \in Users /\ runner[b] = "none" /\ links \in [Users -> Builds \cup {None}]
      /\ runner \in [Builds -> RunnerSteps \cup {"none", "stuck", "done", "dead"}]
      /\ mailbox \in Seq(Builds) /\ serial' \subseteq serial
      /\ pc' = pc /\ cur' = cur /\ log' = log /\ mailbox' = mailbox
      /\ fetched' = fetched /\ extracted' = extracted /\ box' = box /\ archive' = archive
  BY DEF IInv, TInv, TypeOK, RequestInv, messagerVars
<1>1. \A c \in Builds \ {b} : runner'[c] = runner[c]
  BY <1>0
<1>2. ServerInv'
  BY DEF ServerInv
<1>3. NotificationInv'
  <2>1. \A c \in Builds : Notified(c) => Notified(c)'
    BY <1>0, <1>1 DEF Notified
  <2>2. \A i \in 1..Len(mailbox) : mailbox[i] \in Builds
    BY <1>0, ElementOfSeq
  <2>3. Unanswered => cur \in Builds
    BY DEF Unanswered, IInv, TInv, CurrentInv, MessagerSteps
  <2> QED BY <1>0, <2>1, <2>2, <2>3 DEF IInv, OwnInv, NotificationInv, Unanswered, Notified
<1>4. UnpackedInv'
  BY <1>0 DEF IInv, OwnInv, UnpackedInv, HasLog
<1>5. SerialInv'
  <2>1. ~Destroyed(b) /\ \A c \in Builds : Destroyed(c)' <=> Destroyed(c)
    BY <1>0 DEF IInv, OwnInv, NotificationInv, Destroyed, Unanswered, Notified
  <2> SUFFICES ASSUME NEW v \in serial'
               PROVE  /\ Alone(v)' /\ Over(v)'
                      /\ \A c \in Builds : owner[c] = v /\ Busy(c)' => Owns(c)'
    BY DEF SerialInv
  <2>2. v \in serial /\ Alone(v) /\ Over(v)
        /\ \A c \in Builds : owner[c] = v /\ Busy(c) => Owns(c)
    BY <1>0 DEF IInv, OwnInv, SerialInv
  <2>3. CASE v = u
    <3>1. \A c \in Builds \ {b} : owner[c] = u => ~Busy(c)
      BY <2>3, <1>0 DEF Busy
    <3>2. Clean(u)
      BY <1>0, <2>2, <2>3, <3>1 DEF Over, Busy
    <3>3. Owns(b)'
      BY <1>0, <2>1, <3>2 DEF Owns, Clean, NoBox, RunnerSteps, BoxSteps
    <3>4. Busy(b)' /\ \A c \in Builds \ {b} : owner[c] = u => ~Busy(c)'
      BY <1>0, <1>1, <3>1 DEF Busy
    <3> QED BY <2>3, <3>3, <3>4 DEF Alone, Over
  <2>4. CASE v # u
    <3>1. \A c \in Builds : owner[c] = v => runner'[c] = runner[c]
      BY <1>1, <2>4
    <3>2. box'[v] = box[v] /\ archive'[v] = archive[v] /\ links'[v] = links[v]
      BY <1>0, <2>4 DEF IInv, TInv, TypeOK
    <3>3. \A c \in Builds : owner[c] = v => (Busy(c)' <=> Busy(c))
      BY <3>1 DEF Busy
    <3>4. Alone(v)' /\ Over(v)'
      BY <2>2, <3>2, <3>3 DEF Alone, Over, Clean
    <3>5. ASSUME NEW c \in Builds, owner[c] = v, Busy(c)' PROVE Owns(c)'
      <4>1. Owns(c)
        BY <2>2, <3>3, <3>5
      <4> QED BY ONLY <4>1, <2>1, <3>1, <3>2, <3>5 DEF Owns, Clean
    <3> QED BY <3>4, <3>5
  <2> QED BY <2>3, <2>4
<1>6. MessagerInv'
  BY <1>0 DEF IInv, OwnInv, MessagerInv, SerialLogIsOwn, MessagerSurvivesSerial, HandlesSerial,
     HasLog
<1> QED BY <1>2, <1>3, <1>4, <1>5, <1>6 DEF OwnInv

(* The compile server stops: users with an unfinished build are not serial   *)
(* any more.                                                                 *)
LEMMA OwnInvCrash ==
  ASSUME IInv, Crash
  PROVE  OwnInv'
<1> USE OwnerAssumption
<1> USE DEF Crash
<1>0. /\ runner \in [Builds -> RunnerSteps \cup {"none", "stuck", "done", "dead"}]
      /\ mailbox \in Seq(Builds) /\ serial' \subseteq serial /\ serial \subseteq Users
      /\ pc' = pc /\ cur' = cur /\ log' = log /\ mailbox' = mailbox
      /\ fetched' = fetched /\ extracted' = extracted /\ box' = box /\ archive' = archive
      /\ links' = [u \in Users |-> None]
  BY DEF IInv, TInv, TypeOK, messagerVars
<1>1. /\ \A c \in Builds : Active(c) => runner'[c] = "dead" /\ owner[c] \notin serial'
      /\ \A c \in Builds : ~Active(c) => runner'[c] = runner[c]
  BY <1>0
<1>2. ServerInv'
  BY <1>0, <1>1 DEF ServerInv, Active, RunnerSteps
<1>3. NotificationInv'
  <2>1. \A c \in Builds : Notified(c) => Notified(c)'
    BY <1>0, <1>1 DEF Notified, Active, RunnerSteps
  <2>2. \A i \in 1..Len(mailbox) : mailbox[i] \in Builds
    BY <1>0, ElementOfSeq
  <2>3. Unanswered => cur \in Builds
    BY DEF Unanswered, IInv, TInv, CurrentInv, MessagerSteps
  <2> QED BY <1>0, <2>1, <2>2, <2>3 DEF IInv, OwnInv, NotificationInv, Unanswered, Notified
<1>4. UnpackedInv'
  BY <1>0 DEF IInv, OwnInv, UnpackedInv, HasLog
<1>5. SerialInv'
  <2> SUFFICES ASSUME NEW v \in serial'
               PROVE  /\ Alone(v)' /\ Over(v)'
                      /\ \A c \in Builds : owner[c] = v /\ Busy(c)' => Owns(c)'
    BY DEF SerialInv
  <2>1. v \in Users /\ Alone(v) /\ Over(v)
        /\ \A c \in Builds : owner[c] = v /\ Busy(c) => Owns(c)
    BY <1>0 DEF IInv, OwnInv, SerialInv
  <2>2. \A c \in Builds : owner[c] = v => ~Active(c) /\ runner'[c] = runner[c]
    BY <1>1
  <2>3. \A c \in Builds : owner[c] = v => (Busy(c)' <=> Busy(c))
    BY <2>2 DEF Busy
  <2>4. Alone(v)' /\ Over(v)'
    BY <1>0, <2>1, <2>3 DEF Alone, Over, Clean
  <2>5. ASSUME NEW c \in Builds, owner[c] = v, Busy(c)' PROVE Owns(c)'
    <3>1. Owns(c) /\ runner'[c] = "dead" /\ runner[c] = "dead"
      BY <1>0, <2>1, <2>2, <2>3, <2>5 DEF Active, Busy, RunnerSteps
    <3>2. Destroyed(c)' <=> Destroyed(c)
      BY <1>0 DEF Destroyed
    <3>3. ~Destroyed(c)
      BY <1>0, <2>5, <3>1 DEF IInv, OwnInv, NotificationInv, Destroyed, Unanswered, Notified
    <3> QED BY <1>0, <3>1, <3>2, <3>3 DEF Owns, Clean, RunnerSteps, BoxSteps
  <2> QED BY <2>4, <2>5
<1>6. MessagerInv'
  BY <1>0 DEF IInv, OwnInv, MessagerInv, SerialLogIsOwn, MessagerSurvivesSerial, HandlesSerial,
     HasLog
<1> QED BY <1>2, <1>3, <1>4, <1>5, <1>6 DEF OwnInv

LEMMA OwnInvRestart ==
  ASSUME IInv, Restart
  PROVE  OwnInv'
BY DEF Restart, IInv, OwnInv, ServerInv, NotificationInv, UnpackedInv, SerialInv, MessagerInv,
       Alone, Over, Owns, Busy, Clean, Destroyed, Notified, Active, Unanswered, HasLog,
       HandlesSerial, SerialLogIsOwn, MessagerSurvivesSerial, runnerVars, messagerVars, history

(* The steps of Messager. *)
LEMMA OwnInvMessager ==
  ASSUME IInv, Message
  PROVE  OwnInv'
<1> USE OwnerAssumption
<1> USE DEF HasLog, HandlesSerial, SerialLogIsOwn, MessagerSurvivesSerial
<1> DEFINE u == owner[cur]
<1>0. /\ runner \in [Builds -> RunnerSteps \cup {"none", "stuck", "done", "dead"}]
      /\ mailbox \in Seq(Builds) /\ serial \subseteq Users
      /\ extracted \in [Users -> SUBSET Logs] /\ fetched \in [Users -> SUBSET Logs]
      /\ box \in [Users -> Boxes] /\ archive \in [Users -> SUBSET Logs]
      /\ links \in [Users -> Builds \cup {None}]
      /\ pc \in MessagerSteps \cup {"dead"} => cur \in Builds
  BY DEF IInv, TInv, TypeOK, CurrentInv
<1>1. ServerInv /\ NotificationInv /\ UnpackedInv /\ SerialInv /\ MessagerInv
  BY DEF IInv, OwnInv
<1>2. \A i \in 1..Len(mailbox) : mailbox[i] \in Builds
  BY <1>0, ElementOfSeq
<1>3. CASE Receive
  <2> USE DEF Receive
  <2> DEFINE rest_ == Tail(mailbox)
  <2>1. /\ Len(mailbox) \in Nat \ {0} /\ Len(rest_) = Len(mailbox) - 1
        /\ \A i \in 1..Len(rest_) : rest_[i] = mailbox[i + 1]
        /\ Head(mailbox) = mailbox[1]
    BY <1>0, <1>3, HeadTailProperties, EmptySeq
  <2>2. \A i \in 1..Len(rest_) : i + 1 \in 1..Len(mailbox) /\ 1 \in 1..Len(mailbox) /\ i + 1 # 1
    BY <2>1
  <2>3. NotificationInv'
    BY <1>1, <1>2, <1>3, <2>1, <2>2 DEF NotificationInv, Notified, Unanswered, runnerVars, history
  <2>4. ServerInv' /\ UnpackedInv' /\ MessagerInv'
    BY <1>1, <1>3 DEF ServerInv, Active, UnpackedInv, MessagerInv, serverVars, runnerVars, history
  <2>5. SerialInv'
    BY <1>1, <1>3 DEF SerialInv, Alone, Over, Owns, Busy, Clean, Destroyed, serverVars,
       runnerVars, history
  <2> QED BY <2>3, <2>4, <2>5 DEF OwnInv
<1>4. CASE GetCompiledZip
  <2> USE DEF GetCompiledZip
  <2>1. cur \in Builds /\ u \in Users /\ Notified(cur)
    BY <1>0, <1>1, <1>4 DEF NotificationInv, Unanswered, MessagerSteps
  <2>2. u \in serial => runner[cur] = "awaiting" /\ up /\ Owns(cur) /\ ~Destroyed(cur)
    BY <1>1, <1>4, <2>1 DEF Notified, ServerInv, Active, SerialInv, Busy, RunnerSteps, Destroyed
  <2>3. u \in serial => archive[u] # {} /\ \A l \in archive[u] : l.by = cur
    BY <2>2 DEF Owns
  <2>4. MessagerInv'
    BY <1>0, <1>1, <1>4, <2>1, <2>2, <2>3 DEF MessagerInv, history
  <2>5. ServerInv' /\ NotificationInv' /\ UnpackedInv'
    BY <1>1, <1>4 DEF ServerInv, Active, NotificationInv, Notified, Unanswered, UnpackedInv,
       serverVars, runnerVars, history
  <2>6. SerialInv'
    BY <1>1, <1>4 DEF SerialInv, Alone, Over, Owns, Busy, Clean, Destroyed, serverVars,
       runnerVars, history
  <2> QED BY <2>4, <2>5, <2>6 DEF OwnInv
<1>5. CASE GetLog
  <2>0. /\ cur \in Builds /\ u \in Users /\ pc = "loading"
        /\ UNCHANGED <<serverVars, runnerVars, mailbox, cur, fetched, history>>
    BY <1>0, <1>5 DEF GetLog, MessagerSteps
  <2>1. CASE fetched[u] = {} /\ pc' = "dead" /\ log' = log /\ extracted' = extracted
    <3>1. u \notin serial
      BY <1>1, <2>0, <2>1 DEF MessagerInv
    <3>2. ServerInv' /\ NotificationInv' /\ UnpackedInv' /\ MessagerInv'
      BY <1>1, <2>0, <2>1, <3>1 DEF ServerInv, Active, NotificationInv, Notified, Unanswered,
         UnpackedInv, MessagerInv, serverVars, runnerVars, history
    <3>3. SerialInv'
      BY <1>1, <2>0, <2>1 DEF SerialInv, Alone, Over, Owns, Busy, Clean, Destroyed, serverVars,
         runnerVars, history
    <3> QED BY <3>2, <3>3 DEF OwnInv
  <2>2. CASE /\ pc' = "deleting" /\ log' \in extracted'[u]
             /\ extracted' = [extracted EXCEPT ![u] = @ \cup fetched[u]]
    <3>1. extracted[u] = {}
      BY <1>1, <2>0 DEF UnpackedInv
    <3>2. log' \in fetched[u] /\ \A v \in Users \ {u} : extracted'[v] = extracted[v]
      BY <1>0, <2>0, <2>2, <3>1
    <3>3. MessagerInv'
      BY <1>1, <2>0, <2>2, <3>2 DEF MessagerInv, history
    <3>4. ServerInv' /\ NotificationInv'
      BY <1>1, <2>0, <2>2 DEF ServerInv, Active, NotificationInv, Notified, Unanswered,
         serverVars, runnerVars, history
    <3>5. UnpackedInv'
      BY <1>1, <2>0, <2>2, <3>2 DEF UnpackedInv
    <3>6. SerialInv'
      BY <1>1, <2>0, <2>2 DEF SerialInv, Alone, Over, Owns, Busy, Clean, Destroyed, serverVars,
         runnerVars, history
    <3> QED BY <3>3, <3>4, <3>5, <3>6 DEF OwnInv
  <2> QED BY <1>5, <2>1, <2>2, Zenon DEF GetLog
<1>6. CASE DeleteLink
  <2>0. /\ cur \in Builds /\ u \in Users /\ pc = "deleting" /\ Notified(cur)
        /\ UNCHANGED <<up, runnerVars, mailbox, cur, log, fetched, extracted, history>>
    BY <1>0, <1>1, <1>6 DEF DeleteLink, MessagerSteps, NotificationInv, Unanswered
  <2>1. u \in serial => /\ runner[cur] = "awaiting" /\ up /\ links[u] = cur /\ Alone(u)
                        /\ pc' = "replying"
    <3>1. ~Destroyed(cur)
      BY <2>0 DEF Destroyed
    <3> QED BY <1>1, <1>6, <2>0, <3>1 DEF DeleteLink, Notified, ServerInv, Active, SerialInv,
            Busy, Owns, RunnerSteps
  <2>2. pc' \in {"replying", "dead"} /\ (pc' = "dead" => u \notin serial)
    BY <1>6, <2>1 DEF DeleteLink
  <2>3. ServerInv' /\ NotificationInv' /\ MessagerInv'
    BY <1>1, <2>0, <2>2 DEF ServerInv, Active, NotificationInv, Notified, Unanswered,
       MessagerInv, runnerVars, history
  <2>4. UnpackedInv'
    BY <1>1, <2>0, <2>2 DEF UnpackedInv
  <2>5. \A v \in Users \ {u} : links'[v] = links[v] /\ box'[v] = box[v] /\ archive'[v] = archive[v]
    BY <1>0, <1>6, <2>0 DEF DeleteLink
  <2>6. u \in serial => links'[u] = None /\ Clean(u)'
    BY <1>0, <1>6, <2>0, <2>1, NoneAssumption DEF DeleteLink, Clean
  <2>7. SerialInv'
    <3> SUFFICES ASSUME NEW v \in serial
                 PROVE  /\ Alone(v)' /\ Over(v)'
                        /\ \A c \in Builds : owner[c] = v /\ Busy(c)' => Owns(c)'
      BY <2>0 DEF SerialInv, history
    <3>1. Alone(v) /\ Over(v) /\ \A c \in Builds : owner[c] = v /\ Busy(c) => Owns(c)
      BY <1>1 DEF SerialInv
    <3>2. runner' = runner /\ \A c \in Builds : Busy(c)' <=> Busy(c)
      BY <2>0 DEF Busy, runnerVars
    <3>3. CASE v = u
      <4>1. \A c \in Builds : owner[c] = u /\ Busy(c) => c = cur
        BY <2>0, <2>1, <3>1, <3>3 DEF Alone, Busy
      <4>2. Destroyed(cur)'
        BY <2>0, <2>1, <3>3 DEF Destroyed
      <4>3. links'[v] = None /\ box'[v] = NoBox /\ archive'[v] = {}
        BY <2>0, <2>6, <3>3 DEF Clean
      <4>4. Alone(v)' /\ Over(v)'
        BY <3>1, <3>2, <4>3 DEF Alone, Over, Clean
      <4>5. ASSUME NEW c \in Builds, owner[c] = v, Busy(c)' PROVE Owns(c)'
        <5>1. c = cur /\ runner'[c] = "awaiting" /\ Destroyed(c)'
          BY <2>0, <2>1, <3>2, <3>3, <4>1, <4>2, <4>5 DEF Destroyed
        <5> QED BY <4>3, <4>5, <5>1 DEF Owns, Clean, NoBox
      <4> QED BY <4>4, <4>5
    <3>4. CASE v # u
      <4>1. links'[v] = links[v] /\ box'[v] = box[v] /\ archive'[v] = archive[v]
        BY <1>0, <2>5, <3>4
      <4>2. Alone(v)' /\ Over(v)'
        BY <3>1, <3>2, <4>1 DEF Alone, Over, Clean
      <4>3. ASSUME NEW c \in Builds, owner[c] = v, Busy(c)' PROVE Owns(c)'
        <5>1. Owns(c) /\ ~Destroyed(c) /\ ~Destroyed(c)'
          BY <2>0, <3>1, <3>2, <3>4, <4>3 DEF Destroyed
        <5> QED BY ONLY <3>2, <4>1, <4>3, <5>1 DEF Owns, Clean
      <4> QED BY <4>2, <4>3
    <3> QED BY <3>3, <3>4
  <2> QED BY <2>3, <2>4, <2>7 DEF OwnInv
<1>7. CASE AnswerRunner
  <2>0. /\ cur \in Builds /\ u \in Users /\ pc = "replying" /\ pc' = "forwarding" /\ Notified(cur)
        /\ UNCHANGED <<serverVars, mailbox, cur, log, fetched, extracted, history>>
        /\ runner' = IF runner[cur] = "awaiting" THEN [runner EXCEPT ![cur] = "done"] ELSE runner
    BY <1>0, <1>1, <1>7 DEF AnswerRunner, MessagerSteps, NotificationInv, Unanswered
  <2>1. \A c \in Builds \ {cur} : runner'[c] = runner[c]
    <3>1. CASE runner[cur] = "awaiting"
      BY <1>0, <2>0, <3>1
    <3>2. CASE runner[cur] # "awaiting"
      BY <2>0, <3>2
    <3> QED BY <3>1, <3>2
  <2>2. runner'[cur] = runner[cur] \/ (runner[cur] = "awaiting" /\ runner'[cur] = "done")
    BY <1>0, <2>0
  <2>3. ServerInv' /\ UnpackedInv' /\ MessagerInv'
    BY <1>1, <2>0, <2>1, <2>2 DEF ServerInv, Active, RunnerSteps, UnpackedInv, MessagerInv,
       serverVars, history
  <2>4. NotificationInv'
    BY <1>1, <1>2, <2>0, <2>1 DEF NotificationInv, Notified, Unanswered, history
  <2>5. SerialInv'
    <3> SUFFICES ASSUME NEW v \in serial
                 PROVE  /\ Alone(v)' /\ Over(v)'
                        /\ \A c \in Builds : owner[c] = v /\ Busy(c)' => Owns(c)'
      BY <2>0 DEF SerialInv, history
    <3>1. Alone(v) /\ Over(v) /\ \A c \in Builds : owner[c] = v /\ Busy(c) => Owns(c)
      BY <1>1 DEF SerialInv
    <3>2. links' = links /\ box' = box /\ archive' = archive
      BY <2>0 DEF serverVars
    <3>3. CASE v = u
      <4>1. runner[cur] = "awaiting" /\ runner'[cur] = "done"
        BY <1>0, <2>0, <3>3 DEF Notified
      <4>2. \A c \in Builds : owner[c] = u => ~Busy(c)'
        BY <2>0, <2>1, <3>1, <3>3, <4>1 DEF Alone, Busy
      <4>3. Clean(u) /\ links[u] = None
        BY <2>0, <3>1, <3>3, <4>1 DEF Busy, Owns, Destroyed
      <4> QED BY <3>2, <3>3, <4>2, <4>3 DEF Alone, Over, Clean
    <3>4. CASE v # u
      <4>1. \A c \in Builds : owner[c] = v => runner'[c] = runner[c] /\ ~Destroyed(c) /\ ~Destroyed(c)'
        BY <2>0, <2>1, <3>4 DEF Destroyed
      <4>2. Alone(v)' /\ Over(v)'
        BY <3>1, <3>2, <4>1 DEF Alone, Over, Busy, Clean
      <4>3. ASSUME NEW c \in Builds, owner[c] = v, Busy(c)' PROVE Owns(c)'
        <5>1. Owns(c)
          BY <3>1, <4>1, <4>3 DEF Busy
        <5> QED BY ONLY <3>2, <4>1, <4>3, <5>1 DEF Owns, Clean
      <4> QED BY <4>2, <4>3
    <3> QED BY <3>3, <3>4
  <2> QED BY <2>3, <2>4, <2>5 DEF OwnInv
<1>8. CASE ForwardLog
  <2> USE DEF ForwardLog
  <2>1. ServerInv' /\ NotificationInv' /\ UnpackedInv' /\ MessagerInv'
    BY <1>1, <1>8 DEF ServerInv, Active, NotificationInv, Notified, Unanswered, UnpackedInv,
       MessagerInv, serverVars, runnerVars, history
  <2>2. SerialInv'
    BY <1>1, <1>8 DEF SerialInv, Alone, Over, Owns, Busy, Clean, Destroyed, serverVars,
       runnerVars, history
  <2> QED BY <2>1, <2>2 DEF OwnInv
<1>9. CASE CleanUp
  <2> USE DEF CleanUp
  <2>1. ServerInv' /\ NotificationInv' /\ MessagerInv'
    BY <1>1, <1>9 DEF ServerInv, Active, NotificationInv, Notified, Unanswered,
       MessagerInv, serverVars, runnerVars, history
  <2>2. UnpackedInv'
    BY <1>0, <1>1, <1>9 DEF UnpackedInv
  <2>3. SerialInv'
    BY <1>1, <1>9 DEF SerialInv, Alone, Over, Owns, Busy, Clean, Destroyed, serverVars,
       runnerVars, history
  <2> QED BY <2>1, <2>2, <2>3 DEF OwnInv
<1> QED BY <1>3, <1>4, <1>5, <1>6, <1>7, <1>8, <1>9 DEF Message

LEMMA Inductive == Spec => []IInv
<1>1. Init => IInv
  BY TInvInit, OwnInvInit DEF IInv
<1>2. ASSUME IInv, [Next]_vars PROVE IInv'
  <2>1. TInv'
    BY <1>2, TInvRequest, TInvRun, TInvMessager, TInvEnvironment, TInvStutter DEF Next, IInv
  <2>2. OwnInv'
    <3>1. ASSUME NEW b \in Builds, Run(b) PROVE OwnInv'
      BY <1>2, <3>1, OwnInvRun
    <3>2. ASSUME NEW b \in Builds, Put(b) PROVE OwnInv'
      BY <1>2, <3>2, OwnInvPut
    <3>3. ASSUME NEW b \in Builds,
                 Start(b) \/ Register(b) \/ ZipFile(b) \/ ZipFails(b) \/ PutRefused(b)
                          \/ HandleLog(b) \/ Reply(b)
          PROVE  OwnInv'
      <4>1. UNCHANGED <<serverVars, runner, messagerVars, serial>>
        BY <3>3 DEF Start, Register, ZipFile, ZipFails, PutRefused, HandleLog, Reply, runnerVars,
           history
      <4> QED BY <1>2, <4>1, OwnInvQuiet
    <3>4. ASSUME (\E p \in Projects : Edit(p)) \/ Deliver \/ UNCHANGED vars PROVE OwnInv'
      <4>1. UNCHANGED <<serverVars, runner, messagerVars, serial>>
        BY <3>4 DEF Edit, Deliver, vars, runnerVars, history
      <4> QED BY <1>2, <4>1, OwnInvQuiet
    <3> QED BY <1>2, <3>1, <3>2, <3>3, <3>4, OwnInvMessager, OwnInvCrash, OwnInvRestart
            DEF Next, Request
  <2> QED BY <2>1, <2>2 DEF IInv
<1> QED BY <1>1, <1>2, PTL DEF Spec

(* However many users build at once, the log Messager picks for a            *)
(* notification of a serial user is the one of the build that sent it.       *)
THEOREM SerialUsersGetTheirLog == Spec => []SerialLogIsOwn
<1>1. IInv => SerialLogIsOwn
  BY DEF IInv, OwnInv, MessagerInv
<1> QED BY <1>1, Inductive, PTL

(* Messager is never killed by a build of a serial user: only builds that    *)
(* overlapped, or were cut off by a crash, can stop the answers for all.     *)
THEOREM MessagerSurvives == Spec => []MessagerSurvivesSerial
<1>1. IInv => MessagerSurvivesSerial
  BY DEF IInv, OwnInv, MessagerInv
<1> QED BY <1>1, Inductive, PTL

(* When the builds of a serial user are over, the compile server keeps       *)
(* nothing of them: no directory, no archive, no link.                       *)
THEOREM SerialBuildsLeaveNothing == Spec => []SerialLeavesNothing
<1>1. IInv => SerialLeavesNothing
  BY DEF IInv, OwnInv, SerialInv, SerialLeavesNothing, Over, Busy, Clean
<1> QED BY <1>1, Inductive, PTL

(* The RunCompiler of a serial user dies of its own log only, and never      *)
(* hangs at unzip's overwrite prompt.                                        *)
THEOREM SerialRunnersFailOnTheirLogOnly == Spec => []SerialRunnerFailsOnItsLogOnly
<1>1. IInv => SerialRunnerFailsOnItsLogOnly
  BY DEF IInv, OwnInv, SerialInv, SerialRunnerFailsOnItsLogOnly, Owns, Busy
<1> QED BY <1>1, Inductive, PTL

-----------------------------------------------------------------------------
(* Fresh logs, true verdicts: CInv on top of IInv.                          *)

LEMMA CInvInit == Init => CInv
<1> SUFFICES ASSUME Init PROVE CInv
  OBVIOUS
<1>1. VersionInv
  BY ProjectAssumption, BoundsAssumption DEF Init, VersionInv
<1>2. BoxesInv
  BY DEF Init, BoxesInv, Busy
<1>3. PickedInv
  BY DEF Init, PickedInv, HandlesSerial, HasLog
<1> QED BY <1>1, <1>2, <1>3 DEF CInv

(* Edits and archives of projects are versions. *)
LEMMA Versions ==
  ASSUME IInv
  PROVE  /\ \A p \in Projects : edits[p] \in 0..MaxEdits /\ zipped[p] \in 0..MaxEdits \cup {None}
         /\ \A b \in Builds : project[b] \in Projects /\ asked[b] \in 0..MaxEdits
         /\ \A b \in Builds : req[b] = "putting" \/ runner[b] # "none"
                              => zipped[project[b]] \in 0..MaxEdits
BY ProjectAssumption DEF IInv, TInv, TypeOK, RequestInv

(* The steps that only move a request on. *)
LEMMA VersionMoves ==
  ASSUME IInv, VersionInv,
         UNCHANGED <<edits, zipped, asked>>,
         \A b \in Builds : req'[b] = "putting" \/ runner'[b] # "none"
                            => req[b] = "putting" \/ runner[b] # "none",
         \A b \in Builds : runner'[b] = "none" => runner[b] = "none" /\ files'[b] = files[b]
  PROVE  VersionInv'
BY Zenon DEF VersionInv

LEMMA VersionEdit ==
  ASSUME IInv, VersionInv, NEW p \in Projects, Edit(p)
  PROVE  VersionInv'
<1>0. /\ \A q \in Projects : edits'[q] \in Nat /\ edits[q] \in Nat /\ edits[q] <= edits'[q]
      /\ UNCHANGED <<zipped, req, runner, asked, files>>
  BY Versions DEF Edit, IInv, TInv, TypeOK, reqVars, runnerVars
<1>1. \A q \in Projects : zipped[q] # None => zipped[q] <= edits'[q]
  BY <1>0, Versions, NoneAssumption DEF VersionInv
<1>2. \A b \in Builds : asked[b] <= edits'[project[b]]
  BY <1>0, Versions DEF VersionInv
<1> QED BY <1>0, <1>1, <1>2 DEF VersionInv

LEMMA VersionStart ==
  ASSUME IInv, VersionInv, NEW b \in Builds, Start(b)
  PROVE  VersionInv'
<1>0. /\ \A c \in Builds \ {b} : asked'[c] = asked[c] /\ req'[c] = req[c]
      /\ asked'[b] = edits[project[b]] /\ req'[b] = "zipping" /\ runner[b] = "none"
      /\ UNCHANGED <<edits, zipped, runner, files>>
  BY DEF Start, IInv, TInv, TypeOK, RequestInv, runnerVars, editorVars
<1>1. \A c \in Builds : asked'[c] <= edits[project[c]]
  BY <1>0, Versions DEF VersionInv
<1> QED BY <1>0, <1>1 DEF VersionInv

LEMMA VersionZip ==
  ASSUME IInv, VersionInv, NEW b \in Builds, ZipFile(b)
  PROVE  VersionInv'
<1> DEFINE p == project[b]
<1>0. /\ \A q \in Projects \ {p} : zipped'[q] = zipped[q]
      /\ zipped'[p] = edits[p]
      /\ UNCHANGED <<edits, asked, runner, files>>
      /\ \A c \in Builds \ {b} : req'[c] = req[c]
  BY ProjectAssumption DEF ZipFile, IInv, TInv, TypeOK, runnerVars
<1>1. \A q \in Projects : zipped'[q] # None => zipped'[q] <= edits[q]
  BY <1>0, Versions DEF VersionInv
<1>2. \A c \in Builds : project[c] = p => zipped'[project[c]] >= asked[c]
  BY <1>0, Versions DEF VersionInv
<1>3. \A c \in Builds : project[c] # p => zipped'[project[c]] = zipped[project[c]] /\ c # b
  BY <1>0, Versions
<1> QED BY <1>0, <1>1, <1>2, <1>3 DEF VersionInv

LEMMA VersionStep ==
  ASSUME IInv, VersionInv, [Next]_vars
  PROVE  VersionInv'
<1> USE DEF IInv, TInv, TypeOK
<1>1. ASSUME NEW b \in Builds, Register(b) \/ ZipFails(b) \/ PutRefused(b) \/ HandleLog(b) \/ Reply(b)
      PROVE  VersionInv'
  <2>1. /\ UNCHANGED <<edits, zipped, asked, runner, files>>
        /\ \A c \in Builds : req'[c] = "putting" => req[c] = "putting"
    BY <1>1 DEF Register, ZipFails, PutRefused, HandleLog, Reply, editorVars, runnerVars
  <2> QED BY <2>1, VersionMoves
<1>2. ASSUME NEW b \in Builds, Put(b) PROVE VersionInv'
  <2>1. /\ UNCHANGED <<edits, zipped, asked, files>> /\ req[b] = "putting"
        /\ \A c \in Builds : req'[c] = "putting" => req[c] = "putting"
        /\ \A c \in Builds \ {b} : runner'[c] = runner[c]
        /\ runner'[b] = "boxing"
    BY <1>2 DEF Put, editorVars
  <2> QED BY <2>1, VersionMoves
<1>3. ASSUME NEW b \in Builds, Run(b) PROVE VersionInv'
  <2>1. /\ UNCHANGED <<edits, zipped, asked, req>> /\ runner[b] # "none" /\ runner'[b] # "none"
        /\ \A c \in Builds \ {b} : runner'[c] = runner[c] /\ files'[c] = files[c]
    BY <1>3 DEF Run, RunnerStep, CreateCompilerBox, CopyFiles, CopyHangs, MakeMakefile,
       ReadMakefile, Execute, ParseLog, ZipBinAndLog, Notify, editorVars, reqVars
  <2> QED BY <2>1, VersionMoves
<1>4. ASSUME Deliver \/ Message \/ Restart \/ UNCHANGED vars PROVE VersionInv'
  <2>1. /\ UNCHANGED <<edits, zipped, asked, req, files>>
        /\ \A c \in Builds : runner'[c] = "none" <=> runner[c] = "none"
    <3>1. CASE AnswerRunner
      BY <3>1 DEF AnswerRunner, editorVars, reqVars
    <3>2. CASE ~AnswerRunner
      BY <1>4, <3>2 DEF Deliver, Message, Restart, vars, Receive, GetCompiledZip, GetLog,
         DeleteLink, ForwardLog, CleanUp, editorVars, reqVars, runnerVars
    <3> QED BY <3>1, <3>2
  <2> QED BY <2>1, VersionMoves
<1>5. CASE Crash
  <2>1. /\ UNCHANGED <<edits, zipped, asked, req, files>>
        /\ \A c \in Builds : runner'[c] = "none" <=> runner[c] = "none"
    BY <1>5 DEF Crash, Active, RunnerSteps, editorVars, reqVars
  <2> QED BY <2>1, VersionMoves
<1> QED BY <1>1, <1>2, <1>3, <1>4, <1>5, VersionEdit, VersionStart, VersionZip DEF Next, Request

(* While Messager works for a serial user, that build waits for its answer, *)
(* or has it.                                                               *)
LEMMA HandledBuild ==
  ASSUME IInv, PickedInv, pc \in MessagerSteps, owner[cur] \in serial
  PROVE  cur \in Builds /\ runner[cur] \in {"awaiting", "done"}
BY DEF IInv, TInv, CurrentInv, OwnInv, NotificationInv, Unanswered, Notified, PickedInv,
       MessagerSteps

(* What is known of a build's files depends on these parts of the state. *)
LEMMA ContentKept ==
  ASSUME NEW b \in Builds, Content(b),
         box'[owner[b]] = box[owner[b]], archive'[owner[b]] = archive[owner[b]],
         asked'[b] = asked[b], files'[b] = files[b], exit'[b] = exit[b],
         runner'[b] = runner[b]
  PROVE  Content(b)'
BY DEF Content, Wanted, Tells

(* A busy build was asked for, and no new request is made of it. *)
LEMMA BusyWasAsked ==
  ASSUME IInv, NEW b \in Builds, runner[b] # "none", NEW c \in Builds, Start(c)
  PROVE  asked'[b] = asked[b]
BY DEF Start, IInv, TInv, TypeOK, RequestInv

LEMMA PickedKept ==
  ASSUME IInv, PickedInv,
         UNCHANGED <<pc, cur, log, fetched>>, serial' \subseteq serial,
         pc \in MessagerSteps /\ owner[cur] \in serial
           => asked'[cur] = asked[cur] /\ exit'[cur] = exit[cur]
                /\ (runner[cur] = "done" => runner'[cur] = "done")
  PROVE  PickedInv'
<1>1. pc = "loading" /\ owner[cur] \in serial' => \A l \in fetched[owner[cur]] : Tells(cur, l)'
  BY DEF PickedInv, Tells, Wanted, MessagerSteps
<1>2. pc \in {"forwarding", "cleaning"} /\ owner[cur] \in serial' => runner'[cur] = "done"
  BY DEF PickedInv, MessagerSteps
<1>3. HandlesSerial' => Tells(cur, log)'
  BY DEF PickedInv, Tells, Wanted, MessagerSteps, HandlesSerial, HasLog
<1> QED BY <1>1, <1>2, <1>3 DEF PickedInv

(* Steps that leave boxes, runners and Messager alone. *)
LEMMA CInvQuiet ==
  ASSUME IInv, CInv,
         UNCHANGED <<box, archive, files, exit, runner, pc, cur, log, fetched, serial>>,
         \A b \in Builds : runner[b] # "none" => asked'[b] = asked[b]
  PROVE  BoxesInv' /\ PickedInv'
<1>1. ASSUME NEW b \in Builds, owner[b] \in serial, Busy(b) PROVE Content(b)'
  BY <1>1, ContentKept DEF CInv, BoxesInv, Busy
<1>2. BoxesInv'
  BY <1>1 DEF BoxesInv, Busy
<1>3. PickedInv'
  BY HandledBuild, PickedKept DEF CInv
<1> QED BY <1>2, <1>3

(* A step of RunCompiler b changes only what b alone has. *)
LEMMA CInvRunner ==
  ASSUME IInv, CInv, NEW b \in Builds,
         runner[b] \in RunnerSteps \ {"awaiting"},
         \A c \in Builds \ {b} : runner'[c] = runner[c] /\ files'[c] = files[c]
                                    /\ exit'[c] = exit[c],
         \A v \in Users \ {owner[b]} : box'[v] = box[v] /\ archive'[v] = archive[v],
         owner[b] \in serial => Content(b)',
         UNCHANGED <<asked, pc, cur, log, fetched, serial>>
  PROVE  BoxesInv' /\ PickedInv'
<1>1. ASSUME NEW c \in Builds \ {b}, owner[c] \in serial, Busy(c) PROVE Content(c)'
  <2>1. owner[c] # owner[b]
    BY <1>1 DEF IInv, OwnInv, SerialInv, Alone, Busy, RunnerSteps
  <2>2. owner[c] \in Users
    BY OwnerAssumption
  <2> QED BY <1>1, <2>1, <2>2, ContentKept DEF CInv, BoxesInv
<1>2. BoxesInv'
  BY <1>1 DEF BoxesInv, Busy
<1>3. pc \in MessagerSteps /\ owner[cur] \in serial => cur \in Builds \ {b}
  BY HandledBuild DEF CInv, RunnerSteps
<1>4. PickedInv'
  BY <1>3, PickedKept DEF CInv
<1> QED BY <1>2, <1>4

LEMMA CInvRun ==
  ASSUME IInv, CInv, NEW b \in Builds, Run(b)
  PROVE  BoxesInv' /\ PickedInv'
<1> USE OwnerAssumption
<1> DEFINE u == owner[b]
<1>0. /\ u \in Users /\ box[u] \in Boxes /\ box \in [Users -> Boxes]
      /\ runner \in [Builds -> RunnerSteps \cup {"none", "stuck", "done", "dead"}]
      /\ archive \in [Users -> SUBSET Logs] /\ files \in [Builds -> SUBSET Sources]
      /\ exit \in [Builds -> {"none", "ok", "failed"}]
  BY DEF IInv, TInv, TypeOK
<1>1. runner[b] \in RunnerSteps \ {"awaiting"}
  BY DEF Run, RunnerStep, RunnerSteps, CreateCompilerBox, CopyFiles, CopyHangs, MakeMakefile,
         ReadMakefile, Execute, ParseLog, ZipBinAndLog, Notify
<1>2. ~Destroyed(b)
  BY <1>1 DEF IInv, OwnInv, NotificationInv, Destroyed, Unanswered, Notified, RunnerSteps
<1>3. u \in serial => Owns(b) /\ Content(b)
  BY <1>1 DEF IInv, OwnInv, SerialInv, CInv, BoxesInv, Busy, RunnerSteps
<1>4. UNCHANGED <<asked, pc, cur, log, fetched, serial>>
  BY DEF Run, CreateCompilerBox, CopyFiles, CopyHangs, MakeMakefile, ReadMakefile, Execute,
         ParseLog, ZipBinAndLog, Notify, reqVars, messagerVars, history
<1>5. /\ \A c \in Builds \ {b} : runner'[c] = runner[c] /\ files'[c] = files[c] /\ exit'[c] = exit[c]
      /\ \A v \in Users \ {u} : box'[v] = box[v] /\ archive'[v] = archive[v]
  <2>1. CASE CreateCompilerBox(b)
    BY <1>0, <2>1 DEF CreateCompilerBox, RunnerStep
  <2>2. CASE CopyFiles(b)
    <3>1. PICK s : box' = [box EXCEPT ![u].src = s]
      BY <2>2 DEF CopyFiles
    <3> QED BY <1>0, <2>2, <3>1 DEF CopyFiles, RunnerStep
  <2>3. CASE CopyHangs(b)
    BY <1>0, <2>3 DEF CopyHangs, RunnerStep, serverVars
  <2>4. CASE MakeMakefile(b)
    BY <1>0, <2>4 DEF MakeMakefile, RunnerStep
  <2>5. CASE ReadMakefile(b)
    BY <1>0, <2>5 DEF ReadMakefile, RunnerStep, serverVars
  <2>6. CASE Execute(b)
    BY <1>0, <2>6 DEF Execute, RunnerStep
  <2>7. CASE ParseLog(b)
    <3>1. box' = box \/ box' = [box EXCEPT ![u].xml = @ \cup XmlLogs(b, box[u].raw)]
      BY <2>7, Zenon DEF ParseLog
    <3>2. \A v \in Users \ {u} : box'[v] = box[v]
      BY <1>0, <3>1
    <3>3. PICK s : runner' = [runner EXCEPT ![b] = s]
      BY <2>7, Zenon DEF ParseLog, RunnerStep
    <3> QED BY <1>0, <2>7, <3>2, <3>3 DEF ParseLog
  <2>8. CASE ZipBinAndLog(b)
    BY <1>0, <2>8 DEF ZipBinAndLog, RunnerStep
  <2>9. CASE Notify(b)
    BY <1>0, <2>9 DEF Notify, RunnerStep, serverVars
  <2> QED BY <2>1, <2>2, <2>3, <2>4, <2>5, <2>6, <2>7, <2>8, <2>9 DEF Run
<1>6. ASSUME u \in serial PROVE Content(b)'
  <2> USE <1>0, <1>2, <1>3, <1>4, <1>6
  <2> USE DEF RunnerStep, BeforeScalac
  <2>1. CASE CreateCompilerBox(b)
    BY <2>1 DEF CreateCompilerBox, Content, Wanted, Tells, Boxes
  <2>2. CASE CopyFiles(b)
    <3> DEFINE new == <<project[b], zipped[project[b]]>>
    <3>1. new[1] = project[b] /\ new[2] >= asked[b]
      BY <1>1 DEF CInv, VersionInv, RunnerSteps
    <3>2. PICK s \in {box[u].src, box[u].src \cup {new}} : box' = [box EXCEPT ![u].src = s]
      BY <2>2 DEF CopyFiles
    <3>3. Wanted(b, s)
      BY <3>1, <3>2 DEF Content, Wanted
    <3>4. box'[u] = [box[u] EXCEPT !.src = s]
      BY <3>2
    <3> QED BY <2>2, <3>3, <3>4 DEF CopyFiles, Content, Wanted, Tells, Boxes
  <2>3. CASE CopyHangs(b)
    BY <2>3 DEF CopyHangs, Owns
  <2>4. CASE MakeMakefile(b)
    BY <2>4 DEF MakeMakefile, Content, Wanted, Tells, Boxes
  <2>5. CASE ReadMakefile(b)
    <3>1. box' = box /\ archive' = archive /\ exit' = exit /\ runner[b] = "reading"
      BY <2>5 DEF ReadMakefile, serverVars
    <3>2. files'[b] \in {files[b], box[u].list}
      BY <2>5 DEF ReadMakefile
    <3>3. runner'[b] \in {"parsing", "executing", "dead"}
          /\ (runner'[b] = "parsing" => b \in Rejected)
      BY <2>5 DEF ReadMakefile
    <3> QED BY <3>1, <3>2, <3>3 DEF Content, Wanted, Tells
  <2>6. CASE Execute(b)
    <3>1. box[u].dir
      BY <2>6 DEF Execute, Owns, BoxSteps, RunnerSteps
    <3>2. PICK o \in Outcomes, x \in {"ok", "failed"} :
            /\ box' = [box EXCEPT ![u].raw = @ \cup {[by |-> b, srcs |-> files[b], out |-> o]}]
            /\ o # "malformed" => (x = "ok" <=> o = "clean")
            /\ exit' = [exit EXCEPT ![b] = x]
      BY <2>6, <3>1 DEF Execute, Outcomes
    <3>3. box'[u] = [box[u] EXCEPT !.raw = {[by |-> b, srcs |-> files[b], out |-> o]}]
      BY <2>6, <3>2 DEF Execute, Content, Boxes
    <3>4. UNCHANGED <<files, archive>> /\ runner'[b] = "parsing" /\ runner[b] = "executing"
          /\ exit'[b] = x
      BY <2>6, <3>2 DEF Execute
    <3>5. /\ box'[u].src = box[u].src /\ box'[u].list = box[u].list /\ box'[u].xml = box[u].xml
          /\ box'[u].raw = {[by |-> b, srcs |-> files[b], out |-> o]}
      <4>1. ASSUME NEW B \in Boxes, NEW R
            PROVE  LET C == [B EXCEPT !.raw = R] IN
                     C.raw = R /\ C.src = B.src /\ C.list = B.list /\ C.xml = B.xml
        BY DEF Boxes
      <4> HIDE DEF u
      <4> QED BY ONLY <1>0, <3>3, <4>1
    <3>6. box[u].xml \cup archive[u] = {} /\ Wanted(b, files[b])
      BY <3>4 DEF Content, Wanted
    <3>7. ~(runner'[b] \in BeforeScalac)
      BY <3>4
    <3>8. box'[u].raw # {} /\ \A r \in box'[u].raw : r.srcs = files[b] /\ r.out = o
      BY ONLY <3>5
    <3>9. \A r \in box'[u].raw :
            /\ Wanted(b, r.srcs)'
            /\ b \notin Rejected /\ r.out # "malformed" => (r.out = "clean" <=> exit'[b] = "ok")
      BY <3>2, <3>4, <3>6, <3>8 DEF Wanted
    <3>10. Wanted(b, box[u].src \cup box[u].list \cup files[b])'
      BY <3>4, <3>5 DEF Content, Wanted
    <3>11. box'[u].xml \cup archive'[u] = {}
      BY ONLY <3>4, <3>5, <3>6
    <3> QED BY ONLY <3>7, <3>8, <3>9, <3>10, <3>11 DEF Content
  <2>7. CASE ParseLog(b)
    <3>1. UNCHANGED <<archive, files, exit>> /\ runner[b] = "parsing"
      BY <2>7 DEF ParseLog
    <3>2. CASE /\ ~(\E r \in box[u].raw : r.by = b /\ r.out = "malformed")
               /\ runner' = [runner EXCEPT ![b] = "archiving"]
               /\ box' = [box EXCEPT ![u].xml = @ \cup XmlLogs(b, box[u].raw)]
      <4>1. \A r \in box[u].raw : r.by = b /\ r.out \in {"clean", "errors"}
        BY <3>2 DEF Owns, Boxes, RawLogs, Outcomes
      <4>2. ASSUME NEW l \in XmlLogs(b, box[u].raw) PROVE Tells(b, l)
        <5>1. CASE box[u].raw = {}
          BY <3>1, <4>2, <5>1 DEF XmlLogs, Content, Tells, Wanted
        <5>2. CASE box[u].raw # {}
          <6>1. PICK r \in box[u].raw :
                  l = [by |-> b, srcs |-> r.srcs,
                       verdict |-> IF r.out = "errors" THEN "failure" ELSE "success"]
            BY <4>1, <4>2, <5>2 DEF XmlLogs
          <6> QED BY <4>1, <6>1 DEF Content, Tells, Wanted
        <5> QED BY <5>1, <5>2
      <4>3. box'[u] = [box[u] EXCEPT !.xml = @ \cup XmlLogs(b, box[u].raw)]
        BY <3>2
      <4>4. /\ box'[u].raw = box[u].raw /\ box'[u].src = box[u].src /\ box'[u].list = box[u].list
            /\ box'[u].xml = box[u].xml \cup XmlLogs(b, box[u].raw)
        BY <4>3 DEF Boxes
      <4>5. runner'[b] = "archiving"
        BY <3>2
      <4> QED BY <3>1, <4>2, <4>4, <4>5 DEF Content, Wanted, Tells
    <3>3. CASE box' = box /\ runner' = [runner EXCEPT ![b] = "dead"]
      BY <3>1, <3>3 DEF Content, Wanted, Tells
    <3> QED BY <2>7, <3>2, <3>3, Zenon DEF ParseLog
  <2>8. CASE ZipBinAndLog(b)
    BY <2>8 DEF ZipBinAndLog, Content, Wanted, Tells
  <2>9. CASE Notify(b)
    BY <2>9 DEF Notify, Content, Wanted, Tells, serverVars
  <2> QED BY <2>1, <2>2, <2>3, <2>4, <2>5, <2>6, <2>7, <2>8, <2>9 DEF Run
<1> QED BY <1>1, <1>4, <1>5, <1>6, CInvRunner

LEMMA CInvPut ==
  ASSUME IInv, CInv, NEW b \in Builds, Put(b)
  PROVE  BoxesInv' /\ PickedInv'
<1> USE OwnerAssumption
<1> DEFINE u == owner[b]
<1>0. /\ runner[b] = "none" /\ runner'[b] = "boxing" /\ u \in Users
      /\ \A c \in Builds \ {b} : runner'[c] = runner[c]
      /\ UNCHANGED <<box, archive, asked, files, exit, pc, cur, log, fetched>>
      /\ serial' = IF \A c \in Builds \ {b} : owner[c] = u => runner[c] \in {"none", "done"}
                    THEN serial ELSE serial \ {u}
  BY DEF Put, IInv, TInv, TypeOK, RequestInv, messagerVars
<1>1. ASSUME u \in serial' PROVE Clean(u) /\ \A c \in Builds \ {b} : owner[c] = u => ~Busy(c)
  <2>1. u \in serial /\ \A c \in Builds \ {b} : owner[c] = u => ~Busy(c)
    BY <1>0, <1>1 DEF Busy
  <2>2. ~Busy(b)
    BY <1>0 DEF Busy
  <2> QED BY <2>1, <2>2 DEF IInv, OwnInv, SerialInv, Over
<1>2. u \in serial' => Content(b)'
  <2>1. files[b] = {}
    BY <1>0 DEF CInv, VersionInv
  <2> QED BY <1>0, <1>1, <2>1 DEF Content, Clean, NoBox, Wanted, Tells
<1>3. ASSUME NEW c \in Builds \ {b}, owner[c] \in serial', Busy(c) PROVE Content(c)'
  <2>1. owner[c] \in serial
    BY <1>0, <1>3
  <2> QED BY <1>0, <1>3, <2>1, ContentKept DEF CInv, BoxesInv
<1>4. BoxesInv'
  BY <1>0, <1>2, <1>3 DEF BoxesInv, Busy
<1>5. pc \in MessagerSteps /\ owner[cur] \in serial => cur \in Builds \ {b}
  BY <1>0, HandledBuild DEF CInv
<1>6. PickedInv'
  BY <1>0, <1>5, PickedKept DEF CInv
<1> QED BY <1>4, <1>6

LEMMA CInvCrash ==
  ASSUME IInv, CInv, Crash
  PROVE  BoxesInv' /\ PickedInv'
<1>0. /\ UNCHANGED <<box, archive, asked, files, exit, pc, cur, log, fetched>>
      /\ \A c \in Builds : ~Active(c) => runner'[c] = runner[c]
      /\ serial' \subseteq serial
      /\ \A c \in Builds : owner[c] \in serial' => ~Active(c)
  BY DEF Crash, messagerVars, reqVars
<1>1. BoxesInv'
  <2> SUFFICES ASSUME NEW c \in Builds, owner[c] \in serial', Busy(c)' PROVE Content(c)'
    BY DEF BoxesInv
  <2>1. runner'[c] = runner[c]
    BY <1>0
  <2>2. Content(c)
    BY <1>0, <2>1 DEF CInv, BoxesInv, Busy
  <2> QED BY <1>0, <2>1, <2>2, ContentKept
<1>2. \A c \in Builds : runner[c] = "done" => runner'[c] = "done"
  BY <1>0 DEF Active, RunnerSteps
<1>3. PickedInv'
  BY <1>0, <1>2, HandledBuild, PickedKept DEF CInv
<1> QED BY <1>1, <1>3

LEMMA CInvMessager ==
  ASSUME IInv, CInv, Message
  PROVE  BoxesInv' /\ PickedInv'
<1> USE OwnerAssumption
<1> USE DEF HandlesSerial, HasLog
<1> DEFINE u == owner[cur]
<1>0. /\ runner \in [Builds -> RunnerSteps \cup {"none", "stuck", "done", "dead"}]
      /\ box \in [Users -> Boxes] /\ archive \in [Users -> SUBSET Logs]
      /\ fetched \in [Users -> SUBSET Logs] /\ extracted \in [Users -> SUBSET Logs]
      /\ pc \in MessagerSteps => cur \in Builds
      /\ BoxesInv /\ PickedInv
  BY DEF IInv, TInv, TypeOK, CurrentInv, CInv
<1>1. UNCHANGED <<asked, files, exit, serial>>
  BY DEF Message, Receive, GetCompiledZip, GetLog, DeleteLink, AnswerRunner, ForwardLog, CleanUp,
         reqVars, runnerVars, history
<1>2. Unanswered /\ u \in serial => cur \in Builds /\ runner[cur] = "awaiting"
  BY <1>0 DEF IInv, OwnInv, NotificationInv, Notified, Unanswered, MessagerSteps
<1>3. ASSUME UNCHANGED <<box, archive, runner>> PROVE BoxesInv'
  BY <1>0, <1>1, <1>3, ContentKept DEF BoxesInv, Busy
<1>4. CASE Receive
  BY <1>3, <1>4 DEF Receive, PickedInv, serverVars, runnerVars
<1>5. CASE GetCompiledZip
  <2>1. UNCHANGED <<box, archive, runner, cur>> /\ pc = "fetching" /\ pc' = "loading"
    BY <1>5 DEF GetCompiledZip, serverVars, runnerVars
  <2>2. u \in serial => \A l \in fetched'[u] : Tells(cur, l)
    <3> SUFFICES ASSUME u \in serial PROVE \A l \in fetched'[u] : Tells(cur, l)
      OBVIOUS
    <3>1. cur \in Builds /\ u \in Users /\ runner[cur] = "awaiting"
      BY <1>2, <2>1 DEF Unanswered
    <3>2. up /\ Content(cur)
      BY <1>0, <3>1 DEF IInv, OwnInv, ServerInv, Active, RunnerSteps, BoxesInv, Busy
    <3>3. fetched'[u] = archive[u]
      BY <1>0, <1>5, <3>1, <3>2 DEF GetCompiledZip
    <3> QED BY <3>2, <3>3 DEF Content
  <2>3. PickedInv'
    BY <1>1, <2>1, <2>2 DEF PickedInv, Tells, Wanted
  <2> QED BY <1>3, <2>1, <2>3
<1>6. CASE GetLog
  <2>1. UNCHANGED <<box, archive, runner, cur, fetched>> /\ pc = "loading" /\ cur \in Builds
        /\ u \in Users
    BY <1>0, <1>6 DEF GetLog, serverVars, runnerVars, MessagerSteps
  <2>2. pc' \in {"deleting", "dead"}
    BY <1>6 DEF GetLog
  <2>3. pc' = "deleting" => log' \in fetched[u]
    <3>1. extracted[u] = {}
      BY <2>1 DEF IInv, OwnInv, UnpackedInv
    <3>2. pc' = "deleting" => /\ extracted' = [extracted EXCEPT ![u] = @ \cup fetched[u]]
                              /\ log' \in extracted'[u]
      BY <1>6 DEF GetLog
    <3> QED BY <1>0, <2>1, <3>1, <3>2
  <2>4. PickedInv'
    BY <1>0, <1>1, <2>1, <2>2, <2>3 DEF PickedInv, Tells, Wanted
  <2> QED BY <1>3, <2>1, <2>4
<1>7. CASE DeleteLink
  <2>1. /\ UNCHANGED <<runner, cur, log>> /\ pc = "deleting" /\ pc' \in {"replying", "dead"}
        /\ cur \in Builds /\ u \in Users
    BY <1>0, <1>7 DEF DeleteLink, runnerVars, MessagerSteps
  <2>2. \A v \in Users \ {u} : box'[v] = box[v] /\ archive'[v] = archive[v]
    BY <1>0, <1>7, <2>1 DEF DeleteLink
  <2>3. \/ box'[u] = box[u] /\ archive'[u] = archive[u]
        \/ box'[u] = NoBox /\ archive'[u] = {}
    BY <1>0, <1>7, <2>1 DEF DeleteLink
  <2>4. ASSUME NEW c \in Builds, owner[c] \in serial, Busy(c) PROVE Content(c)'
    <3>0. Content(c) /\ runner'[c] = runner[c] /\ owner[c] \in Users
      BY <1>0, <2>1, <2>4 DEF BoxesInv
    <3>1. CASE owner[c] # u
      BY <1>1, <2>2, <3>0, <3>1, ContentKept
    <3>2. CASE owner[c] = u
      <4>1. runner[cur] = "awaiting" /\ Busy(cur)
        BY <1>2, <2>1, <2>4, <3>2 DEF Unanswered, Busy
      <4>2. c = cur
        BY <2>1, <2>4, <3>2, <4>1 DEF IInv, OwnInv, SerialInv, Alone
      <4>3. CASE box'[u] = box[u] /\ archive'[u] = archive[u]
        BY <1>1, <3>0, <3>2, <4>3, ContentKept
      <4>4. CASE box'[u] = NoBox /\ archive'[u] = {}
        BY <1>1, <3>0, <3>2, <4>1, <4>2, <4>4 DEF Content, NoBox, Wanted, Tells
      <4> QED BY <2>3, <4>3, <4>4
    <3> QED BY <3>1, <3>2
  <2>5. BoxesInv'
    BY <1>1, <2>1, <2>4 DEF BoxesInv, Busy
  <2>6. PickedInv'
    BY <1>0, <1>1, <2>1 DEF PickedInv, Tells, Wanted
  <2> QED BY <2>5, <2>6
<1>8. CASE AnswerRunner
  <2>1. /\ UNCHANGED <<box, archive, cur, log>> /\ pc = "replying" /\ pc' = "forwarding"
        /\ cur \in Builds
    BY <1>0, <1>8 DEF AnswerRunner, serverVars, MessagerSteps
  <2>2. \A c \in Builds : runner'[c] = runner[c] \/ runner'[c] = "done"
    BY <1>0, <1>8, <2>1 DEF AnswerRunner
  <2>3. BoxesInv'
    BY <1>0, <1>1, <2>1, <2>2, ContentKept DEF BoxesInv, Busy
  <2>4. u \in serial => runner'[cur] = "done"
    BY <1>0, <1>2, <1>8, <2>1 DEF AnswerRunner, Unanswered
  <2>5. PickedInv'
    BY <1>0, <1>1, <2>1, <2>4 DEF PickedInv, Tells, Wanted
  <2> QED BY <2>3, <2>5
<1>9. CASE ForwardLog
  BY <1>0, <1>1, <1>3, <1>9 DEF ForwardLog, PickedInv, Tells, Wanted, serverVars, runnerVars
<1>10. CASE CleanUp
  BY <1>3, <1>10 DEF CleanUp, PickedInv, serverVars, runnerVars
<1> QED BY <1>4, <1>5, <1>6, <1>7, <1>8, <1>9, <1>10 DEF Message

LEMMA Truthful == Spec => []CInv
<1>1. ASSUME IInv, CInv, [Next]_vars PROVE CInv'
  <2>1. VersionInv'
    BY <1>1, VersionStep DEF CInv
  <2>2. BoxesInv' /\ PickedInv'
    <3>1. ASSUME NEW b \in Builds,
                 Start(b) \/ Register(b) \/ ZipFile(b) \/ ZipFails(b) \/ PutRefused(b)
                          \/ HandleLog(b) \/ Reply(b)
          PROVE  BoxesInv' /\ PickedInv'
      <4>1. UNCHANGED <<box, archive, files, exit, runner, pc, cur, log, fetched, serial>>
        BY <3>1 DEF Start, Register, ZipFile, ZipFails, PutRefused, HandleLog, Reply, serverVars,
           runnerVars, messagerVars, history
      <4>2. \A c \in Builds : runner[c] # "none" => asked'[c] = asked[c]
        <5>1. CASE Start(b)
          BY <1>1, <5>1, BusyWasAsked
        <5>2. CASE ~Start(b)
          BY <3>1, <5>2 DEF Register, ZipFile, ZipFails, PutRefused, HandleLog, Reply
        <5> QED BY <5>1, <5>2
      <4> QED BY <1>1, <4>1, <4>2, CInvQuiet
    <3>2. ASSUME (\E p \in Projects : Edit(p)) \/ Deliver \/ Restart \/ UNCHANGED vars
          PROVE  BoxesInv' /\ PickedInv'
      <4>1. UNCHANGED <<box, archive, files, exit, runner, pc, cur, log, fetched, serial, asked>>
        BY <3>2 DEF Edit, Deliver, Restart, vars, reqVars, serverVars, runnerVars, messagerVars,
           history
      <4> QED BY <1>1, <4>1, CInvQuiet
    <3> QED BY <1>1, <3>1, <3>2, CInvRun, CInvPut, CInvCrash, CInvMessager DEF Next, Request
  <2> QED BY <2>1, <2>2 DEF CInv
<1> QED BY <1>1, CInvInit, Inductive, PTL DEF Spec

(* The log Messager picks for a serial user was compiled from files of the   *)
(* project it asked for, none older than the files saved when it asked,      *)
(* whatever is edited, and whoever else zips the same project, meanwhile.    *)
THEOREM SerialLogsAreFresh == Spec => []SerialLogIsFresh
<1>1. CInv => SerialLogIsFresh
  BY DEF CInv, PickedInv, Tells, Wanted, SerialLogIsFresh
<1> QED BY <1>1, Truthful, PTL

(* ... and it reports success exactly if scalac ended with status 0.         *)
THEOREM SerialVerdictsAreTrue == Spec => []SerialVerdictIsTrue
<1>1. CInv => SerialVerdictIsTrue
  BY DEF CInv, PickedInv, Tells, SerialVerdictIsTrue
<1> QED BY <1>1, Truthful, PTL

-----------------------------------------------------------------------------
(* Lonely requests.  Builds that were put are counted against the logs they *)
(* can still send and the requests that have got one: when the only open    *)
(* request starts, nothing of the earlier ones can be under way.            *)

LEMMA CountInvInit == Init => CountInv
<1> SUFFICES ASSUME Init PROVE CountInv
  OBVIOUS
<1>1. Started = {} /\ PutBuilds = {} /\ CompilingBuilds = {} /\ Reached = {}
  BY DEF Init, Started, PutBuilds, CompilingBuilds, Compiling, Reached, RunnerSteps
<1>2. Pending = 0
  BY <1>1, FS_EmptySet DEF Init, Pending, InHand, Handling
<1>3. StartedInv
  BY <1>1, FS_EmptySet DEF Init, StartedInv, Started
<1> QED BY <1>1, <1>2, <1>3, FS_EmptySet DEF CountInv, PendingInv

(* Every build that was put was started, and only started ones get logs. *)
LEMMA Counted ==
  ASSUME IInv, StartedInv
  PROVE  /\ IsFiniteSet(PutBuilds) /\ IsFiniteSet(CompilingBuilds) /\ IsFiniteSet(Reached)
         /\ Cardinality(PutBuilds) \in Nat /\ Cardinality(CompilingBuilds) \in Nat
         /\ Cardinality(Reached) \in Nat
         /\ Len(mailbox) \in Nat /\ Len(wire) \in Nat /\ InHand \in {0, 1}
<1>1. PutBuilds \in SUBSET Started /\ CompilingBuilds \in SUBSET Started /\ Reached \in SUBSET Started
  BY DEF StartedInv, PutBuilds, CompilingBuilds, Compiling, Reached, Started, RunnerSteps
<1>2. Len(mailbox) \in Nat /\ Len(wire) \in Nat
  BY LenProperties DEF IInv, TInv, TypeOK
<1> QED BY <1>1, <1>2, FS_Subset, FS_CardinalityType DEF StartedInv, InHand

(* What a step of RunCompiler b does to the flow of logs. *)
LEMMA RunMoves ==
  ASSUME IInv, NEW b \in Builds, Run(b)
  PROVE  /\ runner[b] \in RunnerSteps \ {"awaiting"}
         /\ runner'[b] \in RunnerSteps \cup {"stuck", "dead"}
         /\ \A c \in Builds \ {b} : runner'[c] = runner[c]
         /\ \/ mailbox' = mailbox
            \/ mailbox' = Append(mailbox, b) /\ runner'[b] = "awaiting"
         /\ UNCHANGED <<req, messager, rest, inbox, myLog, reply, wire, pc, cur, log, history>>
<1>1. PICK s : /\ runner' = [runner EXCEPT ![b] = s] /\ s \in RunnerSteps \cup {"stuck", "dead"}
               /\ \/ mailbox' = mailbox
                  \/ mailbox' = Append(mailbox, b) /\ s = "awaiting"
  <2>1. CASE CreateCompilerBox(b)
    BY <2>1, Zenon DEF CreateCompilerBox, RunnerStep, RunnerSteps, messagerVars
  <2>2. CASE CopyFiles(b)
    BY <2>2, Zenon DEF CopyFiles, RunnerStep, RunnerSteps, messagerVars
  <2>3. CASE CopyHangs(b)
    BY <2>3, Zenon DEF CopyHangs, RunnerStep, RunnerSteps, messagerVars
  <2>4. CASE MakeMakefile(b)
    BY <2>4, Zenon DEF MakeMakefile, RunnerStep, RunnerSteps, messagerVars
  <2>5. CASE ReadMakefile(b)
    BY <2>5, Zenon DEF ReadMakefile, RunnerStep, RunnerSteps, messagerVars
  <2>6. CASE Execute(b)
    BY <2>6, Zenon DEF Execute, RunnerStep, RunnerSteps, messagerVars
  <2>7. CASE ParseLog(b)
    BY <2>7, Zenon DEF ParseLog, RunnerStep, RunnerSteps, messagerVars
  <2>8. CASE ZipBinAndLog(b)
    BY <2>8, Zenon DEF ZipBinAndLog, RunnerStep, RunnerSteps, messagerVars
  <2>9. CASE Notify(b)
    BY <2>9, Zenon DEF Notify, RunnerStep, RunnerSteps
  <2> QED BY <2>1, <2>2, <2>3, <2>4, <2>5, <2>6, <2>7, <2>8, <2>9 DEF Run
<1>2. runner \in [Builds -> RunnerSteps \cup {"none", "stuck", "done", "dead"}]
  BY DEF IInv, TInv, TypeOK
<1>3. runner[b] \in RunnerSteps \ {"awaiting"}
  BY DEF Run, RunnerStep, RunnerSteps, CreateCompilerBox, CopyFiles, CopyHangs, MakeMakefile,
         ReadMakefile, Execute, ParseLog, ZipBinAndLog, Notify
<1>4. UNCHANGED <<req, messager, rest, inbox, myLog, reply, wire, pc, cur, log, history>>
  BY DEF Run, CreateCompilerBox, CopyFiles, CopyHangs, MakeMakefile, ReadMakefile, Execute,
         ParseLog, ZipBinAndLog, Notify, reqVars, messagerVars
<1> QED BY <1>1, <1>2, <1>3, <1>4

LEMMA StartedStep ==
  ASSUME IInv, StartedInv, [Next]_vars
  PROVE  StartedInv'
<1> USE DEF StartedInv, Started, Reached, PutBuilds
<1>0. /\ inbox \in [Builds -> Seq(Logs)] /\ myLog \in [Builds -> Logs \cup {None}]
      /\ req \in [Builds -> {"idle", "zipping", "putting", "waiting", "replied", "error"}]
      /\ messager \in [Builds -> {"none", "started", "registered"}]
      /\ rest \in Builds \cup {None}
      /\ runner \in [Builds -> RunnerSteps \cup {"none", "stuck", "done", "dead"}]
      /\ \A b \in Builds : req[b] \in {"idle", "zipping", "putting"} => runner[b] = "none"
  BY DEF IInv, TInv, TypeOK, RequestInv
<1>1. ASSUME NEW b \in Builds, Start(b) PROVE StartedInv'
  <2>1. /\ req' = [req EXCEPT ![b] = "zipping"] /\ req[b] = "idle"
        /\ messager' = [messager EXCEPT ![b] = "started"]
        /\ UNCHANGED <<rest, inbox, myLog, runner>>
    BY <1>1 DEF Start, runnerVars
  <2>2. Started' = Started \cup {b}
    BY <1>0, <2>1
  <2>3. IsFiniteSet(Started')
    BY <2>2, FS_AddElement
  <2> QED BY <1>0, <2>1, <2>3
<1>2. ASSUME NEW b \in Builds, Register(b) PROVE StartedInv'
  <2>1. /\ messager[b] = "started" /\ messager' = [messager EXCEPT ![b] = "registered"]
        /\ rest' = b /\ UNCHANGED <<req, inbox, myLog, runner>>
    BY <1>2 DEF Register, runnerVars
  <2> QED BY <1>0, <2>1
<1>3. ASSUME NEW b \in Builds, ZipFile(b) \/ ZipFails(b) \/ PutRefused(b) PROVE StartedInv'
  <2>1. PICK s \in {"putting", "waiting", "error"} : req' = [req EXCEPT ![b] = s]
    BY <1>3 DEF ZipFile, ZipFails, PutRefused
  <2>2. req[b] \in {"zipping", "putting"} /\ UNCHANGED <<messager, rest, inbox, myLog, runner>>
    BY <1>3 DEF ZipFile, ZipFails, PutRefused, runnerVars
  <2>3. Started' = Started
    BY <1>0, <2>1, <2>2
  <2> QED BY <1>0, <2>1, <2>2, <2>3
<1>4. ASSUME NEW b \in Builds, Put(b) PROVE StartedInv'
  <2>1. /\ req[b] = "putting" /\ req' = [req EXCEPT ![b] = "waiting"]
        /\ runner' = [runner EXCEPT ![b] = "boxing"]
        /\ UNCHANGED <<messager, rest, inbox, myLog>>
    BY <1>4 DEF Put
  <2>2. Started' = Started
    BY <1>0, <2>1
  <2> QED BY <1>0, <2>1, <2>2
<1>5. ASSUME NEW b \in Builds, HandleLog(b) PROVE StartedInv'
  <2>1. /\ inbox[b] # <<>> /\ myLog' = [myLog EXCEPT ![b] = Head(inbox[b])]
        /\ \A c \in Builds \ {b} : inbox'[c] = inbox[c]
        /\ UNCHANGED <<messager, rest, req, runner>>
    BY <1>0, <1>5 DEF HandleLog, runnerVars
  <2>2. Head(inbox[b]) # None
    BY <1>0, <2>1, HeadTailProperties, NoneAssumption
  <2>3. Reached' = Reached
    BY <1>0, <2>1, <2>2
  <2> QED BY <1>0, <2>1, <2>3
<1>6. ASSUME NEW b \in Builds, Reply(b) PROVE StartedInv'
  <2>1. /\ req[b] = "waiting" /\ myLog[b] # None /\ req' = [req EXCEPT ![b] = "replied"]
        /\ UNCHANGED <<messager, rest, inbox, myLog, runner>>
    BY <1>6 DEF Reply, runnerVars
  <2>2. Started' = Started
    BY <1>0, <2>1
  <2> QED BY <1>0, <2>1, <2>2
<1>7. CASE Deliver
  <2>1. /\ UNCHANGED <<messager, rest, req, myLog, runner>>
        /\ \A c \in Builds : c # rest => inbox'[c] = inbox[c]
        /\ rest # None => inbox'[rest] = Append(inbox[rest], Head(wire))
    BY <1>0, <1>7 DEF Deliver, runnerVars
  <2>2. wire \in Seq(Logs) /\ wire # <<>>
    BY <1>7 DEF Deliver, IInv, TInv, TypeOK
  <2>3. rest # None => inbox'[rest] # <<>>
    <3> SUFFICES ASSUME rest # None PROVE inbox'[rest] # <<>>
      OBVIOUS
    <3>1. inbox[rest] \in Seq(Logs) /\ Head(wire) \in Logs
      BY <1>0, <2>2, HeadTailProperties
    <3>2. Len(inbox'[rest]) = Len(inbox[rest]) + 1
      BY <2>1, <3>1, AppendProperties
    <3>3. Len(inbox[rest]) \in Nat
      BY <3>1, LenProperties
    <3> QED BY <3>2, <3>3, EmptySeq
  <2>4. Reached' = IF rest = None THEN Reached ELSE Reached \cup {rest}
    BY <1>0, <2>1, <2>3, NoneAssumption
  <2> QED BY <1>0, <2>1, <2>4
<1>8. ASSUME (\E p \in Projects : Edit(p)) \/ (\E b \in Builds : Run(b)) \/ Message \/ Crash
               \/ Restart \/ UNCHANGED vars
      PROVE  StartedInv'
  <2>1. UNCHANGED <<messager, rest, req, myLog, inbox>>
    BY <1>8 DEF Edit, Run, CreateCompilerBox, CopyFiles, CopyHangs, MakeMakefile, ReadMakefile,
       Execute, ParseLog, ZipBinAndLog, Notify, Message, Receive, GetCompiledZip, GetLog,
       DeleteLink, AnswerRunner, ForwardLog, CleanUp, Crash, Restart, vars, reqVars
  <2>2. \A c \in Builds : runner'[c] # "none" => runner[c] # "none"
    <3>1. ASSUME NEW b \in Builds, Run(b) PROVE \A c \in Builds : runner'[c] # "none" => runner[c] # "none"
      BY <3>1, RunMoves DEF RunnerSteps
    <3>2. CASE Message
      BY <1>0, <3>2 DEF Message, Receive, GetCompiledZip, GetLog, DeleteLink, AnswerRunner,
         ForwardLog, CleanUp, runnerVars
    <3>3. CASE Crash
      BY <1>0, <3>3 DEF Crash, Active, RunnerSteps
    <3>4. CASE (\E p \in Projects : Edit(p)) \/ Restart \/ UNCHANGED vars
      BY <3>4 DEF Edit, Restart, vars, runnerVars
    <3> QED BY <1>8, <3>1, <3>2, <3>3, <3>4
  <2> QED BY <2>1, <2>2
<1> QED BY <1>1, <1>2, <1>3, <1>4, <1>5, <1>6, <1>7, <1>8 DEF Next, Request

(* A set that grows by one element at most, and one that loses an element. *)
LEMMA AtMostOneMore ==
  ASSUME NEW S, IsFiniteSet(S), NEW x, NEW T \in SUBSET (S \cup {x})
  PROVE  IsFiniteSet(T) /\ Cardinality(T) <= Cardinality(S) + 1
<1>0. Cardinality(S) \in Nat /\ IsFiniteSet(S \cup {x})
      /\ Cardinality(S \cup {x}) = IF x \in S THEN Cardinality(S) ELSE Cardinality(S) + 1
  BY FS_AddElement, FS_CardinalityType
<1>1. /\ IsFiniteSet(S \cup {x}) /\ Cardinality(S) \in Nat
      /\ Cardinality(S \cup {x}) <= Cardinality(S) + 1
  BY ONLY <1>0
<1>2. /\ IsFiniteSet(T) /\ Cardinality(T) <= Cardinality(S \cup {x})
      /\ Cardinality(T) \in Nat /\ Cardinality(S \cup {x}) \in Nat
  BY <1>1, FS_Subset, FS_CardinalityType
<1> QED BY <1>1, <1>2

LEMMA AtLeastOneLess ==
  ASSUME NEW S, IsFiniteSet(S), NEW x \in S, NEW T \in SUBSET (S \ {x})
  PROVE  IsFiniteSet(T) /\ Cardinality(T) <= Cardinality(S) - 1
<1>1. /\ IsFiniteSet(S \ {x}) /\ Cardinality(S) \in Nat
      /\ Cardinality(S \ {x}) = Cardinality(S) - 1
  BY FS_RemoveElement, FS_CardinalityType
<1>2. /\ IsFiniteSet(T) /\ Cardinality(T) <= Cardinality(S \ {x})
      /\ Cardinality(T) \in Nat /\ Cardinality(S \ {x}) \in Nat
  BY <1>1, FS_Subset, FS_CardinalityType
<1> QED BY <1>1, <1>2

(* Nothing new gets under way. *)
LEMMA PendingQuiet ==
  ASSUME IInv, StartedInv, PendingInv,
         CompilingBuilds' \in SUBSET CompilingBuilds, PutBuilds' = PutBuilds, Reached' = Reached,
         Len(mailbox') = Len(mailbox), Len(wire') = Len(wire), Handling' => Handling
  PROVE  PendingInv'
<1>1. Cardinality(CompilingBuilds') <= Cardinality(CompilingBuilds) /\ Cardinality(CompilingBuilds') \in Nat
  BY Counted, FS_Subset, FS_CardinalityType
<1>2. InHand' <= InHand /\ InHand' \in {0, 1}
  BY DEF InHand
<1>3. /\ Cardinality(PutBuilds') = Cardinality(PutBuilds)
      /\ Cardinality(Reached') = Cardinality(Reached)
  OBVIOUS
<1> QED BY <1>1, <1>2, <1>3, Counted DEF PendingInv, Pending

LEMMA PendingStep ==
  ASSUME IInv, StartedInv, PendingInv, [Next]_vars
  PROVE  PendingInv'
<1>0. /\ runner \in [Builds -> RunnerSteps \cup {"none", "stuck", "done", "dead"}]
      /\ inbox \in [Builds -> Seq(Logs)] /\ myLog \in [Builds -> Logs \cup {None}]
      /\ wire \in Seq(Logs) /\ mailbox \in Seq(Builds) /\ rest \in Builds \cup {None}
      /\ \A b \in Builds : req[b] \in {"idle", "zipping", "putting"} => runner[b] = "none"
      /\ pc \in MessagerSteps => cur \in Builds
  BY DEF IInv, TInv, TypeOK, RequestInv, CurrentInv
<1>1. ASSUME UNCHANGED <<runner, inbox, myLog, mailbox, wire>>, Handling' => Handling
      PROVE  PendingInv'
  <2>1. CompilingBuilds' = CompilingBuilds /\ PutBuilds' = PutBuilds /\ Reached' = Reached
    BY <1>1 DEF CompilingBuilds, Compiling, PutBuilds, Reached
  <2> QED BY <1>1, <2>1, PendingQuiet
<1>2. ASSUME NEW b \in Builds,
             Start(b) \/ Register(b) \/ ZipFile(b) \/ ZipFails(b) \/ PutRefused(b) \/ Reply(b)
      PROVE  PendingInv'
  <2>1. UNCHANGED <<runner, inbox, myLog, mailbox, wire, pc>>
    BY <1>2 DEF Start, Register, ZipFile, ZipFails, PutRefused, Reply, runnerVars, messagerVars
  <2> QED BY <1>1, <2>1 DEF Handling
<1>3. ASSUME NEW b \in Builds, Put(b) PROVE PendingInv'
  <2>1. /\ runner[b] = "none" /\ runner'[b] = "boxing"
        /\ \A c \in Builds \ {b} : runner'[c] = runner[c]
        /\ UNCHANGED <<inbox, myLog, mailbox, wire, pc>>
    BY <1>0, <1>3 DEF Put, messagerVars
  <2>2. PutBuilds' = PutBuilds \cup {b} /\ b \notin PutBuilds /\ Reached' = Reached
    BY <2>1 DEF PutBuilds, Reached
  <2>3. CompilingBuilds' \in SUBSET (CompilingBuilds \cup {b})
    BY <2>1 DEF CompilingBuilds, Compiling
  <2>4. Cardinality(PutBuilds') = Cardinality(PutBuilds) + 1
    BY <2>2, Counted, FS_AddElement
  <2>5. Cardinality(CompilingBuilds') <= Cardinality(CompilingBuilds) + 1
        /\ Cardinality(CompilingBuilds') \in Nat
    BY <2>3, Counted, AtMostOneMore, FS_CardinalityType
  <2>6. InHand' = InHand /\ Cardinality(Reached') = Cardinality(Reached)
    BY <2>1, <2>2 DEF InHand, Handling
  <2> QED BY <2>1, <2>4, <2>5, <2>6, Counted DEF PendingInv, Pending
<1>4. ASSUME NEW b \in Builds, HandleLog(b) PROVE PendingInv'
  <2>1. /\ inbox[b] # <<>> /\ myLog' = [myLog EXCEPT ![b] = Head(inbox[b])]
        /\ \A c \in Builds \ {b} : inbox'[c] = inbox[c]
        /\ UNCHANGED <<runner, mailbox, wire, pc>>
    BY <1>0, <1>4 DEF HandleLog, runnerVars, messagerVars
  <2>2. Head(inbox[b]) # None
    BY <1>0, <2>1, HeadTailProperties, NoneAssumption
  <2>3. Reached' = Reached
    BY <1>0, <2>1, <2>2 DEF Reached
  <2>4. CompilingBuilds' = CompilingBuilds /\ PutBuilds' = PutBuilds
    BY <2>1 DEF CompilingBuilds, Compiling, PutBuilds
  <2> QED BY <2>1, <2>3, <2>4, PendingQuiet DEF Handling
<1>5. ASSUME NEW b \in Builds, Run(b) PROVE PendingInv'
  <2>1. /\ runner[b] \in RunnerSteps \ {"awaiting"}
        /\ runner'[b] \in RunnerSteps \cup {"stuck", "dead"}
        /\ \A c \in Builds \ {b} : runner'[c] = runner[c]
        /\ UNCHANGED <<inbox, myLog, wire, pc>>
    BY <1>5, RunMoves
  <2>2. PutBuilds' = PutBuilds /\ Reached' = Reached
    BY <2>1 DEF PutBuilds, Reached, RunnerSteps
  <2>3. b \in CompilingBuilds /\ CompilingBuilds' \in SUBSET CompilingBuilds
    BY <2>1 DEF CompilingBuilds, Compiling
  <2>4. CASE mailbox' = mailbox
    BY <2>1, <2>2, <2>3, <2>4, PendingQuiet DEF Handling
  <2>5. CASE mailbox' = Append(mailbox, b) /\ runner'[b] = "awaiting"
    <3>1. Len(mailbox') = Len(mailbox) + 1
      BY <1>0, <2>5, AppendProperties
    <3>2. CompilingBuilds' \in SUBSET (CompilingBuilds \ {b})
      BY <2>3, <2>5 DEF CompilingBuilds, Compiling, RunnerSteps
    <3>3. Cardinality(CompilingBuilds') <= Cardinality(CompilingBuilds) - 1
          /\ Cardinality(CompilingBuilds') \in Nat
      BY <2>3, <3>2, Counted, AtLeastOneLess, FS_CardinalityType
    <3>4. InHand' = InHand /\ Cardinality(Reached') = Cardinality(Reached)
          /\ Cardinality(PutBuilds') = Cardinality(PutBuilds) /\ wire' = wire
      BY <2>1, <2>2 DEF InHand, Handling
    <3> QED BY <3>1, <3>3, <3>4, Counted DEF PendingInv, Pending
  <2> QED BY <1>5, <2>4, <2>5, RunMoves
<1>6. CASE Deliver
  <2>1. /\ UNCHANGED <<myLog, runner, mailbox, pc>> /\ wire # <<>> /\ wire' = Tail(wire)
        /\ \A c \in Builds : c # rest => inbox'[c] = inbox[c]
    BY <1>0, <1>6 DEF Deliver, runnerVars, messagerVars
  <2>2. Len(wire') = Len(wire) - 1 /\ Len(wire) >= 1
    BY <1>0, <2>1, HeadTailProperties, EmptySeq, LenProperties
  <2>3. Reached' \in SUBSET (Reached \cup {rest})
    BY <2>1 DEF Reached
  <2>4. Cardinality(Reached') <= Cardinality(Reached) + 1 /\ Cardinality(Reached') \in Nat
    BY <2>3, Counted, AtMostOneMore, FS_CardinalityType
  <2>5. CompilingBuilds' = CompilingBuilds /\ PutBuilds' = PutBuilds /\ InHand' = InHand
    BY <2>1 DEF CompilingBuilds, Compiling, PutBuilds, InHand, Handling
  <2> QED BY <2>1, <2>2, <2>4, <2>5, Counted DEF PendingInv, Pending
<1>7. CASE Receive
  <2>1. /\ UNCHANGED <<inbox, myLog, runner, wire>> /\ mailbox # <<>> /\ mailbox' = Tail(mailbox)
        /\ pc = "idle" /\ pc' = "fetching"
    BY <1>7 DEF Receive, reqVars, runnerVars
  <2>2. Len(mailbox') = Len(mailbox) - 1 /\ Len(mailbox) >= 1
    BY <1>0, <2>1, HeadTailProperties, EmptySeq, LenProperties
  <2>3. InHand = 0 /\ InHand' = 1
    BY <2>1 DEF InHand, Handling
  <2>4. CompilingBuilds' = CompilingBuilds /\ PutBuilds' = PutBuilds /\ Reached' = Reached
    BY <2>1 DEF CompilingBuilds, Compiling, PutBuilds, Reached
  <2> QED BY <2>1, <2>2, <2>3, <2>4, Counted DEF PendingInv, Pending
<1>8. CASE GetCompiledZip \/ GetLog \/ DeleteLink \/ CleanUp
  <2>1. UNCHANGED <<runner, inbox, myLog, mailbox, wire>>
    BY <1>8 DEF GetCompiledZip, GetLog, DeleteLink, CleanUp, reqVars, runnerVars
  <2>2. Handling' => Handling
    BY <1>8 DEF GetCompiledZip, GetLog, DeleteLink, CleanUp, Handling
  <2> QED BY <1>1, <2>1, <2>2
<1>9. CASE AnswerRunner
  <2>1. UNCHANGED <<inbox, myLog, mailbox, wire>> /\ pc = "replying" /\ pc' = "forwarding"
    BY <1>9 DEF AnswerRunner, reqVars
  <2>2. \A c \in Builds : runner'[c] = runner[c] \/ (runner[c] = "awaiting" /\ runner'[c] = "done")
    BY <1>0, <1>9 DEF AnswerRunner
  <2>3. CompilingBuilds' \in SUBSET CompilingBuilds /\ PutBuilds' = PutBuilds /\ Reached' = Reached
    BY <2>1, <2>2 DEF CompilingBuilds, Compiling, PutBuilds, Reached, RunnerSteps
  <2> QED BY <2>1, <2>3, PendingQuiet DEF Handling
<1>10. CASE ForwardLog
  <2>1. /\ UNCHANGED <<inbox, myLog, runner, mailbox>> /\ pc = "forwarding" /\ pc' = "cleaning"
        /\ wire' = Append(wire, log) /\ log \in Logs
    BY <1>10 DEF ForwardLog, reqVars, runnerVars, IInv, TInv, CurrentInv, HasLog
  <2>2. Len(wire') = Len(wire) + 1
    BY <1>0, <2>1, AppendProperties
  <2>3. InHand = 1 /\ InHand' = 0
    BY <2>1 DEF InHand, Handling
  <2>4. CompilingBuilds' = CompilingBuilds /\ PutBuilds' = PutBuilds /\ Reached' = Reached
    BY <2>1 DEF CompilingBuilds, Compiling, PutBuilds, Reached
  <2> QED BY <2>1, <2>2, <2>3, <2>4, Counted DEF PendingInv, Pending
<1>11. CASE Crash
  <2>1. UNCHANGED <<inbox, myLog, mailbox, wire, pc>>
    BY <1>11 DEF Crash, reqVars, messagerVars
  <2>2. \A c \in Builds : runner'[c] = IF Active(c) THEN "dead" ELSE runner[c]
    BY <1>11 DEF Crash
  <2>3. CompilingBuilds' \in SUBSET CompilingBuilds /\ PutBuilds' = PutBuilds /\ Reached' = Reached
    BY <2>1, <2>2 DEF CompilingBuilds, Compiling, PutBuilds, Reached, Active, RunnerSteps
  <2> QED BY <2>1, <2>3, PendingQuiet DEF Handling
<1>12. CASE (\E p \in Projects : Edit(p)) \/ Restart \/ UNCHANGED vars
  <2>1. UNCHANGED <<runner, inbox, myLog, mailbox, wire, pc>>
    BY <1>12 DEF Edit, Restart, vars, reqVars, runnerVars, messagerVars
  <2> QED BY <1>1, <2>1 DEF Handling
<1> QED BY <1>2, <1>3, <1>4, <1>5, <1>6, <1>7, <1>8, <1>9, <1>10, <1>11, <1>12
        DEF Next, Request, Message

(* When no request is open, every build that was put has got its log.  The   *)
(* count leaves nothing for another one: nothing at all is under way.        *)
LEMMA NothingIsPending ==
  ASSUME IInv, CountInv, Open = {}
  PROVE  /\ \A c \in Builds : ~Compiling(c)
         /\ mailbox = <<>> /\ wire = <<>> /\ ~Handling
<1>0. StartedInv /\ PendingInv
  BY DEF CountInv
<1>1. PutBuilds \in SUBSET Reached
  BY <1>0 DEF StartedInv, Open, PutBuilds, Reached
<1>2. Cardinality(PutBuilds) <= Cardinality(Reached)
  BY <1>0, <1>1, Counted, FS_Subset
<1>3. Pending <= 0
  BY <1>0, <1>2, Counted DEF PendingInv, Pending
<1>4. Cardinality(CompilingBuilds) = 0 /\ Len(mailbox) = 0 /\ InHand = 0 /\ Len(wire) = 0
  BY <1>0, <1>3, Counted DEF Pending
<1>5. CompilingBuilds = {}
  BY <1>0, <1>4, Counted, FS_EmptySet
<1>6. mailbox = <<>> /\ wire = <<>>
  BY <1>4, EmptySeq DEF IInv, TInv, TypeOK
<1> QED BY <1>4, <1>5, <1>6 DEF InHand, CompilingBuilds

LEMMA LoneInvInit == Init => LoneInv
BY DEF Init, LoneInv, AnsweredInv, Open, LonelyAnswerIsOwn

(* A reply is given once, and a request that has one stays answered. *)
LEMMA AnsweredStep ==
  ASSUME IInv, AnsweredInv, [Next]_vars
  PROVE  AnsweredInv'
<1>0. req \in [Builds -> {"idle", "zipping", "putting", "waiting", "replied", "error"}]
  BY DEF IInv, TInv, TypeOK
<1>1. ASSUME NEW b \in Builds, Start(b) \/ Request(b) PROVE AnsweredInv'
  <2>1. CASE Reply(b)
    BY <1>0, <2>1 DEF Reply, AnsweredInv
  <2>2. CASE ~Reply(b)
    <3>1. /\ reply' = reply /\ (req[b] = "replied" => req'[b] = "replied")
          /\ \A c \in Builds \ {b} : req'[c] = req[c]
      BY <1>0, <1>1, <2>2 DEF Start, Request, Register, ZipFile, ZipFails, Put, PutRefused, HandleLog
    <3> QED BY <3>1 DEF AnsweredInv
  <2> QED BY <2>1, <2>2
<1>2. ASSUME ~(\E b \in Builds : Start(b) \/ Request(b)) PROVE AnsweredInv'
  <2>1. ASSUME NEW b \in Builds, Run(b) PROVE UNCHANGED <<req, reply>>
    BY <2>1, RunMoves
  <2>2. UNCHANGED <<req, reply>>
    BY <1>2, <2>1 DEF Next, Edit, Deliver, Message, Receive, GetCompiledZip, GetLog, DeleteLink,
       AnswerRunner, ForwardLog, CleanUp, Crash, Restart, vars, reqVars
  <2> QED BY <2>2 DEF AnsweredInv
<1> QED BY <1>1, <1>2

(* An open request stays lonely unless another one starts. *)
LEMMA OpenStep ==
  ASSUME IInv, [Next]_vars
  PROVE  /\ accompanied \subseteq accompanied' /\ serial' \subseteq serial
         /\ (\A c \in Builds : ~Start(c)) => Open' \subseteq Open
<1>1. ASSUME NEW b \in Builds, Run(b) PROVE UNCHANGED <<req, serial, accompanied>>
  BY <1>1, RunMoves DEF history
<1>2. ASSUME (\E b \in Builds : Request(b)) PROVE accompanied' = accompanied /\ serial' \subseteq serial
  BY <1>2 DEF Request, Register, ZipFile, ZipFails, Put, PutRefused, HandleLog, Reply, history
<1>3. ASSUME NEW b \in Builds, Request(b) PROVE Open' \subseteq Open
  <2>1. req \in [Builds -> {"idle", "zipping", "putting", "waiting", "replied", "error"}]
    BY DEF IInv, TInv, TypeOK
  <2>2. /\ req'[b] \in {"zipping", "putting", "waiting"} => req[b] \in {"zipping", "putting", "waiting"}
        /\ \A c \in Builds \ {b} : req'[c] = req[c]
    BY <1>3, <2>1 DEF Request, Register, ZipFile, ZipFails, Put, PutRefused, HandleLog, Reply
  <2> QED BY <2>2 DEF Open
<1>4. ASSUME (\E p \in Projects : Edit(p)) \/ Deliver \/ Message \/ Restart \/ UNCHANGED vars
      PROVE  UNCHANGED <<req, serial, accompanied>>
  BY <1>4 DEF Edit, Deliver, Message, Receive, GetCompiledZip, GetLog, DeleteLink, AnswerRunner,
     ForwardLog, CleanUp, Restart, vars, reqVars, history
<1>5. ASSUME Crash PROVE UNCHANGED <<req, accompanied>> /\ serial' \subseteq serial
  BY <1>5 DEF Crash, reqVars
<1>6. ASSUME NEW b \in Builds, Start(b) PROVE accompanied \subseteq accompanied' /\ serial' = serial
  BY <1>6 DEF Start
<1> QED BY <1>1, <1>2, <1>3, <1>4, <1>5, <1>6 DEF Next, Open

(* What holds of every element of a sequence holds of its tail's, and of one *)
(* more that is appended.                                                    *)
LEMMA TailElements ==
  ASSUME NEW S, NEW q \in Seq(S), q # <<>>
  PROVE  \A i \in 1..Len(Tail(q)) : \E j \in 1..Len(q) : Tail(q)[i] = q[j]
<1>1. Len(q) \in Nat \ {0} /\ Len(Tail(q)) = Len(q) - 1
      /\ \A i \in 1..Len(Tail(q)) : Tail(q)[i] = q[i + 1]
  BY HeadTailProperties, EmptySeq, LenProperties
<1> QED BY <1>1

LEMMA HeadElement ==
  ASSUME NEW S, NEW q \in Seq(S), q # <<>>
  PROVE  Head(q) = q[1] /\ 1 \in 1..Len(q) /\ Head(q) \in S
<1>1. Len(q) \in Nat \ {0}
  BY EmptySeq, LenProperties
<1> QED BY <1>1, HeadTailProperties

LEMMA AppendElements ==
  ASSUME NEW S, NEW q \in Seq(S), NEW x \in S
  PROVE  \A i \in 1..Len(Append(q, x)) : Append(q, x)[i] = x \/ \E j \in 1..Len(q) : Append(q, x)[i] = q[j]
<1>1. Len(q) \in Nat /\ Len(Append(q, x)) = Len(q) + 1
      /\ (\A i \in 1..Len(q) : Append(q, x)[i] = q[i]) /\ Append(q, x)[Len(q) + 1] = x
  BY AppendProperties, LenProperties
<1> QED BY <1>1

(* While a lonely request of a serial user is open, only its own build moves *)
(* anything on.                                                              *)
LEMMA OnlyStep ==
  ASSUME IInv, [Next]_vars, \A c \in Builds : ~Start(c),
         NEW b \in Builds, Open = {b}, owner[b] \in serial, OnlyOf(b)
  PROVE  OnlyOf(b)'
<1>0. /\ runner \in [Builds -> RunnerSteps \cup {"none", "stuck", "done", "dead"}]
      /\ inbox \in [Builds -> Seq(Logs)] /\ inbox[b] \in Seq(Logs)
      /\ myLog \in [Builds -> Logs \cup {None}]
      /\ wire \in Seq(Logs) /\ mailbox \in Seq(Builds) /\ rest \in Builds \cup {None}
      /\ pc \in MessagerSteps => cur \in Builds
  BY DEF IInv, TInv, TypeOK, CurrentInv
<1>1. ASSUME UNCHANGED <<mailbox, wire, inbox, myLog, cur>>, Handling' => Handling,
             \A c \in Builds \ {b} : Compiling(c)' => Compiling(c)
      PROVE  OnlyOf(b)'
  BY <1>1 DEF OnlyOf, NothingOf
<1>2. ASSUME NEW c \in Builds, Register(c) \/ ZipFile(c) \/ ZipFails(c) \/ PutRefused(c) \/ Reply(c)
      PROVE  OnlyOf(b)'
  <2>1. UNCHANGED <<runner, inbox, myLog, mailbox, wire, pc, cur>>
    BY <1>2 DEF Register, ZipFile, ZipFails, PutRefused, Reply, runnerVars, messagerVars
  <2> QED BY <1>1, <2>1 DEF Handling, Compiling
<1>3. ASSUME NEW c \in Builds, Put(c) PROVE OnlyOf(b)'
  <2>1. c = b
    BY <1>3 DEF Put, Open
  <2>2. /\ UNCHANGED <<inbox, myLog, mailbox, wire, pc, cur>>
        /\ \A d \in Builds \ {b} : runner'[d] = runner[d]
    BY <1>0, <1>3, <2>1 DEF Put, messagerVars
  <2> QED BY <1>1, <2>2 DEF Handling, Compiling
<1>4. ASSUME NEW c \in Builds, HandleLog(c) PROVE OnlyOf(b)'
  <2>1. /\ UNCHANGED <<runner, mailbox, wire, pc, cur>> /\ inbox[c] # <<>>
        /\ inbox' = [inbox EXCEPT ![c] = Tail(@)]
        /\ myLog' = [myLog EXCEPT ![c] = Head(inbox[c])]
    BY <1>4 DEF HandleLog, runnerVars, messagerVars
  <2>2. CASE c # b
    <3>1. inbox'[b] = inbox[b] /\ myLog'[b] = myLog[b]
      BY <1>0, <2>1, <2>2
    <3> QED BY <2>1, <3>1 DEF OnlyOf, NothingOf, Handling, Compiling
  <2>3. CASE c = b
    <3>1. inbox'[b] = Tail(inbox[b]) /\ myLog'[b] = Head(inbox[b]) /\ inbox[b] # <<>>
      BY <1>0, <2>1, <2>3
    <3>2. \A i \in 1..Len(inbox'[b]) : inbox'[b][i].by = b
      BY <1>0, <3>1, TailElements DEF OnlyOf
    <3>3. myLog'[b].by = b
      BY <1>0, <3>1, HeadElement DEF OnlyOf
    <3> QED BY <2>1, <3>2, <3>3 DEF OnlyOf, NothingOf, Handling, Compiling
  <2> QED BY <2>2, <2>3
<1>5. ASSUME NEW c \in Builds, Run(c) PROVE OnlyOf(b)'
  <2>1. /\ runner[c] \in RunnerSteps \ {"awaiting"}
        /\ \A d \in Builds \ {c} : runner'[d] = runner[d]
        /\ mailbox' = mailbox \/ mailbox' = Append(mailbox, c)
        /\ UNCHANGED <<inbox, myLog, wire, pc, cur>>
    BY <1>5, RunMoves
  <2>2. c = b
    BY <2>1 DEF OnlyOf, NothingOf, Compiling
  <2>3. ASSUME NEW d \in Builds \ {b} PROVE \A i \in 1..Len(mailbox') : mailbox'[i] # d
    <3>1. CASE mailbox' = mailbox
      BY <2>3, <3>1 DEF OnlyOf, NothingOf
    <3>2. CASE mailbox' = Append(mailbox, b)
      <4>1. PICK q : q = Append(mailbox, b)
        OBVIOUS
      <4>2. \A i \in 1..Len(q) : q[i] = b \/ \E j \in 1..Len(mailbox) : q[i] = mailbox[j]
        BY <1>0, <4>1, AppendElements
      <4>3. mailbox' = q
        BY <3>2, <4>1
      <4> QED BY ONLY <2>3, <4>2, <4>3, OnlyOf(b), b \in Builds DEF OnlyOf, NothingOf
    <3> QED BY <2>1, <2>2, <3>1, <3>2
  <2> QED BY <2>1, <2>2, <2>3 DEF OnlyOf, NothingOf, Handling, Compiling
<1>6. CASE Deliver
  <2>1. /\ UNCHANGED <<myLog, runner, mailbox, pc, cur>> /\ wire # <<>> /\ wire' = Tail(wire)
        /\ inbox'[b] = inbox[b] \/ inbox'[b] = Append(inbox[b], Head(wire))
    BY <1>0, <1>6 DEF Deliver, runnerVars, messagerVars
  <2>2. \A i \in 1..Len(wire') : wire'[i].by = b
    BY <1>0, <2>1, TailElements DEF OnlyOf
  <2>3. Head(wire).by = b /\ Head(wire) \in Logs
    BY <1>0, <2>1, HeadElement DEF OnlyOf
  <2>4. \A i \in 1..Len(inbox'[b]) : inbox'[b][i].by = b
    <3>1. CASE inbox'[b] = inbox[b]
      BY <3>1 DEF OnlyOf
    <3>2. CASE inbox'[b] = Append(inbox[b], Head(wire))
      <4>1. PICK q : q = Append(inbox[b], Head(wire))
        OBVIOUS
      <4>2. \A i \in 1..Len(q) : q[i] = Head(wire) \/ \E j \in 1..Len(inbox[b]) : q[i] = inbox[b][j]
        BY <1>0, <2>3, <4>1, AppendElements
      <4>3. inbox'[b] = q
        BY <3>2, <4>1
      <4> QED BY ONLY <2>3, <4>2, <4>3, OnlyOf(b) DEF OnlyOf
    <3> QED BY <2>1, <3>1, <3>2
  <2> QED BY <2>1, <2>2, <2>4 DEF OnlyOf, NothingOf, Handling, Compiling
<1>7. CASE Receive
  <2>1. /\ UNCHANGED <<inbox, myLog, runner, wire>> /\ mailbox # <<>> /\ mailbox' = Tail(mailbox)
        /\ cur' = Head(mailbox)
    BY <1>7 DEF Receive, reqVars, runnerVars
  <2>2. ASSUME NEW d \in Builds \ {b} PROVE /\ \A i \in 1..Len(mailbox') : mailbox'[i] # d
                                           /\ cur' # d
    BY <1>0, <2>1, <2>2, TailElements, HeadElement DEF OnlyOf, NothingOf
  <2> QED BY <2>1, <2>2 DEF OnlyOf, NothingOf, Compiling
<1>8. CASE GetCompiledZip \/ GetLog \/ DeleteLink
  <2>1. UNCHANGED <<runner, inbox, myLog, mailbox, wire, cur>>
    BY <1>8 DEF GetCompiledZip, GetLog, DeleteLink, reqVars, runnerVars
  <2>2. Handling' => Handling
    BY <1>8 DEF GetCompiledZip, GetLog, DeleteLink, Handling
  <2> QED BY <1>1, <2>1, <2>2 DEF Compiling
<1>9. CASE AnswerRunner
  <2>1. UNCHANGED <<inbox, myLog, mailbox, wire, cur>> /\ pc = "replying" /\ pc' = "forwarding"
    BY <1>9 DEF AnswerRunner, reqVars
  <2>2. \A c \in Builds : runner'[c] = runner[c] \/ runner'[c] = "done"
    BY <1>0, <1>9 DEF AnswerRunner
  <2> QED BY <1>1, <2>1, <2>2 DEF Handling, Compiling, RunnerSteps
<1>10. CASE ForwardLog
  <2>1. /\ UNCHANGED <<inbox, myLog, runner, mailbox, cur>> /\ pc = "forwarding" /\ pc' = "cleaning"
        /\ wire' = Append(wire, log)
    BY <1>10 DEF ForwardLog, reqVars, runnerVars
  <2>2. cur = b
    BY <1>0, <2>1 DEF OnlyOf, NothingOf, Handling, MessagerSteps
  <2>3. log \in Logs /\ log.by = b
    BY <2>1, <2>2 DEF IInv, TInv, CurrentInv, OwnInv, MessagerInv, SerialLogIsOwn, HandlesSerial,
       HasLog
  <2>4. \A i \in 1..Len(wire') : wire'[i].by = b
    BY <1>0, <2>1, <2>3, AppendElements DEF OnlyOf
  <2> QED BY <2>1, <2>4 DEF OnlyOf, NothingOf, Handling, Compiling
<1>11. CASE CleanUp
  BY <1>11 DEF CleanUp, OnlyOf, NothingOf, Handling, Compiling, reqVars, runnerVars
<1>12. CASE Crash
  <2>1. UNCHANGED <<inbox, myLog, mailbox, wire, pc, cur>>
    BY <1>12 DEF Crash, reqVars, messagerVars
  <2>2. \A c \in Builds : runner'[c] = IF Active(c) THEN "dead" ELSE runner[c]
    BY <1>12 DEF Crash
  <2> QED BY <1>1, <2>1, <2>2 DEF Handling, Compiling, RunnerSteps
<1>13. CASE (\E p \in Projects : Edit(p)) \/ Restart \/ UNCHANGED vars
  <2>1. UNCHANGED <<runner, inbox, myLog, mailbox, wire, pc, cur>>
    BY <1>13 DEF Edit, Restart, vars, reqVars, runnerVars, messagerVars
  <2> QED BY <1>1, <2>1 DEF Handling, Compiling
<1> QED BY <1>2, <1>3, <1>4, <1>5, <1>6, <1>7, <1>8, <1>9, <1>10, <1>11, <1>12, <1>13
        DEF Next, Request, Message

LEMMA LoneStep ==
  ASSUME IInv, CountInv, LoneInv, [Next]_vars
  PROVE  LoneInv'
<1>0. /\ AnsweredInv /\ LonelyAnswerIsOwn
      /\ \A b \in Open \ accompanied : Open = {b} /\ (owner[b] \in serial => OnlyOf(b))
      /\ accompanied \subseteq accompanied' /\ serial' \subseteq serial
  BY OpenStep DEF LoneInv
<1>1. \A b \in Open' \ accompanied' : Open' = {b} /\ (owner[b] \in serial' => OnlyOf(b)')
  <2>1. CASE \A c \in Builds : ~Start(c)
    <3> SUFFICES ASSUME NEW b \in Open' \ accompanied'
                 PROVE  Open' = {b} /\ (owner[b] \in serial' => OnlyOf(b)')
      OBVIOUS
    <3>1. b \in Open \ accompanied /\ b \in Builds /\ Open' \subseteq Open
      BY <1>0, <2>1, OpenStep DEF Open
    <3> QED BY <1>0, <2>1, <3>1, OnlyStep
  <2>2. ASSUME NEW c \in Builds, Start(c)
        PROVE  \A b \in Open' \ accompanied' : Open' = {b} /\ (owner[b] \in serial' => OnlyOf(b)')
    <3>1. /\ req' = [req EXCEPT ![c] = "zipping"] /\ req[c] = "idle"
          /\ accompanied' = IF Open = {} THEN accompanied ELSE accompanied \cup Open \cup {c}
          /\ UNCHANGED <<runner, inbox, myLog, mailbox, wire, pc, cur>>
      BY <2>2 DEF Start, runnerVars, messagerVars
    <3>2. Open' = Open \cup {c}
      BY <3>1 DEF Open, IInv, TInv, TypeOK
    <3>3. CASE Open # {}
      BY <3>1, <3>2, <3>3
    <3>4. CASE Open = {}
      <4>1. /\ \A d \in Builds : ~Compiling(d)
            /\ mailbox = <<>> /\ wire = <<>> /\ ~Handling
        BY <3>4, NothingIsPending
      <4>2. inbox[c] = <<>> /\ myLog[c] = None
        BY <3>1 DEF CountInv, StartedInv, Started, Reached
      <4>3. Len(mailbox) = 0 /\ Len(wire) = 0 /\ Len(inbox[c]) = 0
        BY <4>1, <4>2
      <4>4. OnlyOf(c)
        BY <4>1, <4>2, <4>3 DEF OnlyOf, NothingOf
      <4>5. OnlyOf(c)'
        BY <3>1, <4>4 DEF OnlyOf, NothingOf, Handling, Compiling
      <4> QED BY <3>2, <3>4, <4>5
    <3> QED BY <3>3, <3>4
  <2> QED BY <2>1, <2>2
<1>2. LonelyAnswerIsOwn'
  <2>1. ASSUME NEW b \in Builds, Reply(b) PROVE LonelyAnswerIsOwn'
    <3>1. /\ reply' = [reply EXCEPT ![b] = myLog[b]] /\ myLog[b] # None /\ b \in Open
          /\ UNCHANGED history
      BY <2>1 DEF Reply, Open
    <3>2. b \notin accompanied /\ owner[b] \in serial => myLog[b].by = b
      BY <1>0, <3>1 DEF OnlyOf
    <3>3. reply \in [Builds -> Logs \cup {None}]
      BY DEF IInv, TInv, TypeOK
    <3> QED BY <1>0, <3>1, <3>2, <3>3 DEF LonelyAnswerIsOwn, history
  <2>2. ASSUME \A b \in Builds : ~Reply(b) PROVE LonelyAnswerIsOwn'
    <3>1. ASSUME NEW b \in Builds, Run(b) PROVE reply' = reply
      BY <3>1, RunMoves
    <3>2. ASSUME NEW b \in Builds, Start(b) \/ Request(b) PROVE reply' = reply
      BY <2>2, <3>2 DEF Start, Request, Register, ZipFile, ZipFails, Put, PutRefused, HandleLog
    <3>3. reply' = reply
      BY <3>1, <3>2 DEF Next, Edit, Deliver, Message, Receive, GetCompiledZip, GetLog, DeleteLink,
         AnswerRunner, ForwardLog, CleanUp, Crash, Restart, vars, reqVars
    <3> QED BY <1>0, <3>3 DEF LonelyAnswerIsOwn
  <2> QED BY <2>1, <2>2
<1> QED BY <1>0, <1>1, <1>2, AnsweredStep DEF LoneInv

LEMMA Lonely == Spec => [](CountInv /\ LoneInv)
<1>1. ASSUME IInv, CountInv, LoneInv, [Next]_vars PROVE CountInv' /\ LoneInv'
  BY <1>1, StartedStep, PendingStep, LoneStep DEF CountInv
<1> QED BY <1>1, CountInvInit, LoneInvInit, Inductive, PTL DEF Spec

(* A request of a serial user that is the only one open from its GET to its  *)
(* answer is answered with the log of its own build, however many requests   *)
(* were mixed up, refused or never answered before it.                       *)
THEOREM LonelyAnswersAreOwn == Spec => []LonelyAnswerIsOwn
<1>1. LoneInv => LonelyAnswerIsOwn
  BY DEF LoneInv
<1> QED BY <1>1, Lonely, PTL
=============================================================================

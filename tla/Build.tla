------------------------------- MODULE Build -------------------------------
(***************************************************************************)
(* The build pipeline of the web IDE, from a browser's GET to the log it   *)
(* gets back, across the two JVMs that serve it:                           *)
(*                                                                         *)
(*   editor (8080)   lib/RestCompiler.scala   one thread and one           *)
(*                                            RestMessager actor a request *)
(*                   comet/FileManager.scala  zip, PUT, DELETE, unzip      *)
(*                   comet/Messager.scala     the one actor on port 8082   *)
(*   compiler (8081) lib/FullRest.scala       PUT and DELETE of a link     *)
(*                   model/Compilable.scala   the registry of links        *)
(*                   snippet/RunCompiler, CompilerHelper, Compiler,        *)
(*                   LogParser                one actor a build            *)
(*                                                                         *)
(* A build is one GET.  Sources are pairs <<project, version>>: the        *)
(* version grows with each saved edit.  All state of the compile server is *)
(* keyed by the USER id, never by the build, and both actor names ('rest,  *)
(* 'server) are bound to a single actor: the hazards of this module.       *)
(***************************************************************************)
EXTENDS Integers, Sequences, FiniteSets

CONSTANTS
  Builds,      \* the compile requests
  Users,       \* the users who send them
  Projects,    \* the projects they build
  owner,       \* [Builds -> Users]
  project,     \* [Builds -> Projects]
  Rejected,    \* builds whose option list Compiler.checkOptionExists refuses
  None,        \* no build, no file, no log
  MaxEdits,    \* bound: saved edits per project
  MaxOpen,     \* bound: requests a browser keeps open at once
  MaxCrashes,  \* bound: crashes of the compile server
  Timely       \* TRUE: an actor that was started runs before a zip process ends

ASSUME OwnerAssumption == owner \in [Builds -> Users]
ASSUME ProjectAssumption == project \in [Builds -> Projects]
ASSUME RejectedAssumption == Rejected \subseteq Builds
ASSUME BoundsAssumption == /\ MaxEdits \in Nat /\ MaxOpen \in Nat
                           /\ MaxCrashes \in Nat /\ Timely \in BOOLEAN

Sources == Projects \X (0..MaxEdits)
Verdicts == {"success", "failure"}
(* What scalac prints, as far as LogParser can tell: text the parser turns  *)
(* into a table, with or without errors, or text it cannot ("malformed":    *)
(* markup characters, or lines that do not come in threes).  It is assumed  *)
(* that scalac itself starts: a shell that does not find it prints a line   *)
(* the parser takes for a success (LogParser.tla has that case).            *)
Outcomes == {"clean", "errors", "malformed"}
RawLogs == [by : Builds, srcs : SUBSET Sources, out : Outcomes]
Logs == [by : Builds, srcs : SUBSET Sources, verdict : Verdicts]
Boxes == [dir : BOOLEAN, src : SUBSET Sources, made : BOOLEAN, list : SUBSET Sources,
          raw : SUBSET RawLogs, xml : SUBSET Logs]
NoBox == [dir |-> FALSE, src |-> {}, made |-> FALSE, list |-> {}, raw |-> {}, xml |-> {}]

ASSUME NoneAssumption == None \notin Builds /\ None \notin Logs /\ None \notin 0..MaxEdits

VARIABLES
  \* the editor's disk
  edits,       \* [Projects -> version] the saved files of each project
  zipped,      \* [Projects -> version or None] projectfiles/<project>.zip
  \* RestCompiler: the request thread and its RestMessager
  req, asked, messager, inbox, myLog, reply,
  rest,        \* the messager the name 'rest on port 8083 is bound to
  wire,        \* logs on their way to port 8083
  \* the compile server
  up, crashes,
  links,       \* [Users -> build or None] Compilable.links: one link per user id
  runner, files, exit,    \* RunCompiler: its step, filesToCompile, scalac's status
  box,         \* [Users -> Boxes] the directory project_<user>
  archive,     \* [Users -> logs] downloads/project_<user>.zip
  \* Messager
  mailbox, pc, cur, log,
  fetched,     \* [Users -> logs] compiled_projects/user_<user>.zip
  extracted,   \* [Users -> logs] compiled_projects/project_<user>/log
  \* history: users whose builds never overlapped nor died half-way, and
  \* builds that shared some of their time with another open request
  serial, accompanied

editorVars == <<edits, zipped>>
reqVars == <<req, asked, messager, rest, inbox, myLog, reply>>
serverVars == <<up, crashes, links, box, archive>>
runnerVars == <<runner, files, exit>>
messagerVars == <<mailbox, pc, cur, log, fetched, extracted>>
history == <<serial, accompanied>>
vars == <<editorVars, reqVars, wire, serverVars, runnerVars, messagerVars, history>>

RunnerSteps == {"boxing", "copying", "listing", "reading", "executing",
                "parsing", "archiving", "notifying", "awaiting"}
MessagerSteps == {"fetching", "loading", "deleting", "replying", "forwarding", "cleaning"}

(* A RunCompiler actor that was started and has neither finished nor died.  *)
(* One hung in unzip's overwrite prompt counts: it holds its box for ever.  *)
Active(b) == runner[b] \in RunnerSteps \cup {"stuck"}
Open == {b \in Builds : req[b] \in {"zipping", "putting", "waiting"}}

TypeOK ==
  /\ edits \in [Projects -> 0..MaxEdits]
  /\ zipped \in [Projects -> 0..MaxEdits \cup {None}]
  /\ req \in [Builds -> {"idle", "zipping", "putting", "waiting", "replied", "error"}]
  /\ asked \in [Builds -> 0..MaxEdits]
  /\ messager \in [Builds -> {"none", "started", "registered"}]
  /\ rest \in Builds \cup {None}
  /\ inbox \in [Builds -> Seq(Logs)] /\ wire \in Seq(Logs)
  /\ myLog \in [Builds -> Logs \cup {None}] /\ reply \in [Builds -> Logs \cup {None}]
  /\ up \in BOOLEAN /\ crashes \in 0..MaxCrashes
  /\ links \in [Users -> Builds \cup {None}]
  /\ runner \in [Builds -> RunnerSteps \cup {"none", "stuck", "done", "dead"}]
  /\ files \in [Builds -> SUBSET Sources]
  /\ exit \in [Builds -> {"none", "ok", "failed"}]
  /\ box \in [Users -> Boxes] /\ archive \in [Users -> SUBSET Logs]
  /\ mailbox \in Seq(Builds)
  /\ pc \in MessagerSteps \cup {"idle", "dead"}
  /\ cur \in Builds \cup {None} /\ log \in Logs \cup {None}
  /\ fetched \in [Users -> SUBSET Logs] /\ extracted \in [Users -> SUBSET Logs]
  /\ serial \subseteq Users /\ accompanied \subseteq Builds

Init ==
  /\ edits = [p \in Projects |-> 0] /\ zipped = [p \in Projects |-> None]
  /\ req = [b \in Builds |-> "idle"] /\ asked = [b \in Builds |-> 0]
  /\ messager = [b \in Builds |-> "none"] /\ rest = None
  /\ inbox = [b \in Builds |-> <<>>] /\ wire = <<>>
  /\ myLog = [b \in Builds |-> None] /\ reply = [b \in Builds |-> None]
  /\ up = TRUE /\ crashes = 0 /\ links = [u \in Users |-> None]
  /\ runner = [b \in Builds |-> "none"] /\ files = [b \in Builds |-> {}]
  /\ exit = [b \in Builds |-> "none"]
  /\ box = [u \in Users |-> NoBox] /\ archive = [u \in Users |-> {}]
  /\ mailbox = <<>> /\ pc = "idle" /\ cur = None /\ log = None
  /\ fetched = [u \in Users |-> {}] /\ extracted = [u \in Users |-> {}]
  /\ serial = Users /\ accompanied = {}

-----------------------------------------------------------------------------
(* The editor: edits, and the request thread of RestCompiler.               *)

(* A user saves a file of project p (SaveBuffer through FileManager.saveFile). *)
Edit(p) ==
  /\ edits[p] < MaxEdits
  /\ edits' = [edits EXCEPT ![p] = @ + 1]
  /\ UNCHANGED <<zipped, reqVars, wire, serverVars, runnerVars, messagerVars, history>>

(* The GET arrives: the thread creates and starts its RestMessager. *)
Start(b) ==
  /\ req[b] = "idle" /\ Cardinality(Open) < MaxOpen
  /\ req' = [req EXCEPT ![b] = "zipping"]
  /\ asked' = [asked EXCEPT ![b] = edits[project[b]]]
  /\ messager' = [messager EXCEPT ![b] = "started"]
  /\ accompanied' = IF Open = {} THEN accompanied ELSE accompanied \cup Open \cup {b}
  /\ UNCHANGED <<editorVars, rest, inbox, myLog, reply, wire, serverVars, runnerVars,
                 messagerVars, serial>>

(* Mutant: the name goes to the first messager and stays there. *)
RegisterOnce(b) ==
  /\ messager[b] = "started"
  /\ messager' = [messager EXCEPT ![b] = "registered"]
  /\ rest' = IF rest = None THEN b ELSE rest
  /\ UNCHANGED <<editorVars, req, asked, inbox, myLog, reply, wire, serverVars, runnerVars,
                 messagerVars, history>>

(* The RestMessager runs act: alive(8083), register('rest, self).  The name *)
(* is taken over from whoever held it.                                      *)
Register(b) ==
  /\ messager[b] = "started"
  /\ messager' = [messager EXCEPT ![b] = "registered"]
  /\ rest' = b
  /\ UNCHANGED <<editorVars, req, asked, inbox, myLog, reply, wire, serverVars, runnerVars,
                 messagerVars, history>>

(* Mutant: an archive that exists is taken for the current one. *)
ZipOnce(b) ==
  LET p == project[b] IN
  /\ req[b] = "zipping" /\ (Timely => messager[b] = "registered")
  /\ req' = [req EXCEPT ![b] = "putting"]
  /\ zipped' = IF zipped[p] = None THEN [zipped EXCEPT ![p] = edits[p]] ELSE zipped
  /\ UNCHANGED <<edits, asked, messager, rest, inbox, myLog, reply, wire, serverVars,
                 runnerVars, messagerVars, history>>

(* FileManager.compile, first half: zip -r of the project's directory. *)
ZipFile(b) ==
  /\ req[b] = "zipping" /\ (Timely => messager[b] = "registered")
  /\ req' = [req EXCEPT ![b] = "putting"]
  /\ zipped' = [zipped EXCEPT ![project[b]] = edits[project[b]]]
  /\ UNCHANGED <<edits, asked, messager, rest, inbox, myLog, reply, wire, serverVars,
                 runnerVars, messagerVars, history>>

(* Mutant: the PUT is sent although zip failed. *)
ZipFailsUnnoticed(b) ==
  /\ req[b] = "zipping"
  /\ req' = [req EXCEPT ![b] = "putting"]
  /\ UNCHANGED <<editorVars, asked, messager, rest, inbox, myLog, reply, wire, serverVars,
                 runnerVars, messagerVars, history>>

(* zip fails: compile returns "failed", which RestCompiler ignores; the     *)
(* thread waits for a log although nothing was sent.                        *)
ZipFails(b) ==
  /\ req[b] = "zipping"
  /\ req' = [req EXCEPT ![b] = "waiting"]
  /\ UNCHANGED <<editorVars, asked, messager, rest, inbox, myLog, reply, wire, serverVars,
                 runnerVars, messagerVars, history>>

(* FileManager.put, FullRest's PUT and Compilable.compile under its lock:   *)
(* start a RunCompiler, put the user's link in front of the registry.       *)
(* u stays serial only if every earlier build of u is over.                 *)
Put(b) ==
  LET u == owner[b] IN
  /\ req[b] = "putting" /\ up
  /\ req' = [req EXCEPT ![b] = "waiting"]
  /\ runner' = [runner EXCEPT ![b] = "boxing"]
  /\ links' = [links EXCEPT ![u] = b]
  /\ serial' = IF \A c \in Builds \ {b} : owner[c] = u => runner[c] \in {"none", "done"}
                 THEN serial ELSE serial \ {u}
  /\ UNCHANGED <<editorVars, asked, messager, rest, inbox, myLog, reply, wire, up, crashes,
                 box, archive, files, exit, messagerVars, accompanied>>

(* No compile server: ConnectException ends the request with an error page. *)
PutRefused(b) ==
  /\ req[b] = "putting" /\ ~up
  /\ req' = [req EXCEPT ![b] = "error"]
  /\ UNCHANGED <<editorVars, asked, messager, rest, inbox, myLog, reply, wire, serverVars,
                 runnerVars, messagerVars, history>>

(* A log reaches port 8083: it goes to the actor the name is bound to now,  *)
(* and is dropped if there is none.                                         *)
Deliver ==
  /\ wire # <<>>
  /\ wire' = Tail(wire)
  /\ inbox' = IF rest = None THEN inbox
              ELSE [inbox EXCEPT ![rest] = Append(@, Head(wire))]
  /\ UNCHANGED <<editorVars, req, asked, messager, rest, myLog, reply, serverVars, runnerVars,
                 messagerVars, history>>

(* The RestMessager's react: myLog = log; ready = true (myLog # None). *)
HandleLog(b) ==
  /\ inbox[b] # <<>>
  /\ inbox' = [inbox EXCEPT ![b] = Tail(@)]
  /\ myLog' = [myLog EXCEPT ![b] = Head(inbox[b])]
  /\ UNCHANGED <<editorVars, req, asked, messager, rest, reply, wire, serverVars, runnerVars,
                 messagerVars, history>>

(* The busy wait sees ready and returns whatever myLog holds. *)
Reply(b) ==
  /\ req[b] = "waiting" /\ myLog[b] # None
  /\ req' = [req EXCEPT ![b] = "replied"]
  /\ reply' = [reply EXCEPT ![b] = myLog[b]]
  /\ UNCHANGED <<editorVars, asked, messager, rest, inbox, myLog, wire, serverVars, runnerVars,
                 messagerVars, history>>

-----------------------------------------------------------------------------
(* The compile server: the steps of RunCompiler.act.                        *)

RunnerStep(b, from, to) ==
  /\ runner[b] = from
  /\ runner' = [runner EXCEPT ![b] = to]

(* mkdir -p project_<user> and its log, src and bin: what is there stays. *)
CreateCompilerBox(b) ==
  /\ RunnerStep(b, "boxing", "copying")
  /\ box' = [box EXCEPT ![owner[b]].dir = TRUE]
  /\ UNCHANGED <<editorVars, reqVars, wire, up, crashes, links, archive, files, exit,
                 messagerVars, history>>

(* curl -O and unzip *.zip in src.  The status is only printed, so a failure *)
(* (no directory, no zip, a zip that does not unpack) leaves src as it was.  *)
CopyFiles(b) ==
  LET u == owner[b]
      new == box[u].src \cup {<<project[b], zipped[project[b]]>>} IN
  /\ RunnerStep(b, "copying", "listing")
  /\ \E s \in IF box[u].dir THEN {box[u].src, new} ELSE {box[u].src} :
       box' = [box EXCEPT ![u].src = s]
  /\ UNCHANGED <<editorVars, reqVars, wire, up, crashes, links, archive, files, exit,
                 messagerVars, history>>

(* unzip meets files it knows and asks before it overwrites: nobody answers, *)
(* waitFor never returns.                                                    *)
CopyHangs(b) ==
  /\ RunnerStep(b, "copying", "stuck")
  /\ box[owner[b]].dir /\ box[owner[b]].src # {}
  /\ UNCHANGED <<editorVars, reqVars, wire, serverVars, files, exit, messagerVars, history>>

(* ls -1R into project_<user>/.makefile; without the directory, nothing. *)
MakeMakefile(b) ==
  LET u == owner[b] IN
  /\ RunnerStep(b, "listing", "reading")
  /\ box' = IF box[u].dir THEN [box EXCEPT ![u].made = TRUE, ![u].list = box[u].src] ELSE box
  /\ UNCHANGED <<editorVars, reqVars, wire, up, crashes, links, archive, files, exit,
                 messagerVars, history>>

(* Compiler.compile up to the command line.  A refused option is caught and *)
(* compilation is skipped; a missing .makefile is not caught and ends the   *)
(* actor.                                                                   *)
ReadMakefile(b) ==
  LET makefile == box[owner[b]] IN
  /\ \/ b \in Rejected /\ RunnerStep(b, "reading", "parsing") /\ UNCHANGED files
     \/ /\ b \notin Rejected /\ ~makefile.made
        /\ RunnerStep(b, "reading", "dead") /\ UNCHANGED files
     \/ /\ b \notin Rejected /\ makefile.made
        /\ RunnerStep(b, "reading", "executing")
        /\ files' = [files EXCEPT ![b] = makefile.list]
  /\ UNCHANGED <<editorVars, reqVars, wire, serverVars, exit, messagerVars, history>>

(* scalac <options> <files> &> log.  Without files it prints its usage text *)
(* (markup); with files that are gone it reports errors; without a log      *)
(* directory the shell fails before scalac runs.                            *)
Execute(b) ==
  LET u == owner[b] IN
  /\ RunnerStep(b, "executing", "parsing")
  /\ \/ /\ box[u].dir
        /\ \E o \in IF files[b] = {} THEN {"malformed"} ELSE Outcomes :
             /\ o = "clean" => files[b] \subseteq box[u].src
             /\ box' = [box EXCEPT ![u].raw =
                                     @ \cup {[by |-> b, srcs |-> files[b], out |-> o]}]
             /\ \E x \in {"ok", "failed"} :
                  /\ o # "malformed" => (x = "ok" <=> o = "clean")
                  /\ exit' = [exit EXCEPT ![b] = x]
     \/ ~box[u].dir /\ exit' = [exit EXCEPT ![b] = "failed"] /\ UNCHANGED box
  /\ UNCHANGED <<editorVars, reqVars, wire, up, crashes, links, archive, files, messagerVars,
                 history>>

(* Mutant: the last line of the log is not looked at. *)
XmlLogsAllGood(b, raw) ==
  {[by |-> b, srcs |-> UNION {r.srcs : r \in {r \in raw : r.by = b}}, verdict |-> "success"]}

(* LogParser.getXMLlog on this build's log file: a log that is missing reads *)
(* as an empty one, and an empty one as a success.                          *)
XmlLogs(b, raw) ==
  LET own == {r \in raw : r.by = b} IN
  IF own = {} THEN {[by |-> b, srcs |-> {}, verdict |-> "success"]}
  ELSE {[by |-> b, srcs |-> r.srcs,
         verdict |-> IF r.out = "errors" THEN "failure" ELSE "success"] : r \in own}

(* getXMLlog and XML.save: text that is not XML, or a log directory that is *)
(* gone, throws and ends the actor.                                         *)
ParseLog(b) ==
  LET u == owner[b]
      malformed == \E r \in box[u].raw : r.by = b /\ r.out = "malformed" IN
  /\ \/ /\ malformed \/ ~box[u].dir
        /\ RunnerStep(b, "parsing", "dead") /\ UNCHANGED box
     \/ /\ ~malformed /\ box[u].dir
        /\ RunnerStep(b, "parsing", "archiving")
        /\ box' = [box EXCEPT ![u].xml = @ \cup XmlLogs(b, box[u].raw)]
  /\ UNCHANGED <<editorVars, reqVars, wire, up, crashes, links, archive, files, exit,
                 messagerVars, history>>

(* Mutant: zip runs in the wrong directory. *)
ZipNothing(b) ==
  /\ RunnerStep(b, "archiving", "notifying")
  /\ UNCHANGED <<editorVars, reqVars, wire, serverVars, files, exit, messagerVars, history>>

(* zip -r downloads/project_<user>.zip log bin: adds to an archive that exists. *)
ZipBinAndLog(b) ==
  LET u == owner[b] IN
  /\ RunnerStep(b, "archiving", "notifying")
  /\ archive' = IF box[u].dir THEN [archive EXCEPT ![u] = @ \cup box[u].xml] ELSE archive
  /\ UNCHANGED <<editorVars, reqVars, wire, up, crashes, links, box, files, exit, messagerVars,
                 history>>

(* server !? ('compiled, id, link): the actor blocks until 'server answers. *)
Notify(b) ==
  /\ RunnerStep(b, "notifying", "awaiting")
  /\ mailbox' = Append(mailbox, b)
  /\ UNCHANGED <<editorVars, reqVars, wire, serverVars, files, exit, pc, cur, log, fetched,
                 extracted, history>>

(* The JVM of the compile server stops: its actors and the registry are     *)
(* gone, the directories stay.                                              *)
Crash ==
  /\ up /\ crashes < MaxCrashes
  /\ up' = FALSE /\ crashes' = crashes + 1
  /\ links' = [u \in Users |-> None]
  /\ runner' = [b \in Builds |-> IF Active(b) THEN "dead" ELSE runner[b]]
  /\ serial' = {u \in serial : \A b \in Builds : owner[b] = u => ~Active(b)}
  /\ UNCHANGED <<editorVars, reqVars, wire, box, archive, files, exit, messagerVars,
                 accompanied>>

Restart ==
  /\ ~up /\ up' = TRUE
  /\ UNCHANGED <<editorVars, reqVars, wire, crashes, links, box, archive, runnerVars,
                 messagerVars, history>>

-----------------------------------------------------------------------------
(* The Messager actor: its handler of ('compiled, id, path), step by step.  *)

Receive ==
  /\ pc = "idle" /\ mailbox # <<>>
  /\ pc' = "fetching" /\ cur' = Head(mailbox) /\ mailbox' = Tail(mailbox)
  /\ UNCHANGED <<editorVars, reqVars, wire, serverVars, runnerVars, log, fetched, extracted,
                 history>>

(* getCompiledZip: curl -o user_<user>.zip.  An archive that is not there   *)
(* gives an error page (nothing to unpack); with no server to ask, the      *)
(* previous file stays.                                                     *)
GetCompiledZip ==
  /\ pc = "fetching" /\ pc' = "loading"
  /\ fetched' = IF up THEN [fetched EXCEPT ![owner[cur]] = archive[owner[cur]]] ELSE fetched
  /\ UNCHANGED <<editorVars, reqVars, wire, serverVars, runnerVars, mailbox, cur, log,
                 extracted, history>>

(* getLogPath and getLog: unzip -u, then load the last .xml in the order    *)
(* the directory lists them, which is any.  Nothing to unpack, or no .xml,  *)
(* throws, and the actor is gone for good.                                  *)
GetLog ==
  LET u == owner[cur] IN
  /\ pc = "loading"
  /\ \/ /\ fetched[u] = {}
        /\ pc' = "dead" /\ UNCHANGED <<log, extracted>>
     \/ /\ fetched[u] # {}
        /\ pc' = "deleting"
        /\ extracted' = [extracted EXCEPT ![u] = @ \cup fetched[u]]
        /\ log' \in extracted'[u]
  /\ UNCHANGED <<editorVars, reqVars, wire, serverVars, runnerVars, mailbox, cur, fetched,
                 history>>

(* Mutant: rm -rf project_* *)
DeleteEveryBox ==
  LET u == owner[cur] IN
  /\ pc = "deleting"
  /\ pc' = IF up THEN "replying" ELSE "dead"
  /\ IF up /\ links[u] # None
       THEN /\ links' = [links EXCEPT ![u] = None]
            /\ box' = [v \in Users |-> NoBox]
            /\ archive' = [archive EXCEPT ![u] = {}]
       ELSE UNCHANGED <<links, box, archive>>
  /\ UNCHANGED <<editorVars, reqVars, wire, up, crashes, runnerVars, mailbox, cur, log,
                 fetched, extracted, history>>

(* Mutant: the archive is forgotten. *)
DeleteBoxOnly ==
  LET u == owner[cur] IN
  /\ pc = "deleting"
  /\ pc' = IF up THEN "replying" ELSE "dead"
  /\ IF up /\ links[u] # None
       THEN /\ links' = [links EXCEPT ![u] = None]
            /\ box' = [box EXCEPT ![u] = NoBox]
       ELSE UNCHANGED <<links, box>>
  /\ UNCHANGED <<editorVars, reqVars, wire, up, crashes, archive, runnerVars, mailbox, cur,
                 log, fetched, extracted, history>>

(* HTTP DELETE compiler/link/<user>: FullRest deletes the link it finds, and *)
(* Compilable.delete then destroys box and archive; no link is a 404 and     *)
(* destroys nothing.  No server throws.                                      *)
DeleteLink ==
  LET u == owner[cur] IN
  /\ pc = "deleting"
  /\ pc' = IF up THEN "replying" ELSE "dead"
  /\ IF up /\ links[u] # None
       THEN /\ links' = [links EXCEPT ![u] = None]
            /\ box' = [box EXCEPT ![u] = NoBox]
            /\ archive' = [archive EXCEPT ![u] = {}]
       ELSE UNCHANGED <<links, box, archive>>
  /\ UNCHANGED <<editorVars, reqVars, wire, up, crashes, runnerVars, mailbox, cur, log,
                 fetched, extracted, history>>

(* Mutant: the RunCompiler gets no answer. *)
AnswerNobody ==
  /\ pc = "replying" /\ pc' = "forwarding"
  /\ UNCHANGED <<editorVars, reqVars, wire, serverVars, runnerVars, mailbox, cur, log, fetched,
                 extracted, history>>

(* sender ! "Notification received": the RunCompiler returns from !?. *)
AnswerRunner ==
  /\ pc = "replying" /\ pc' = "forwarding"
  /\ runner' = IF runner[cur] = "awaiting" THEN [runner EXCEPT ![cur] = "done"] ELSE runner
  /\ UNCHANGED <<editorVars, reqVars, wire, serverVars, files, exit, mailbox, cur, log,
                 fetched, extracted, history>>

(* Mutant: the log is sent twice. *)
ForwardTwice ==
  /\ pc = "forwarding" /\ pc' = "cleaning"
  /\ wire' = wire \o <<log, log>>
  /\ UNCHANGED <<editorVars, reqVars, serverVars, runnerVars, mailbox, cur, log, fetched,
                 extracted, history>>

(* rest ! log *)
ForwardLog ==
  /\ pc = "forwarding" /\ pc' = "cleaning"
  /\ wire' = Append(wire, log)
  /\ UNCHANGED <<editorVars, reqVars, serverVars, runnerVars, mailbox, cur, log, fetched,
                 extracted, history>>

(* Mutant: what was unpacked stays. *)
KeepUnpacked ==
  /\ pc = "cleaning" /\ pc' = "idle"
  /\ cur' = None /\ log' = None
  /\ UNCHANGED <<editorVars, reqVars, wire, serverVars, runnerVars, mailbox, fetched,
                 extracted, history>>

(* deleteFile(logPath + "../../", "project_<user>") *)
CleanUp ==
  /\ pc = "cleaning" /\ pc' = "idle"
  /\ extracted' = [extracted EXCEPT ![owner[cur]] = {}]
  /\ cur' = None /\ log' = None
  /\ UNCHANGED <<editorVars, reqVars, wire, serverVars, runnerVars, mailbox, fetched, history>>

-----------------------------------------------------------------------------
Request(b) == \/ Register(b) \/ ZipFile(b) \/ ZipFails(b) \/ Put(b) \/ PutRefused(b)
              \/ HandleLog(b) \/ Reply(b)
Run(b) == \/ CreateCompilerBox(b) \/ CopyFiles(b) \/ CopyHangs(b) \/ MakeMakefile(b)
          \/ ReadMakefile(b) \/ Execute(b) \/ ParseLog(b) \/ ZipBinAndLog(b) \/ Notify(b)
Message == \/ Receive \/ GetCompiledZip \/ GetLog \/ DeleteLink \/ AnswerRunner
           \/ ForwardLog \/ CleanUp

Next == \/ \E p \in Projects : Edit(p)
        \/ \E b \in Builds : Start(b) \/ Request(b) \/ Run(b)
        \/ Deliver \/ Message \/ Crash \/ Restart

Spec == Init /\ [][Next]_vars

(* Threads and actors keep running and the local network delivers; users   *)
(* need not edit or send requests, and a crash need not happen.             *)
FairSpec == /\ Spec
            /\ \A b \in Builds : WF_vars(Request(b)) /\ WF_vars(Run(b))
            /\ WF_vars(Deliver) /\ WF_vars(Message) /\ WF_vars(Restart)

-----------------------------------------------------------------------------
(* Properties.  A user is serial while no two of its builds overlapped and  *)
(* no runner of it died: what one careful user, among others, may rely on.  *)

HasLog == pc \in {"deleting", "replying", "forwarding", "cleaning"}
HandlesSerial == HasLog /\ owner[cur] \in serial

(* The log that Messager picks for a notification of a serial user is the   *)
(* log of the build that sent it: nothing of an earlier build is left in    *)
(* the box, the archive, or the directory Messager unpacks into.            *)
SerialLogIsOwn == HandlesSerial => log.by = cur

(* ... it comes from files of the requested project only, in a version no   *)
(* older than the one saved when the request arrived.                       *)
SerialLogIsFresh ==
  HandlesSerial => \A s \in log.srcs : s[1] = project[cur] /\ s[2] >= asked[cur]

(* ... and it says "COMPILATION SUCCESSFUL" exactly if scalac exited with 0 *)
(* (RunCompiler only prints that status), when the options were accepted.   *)
SerialVerdictIsTrue ==
  HandlesSerial /\ cur \notin Rejected => (log.verdict = "success" <=> exit[cur] = "ok")

(* When the builds of a serial user are all over, nothing of them is left   *)
(* on the compile server: no directory, no archive, no link.                *)
SerialLeavesNothing ==
  \A u \in serial :
    (\A b \in Builds : owner[b] = u => runner[b] \in {"none", "done"})
      => box[u] = NoBox /\ archive[u] = {} /\ links[u] = None

(* Messager, the one actor that answers all builds, is killed only by an    *)
(* archive that another build or a crash has taken from under its build.    *)
MessagerSurvivesSerial == pc = "dead" => owner[cur] \notin serial

(* The RunCompiler of a serial user always has its directory and never      *)
(* waits at an overwrite prompt: it fails only on text that is not XML.     *)
SerialRunnerFailsOnItsLogOnly ==
  \A b \in Builds :
    owner[b] \in serial /\ runner[b] \in {"dead", "stuck"} =>
      \E r \in box[owner[b]].raw : r.by = b /\ r.out = "malformed"

(* A request of a serial user that was the only one open, from the GET to   *)
(* the answer, is answered with the log of its own build, even if others    *)
(* were mixed up before: no log of theirs is still on its way.              *)
LonelyAnswerIsOwn ==
  \A b \in Builds : reply[b] # None /\ b \notin accompanied /\ owner[b] \in serial
                     => reply[b].by = b

(* FullRest says it returns "the log of the compilation": whatever builds   *)
(* overlap, the log Messager has for a notification is of that build.       *)
LogIsOfTheCompilation == HasLog => log.by = cur

(* Liveness.  Without crashes and with one build per user, every RunCompiler *)
(* that starts ends, by an answer from Messager or by an exception.          *)
EveryBuildEnds ==
  \A b \in Builds : (runner[b] = "boxing") ~> (runner[b] \in {"done", "dead"})

(* Liveness.  With one request open at a time and messagers that register   *)
(* in time, a request whose build was compiled and reported is answered.    *)
FinishedBuildIsAnswered ==
  \A b \in Builds : (runner[b] = "done") ~> (req[b] = "replied")
=============================================================================

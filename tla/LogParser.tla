----------------------------- MODULE LogParser -----------------------------
(***************************************************************************)
(* snippet/LogParser.scala: how the text scalac printed becomes the table  *)
(* and the verdict that go back to the browser.  The parser knows lines by *)
(* their place only: it takes every third kept line for the head of a      *)
(* message, the next for source code and the one after for the line with   *)
(* the caret.  Build.tla abstracts all of this to three outcomes; here it  *)
(* is seen which text leads to which.                                      *)
(*                                                                         *)
(* A line is one of its kinds; what its characters decide beyond that (a   *)
(* caret in a source line, a line too short to capitalise) is free.        *)
(***************************************************************************)
EXTENDS Integers, Sequences

CONSTANTS
  MaxMessages,  \* bound: messages scalac prints
  MaxDetails,   \* bound: further lines of a message (" found   : Int(1)")
  MaxTraces     \* bound: lines in brackets, as printed for -verbose

ASSUME BoundsAssumption == MaxMessages \in Nat /\ MaxDetails \in Nat /\ MaxTraces \in Nat

(* "warnings", "errors": the summary, "two errors found"; "note": a line    *)
(* that starts with "warning: ".                                            *)
Kinds == {"header", "detail", "source", "pointer", "note", "warnings", "errors"}

VARIABLES
  kept,      \* logArray
  errors, warnings,         \* scalac: did it report any?
  phase, i, shown, verdict, \* the parser: its place, the lines in the table, the verdict
  messages, traces, notes, regular  \* history of what was printed

printed == <<kept, errors, warnings, messages, traces, notes, regular>>
parser == <<i, shown, verdict>>
logVars == <<printed, phase, parser>>

LogTypeOK ==
  /\ kept \in Seq(Kinds)
  /\ errors \in BOOLEAN /\ warnings \in BOOLEAN
  /\ phase \in {"printing", "printed", "looping", "done", "thrown"}
  /\ i \in Nat /\ shown \subseteq Nat
  /\ verdict \in {"none", "success", "warning", "failure"}
  /\ messages \in 0..MaxMessages /\ traces \in 0..MaxTraces
  /\ notes \in 0..2 /\ regular \in BOOLEAN

LogInit ==
  /\ kept = <<>> /\ errors = FALSE /\ warnings = FALSE
  /\ phase = "printing" /\ i = 0 /\ shown = {} /\ verdict = "none"
  /\ messages = 0 /\ traces = 0 /\ notes = 0 /\ regular = TRUE

-----------------------------------------------------------------------------
(* scalac prints.  Each line passes the parser's first loop on its way. *)

(* Mutant: brackets are not looked for. *)
FilterShort(line) == IF line = "brief" THEN <<>> ELSE <<line>>

(* Dropped: a line in brackets, a line of less than two characters. *)
Filter(line) == IF line \in {"brief", "trace"} THEN <<>> ELSE <<line>>

PrintTrace ==
  /\ phase = "printing" /\ traces < MaxTraces
  /\ traces' = traces + 1
  /\ kept' = kept \o Filter("trace")
  /\ UNCHANGED <<errors, warnings, messages, notes, regular, phase, parser>>

(* A message: file, line and text, further lines of text, the source line   *)
(* and the caret below it.  "}" or a caret in the first column is brief.    *)
PrintMessage ==
  /\ phase = "printing" /\ messages < MaxMessages
  /\ \E d \in 0..MaxDetails, s \in {"source", "brief"}, p \in {"pointer", "brief"} :
       /\ kept' = kept \o <<"header">> \o [x \in 1..d |-> "detail"] \o Filter(s) \o Filter(p)
       /\ regular' = (regular /\ d = 0 /\ s = "source" /\ p = "pointer")
  /\ \/ errors' = TRUE /\ UNCHANGED warnings
     \/ warnings' = TRUE /\ UNCHANGED errors
  /\ messages' = messages + 1
  /\ UNCHANGED <<traces, notes, phase, parser>>

(* The end of a run: up to two notes (deprecation, unchecked), which count  *)
(* as warnings, and a summary of the warnings and one of the errors.        *)
Summarise ==
  /\ phase = "printing"
  /\ \E n \in 0..2 :
       /\ notes' = n
       /\ kept' = kept \o [x \in 1..n |-> "note"]
                       \o (IF warnings \/ n > 0 THEN <<"warnings">> ELSE <<>>)
                       \o (IF errors THEN <<"errors">> ELSE <<>>)
  /\ phase' = "printed"
  /\ UNCHANGED <<errors, warnings, messages, traces, regular, parser>>

(* No compiler: the shell or the JVM says so in a line or two.  scalac has  *)
(* reported nothing then, and the verdict is a success.                     *)
Abort ==
  /\ phase = "printing" /\ messages = 0
  /\ \E d \in 1..2 : kept' = kept \o [x \in 1..d |-> "detail"]
  /\ phase' = "printed" /\ regular' = FALSE
  /\ UNCHANGED <<errors, warnings, messages, traces, notes, parser>>

-----------------------------------------------------------------------------
(* parseLog. *)

(* Mutant: the verdict is taken from the first line. *)
JudgeFirst ==
  /\ phase = "printed"
  /\ verdict' = IF kept # <<>> /\ Head(kept) = "errors" THEN "failure"
                ELSE IF kept # <<>> /\ Head(kept) = "warnings" THEN "warning" ELSE "success"
  /\ phase' = IF Len(kept) > 1 THEN "looping" ELSE "done"
  /\ UNCHANGED <<printed, i, shown>>

(* The last line decides; one line alone is not shown. *)
Judge ==
  /\ phase = "printed"
  /\ verdict' = IF kept # <<>> /\ kept[Len(kept)] = "errors" THEN "failure"
                ELSE IF kept # <<>> /\ kept[Len(kept)] = "warnings" THEN "warning"
                ELSE "success"
  /\ phase' = IF Len(kept) > 1 THEN "looping" ELSE "done"
  /\ UNCHANGED <<printed, i, shown>>

Line(k) == kept[k + 1]
Last(k) == k = Len(kept) - 1

(* Mutant: notes are lines like others. *)
FreeIfLast(k) == Last(k)

Free(k) == Last(k) \/ Line(k) = "note"  \* put in the table as it is

(* logArray(i+1).indexOf("^") and logArray(i).substring(position): without  *)
(* a caret, or with one beyond the end of this line, it throws.             *)
Underline(k) ==
  IF Line(k + 1) \in {"note", "warnings", "errors"} THEN {"throws"}
  ELSE IF Line(k) = "source" /\ Line(k + 1) = "pointer" THEN {"shows"}
  ELSE {"shows", "throws"}

(* substring(position+1, position+6): five characters after the first blank. *)
Capitalise(k) ==
  IF Line(k) \in {"header", "note", "warnings", "errors"} THEN {"shows"} ELSE {"shows", "throws"}

Outcome(k) == IF Free(k) THEN {"shows"}
              ELSE IF k % 3 = 0 THEN Capitalise(k)
              ELSE IF k % 3 = 1 THEN Underline(k)
              ELSE {"shows"}

(* Mutant: every third line starting with the second is left out. *)
ShowLineBut1 ==
  /\ phase = "looping" /\ "shows" \in Outcome(i)
  /\ shown' = IF i % 3 # 1 THEN shown \cup {i} ELSE shown
  /\ i' = i + 1
  /\ phase' = IF Last(i) THEN "done" ELSE "looping"
  /\ UNCHANGED <<printed, verdict>>

(* One turn of the loop; every third line is left out of the table, the     *)
(* last one too if it is its turn.                                          *)
ShowLine ==
  /\ phase = "looping" /\ "shows" \in Outcome(i)
  /\ shown' = IF i % 3 # 2 THEN shown \cup {i} ELSE shown
  /\ i' = i + 1
  /\ phase' = IF Last(i) THEN "done" ELSE "looping"
  /\ UNCHANGED <<printed, verdict>>

(* StringIndexOutOfBoundsException: nobody catches it, the RunCompiler dies. *)
Throw ==
  /\ phase = "looping" /\ "throws" \in Outcome(i)
  /\ phase' = "thrown"
  /\ UNCHANGED <<printed, parser>>

LogNext == PrintTrace \/ PrintMessage \/ Summarise \/ Abort \/ Judge \/ ShowLine \/ Throw

LogSpec == LogInit /\ [][LogNext]_logVars

-----------------------------------------------------------------------------
(* Messages of three lines each, and not a single note between them and two *)
(* summaries, which would stand where the parser expects source code.       *)
Tame == regular /\ ~(notes = 1 /\ errors)

(* Such a log is parsed to the end, for every mixture of messages, traces,  *)
(* notes and summaries: each place of the loop finds the line it expects.   *)
TameLogsAreParsed == Tame => phase # "thrown"

(* ... and shows the head and the source line of each message, not its      *)
(* caret, and the final summary unless two notes precede it.                *)
TameLogsAreShown ==
  Tame /\ phase = "done" /\ messages > 0 =>
    /\ \A k \in 0..(3 * messages - 1) : k \in shown <=> Line(k) # "pointer"
    /\ notes < 2 => Len(kept) - 1 \in shown

(* The verdict is failure exactly if scalac reported an error, although     *)
(* only the last kept line is looked at, and whatever lines were dropped.   *)
VerdictIsScalacs == phase = "done" => (verdict = "failure" <=> errors)

-----------------------------------------------------------------------------
(* What makes these inductive: a regular log consists of triples, and after *)
(* them the notes and summaries.                                            *)
Triples ==
  /\ Len(kept) >= 3 * messages
  /\ \A m \in 0..(messages - 1) :
       /\ kept[3 * m + 1] = "header" /\ kept[3 * m + 2] = "source" /\ kept[3 * m + 3] = "pointer"

After == 3 * messages + 1   \* the first line after the triples
Ending ==
  /\ Len(kept) = 3 * messages + notes + (IF warnings \/ notes > 0 THEN 1 ELSE 0)
                   + (IF errors THEN 1 ELSE 0)
  /\ \A k \in After..(3 * messages + notes) : kept[k] = "note"
  /\ warnings \/ notes > 0 => kept[After + notes] = "warnings"
  /\ errors => kept[Len(kept)] = "errors"

RegularInv ==
  regular => /\ Triples
             /\ phase = "printing" => Len(kept) = 3 * messages /\ notes = 0
             /\ phase # "printing" => Ending

(* Messages raise errors or warnings; before the summaries no line looks    *)
(* like one, and after them the last line tells whether there were errors.  *)
SummaryInv ==
  /\ messages = 0 <=> ~(errors \/ warnings)
  /\ phase = "printing" => kept \in Seq(Kinds \ {"errors"})
  /\ phase = "printed" => (errors <=> kept # <<>> /\ kept[Len(kept)] = "errors")
  /\ phase \in {"looping", "done"} => (verdict = "failure" <=> errors)

(* The table holds the lines the loop has passed, but every third.          *)
LoopInv ==
  /\ phase \in {"printing", "printed"} => i = 0 /\ shown = {}
  /\ shown = {k \in 0..(i - 1) : k % 3 # 2}
  /\ phase = "looping" => i < Len(kept)
  /\ phase = "done" /\ Len(kept) > 1 => i = Len(kept)
=============================================================================

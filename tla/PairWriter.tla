----------------------------- MODULE PairWriter -----------------------------
(***************************************************************************)
(* gobbler/pipeline.py: one analysis and the installation of its two       *)
(* reports by write_text_pair_atomically.                                  *)
(*                                                                         *)
(* A writer is one invocation (one analysis of one binary, usually a child *)
(* process).  It analyses, writes two temporaries whose names carry a      *)
(* fresh uuid (so they are private to the writer), and renames the first   *)
(* onto <stem>.json and the second onto <stem>.txt.  The finally block     *)
(* unlinks whatever temporary is left.  Any system call may fail, and the  *)
(* process may be killed between any two of them.                          *)
(***************************************************************************)
EXTENDS FiniteSets

CONSTANTS
    Writers,    \* invocations of the pipeline
    Stems,      \* output names, the <sample> of <sample>.json and <sample>.txt
    StemOf,     \* the output name of each invocation
    None,       \* no such file
    Serial      \* TRUE when the caller never runs two writers of one stem at once

ASSUME StemAssumption == StemOf \in [Writers -> Stems]
ASSUME NoneAssumption == None \notin Writers /\ Serial \in BOOLEAN

VARIABLES
    json,       \* <stem>.json of every stem
    text,       \* <stem>.txt of every stem
    tmpJson,    \* the writer's temporary for the first file
    tmpText,    \* the writer's temporary for the second file
    stage,      \* the next step of the writer's process
    status,     \* how the process stands or ended
    jsonDone,   \* writers that have renamed onto <stem>.json (history)
    textDone    \* writers that have renamed onto <stem>.txt (history)

files == <<json, text, jsonDone, textDone>>
temps == <<tmpJson, tmpText>>
writerVars == <<json, text, tmpJson, tmpText, stage, status, jsonDone, textDone>>

Stages == {"idle", "analyze", "openFirst", "flushFirst", "openSecond", "flushSecond",
           "replaceFirst", "replaceSecond", "cleanup", "unwind", "end"}
Statuses == {"none", "running", "ok", "failed", "killed"}
TmpStates == {"absent", "partial", "whole"}
NoFile == [by |-> None, whole |-> TRUE]
Content == [by : Writers, whole : BOOLEAN] \cup {NoFile}
-----------------------------------------------------------------------------
TypeOK ==
    /\ json \in [Stems -> Content]
    /\ text \in [Stems -> Content]
    /\ tmpJson \in [Writers -> TmpStates]
    /\ tmpText \in [Writers -> TmpStates]
    /\ stage \in [Writers -> Stages]
    /\ status \in [Writers -> Statuses]
    /\ jsonDone \subseteq Writers
    /\ textDone \subseteq Writers

WriterInit ==
    /\ json = [s \in Stems |-> NoFile]
    /\ text = [s \in Stems |-> NoFile]
    /\ tmpJson = [w \in Writers |-> "absent"]
    /\ tmpText = [w \in Writers |-> "absent"]
    /\ stage = [w \in Writers |-> "idle"]
    /\ status = [w \in Writers |-> "none"]
    /\ jsonDone = {}
    /\ textDone = {}

Goto(w, from, to) ==
    /\ stage[w] = from
    /\ stage' = [stage EXCEPT ![w] = to]

\* The invocation begins.
Begin(w) ==
    /\ Goto(w, "idle", "analyze")
    /\ status' = [status EXCEPT ![w] = "running"]
    /\ UNCHANGED <<files, temps>>

\* The caller starts it; a serial caller first waits for the others of the stem.
Start(w) ==
    /\ Serial => \A v \in Writers : StemOf[v] = StemOf[w] => status[v] # "running"
    /\ Begin(w)

\* analyze_binary and the rendering of both documents succeed.
Analyzed(w) ==
    /\ Goto(w, "analyze", "openFirst")
    /\ UNCHANGED <<files, temps, status>>

\* analyze_binary raises (GoReSym failed or timed out, unsupported binary, ...).
AnalysisFails(w) ==
    /\ Goto(w, "analyze", "end")
    /\ status' = [status EXCEPT ![w] = "failed"]
    /\ UNCHANGED <<files, temps>>

\* Path.write_text of the first temporary: open truncates, close completes.
OpenFirst(w) ==
    /\ Goto(w, "openFirst", "flushFirst")
    /\ tmpJson' = [tmpJson EXCEPT ![w] = "partial"]
    /\ UNCHANGED <<files, tmpText, status>>

FlushFirst(w) ==
    /\ Goto(w, "flushFirst", "openSecond")
    /\ tmpJson' = [tmpJson EXCEPT ![w] = "whole"]
    /\ UNCHANGED <<files, tmpText, status>>

\* Mutant: the second temporary is renamed while still open.
OpenSecondUnclosed(w) ==
    /\ Goto(w, "openSecond", "replaceFirst")
    /\ tmpText' = [tmpText EXCEPT ![w] = "partial"]
    /\ UNCHANGED <<files, tmpJson, status>>

\* The same for the second temporary.
OpenSecond(w) ==
    /\ Goto(w, "openSecond", "flushSecond")
    /\ tmpText' = [tmpText EXCEPT ![w] = "partial"]
    /\ UNCHANGED <<files, tmpJson, status>>

\* Mutant: the text report is installed first (the JSON never, if the process dies).
FlushSecondThenTextFirst(w) ==
    /\ Goto(w, "flushSecond", "replaceSecond")
    /\ tmpText' = [tmpText EXCEPT ![w] = "whole"]
    /\ UNCHANGED <<files, tmpJson, status>>

FlushSecond(w) ==
    /\ Goto(w, "flushSecond", "replaceFirst")
    /\ tmpText' = [tmpText EXCEPT ![w] = "whole"]
    /\ UNCHANGED <<files, tmpJson, status>>

\* first_tmp.replace(first_path): the new JSON becomes visible at once.
ReplaceFirst(w) ==
    /\ Goto(w, "replaceFirst", "replaceSecond")
    /\ json' = [json EXCEPT ![StemOf[w]] = [by |-> w, whole |-> tmpJson[w] = "whole"]]
    /\ tmpJson' = [tmpJson EXCEPT ![w] = "absent"]
    /\ jsonDone' = jsonDone \cup {w}
    /\ UNCHANGED <<text, textDone, tmpText, status>>

\* second_tmp.replace(second_path): the new text becomes visible.
ReplaceSecond(w) ==
    /\ Goto(w, "replaceSecond", "cleanup")
    /\ text' = [text EXCEPT ![StemOf[w]] = [by |-> w, whole |-> tmpText[w] = "whole"]]
    /\ tmpText' = [tmpText EXCEPT ![w] = "absent"]
    /\ textDone' = textDone \cup {w}
    /\ UNCHANGED <<json, jsonDone, tmpJson, status>>

\* One of the system calls of the try block raises OSError.
SystemCallFails(w) ==
    /\ stage[w] \in {"openFirst", "flushFirst", "openSecond", "flushSecond",
                     "replaceFirst", "replaceSecond"}
    /\ stage' = [stage EXCEPT ![w] = "unwind"]
    /\ UNCHANGED <<files, temps, status>>

\* Mutant: the loop of the finally block stops after the first temporary.
CleanupFirstOnly(w) ==
    /\ stage[w] \in {"cleanup", "unwind"}
    /\ tmpJson' = [tmpJson EXCEPT ![w] = "absent"]
    /\ stage' = [stage EXCEPT ![w] = "end"]
    /\ status' = [status EXCEPT ![w] = IF stage[w] = "cleanup" THEN "ok" ELSE "failed"]
    /\ UNCHANGED <<files, tmpText>>

\* The finally block: unlink both temporaries, missing ones are ignored.
Cleanup(w) ==
    /\ stage[w] \in {"cleanup", "unwind"}
    /\ tmpJson' = [tmpJson EXCEPT ![w] = "absent"]
    /\ tmpText' = [tmpText EXCEPT ![w] = "absent"]
    /\ stage' = [stage EXCEPT ![w] = "end"]
    /\ status' = [status EXCEPT ![w] = IF stage[w] = "cleanup" THEN "ok" ELSE "failed"]
    /\ UNCHANGED files

\* SIGKILL (subprocess.run kills a child that exceeds its timeout) or power loss.
Kill(w) ==
    /\ status[w] = "running"
    /\ stage' = [stage EXCEPT ![w] = "end"]
    /\ status' = [status EXCEPT ![w] = "killed"]
    /\ UNCHANGED <<files, temps>>

\* What the writer's own process does once started.
WriterStep(w) ==
    \/ Analyzed(w)
    \/ AnalysisFails(w)
    \/ OpenFirst(w)
    \/ FlushFirst(w)
    \/ OpenSecond(w)
    \/ FlushSecond(w)
    \/ ReplaceFirst(w)
    \/ ReplaceSecond(w)
    \/ SystemCallFails(w)
    \/ Cleanup(w)

WriterNext == \E w \in Writers : Start(w) \/ WriterStep(w) \/ Kill(w)

WriterSpec == WriterInit /\ [][WriterNext]_writerVars
-----------------------------------------------------------------------------
(***************************************************************************)
(* Safety.                                                                 *)
(***************************************************************************)

\* A report a reader can open is complete, whatever failed and whoever was
\* killed: a file is only ever installed by renaming a closed temporary.
NoTornReport == \A s \in Stems : json[s].whole /\ text[s].whole

\* A text report never stands beside a missing JSON report: the JSON is
\* renamed first, so an interrupted installation leaves at worst the state
\* existing_analysis_status calls "missing_text", never "missing_json".
TextNeverAlone == \A s \in Stems : text[s] # NoFile => json[s] # NoFile

\* A process that ended on its own, successfully or by an exception, leaves
\* no temporary behind in the output directory.
NoTemporaryLeft ==
    \A w \in Writers : status[w] \in {"ok", "failed"} =>
        tmpJson[w] = "absent" /\ tmpText[w] = "absent"

\* When writers of a stem never overlap, the two reports come from the same
\* analysis unless the analysis that installed the JSON stopped (or stands)
\* between its two renames.
PairAgreement ==
    Serial => \A s \in Stems :
        json[s].by # text[s].by => json[s].by \in jsonDone \ textDone

\* Refinement: each report file is an AtomicFile.  A torn report maps to the
\* set of all writers, which is no legal content of an AtomicFile.
Visible(f) == [s \in Stems |-> IF f[s].whole THEN f[s].by ELSE Writers]
JsonFile == INSTANCE AtomicFile WITH content <- Visible(json), installed <- jsonDone
TextFile == INSTANCE AtomicFile WITH content <- Visible(text), installed <- textDone

\* Each of the two reports implements the abstract file: complete contents
\* only, installed at most once per analysis.
ReportsAreAtomicFiles == JsonFile!FileSpec /\ TextFile!FileSpec
=============================================================================

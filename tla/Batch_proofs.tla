---------------------------- MODULE Batch_proofs ----------------------------
(***************************************************************************)
(* Proofs about the report writer, for any number of invocations and       *)
(* stems, and about the batch command that starts it, for any list of      *)
(* binaries, any options and any number of runs and faults.                *)
(***************************************************************************)
EXTENDS Batch, SequenceTheorems, TLAPS

-----------------------------------------------------------------------------
(***************************************************************************)
(* The report writer.                                                      *)
(***************************************************************************)

\* Where the process stands decides what its temporaries hold and which of
\* its two renames it has made.
Progress(w) ==
    /\ stage[w] \notin {"idle", "end"} <=> status[w] = "running"
    /\ stage[w] = "idle" <=> status[w] = "none"
    /\ stage[w] \in {"idle", "analyze"} => tmpJson[w] = "absent" /\ tmpText[w] = "absent"
    /\ stage[w] \in {"openSecond", "flushSecond", "replaceFirst"} => tmpJson[w] = "whole"
    /\ stage[w] \in {"replaceFirst", "replaceSecond"} => tmpText[w] = "whole"
    /\ stage[w] \in {"idle", "analyze", "openFirst", "flushFirst", "openSecond",
                     "flushSecond", "replaceFirst"} => w \notin jsonDone
    /\ stage[w] \in {"idle", "analyze", "openFirst", "flushFirst", "openSecond",
                     "flushSecond", "replaceFirst", "replaceSecond"} => w \notin textDone
    /\ stage[w] = "replaceSecond" => w \in jsonDone
    /\ stage[w] = "cleanup" \/ status[w] = "ok" => w \in jsonDone /\ w \in textDone

\* A writer that renamed its JSON, or its text, left a file under its stem.
Installed ==
    /\ \A w \in jsonDone : json[StemOf[w]] # NoFile
    /\ \A w \in textDone : text[StemOf[w]] # NoFile

\* A report is of a writer that made the rename.
Signed ==
    /\ \A s \in Stems : json[s] # NoFile => json[s].by \in jsonDone
    /\ \A s \in Stems : text[s] # NoFile => text[s].by \in textDone

\* A report stands under the stem of the analysis that wrote it.
Placed == \A s \in Stems : json[s] # NoFile => StemOf[json[s].by] = s

\* Under a serial caller two writers of a stem never run together, and the one
\* between its renames still owns the JSON.
Exclusive ==
    Serial =>
        /\ \A v, w \in Writers : v # w /\ StemOf[v] = StemOf[w] =>
              ~ (status[v] = "running" /\ status[w] = "running")
        /\ \A w \in Writers : stage[w] = "replaceSecond" => json[StemOf[w]].by = w

\* The inductive invariant: none of the safety properties is inductive without
\* what the stages say of the temporaries.
WriterInv ==
    /\ TypeOK
    /\ NoTornReport
    /\ TextNeverAlone
    /\ NoTemporaryLeft
    /\ \A w \in Writers : Progress(w)
    /\ Installed
    /\ Signed
-----------------------------------------------------------------------------
\* The output directory starts empty: the inductive invariant holds.
LEMMA WriterInvInit == WriterInit => WriterInv
  BY NoneAssumption
  DEF WriterInit, WriterInv, TypeOK, NoTornReport, TextNeverAlone, NoTemporaryLeft,
      Progress, Installed, Signed, NoFile, Content, Stages, Statuses, TmpStates

\* A step that renames nothing keeps the inductive invariant if it keeps what
\* the stages say of its own process, and takes nothing from the others.
LEMMA QuietStep ==
    ASSUME WriterInv, NEW w \in Writers, UNCHANGED files, TypeOK', Progress(w)',
           status'[w] \in {"ok", "failed"} => tmpJson'[w] = "absent" /\ tmpText'[w] = "absent",
           \A v \in Writers \ {w} : /\ stage'[v] = stage[v] /\ status'[v] = status[v]
                                    /\ tmpJson'[v] = tmpJson[v] /\ tmpText'[v] = tmpText[v]
    PROVE  WriterInv'
<1>1. NoTornReport' /\ TextNeverAlone' /\ Installed' /\ Signed'
  BY DEF WriterInv, files, NoTornReport, TextNeverAlone, Installed, Signed
<1>2. NoTemporaryLeft'
  <2> SUFFICES ASSUME NEW v \in Writers, status'[v] \in {"ok", "failed"}
               PROVE  tmpJson'[v] = "absent" /\ tmpText'[v] = "absent"
    BY DEF NoTemporaryLeft
  <2> QED BY DEF WriterInv, NoTemporaryLeft
<1>3. ASSUME NEW v \in Writers PROVE Progress(v)'
  <2>1. CASE v # w
    <3>1. /\ Progress(v) /\ jsonDone' = jsonDone /\ textDone' = textDone
          /\ stage'[v] = stage[v] /\ status'[v] = status[v]
          /\ tmpJson'[v] = tmpJson[v] /\ tmpText'[v] = tmpText[v]
      BY <2>1 DEF WriterInv, files
    <3> QED BY <3>1 DEF Progress
  <2> QED BY <2>1
<1> QED BY <1>1, <1>2, <1>3 DEF WriterInv

\* Every step of a process preserves the inductive invariant, whoever starts it and when.
LEMMA WriterInvAct ==
    ASSUME WriterInv, NEW w \in Writers, Begin(w) \/ WriterStep(w) \/ Kill(w)
    PROVE  WriterInv'
<1> USE StemAssumption, NoneAssumption
<1> USE DEF WriterInv, Goto, files, temps
<1>1. CASE Begin(w)
  <2>1. TypeOK'
    BY <1>1 DEF Begin, TypeOK, Stages, Statuses, TmpStates
  <2>2. Progress(w)'
    BY <1>1 DEF Begin, TypeOK, Progress
  <2>3. status'[w] \in {"ok", "failed"} => tmpJson'[w] = "absent" /\ tmpText'[w] = "absent"
    BY <1>1 DEF Begin, TypeOK, Progress
  <2> QED BY <1>1, <2>1, <2>2, <2>3, QuietStep DEF Begin, TypeOK
<1>2. CASE Analyzed(w)
  <2>1. TypeOK'
    BY <1>2 DEF Analyzed, TypeOK, Stages, Statuses, TmpStates
  <2>2. Progress(w)'
    BY <1>2 DEF Analyzed, TypeOK, Progress
  <2>3. status'[w] \in {"ok", "failed"} => tmpJson'[w] = "absent" /\ tmpText'[w] = "absent"
    BY <1>2 DEF Analyzed, TypeOK, Progress
  <2> QED BY <1>2, <2>1, <2>2, <2>3, QuietStep DEF Analyzed, TypeOK
<1>3. CASE AnalysisFails(w)
  <2>1. TypeOK'
    BY <1>3 DEF AnalysisFails, TypeOK, Stages, Statuses, TmpStates
  <2>2. Progress(w)'
    BY <1>3 DEF AnalysisFails, TypeOK, Progress
  <2>3. status'[w] \in {"ok", "failed"} => tmpJson'[w] = "absent" /\ tmpText'[w] = "absent"
    BY <1>3 DEF AnalysisFails, TypeOK, Progress
  <2> QED BY <1>3, <2>1, <2>2, <2>3, QuietStep DEF AnalysisFails, TypeOK
<1>4. CASE OpenFirst(w)
  <2>1. TypeOK'
    BY <1>4 DEF OpenFirst, TypeOK, Stages, Statuses, TmpStates
  <2>2. Progress(w)'
    BY <1>4 DEF OpenFirst, TypeOK, Progress
  <2>3. status'[w] \in {"ok", "failed"} => tmpJson'[w] = "absent" /\ tmpText'[w] = "absent"
    BY <1>4 DEF OpenFirst, TypeOK, Progress
  <2> QED BY <1>4, <2>1, <2>2, <2>3, QuietStep DEF OpenFirst, TypeOK
<1>5. CASE FlushFirst(w)
  <2>1. TypeOK'
    BY <1>5 DEF FlushFirst, TypeOK, Stages, Statuses, TmpStates
  <2>2. Progress(w)'
    BY <1>5 DEF FlushFirst, TypeOK, Progress
  <2>3. status'[w] \in {"ok", "failed"} => tmpJson'[w] = "absent" /\ tmpText'[w] = "absent"
    BY <1>5 DEF FlushFirst, TypeOK, Progress
  <2> QED BY <1>5, <2>1, <2>2, <2>3, QuietStep DEF FlushFirst, TypeOK
<1>6. CASE OpenSecond(w)
  <2>1. TypeOK'
    BY <1>6 DEF OpenSecond, TypeOK, Stages, Statuses, TmpStates
  <2>2. Progress(w)'
    BY <1>6 DEF OpenSecond, TypeOK, Progress
  <2>3. status'[w] \in {"ok", "failed"} => tmpJson'[w] = "absent" /\ tmpText'[w] = "absent"
    BY <1>6 DEF OpenSecond, TypeOK, Progress
  <2> QED BY <1>6, <2>1, <2>2, <2>3, QuietStep DEF OpenSecond, TypeOK
<1>7. CASE FlushSecond(w)
  <2>1. TypeOK'
    BY <1>7 DEF FlushSecond, TypeOK, Stages, Statuses, TmpStates
  <2>2. Progress(w)'
    BY <1>7 DEF FlushSecond, TypeOK, Progress
  <2>3. status'[w] \in {"ok", "failed"} => tmpJson'[w] = "absent" /\ tmpText'[w] = "absent"
    BY <1>7 DEF FlushSecond, TypeOK, Progress
  <2> QED BY <1>7, <2>1, <2>2, <2>3, QuietStep DEF FlushSecond, TypeOK
<1>8. CASE ReplaceFirst(w)
  <2> DEFINE new == [by |-> w, whole |-> TRUE]
  <2>1. new \in Content /\ new # NoFile /\ StemOf[w] \in Stems /\ stage[w] = "replaceFirst"
    BY <1>8 DEF ReplaceFirst, Content, NoFile
  <2>2. json' = [json EXCEPT ![StemOf[w]] = new]
    BY <1>8, <2>1 DEF ReplaceFirst, Progress
  <2> HIDE DEF new
  <2>3. TypeOK'
    BY <1>8, <2>1, <2>2 DEF ReplaceFirst, TypeOK, Stages, TmpStates
  <2>4. NoTornReport'
    BY <1>8, <2>1, <2>2 DEF ReplaceFirst, TypeOK, NoTornReport, new
  <2>5. TextNeverAlone'
    BY <1>8, <2>1, <2>2 DEF ReplaceFirst, TypeOK, TextNeverAlone
  <2>6. NoTemporaryLeft' /\ \A v \in Writers : Progress(v)'
    BY <1>8, <2>1 DEF ReplaceFirst, TypeOK, NoTemporaryLeft, Progress
  <2>7. Installed'
    BY <1>8, <2>1, <2>2 DEF ReplaceFirst, TypeOK, Installed
  <2>8. Signed'
    BY <1>8, <2>1, <2>2 DEF ReplaceFirst, TypeOK, Signed, new
  <2> QED BY <2>3, <2>4, <2>5, <2>6, <2>7, <2>8
<1>9. CASE ReplaceSecond(w)
  <2> DEFINE new == [by |-> w, whole |-> TRUE]
  <2>1. new \in Content /\ new # NoFile /\ StemOf[w] \in Stems /\ stage[w] = "replaceSecond"
    BY <1>9 DEF ReplaceSecond, Content, NoFile
  <2>2. text' = [text EXCEPT ![StemOf[w]] = new]
    BY <1>9, <2>1 DEF ReplaceSecond, Progress
  <2> HIDE DEF new
  <2>3. TypeOK'
    BY <1>9, <2>1, <2>2 DEF ReplaceSecond, TypeOK, Stages, TmpStates
  <2>4. NoTornReport'
    BY <1>9, <2>1, <2>2 DEF ReplaceSecond, TypeOK, NoTornReport, new
  <2>5. TextNeverAlone'
    BY <1>9, <2>1, <2>2 DEF ReplaceSecond, TypeOK, TextNeverAlone, Progress, Installed
  <2>6. NoTemporaryLeft' /\ \A v \in Writers : Progress(v)'
    BY <1>9, <2>1 DEF ReplaceSecond, TypeOK, NoTemporaryLeft, Progress
  <2>7. Installed'
    BY <1>9, <2>1, <2>2 DEF ReplaceSecond, TypeOK, Installed
  <2>8. Signed'
    BY <1>9, <2>1, <2>2 DEF ReplaceSecond, TypeOK, Signed, new
  <2> QED BY <2>3, <2>4, <2>5, <2>6, <2>7, <2>8
<1>10. CASE SystemCallFails(w)
  <2>1. TypeOK'
    BY <1>10 DEF SystemCallFails, TypeOK, Stages, Statuses, TmpStates
  <2>2. Progress(w)'
    BY <1>10 DEF SystemCallFails, TypeOK, Progress
  <2>3. status'[w] \in {"ok", "failed"} => tmpJson'[w] = "absent" /\ tmpText'[w] = "absent"
    BY <1>10 DEF SystemCallFails, TypeOK, Progress
  <2> QED BY <1>10, <2>1, <2>2, <2>3, QuietStep DEF SystemCallFails, TypeOK
<1>11. CASE Cleanup(w)
  <2>1. TypeOK'
    BY <1>11 DEF Cleanup, TypeOK, Stages, Statuses, TmpStates
  <2>2. Progress(w)'
    BY <1>11 DEF Cleanup, TypeOK, Progress
  <2>3. status'[w] \in {"ok", "failed"} => tmpJson'[w] = "absent" /\ tmpText'[w] = "absent"
    BY <1>11 DEF Cleanup, TypeOK, Progress
  <2> QED BY <1>11, <2>1, <2>2, <2>3, QuietStep DEF Cleanup, TypeOK
<1>12. CASE Kill(w)
  <2>1. TypeOK'
    BY <1>12 DEF Kill, TypeOK, Stages, Statuses, TmpStates
  <2>2. Progress(w)'
    BY <1>12 DEF Kill, TypeOK, Progress
  <2>3. status'[w] \in {"ok", "failed"} => tmpJson'[w] = "absent" /\ tmpText'[w] = "absent"
    BY <1>12 DEF Kill, TypeOK, Progress
  <2> QED BY <1>12, <2>1, <2>2, <2>3, QuietStep DEF Kill, TypeOK
<1>13. QED
  BY <1>1, <1>2, <1>3, <1>4, <1>5, <1>6, <1>7, <1>8, <1>9, <1>10, <1>11, <1>12 DEF WriterStep

\* No step outside the processes touches their variables.
LEMMA WriterInvStutter == WriterInv /\ UNCHANGED writerVars => WriterInv'
  BY DEF WriterInv, writerVars, TypeOK, NoTornReport, TextNeverAlone, NoTemporaryLeft,
         Progress, Installed, Signed

\* The inductive invariant is inductive.
LEMMA WriterInvStep == WriterInv /\ [WriterNext]_writerVars => WriterInv'
  BY WriterInvAct, WriterInvStutter DEF WriterNext, Start

\* The inductive invariant holds throughout.
LEMMA WriterInvariance == WriterSpec => []WriterInv
<1>1. WriterInit => WriterInv
  BY WriterInvInit
<1>2. WriterInv /\ [WriterNext]_writerVars => WriterInv'
  BY WriterInvStep
<1>3. QED
  BY <1>1, <1>2, PTL DEF WriterSpec

\* Every state of write_text_pair_atomically and its callers has the declared type.
THEOREM WriterTypeCorrect == WriterSpec => []TypeOK
<1>1. WriterInv => TypeOK
  BY DEF WriterInv
<1>2. QED
  BY <1>1, WriterInvariance, PTL

\* No report a reader can open is ever incomplete: pipeline.py renames only
\* temporaries it has closed.
THEOREM ReportsNeverTorn == WriterSpec => []NoTornReport
<1>1. WriterInv => NoTornReport
  BY DEF WriterInv
<1>2. QED
  BY <1>1, WriterInvariance, PTL

\* Because the JSON is renamed first, a text report never stands alone.
THEOREM TextIsNeverAlone == WriterSpec => []TextNeverAlone
<1>1. WriterInv => TextNeverAlone
  BY DEF WriterInv
<1>2. QED
  BY <1>1, WriterInvariance, PTL

\* The finally block leaves no temporary behind unless the process was killed.
THEOREM TemporariesRemoved == WriterSpec => []NoTemporaryLeft
<1>1. WriterInv => NoTemporaryLeft
  BY DEF WriterInv
<1>2. QED
  BY <1>1, WriterInvariance, PTL
-----------------------------------------------------------------------------
(***************************************************************************)
(* Each report file implements AtomicFile: renaming is the only step that  *)
(* installs, and the stage of a process says it has not installed before.  *)
(***************************************************************************)

\* Before any analysis both report files are the absent AtomicFile.
LEMMA FilesInit == WriterInit => JsonFile!FileInit /\ TextFile!FileInit
  BY DEF WriterInit, JsonFile!FileInit, TextFile!FileInit, Visible, NoFile

\* Only the first rename changes the JSON, and it is an Install.
LEMMA JsonStep ==
  WriterInv /\ [WriterNext]_writerVars => [JsonFile!FileNext]_(JsonFile!fileVars)
<1> SUFFICES ASSUME WriterInv, [WriterNext]_writerVars
             PROVE  [JsonFile!FileNext]_(JsonFile!fileVars)
  OBVIOUS
<1>1. CASE UNCHANGED <<json, jsonDone>>
  BY <1>1 DEF JsonFile!fileVars, Visible
<1>2. ASSUME NEW w \in Writers, ReplaceFirst(w)
      PROVE  JsonFile!Install(w)
  <2>1. w \notin jsonDone /\ tmpJson[w] = "whole" /\ StemOf[w] \in Stems
    BY <1>2, StemAssumption DEF ReplaceFirst, Goto, WriterInv, Progress
  <2>2. json' = [json EXCEPT ![StemOf[w]] = [by |-> w, whole |-> TRUE]]
    BY <1>2, <2>1 DEF ReplaceFirst
  <2>3. Visible(json)' = [Visible(json) EXCEPT ![StemOf[w]] = w]
    BY <2>1, <2>2 DEF Visible, WriterInv, TypeOK
  <2>4. QED
    BY <1>2, <2>1, <2>3 DEF ReplaceFirst, JsonFile!Install
<1>3. QED
  BY <1>1, <1>2 DEF WriterNext, WriterStep, writerVars, files, temps, Start, Begin, Analyzed,
     AnalysisFails, OpenFirst, FlushFirst, OpenSecond, FlushSecond, ReplaceSecond,
     SystemCallFails, Cleanup, Kill, JsonFile!FileNext

\* Only the second rename changes the text report, and it is an Install.
LEMMA TextStep ==
  WriterInv /\ [WriterNext]_writerVars => [TextFile!FileNext]_(TextFile!fileVars)
<1> SUFFICES ASSUME WriterInv, [WriterNext]_writerVars
             PROVE  [TextFile!FileNext]_(TextFile!fileVars)
  OBVIOUS
<1>1. CASE UNCHANGED <<text, textDone>>
  BY <1>1 DEF TextFile!fileVars, Visible
<1>2. ASSUME NEW w \in Writers, ReplaceSecond(w)
      PROVE  TextFile!Install(w)
  <2>1. w \notin textDone /\ tmpText[w] = "whole" /\ StemOf[w] \in Stems
    BY <1>2, StemAssumption DEF ReplaceSecond, Goto, WriterInv, Progress
  <2>2. text' = [text EXCEPT ![StemOf[w]] = [by |-> w, whole |-> TRUE]]
    BY <1>2, <2>1 DEF ReplaceSecond
  <2>3. Visible(text)' = [Visible(text) EXCEPT ![StemOf[w]] = w]
    BY <2>1, <2>2 DEF Visible, WriterInv, TypeOK
  <2>4. QED
    BY <1>2, <2>1, <2>3 DEF ReplaceSecond, TextFile!Install
<1>3. QED
  BY <1>1, <1>2 DEF WriterNext, WriterStep, writerVars, files, temps, Start, Begin, Analyzed,
     AnalysisFails, OpenFirst, FlushFirst, OpenSecond, FlushSecond, ReplaceFirst,
     SystemCallFails, Cleanup, Kill, TextFile!FileNext

\* <stem>.json, and likewise <stem>.txt, holds nothing or one complete
\* analysis, installed at most once per invocation, whatever overlaps, fails or
\* is killed.
THEOREM ReportsRefineAtomicFile == WriterSpec => ReportsAreAtomicFiles
<1>1. WriterSpec => JsonFile!FileSpec
  BY WriterInvariance, FilesInit, JsonStep, PTL DEF WriterSpec, JsonFile!FileSpec
<1>2. WriterSpec => TextFile!FileSpec
  BY WriterInvariance, FilesInit, TextStep, PTL DEF WriterSpec, TextFile!FileSpec
<1>3. QED
  BY <1>1, <1>2 DEF ReportsAreAtomicFiles
-----------------------------------------------------------------------------
(***************************************************************************)
(* Agreement of the pair under a serial caller.                            *)
(***************************************************************************)
SerialInv == Placed /\ Exclusive /\ PairAgreement

\* An empty output directory satisfies the serial invariant.
LEMMA SerialInvInit == WriterInit => SerialInv
  BY DEF WriterInit, SerialInv, Placed, Exclusive, PairAgreement, NoFile

\* The rename of the text closes the gap its own JSON rename opened: nobody
\* else of the stem can have run in between.
LEMMA SerialInvStep ==
  WriterInv /\ SerialInv /\ [WriterNext]_writerVars => SerialInv'
<1> SUFFICES ASSUME WriterInv, SerialInv, [WriterNext]_writerVars
             PROVE  SerialInv'
  OBVIOUS
<1> USE StemAssumption, NoneAssumption
<1> USE DEF Goto, files, temps
<1>1. TypeOK /\ (\A v \in Writers : Progress(v)) /\ Placed /\ Exclusive /\ PairAgreement
  BY DEF WriterInv, SerialInv
<1>2. CASE UNCHANGED writerVars
  BY <1>1, <1>2 DEF writerVars, SerialInv, Placed, Exclusive, PairAgreement
<1>3. ASSUME NEW w \in Writers, Start(w)
      PROVE  SerialInv'
  BY <1>1, <1>3 DEF Start, Begin, SerialInv, Placed, Exclusive, PairAgreement, TypeOK, Stages
<1>4. ASSUME NEW w \in Writers,
             UNCHANGED files,
             \A v \in Writers : status'[v] = "running" => status[v] = "running",
             \A v \in Writers : stage'[v] = "replaceSecond" => stage[v] = "replaceSecond"
      PROVE  SerialInv'
  BY <1>1, <1>4 DEF SerialInv, Placed, Exclusive, PairAgreement
<1>5. ASSUME NEW w \in Writers, ReplaceFirst(w)
      PROVE  SerialInv'
  <2> DEFINE new == [by |-> w, whole |-> tmpJson[w] = "whole"]
  <2>1. /\ json' = [json EXCEPT ![StemOf[w]] = new]
        /\ jsonDone' = jsonDone \cup {w}
        /\ UNCHANGED <<text, textDone, status>>
        /\ stage[w] = "replaceFirst"
        /\ stage' = [stage EXCEPT ![w] = "replaceSecond"]
    BY <1>5 DEF ReplaceFirst
  <2>2. status[w] = "running" /\ w \notin textDone /\ StemOf[w] \in Stems
    BY <1>1, <2>1 DEF Progress
  <2>3. \A s \in Stems : json'[s] = IF s = StemOf[w] THEN new ELSE json[s]
    BY <1>1, <2>1 DEF TypeOK
  <2>4. new.by = w
    OBVIOUS
  <2> HIDE DEF new
  <2>5. Placed'
    BY <1>1, <2>3, <2>4 DEF Placed
  <2>6. PairAgreement'
    BY <1>1, <2>1, <2>2, <2>3, <2>4 DEF PairAgreement
  <2>7. \A v \in Writers : stage[v] = "replaceSecond" => status[v] = "running"
    BY <1>1 DEF Progress
  <2>8. Serial => \A v \in Writers : stage'[v] = "replaceSecond" => json'[StemOf[v]].by = v
    BY <1>1, <2>1, <2>2, <2>3, <2>4, <2>7 DEF Exclusive, TypeOK
  <2>9. Exclusive'
    BY <1>1, <2>1, <2>8 DEF Exclusive
  <2>10. QED
    BY <2>5, <2>6, <2>9 DEF SerialInv
<1>6. ASSUME NEW w \in Writers, ReplaceSecond(w)
      PROVE  SerialInv'
  <2> DEFINE new == [by |-> w, whole |-> tmpText[w] = "whole"]
  <2>1. /\ text' = [text EXCEPT ![StemOf[w]] = new]
        /\ textDone' = textDone \cup {w}
        /\ UNCHANGED <<json, jsonDone, status>>
        /\ stage[w] = "replaceSecond"
        /\ stage' = [stage EXCEPT ![w] = "cleanup"]
    BY <1>6 DEF ReplaceSecond
  <2>2. \A s \in Stems : text'[s] = IF s = StemOf[w] THEN new ELSE text[s]
    BY <1>1, <2>1 DEF TypeOK
  <2>3. new.by = w
    OBVIOUS
  <2> HIDE DEF new
  <2>4. Serial => json[StemOf[w]].by = w
    BY <1>1, <2>1 DEF Exclusive
  <2>5. \A s \in Stems : json[s].by = w => s = StemOf[w]
    BY <1>1 DEF Placed, NoFile
  <2>6. PairAgreement'
    BY <1>1, <2>1, <2>2, <2>3, <2>4, <2>5 DEF PairAgreement
  <2>7. Placed' /\ Exclusive'
    BY <1>1, <2>1 DEF Placed, Exclusive, TypeOK
  <2>8. QED
    BY <2>6, <2>7 DEF SerialInv
<1>7. QED
  BY <1>1, <1>2, <1>3, <1>4, <1>5, <1>6
  DEF WriterNext, WriterStep, Analyzed, AnalysisFails, OpenFirst, FlushFirst, OpenSecond,
      FlushSecond, SystemCallFails, Cleanup, Kill, TypeOK, Stages, Statuses

\* The two reports of a stem come from one analysis, unless the analysis that
\* installed the JSON stopped (or still stands) between its two renames.
THEOREM PairsAgree == WriterSpec => []PairAgreement
<1>1. SerialInv => PairAgreement
  BY DEF SerialInv
<1>2. QED
  BY <1>1, WriterInvariance, SerialInvInit, SerialInvStep, PTL DEF WriterSpec

-----------------------------------------------------------------------------
(***************************************************************************)
(* The batch command.                                                      *)
(***************************************************************************)

\* No two binaries of the list have one stem (they have one, the default,
\* extension), and the driver itself is not killed.
DistinctNames ==
    \A b, c \in Binaries : StemOfBinary(b) = StemOfBinary(c) => b = c
Undisturbed == ~MayCrash

Commands == [skip : BOOLEAN, noIndex : BOOLEAN, timeout : BOOLEAN,
             jobs : Nat \ {0}, profile : {"full", "evaluator"}]
Outcomes == {"none", "processed", "skipped_existing", "failed", "timeout"}

BatchTypeOK ==
    /\ run \in 0..MaxRuns
    /\ opts \in Seq(Commands) /\ Len(opts) = run
    /\ phase \in Phases /\ (phase = "idle" <=> run = 0)
    /\ task \in [Binaries -> {"queued", "launch", "wait", "done"}]
    /\ record \in [Binaries -> Outcomes]
    /\ DOMAIN report = Exts /\ DOMAIN index = Exts
    /\ DOMAIN scan \subseteq Stems /\ scan = [s \in DOMAIN scan |-> scan[s]]

\* Phases in which batch_report.json, and both batch reports, are written.
JsonReported == {"reportTxt", "reportTxtFlush", "decideIndex", "scan", "indexJson",
                 "indexJsonFlush", "indexTxt", "indexTxtFlush", "exited"}
Reported == JsonReported \ {"reportTxt", "reportTxtFlush"}
Indexing == {"scan", "indexJson", "indexJsonFlush", "indexTxt", "indexTxtFlush"}

\* A record is in exactly when its task is done, and the pool is left when all are.
PoolDrained ==
    /\ \A b \in Binaries : record[b] = "none" <=> task[b] # "done"
    /\ phase \notin {"idle", "work", "crashed"} => \A b \in Binaries : task[b] = "done"
    /\ phase = "idle" => \A b \in Binaries : task[b] = "queued"

\* Why a record is backed: the analysis it tells of succeeded, or both files
\* were there.
RecordsKnow ==
    \A b \in Binaries :
        /\ record[b] = "processed" => status[Attempt(b)] = "ok"
        /\ record[b] = "skipped_existing" =>
              json[StemOfBinary(b)] # NoFile /\ text[StemOfBinary(b)] # NoFile

FullReport == [run |-> run, whole |-> TRUE, records |-> record]
ReportsWritten ==
    /\ phase \in JsonReported => report["json"] = FullReport
    /\ phase \in Reported => report["txt"] = FullReport

\* Runs to come have not begun an analysis, and this run has begun none of a
\* binary that is still to be taken, or was skipped.
FutureIdle ==
    /\ \A w \in Writers : w[2] > run => stage[w] = "idle"
    /\ run > 0 => \A b \in Binaries :
          task[b] \in {"queued", "launch"} \/ record[b] = "skipped_existing" =>
              stage[Attempt(b)] = "idle"

\* Unless the driver was killed, every analysis under way is waited for.
RunningIsAwaited ==
    Undisturbed =>
        /\ phase # "crashed"
        /\ \A w \in Writers :
              status[w] = "running" => phase = "work" /\ w[2] = run /\ task[w[1]] = "wait"

\* ... and what an analysis of this run has installed is still there.
OwnReportsStand ==
    Undisturbed /\ DistinctNames /\ run > 0 => \A b \in Binaries :
        /\ Attempt(b) \in jsonDone => json[StemOfBinary(b)].by = Attempt(b)
        /\ Attempt(b) \in textDone => text[StemOfBinary(b)].by = Attempt(b)

\* With --skip-existing a binary that is analysed had no text report, and has
\* none until the analysis installs its own.
SkipSees ==
    Undisturbed /\ DistinctNames /\ run > 0 /\ Opt.skip => \A b \in Binaries :
        task[b] \in {"launch", "wait"} /\ Attempt(b) \notin textDone =>
            text[StemOfBinary(b)] = NoFile

FullIndex == [run |-> run, whole |-> TRUE, samples |-> [s \in Stems |-> Indexed(s)]]

\* What has been scanned is what the directory holds, and the index files are
\* made of a scan of everything.
IndexBuilt ==
    Undisturbed =>
        /\ phase \notin Indexing \cup {"exited"} => DOMAIN scan = {}
        /\ \A s \in DOMAIN scan : scan[s] = Indexed(s)
        /\ phase \in Indexing \ {"scan"} => DOMAIN scan = Stems
        /\ phase \in {"indexTxt", "indexTxtFlush"} => index["json"] = FullIndex
        /\ phase = "exited" /\ Recorded("processed") # {} /\ ~Opt.noIndex =>
              \A x \in Exts : index[x] = FullIndex

\* The inductive invariant.
BatchInv ==
    /\ WriterInv
    /\ BatchTypeOK
    /\ PoolDrained
    /\ RecordsKnow
    /\ ReportsWritten
    /\ FutureIdle
    /\ RunningIsAwaited
    /\ OwnReportsStand
    /\ SkipSees
    /\ IndexBuilt
-----------------------------------------------------------------------------
(***************************************************************************)
(* What the steps are made of.                                             *)
(***************************************************************************)

\* Each analysis of a run is a writer, and writes under the stem of its binary.
LEMMA AttemptIs ==
    ASSUME NEW b \in Binaries, NEW r \in RunIds
    PROVE  /\ <<b, r>> \in Writers
           /\ StemOf[<<b, r>>] = StemOfBinary(b) /\ StemOfBinary(b) \in Stems
<1>1. 1 \in RunIds
  BY BatchAssumption DEF RunIds
<1>2. <<b, r>> \in Writers /\ <<b, 1>> \in Writers
  BY <1>1, BatchAssumption
<1> QED BY <1>1, <1>2, BatchAssumption, StemAssumption DEF StemOfBinary

\* Each writer is an analysis of a run.
LEMMA WriterIs ==
    ASSUME NEW w \in Writers
    PROVE  w[1] \in Binaries /\ w[2] \in RunIds /\ w = <<w[1], w[2]>>
  BY BatchAssumption

\* Between runs and in one, the options are those of a command line.
LEMMA OptIs == ASSUME BatchTypeOK, run > 0 PROVE run \in RunIds /\ Opt \in Commands
  BY BatchAssumption DEF BatchTypeOK, RunIds, Opt

\* What one step of a process does to the files and to the other processes.
LEMMA WriterEffects ==
    ASSUME WriterInv, NEW w \in Writers, Begin(w) \/ WriterStep(w) \/ Kill(w)
    PROVE  /\ \A v \in Writers : v # w => stage'[v] = stage[v] /\ status'[v] = status[v]
           /\ \A v \in Writers : status[v] = "ok" => status'[v] = "ok"
           /\ status'[w] = "running" => status[w] = "running" \/ Begin(w)
           /\ \/ UNCHANGED <<json, jsonDone>>
              \/ /\ status[w] = "running" /\ w \notin textDone /\ UNCHANGED textDone
                 /\ json' = [json EXCEPT ![StemOf[w]] = [by |-> w, whole |-> TRUE]]
                 /\ jsonDone' = jsonDone \cup {w}
           /\ \/ UNCHANGED <<text, textDone>>
              \/ /\ status[w] = "running" /\ w \notin textDone /\ UNCHANGED jsonDone
                 /\ text' = [text EXCEPT ![StemOf[w]] = [by |-> w, whole |-> TRUE]]
                 /\ textDone' = textDone \cup {w}
<1> USE DEF WriterInv, Goto, files, temps
<1>1. CASE Begin(w)
  BY <1>1 DEF Begin, TypeOK, Progress
<1>2. CASE Kill(w)
  BY <1>2 DEF Kill, TypeOK
<1>3. CASE ReplaceFirst(w)
  BY <1>3 DEF ReplaceFirst, TypeOK, Progress
<1>4. CASE ReplaceSecond(w)
  BY <1>4 DEF ReplaceSecond, TypeOK, Progress
<1>5. CASE /\ WriterStep(w) /\ ~ReplaceFirst(w) /\ ~ReplaceSecond(w)
  <2>1. UNCHANGED files /\ (\A v \in Writers : v # w => stage'[v] = stage[v])
    BY <1>5 DEF WriterStep, Analyzed, AnalysisFails, OpenFirst, FlushFirst, OpenSecond,
                FlushSecond, SystemCallFails, Cleanup, TypeOK
  <2>2. status' = status \/ \E x \in {"ok", "failed"} : status' = [status EXCEPT ![w] = x]
    BY <1>5 DEF WriterStep, Analyzed, AnalysisFails, OpenFirst, FlushFirst, OpenSecond,
                FlushSecond, SystemCallFails, Cleanup
  <2>3. status[w] = "ok" => ~WriterStep(w)
    BY DEF WriterStep, Analyzed, AnalysisFails, OpenFirst, FlushFirst, OpenSecond,
           FlushSecond, ReplaceFirst, ReplaceSecond, SystemCallFails, Cleanup, Progress
  <2> QED BY <1>5, <2>1, <2>2, <2>3 DEF TypeOK
<1> QED BY <1>1, <1>2, <1>3, <1>4, <1>5

\* A report that stands is replaced, never removed.
LEMMA ReportsStay ==
    ASSUME WriterInv, NEW w \in Writers, Begin(w) \/ WriterStep(w) \/ Kill(w), NEW s \in Stems
    PROVE  /\ json[s] # NoFile => json'[s] # NoFile
           /\ text[s] # NoFile => text'[s] # NoFile
  BY WriterEffects, NoneAssumption, StemAssumption DEF WriterInv, TypeOK, NoFile
-----------------------------------------------------------------------------
(***************************************************************************)
(* The invariant is inductive.                                             *)
(***************************************************************************)

\* Before the first run nothing is recorded, running or written.
LEMMA BatchInvInit == BatchInit => BatchInv
<1> SUFFICES ASSUME BatchInit PROVE BatchInv
  OBVIOUS
<1>1. WriterInv
  BY WriterInvInit DEF BatchInit
<1>2. BatchTypeOK
  BY BatchAssumption DEF BatchInit, BatchTypeOK, Phases, Outcomes, Exts
<1>3. PoolDrained /\ RecordsKnow /\ ReportsWritten /\ IndexBuilt
  BY DEF BatchInit, PoolDrained, RecordsKnow, ReportsWritten, JsonReported, Reported,
         IndexBuilt, Indexing
<1>4. FutureIdle /\ RunningIsAwaited /\ OwnReportsStand /\ SkipSees
  BY DEF BatchInit, WriterInit, FutureIdle, RunningIsAwaited, OwnReportsStand, SkipSees
<1> QED BY <1>1, <1>2, <1>3, <1>4 DEF BatchInv

\* A process that takes a step is one of a run so far, and, unless the driver
\* was killed, the one the driver waits for.
LEMMA StepIsAwaited ==
    ASSUME BatchInv, NEW w \in Writers, WriterStep(w) \/ Kill(w)
    PROVE  /\ status[w] = "running" /\ w[2] <= run
           /\ Undisturbed => phase = "work" /\ w = Attempt(w[1]) /\ task[w[1]] = "wait"
<1>1. status[w] = "running"
  BY DEF BatchInv, WriterInv, Progress, WriterStep, Analyzed, AnalysisFails, OpenFirst,
         FlushFirst, OpenSecond, FlushSecond, ReplaceFirst, ReplaceSecond, SystemCallFails,
         Cleanup, Kill, Goto
<1>2. stage[w] # "idle"
  BY <1>1 DEF BatchInv, WriterInv, Progress
<1>3. w[2] <= run
  BY <1>2, WriterIs DEF BatchInv, FutureIdle, BatchTypeOK, RunIds
<1> QED BY <1>1, <1>3, WriterIs DEF BatchInv, RunningIsAwaited, Attempt

\* Steps of the analyses, and kills, that the driver does not notice.
LEMMA ProcessStep ==
    ASSUME BatchInv, NEW w \in Writers, WriterStep(w) \/ Kill(w),
           UNCHANGED <<run, opts, phase, poolVars, outVars>>
    PROVE  BatchInv'
<1>0. WriterInv /\ StemOf[w] \in Stems /\ json \in [Stems -> Content] /\ text \in [Stems -> Content]
  BY StemAssumption DEF BatchInv, WriterInv, TypeOK
<1>1. /\ WriterInv'
      /\ status[w] = "running" /\ w[2] <= run /\ run \in RunIds
      /\ \A v \in Writers : v # w => stage'[v] = stage[v] /\ status'[v] = status[v]
      /\ \A v \in Writers : status[v] = "ok" => status'[v] = "ok"
      /\ \A s \in Stems : /\ json[s] # NoFile => json'[s] # NoFile
                          /\ text[s] # NoFile => text'[s] # NoFile
  <2>1. WriterInv' /\ status[w] = "running" /\ w[2] <= run
    BY <1>0, WriterInvAct, StepIsAwaited
  <2>2. run \in RunIds
    BY <2>1, WriterIs DEF BatchInv, BatchTypeOK, RunIds
  <2> QED BY <1>0, <2>1, <2>2, WriterEffects, ReportsStay
<1> USE DEF BatchInv, poolVars, outVars
<1>2. \A b \in Binaries : /\ Attempt(b) \in Writers /\ Attempt(b)' = Attempt(b)
                          /\ StemOf[Attempt(b)] = StemOfBinary(b) /\ StemOfBinary(b) \in Stems
  BY <1>1, AttemptIs DEF Attempt
<1>3. BatchTypeOK' /\ PoolDrained' /\ ReportsWritten'
  BY DEF BatchTypeOK, PoolDrained, ReportsWritten, FullReport
<1>4. RecordsKnow'
  BY <1>1, <1>2 DEF RecordsKnow
<1>5. FutureIdle'
  <2>1. \A v \in Writers : v[2] > run => v # w
    BY <1>1, WriterIs DEF RunIds
  <2>2. stage[w] # "idle"
    BY <1>1 DEF WriterInv, Progress
  <2> QED BY <1>1, <1>2, <2>1, <2>2 DEF FutureIdle
<1>6. RunningIsAwaited'
  BY <1>1 DEF RunningIsAwaited
<1>7. Undisturbed => w = Attempt(w[1]) /\ w[1] \in Binaries
  BY StepIsAwaited, WriterIs
<1>b. \/ UNCHANGED <<json, jsonDone>>
      \/ /\ json' = [json EXCEPT ![StemOf[w]] = [by |-> w, whole |-> TRUE]]
         /\ jsonDone' = jsonDone \cup {w}
  BY <1>0, WriterEffects
<1>c. \/ UNCHANGED <<text, textDone>>
      \/ /\ text' = [text EXCEPT ![StemOf[w]] = [by |-> w, whole |-> TRUE]]
         /\ textDone' = textDone \cup {w}
  BY <1>0, WriterEffects
<1>8. OwnReportsStand'
  <2> SUFFICES ASSUME Undisturbed, DistinctNames, NEW b \in Binaries
               PROVE  /\ Attempt(b) \in jsonDone' => json'[StemOfBinary(b)].by = Attempt(b)
                      /\ Attempt(b) \in textDone' => text'[StemOfBinary(b)].by = Attempt(b)
    BY <1>2 DEF OwnReportsStand
  <2>1. /\ Attempt(b) \in jsonDone => json[StemOfBinary(b)].by = Attempt(b)
        /\ Attempt(b) \in textDone => text[StemOfBinary(b)].by = Attempt(b)
    BY <1>1 DEF OwnReportsStand, RunIds
  <2>2. Attempt(b) # w => StemOf[w] # StemOfBinary(b)
    BY <1>2, <1>7 DEF DistinctNames
  <2>3. Attempt(b) \in jsonDone' => json'[StemOfBinary(b)].by = Attempt(b)
    BY <1>0, <1>2, <1>b, <2>1, <2>2
  <2>4. Attempt(b) \in textDone' => text'[StemOfBinary(b)].by = Attempt(b)
    BY <1>0, <1>2, <1>c, <2>1, <2>2
  <2> QED BY <2>3, <2>4
<1>9. SkipSees'
  <2> SUFFICES ASSUME Undisturbed, DistinctNames, Opt.skip, NEW b \in Binaries,
                      task[b] \in {"launch", "wait"}, Attempt(b) \notin textDone'
               PROVE  text'[StemOfBinary(b)] = NoFile
    BY <1>2 DEF SkipSees, Opt
  <2>1. Attempt(b) # w => StemOf[w] # StemOfBinary(b)
    BY <1>2, <1>7 DEF DistinctNames
  <2>2. Attempt(b) \notin textDone => text[StemOfBinary(b)] = NoFile
    BY <1>1 DEF SkipSees, RunIds
  <2> QED BY <1>0, <1>2, <1>c, <2>1, <2>2
<1>10. IndexBuilt'
  BY StepIsAwaited DEF IndexBuilt, Indexing
<1> QED BY <1>1, <1>3, <1>4, <1>5, <1>6, <1>8, <1>9, <1>10

\* A new run starts with nothing recorded, and none of its analyses has begun.
LEMMA StartStep ==
    ASSUME BatchInv, NEW r \in RunIds, NEW o \in Options[r], StartBatch(o)
    PROVE  BatchInv'
<1> USE DEF BatchInv
<1>1. /\ run' = run + 1 /\ run' \in RunIds /\ o \in Options[run'] /\ phase' = "work"
      /\ opts' = Append(opts, o)
      /\ task' = [b \in Binaries |-> "queued"] /\ record' = [b \in Binaries |-> "none"]
      /\ scan' = [s \in {} |-> None]
      /\ UNCHANGED <<json, text, stage, status, jsonDone, textDone, report, index>>
  BY BatchAssumption DEF StartBatch, BatchTypeOK, RunIds, writerVars
<1>2. WriterInv'
  BY WriterInvStutter DEF StartBatch
<1>3. BatchTypeOK'
  <2>1. o \in Commands
    BY <1>1, BatchAssumption DEF Commands
  <2>2. opts' \in Seq(Commands) /\ Len(opts') = run'
    BY <1>1, <2>1, AppendProperties DEF BatchTypeOK
  <2>3. run' \in 0..MaxRuns /\ run' # 0
    BY <1>1, BatchAssumption DEF RunIds
  <2> QED BY <1>1, <2>2, <2>3 DEF BatchTypeOK, Phases, Outcomes
<1>4. PoolDrained' /\ RecordsKnow' /\ ReportsWritten'
  BY <1>1 DEF PoolDrained, RecordsKnow, ReportsWritten, JsonReported, Reported
<1>5. FutureIdle'
  <2>1. ASSUME NEW b \in Binaries PROVE stage[<<b, run'>>] = "idle"
    <3>1. <<b, run'>> \in Writers /\ <<b, run'>>[2] > run
      BY <1>1, AttemptIs DEF BatchTypeOK
    <3> QED BY <3>1 DEF FutureIdle
  <2> QED BY <1>1, <2>1, WriterIs DEF FutureIdle, BatchTypeOK, RunIds, Attempt
<1>6. RunningIsAwaited'
  BY <1>1 DEF RunningIsAwaited, StartBatch
<1>7. OwnReportsStand'
  <2>1. ASSUME NEW b \in Binaries
        PROVE  <<b, run'>> \notin jsonDone /\ <<b, run'>> \notin textDone
    <3>1. <<b, run'>> \in Writers /\ <<b, run'>>[2] > run
      BY <1>1, AttemptIs DEF BatchTypeOK
    <3> QED BY <3>1 DEF FutureIdle, WriterInv, Progress
  <2> QED BY <1>1, <2>1 DEF OwnReportsStand, Attempt
<1>8. SkipSees' /\ IndexBuilt'
  BY <1>1 DEF SkipSees, IndexBuilt, Indexing
<1> QED BY <1>2, <1>3, <1>4, <1>5, <1>6, <1>7, <1>8

\* What every step of the pool on one binary has in common: its task moves, it
\* may get a record, and no file changes.
PoolMoves(b, to, outcome) ==
    /\ run > 0 /\ task[b] # "done"
    /\ task' = [task EXCEPT ![b] = to]
    /\ record' = [record EXCEPT ![b] = outcome]
    /\ to \in {"launch", "wait", "done"} /\ outcome \in Outcomes
    /\ outcome = "none" <=> to # "done"
    /\ phase = "work"
    /\ UNCHANGED <<run, opts, phase, outVars, json, text, jsonDone, textDone>>

\* Such a step keeps every conjunct the processes have no part in.
LEMMA PoolStep ==
    ASSUME BatchInv, NEW b \in Binaries, NEW to, NEW outcome, PoolMoves(b, to, outcome)
    PROVE  /\ BatchTypeOK' /\ PoolDrained' /\ ReportsWritten' /\ OwnReportsStand' /\ IndexBuilt'
           /\ run \in RunIds /\ Attempt(b) \in Writers /\ Attempt(b)' = Attempt(b)
           /\ \A c \in Binaries : c # b => task'[c] = task[c] /\ record'[c] = record[c]
           /\ task'[b] = to /\ record'[b] = outcome
<1> USE DEF BatchInv, PoolMoves, outVars
<1>1. run \in RunIds /\ Attempt(b) \in Writers /\ Attempt(b)' = Attempt(b)
  BY OptIs, AttemptIs DEF Attempt
<1>2. BatchTypeOK' /\ PoolDrained'
  BY DEF BatchTypeOK, PoolDrained
<1>3. ReportsWritten' /\ IndexBuilt'
  BY DEF ReportsWritten, JsonReported, Reported, IndexBuilt, Indexing
<1>4. OwnReportsStand'
  BY DEF OwnReportsStand, Attempt
<1> QED BY <1>1, <1>2, <1>3, <1>4 DEF BatchTypeOK

\* A pair of reports that --skip-existing finds incomplete has no text report.
LEMMA InvalidHasNoText ==
    ASSUME WriterInv, NEW s \in Stems
    PROVE  ExistingStatus(s) = "valid" <=> text[s] # NoFile
  BY DEF WriterInv, NoTornReport, TextNeverAlone, ExistingStatus

\* The steps of the pool that leave the processes alone: skipping, taking and collecting.
LEMMA QuietPoolStep ==
    ASSUME BatchInv, UNCHANGED writerVars, NEW b \in Binaries, NEW to, NEW outcome,
           PoolMoves(b, to, outcome),
           outcome = "processed" => status[Attempt(b)] = "ok",
           outcome = "skipped_existing" => ExistingStatus(StemOfBinary(b)) = "valid",
           to = "launch" /\ Opt.skip => ExistingStatus(StemOfBinary(b)) # "valid",
           to = "launch" \/ outcome = "skipped_existing" => task[b] = "queued",
           to = "wait" => task[b] = "wait",
           task[b] = "wait" => status[Attempt(b)] # "running"
    PROVE  BatchInv'
<1> USE DEF BatchInv
<1>1. /\ UNCHANGED <<json, text, jsonDone, textDone, stage, status, run, opts, phase>>
      /\ phase = "work" /\ Attempt(b) \in Writers /\ StemOfBinary(b) \in Stems
      /\ \A c \in Binaries : Attempt(c)' = Attempt(c)
  BY PoolStep, AttemptIs DEF writerVars, PoolMoves, Attempt
<1>2. /\ \A c \in Binaries : c # b => task'[c] = task[c] /\ record'[c] = record[c]
      /\ task'[b] = to /\ record'[b] = outcome
  BY PoolStep
<1>3. WriterInv'
  BY WriterInvStutter
<1>4. RecordsKnow'
  BY <1>1, <1>2, InvalidHasNoText DEF RecordsKnow, WriterInv, TextNeverAlone
<1>5. FutureIdle'
  BY <1>1, <1>2 DEF FutureIdle, PoolMoves
<1>6. RunningIsAwaited'
  BY <1>1, <1>2, WriterIs DEF RunningIsAwaited, Attempt
<1>7. SkipSees'
  BY <1>1, <1>2, InvalidHasNoText DEF SkipSees, Opt, PoolMoves
<1> QED BY <1>3, <1>4, <1>5, <1>6, <1>7, PoolStep

\* run > 0 in the pool, and a task that is not done has no record.
LEMMA PoolAt ==
    ASSUME BatchInv, phase = "work", NEW b \in Binaries, task[b] # "done"
    PROVE  run > 0 /\ record[b] = "none" /\ record = [record EXCEPT ![b] = "none"]
  BY DEF BatchInv, BatchTypeOK, PoolDrained

\* A binary whose pair is complete is skipped when --skip-existing is given.
LEMMA SkipStep == ASSUME BatchInv, NEW i \in DOMAIN Queue, SkipExisting(i) PROVE BatchInv'
<1> DEFINE b == Queue[i]
<1>1. b \in Binaries /\ phase = "work" /\ task[b] = "queued"
  BY DEF Binaries, SkipExisting, Takes
<1>2. PoolMoves(b, "done", "skipped_existing") /\ ExistingStatus(StemOfBinary(b)) = "valid"
  BY <1>1, PoolAt DEF SkipExisting, Return, PoolMoves, writerVars, outVars, Outcomes
<1> QED BY <1>1, <1>2, QuietPoolStep DEF SkipExisting

\* Every other binary is taken: under --skip-existing its pair is not complete.
LEMMA TakeStep == ASSUME BatchInv, NEW i \in DOMAIN Queue, TakeTask(i) PROVE BatchInv'
<1> DEFINE b == Queue[i]
<1>1. b \in Binaries /\ phase = "work" /\ task[b] = "queued"
  BY DEF Binaries, TakeTask, Takes
<1>2. /\ PoolMoves(b, "launch", "none")
      /\ Opt.skip => ExistingStatus(StemOfBinary(b)) # "valid"
  BY <1>1, PoolAt DEF TakeTask, PoolMoves, writerVars, outVars, Outcomes
<1> QED BY <1>1, <1>2, QuietPoolStep DEF TakeTask

\* The record of an analysis that ended says how it ended.
LEMMA CollectStep == ASSUME BatchInv, NEW b \in Binaries, Collect(b) PROVE BatchInv'
<1> DEFINE outcome == IF status[Attempt(b)] = "ok" THEN "processed" ELSE "failed"
<1>1. PoolMoves(b, "done", outcome)
  BY PoolAt DEF Collect, Return, PoolMoves, writerVars, outVars, Outcomes
<1>2. status[Attempt(b)] # "running" /\ (outcome = "processed" => status[Attempt(b)] = "ok")
  BY DEF Collect
<1>3. outcome \notin {"skipped_existing", "none"} /\ UNCHANGED writerVars
  BY DEF Collect
<1> HIDE DEF outcome
<1> QED BY <1>1, <1>2, <1>3, QuietPoolStep

\* The steps of the pool that begin or kill an analysis keep the rest as well.
LEMMA ActivePoolStep ==
    ASSUME BatchInv, NEW b \in Binaries, NEW to, NEW outcome, PoolMoves(b, to, outcome),
           Begin(Attempt(b)) \/ Kill(Attempt(b)),
           outcome \notin {"processed", "skipped_existing"},
           to # "launch", to = "wait" => task[b] = "launch",
           Begin(Attempt(b)) => to = "wait"
    PROVE  BatchInv'
<1> DEFINE w == Attempt(b)
<1>1. /\ w \in Writers /\ w = <<b, run>> /\ run \in RunIds
      /\ \A c \in Binaries : Attempt(c)' = Attempt(c)
  BY PoolStep DEF Attempt, PoolMoves
<1>2. /\ \A c \in Binaries : c # b => task'[c] = task[c] /\ record'[c] = record[c]
      /\ task'[b] = to /\ record'[b] = outcome
  BY PoolStep
<1>3. UNCHANGED <<json, text, jsonDone, textDone, run, opts, phase>> /\ phase = "work"
  BY DEF PoolMoves
<1>4. WriterInv /\ WriterInv'
  BY <1>1, WriterInvAct DEF BatchInv
<1>5. /\ \A v \in Writers : v # w => stage'[v] = stage[v] /\ status'[v] = status[v]
      /\ \A v \in Writers : status[v] = "ok" => status'[v] = "ok"
      /\ status'[w] = "running" => Begin(w)
  <2>1. Kill(w) => status'[w] # "running"
    BY <1>1, <1>4 DEF Kill, WriterInv, TypeOK
  <2> HIDE DEF w
  <2> QED BY <1>1, <1>4, <2>1, WriterEffects DEF w
<1> HIDE DEF w
<1>6. RecordsKnow'
  BY <1>1, <1>2, <1>3, <1>5, AttemptIs DEF BatchInv, RecordsKnow, Attempt
<1>7. FutureIdle'
  <2>1. \A c \in Binaries : c # b => Attempt(c) \in Writers /\ Attempt(c) # w
    BY <1>1, AttemptIs DEF Attempt
  <2>2. \A c \in Binaries :
           task'[c] \in {"queued", "launch"} \/ record'[c] = "skipped_existing" => c # b
    BY <1>2 DEF PoolMoves
  <2> QED BY <1>1, <1>2, <1>3, <1>5, <2>1, <2>2 DEF BatchInv, FutureIdle, RunIds, PoolMoves
<1>8. RunningIsAwaited'
  BY <1>1, <1>2, <1>3, <1>5, WriterIs DEF BatchInv, RunningIsAwaited, w
<1>9. SkipSees'
  BY <1>1, <1>2, <1>3 DEF BatchInv, SkipSees, Opt, PoolMoves
<1> QED BY <1>4, <1>6, <1>7, <1>8, <1>9, PoolStep DEF BatchInv

\* The analysis of a binary that was taken begins, and is waited for.
LEMMA LaunchStep == ASSUME BatchInv, NEW b \in Binaries, Launch(b) PROVE BatchInv'
<1>1. PoolMoves(b, "wait", "none") /\ task[b] = "launch" /\ Begin(Attempt(b))
  BY PoolAt DEF Launch, PoolMoves, Begin, files, outVars, Outcomes
<1> QED BY <1>1, ActivePoolStep

\* The analysis that is given up is killed, or has ended.
LEMMA TimeOutStep == ASSUME BatchInv, NEW b \in Binaries, TimeOut(b) PROVE BatchInv'
<1>1. PoolMoves(b, "done", "timeout") /\ phase = "work" /\ task[b] = "wait"
  BY PoolAt DEF TimeOut, Return, PoolMoves, Kill, files, writerVars, outVars, Outcomes
<1>2. CASE UNCHANGED writerVars /\ status[Attempt(b)] # "running"
  BY <1>1, <1>2, QuietPoolStep
<1>3. CASE Kill(Attempt(b))
  <2>1. ~Begin(Attempt(b))
    BY <1>1, <1>3, PoolStep DEF BatchInv, WriterInv, Progress, Begin, Kill, Goto
  <2> QED BY <1>1, <1>3, <2>1, ActivePoolStep
<1> QED BY <1>2, <1>3 DEF TimeOut

\* What the steps of the driver's main thread, after the pool, have in common.
LEMMA MainKeeps ==
    ASSUME BatchInv, NEW from, NEW to, Main(from, to), from # "idle",
           to \in Phases \ {"idle", "work", "crashed"},
           \A b \in Binaries : task[b] = "done"
    PROVE  /\ WriterInv' /\ PoolDrained' /\ RecordsKnow' /\ FutureIdle'
           /\ RunningIsAwaited' /\ OwnReportsStand' /\ SkipSees'
           /\ run' = run /\ opts' = opts /\ record' = record /\ json' = json
           /\ phase = from /\ phase' = to
           /\ DOMAIN report' = Exts /\ DOMAIN index' = Exts /\ DOMAIN scan' \subseteq Stems
                /\ scan' = [s \in DOMAIN scan' |-> scan'[s]] => BatchTypeOK'
<1> USE DEF BatchInv
<1>1. /\ UNCHANGED <<json, text, jsonDone, textDone, stage, status, run, opts, task, record>>
      /\ phase = from /\ phase' = to /\ UNCHANGED writerVars
  BY DEF Main, writerVars, poolVars
<1> HIDE DEF Main
<1>2. WriterInv'
  BY <1>1, WriterInvStutter
<1>3. PoolDrained' /\ RecordsKnow' /\ FutureIdle'
  BY <1>1 DEF PoolDrained, RecordsKnow, FutureIdle, Attempt
<1>4. RunningIsAwaited'
  BY <1>1, WriterIs DEF RunningIsAwaited
<1>5. OwnReportsStand' /\ SkipSees'
  BY <1>1 DEF OwnReportsStand, SkipSees, Attempt, Opt
<1> QED BY <1>1, <1>2, <1>3, <1>4, <1>5 DEF BatchTypeOK

\* What the directory holds does not change while the main thread writes.
LEMMA IndexSame ==
    ASSUME UNCHANGED <<run, opts, record, json>>
    PROVE  /\ \A s \in Stems : Indexed(s)' = Indexed(s)
           /\ FullIndex' = FullIndex /\ FullReport' = FullReport /\ Opt' = Opt
           /\ Recorded("processed")' = Recorded("processed")
  BY DEF Indexed, FullIndex, FullReport, Opt, Recorded

\* The pool is left: nothing runs any more.
LEMMA PoolDoneStep == ASSUME BatchInv, PoolDone PROVE BatchInv'
<1>1. Main("work", "reportJson") /\ UNCHANGED <<report, index, scan>>
  BY DEF PoolDone, outVars
<1>2. \A b \in Binaries : task[b] = "done"
  BY DEF PoolDone
<1>3. "reportJson" \in Phases \ {"idle", "work", "crashed"}
  BY DEF Phases
<1>4. ReportsWritten' /\ IndexBuilt'
  BY <1>1, <1>2, <1>3, MainKeeps, IndexSame
  DEF BatchInv, ReportsWritten, JsonReported, Reported, IndexBuilt, Indexing
<1> QED BY <1>1, <1>2, <1>3, <1>4, MainKeeps DEF BatchInv, BatchTypeOK

\* After the pool every task is done.
LEMMA AllDone ==
    ASSUME BatchInv, phase \notin {"idle", "work", "crashed"}
    PROVE  \A b \in Binaries : task[b] = "done"
  BY DEF BatchInv, PoolDrained

\* Opening an output file destroys what it held, closing it puts the new in place.
LEMMA ReportStep == ASSUME BatchInv, WriteBatchReport PROVE BatchInv'
<1> USE DEF BatchInv
<1>1. ASSUME OpenReport("json", "reportJson", "reportJsonFlush") PROVE BatchInv'
  <2>1. /\ Main("reportJson", "reportJsonFlush") /\ UNCHANGED <<index, scan>>
        /\ report' = [report EXCEPT !["json"].whole = FALSE]
    BY <1>1 DEF OpenReport
  <2>2. BatchTypeOK' /\ ReportsWritten' /\ IndexBuilt'
    BY <2>1, AllDone, MainKeeps, IndexSame
    DEF BatchTypeOK, ReportsWritten, JsonReported, Reported, IndexBuilt, Indexing, Phases,
        Main
  <2> QED BY <2>1, <2>2, AllDone, MainKeeps DEF Phases, Main
<1>2. ASSUME CloseReport("json", "reportJsonFlush", "reportTxt") PROVE BatchInv'
  <2>1. /\ Main("reportJsonFlush", "reportTxt") /\ UNCHANGED <<index, scan>>
        /\ report' = [report EXCEPT !["json"] = FullReport]
    BY <1>2 DEF CloseReport, FullReport
  <2>2. BatchTypeOK' /\ ReportsWritten' /\ IndexBuilt'
    BY <2>1, AllDone, MainKeeps, IndexSame
    DEF BatchTypeOK, ReportsWritten, JsonReported, Reported, IndexBuilt, Indexing, Phases,
        Main, Exts
  <2> QED BY <2>1, <2>2, AllDone, MainKeeps DEF Phases, Main
<1>3. ASSUME OpenReport("txt", "reportTxt", "reportTxtFlush") PROVE BatchInv'
  <2>1. /\ Main("reportTxt", "reportTxtFlush") /\ UNCHANGED <<index, scan>>
        /\ report' = [report EXCEPT !["txt"].whole = FALSE]
    BY <1>3 DEF OpenReport
  <2>2. BatchTypeOK' /\ ReportsWritten' /\ IndexBuilt'
    BY <2>1, AllDone, MainKeeps, IndexSame
    DEF BatchTypeOK, ReportsWritten, JsonReported, Reported, IndexBuilt, Indexing, Phases,
        Main, Exts
  <2> QED BY <2>1, <2>2, AllDone, MainKeeps DEF Phases, Main
<1>4. ASSUME CloseReport("txt", "reportTxtFlush", "decideIndex") PROVE BatchInv'
  <2>1. /\ Main("reportTxtFlush", "decideIndex") /\ UNCHANGED <<index, scan>>
        /\ report' = [report EXCEPT !["txt"] = FullReport]
    BY <1>4 DEF CloseReport, FullReport
  <2>2. BatchTypeOK' /\ ReportsWritten' /\ IndexBuilt'
    BY <2>1, AllDone, MainKeeps, IndexSame
    DEF BatchTypeOK, ReportsWritten, JsonReported, Reported, IndexBuilt, Indexing, Phases,
        Main, Exts
  <2> QED BY <2>1, <2>2, AllDone, MainKeeps DEF Phases, Main
<1> QED BY <1>1, <1>2, <1>3, <1>4 DEF WriteBatchReport

\* Only a batch that processed nothing, or was told not to index, returns here.
LEMMA DecideStep == ASSUME BatchInv, DecideIndex PROVE BatchInv'
<1> USE DEF BatchInv
<1> DEFINE to == IF Recorded("processed") # {} /\ ~Opt.noIndex THEN "scan" ELSE "exited"
<1>1. Main("decideIndex", to) /\ UNCHANGED <<report, index, scan>>
  BY DEF DecideIndex, outVars
<1>2. to \in {"scan", "exited"} /\ (to = "exited" => Recorded("processed") = {} \/ Opt.noIndex)
  OBVIOUS
<1> HIDE DEF to
<1>3. BatchTypeOK' /\ ReportsWritten' /\ IndexBuilt'
  BY <1>1, <1>2, AllDone, MainKeeps, IndexSame
  DEF BatchTypeOK, ReportsWritten, JsonReported, Reported, IndexBuilt, Indexing, Phases,
      Main
<1> QED BY <1>1, <1>2, <1>3, AllDone, MainKeeps DEF Phases, Main

\* Once every stem is scanned the samples are the whole index.
LEMMA ScanIsFull ==
    ASSUME BatchInv, Undisturbed, phase \in Indexing \ {"scan"}
    PROVE  [run |-> run, whole |-> TRUE, samples |-> scan] = FullIndex
<1>1. scan = [s \in DOMAIN scan |-> scan[s]] /\ DOMAIN scan = Stems
  BY DEF BatchInv, BatchTypeOK, IndexBuilt
<1>2. \A s \in Stems : scan[s] = Indexed(s)
  BY <1>1 DEF BatchInv, IndexBuilt
<1>3. scan = [s \in Stems |-> Indexed(s)]
  BY <1>1, <1>2
<1> QED BY <1>3 DEF FullIndex

\* The scan reads the reports as they stand; nobody replaces one meanwhile.
LEMMA ScanStep == ASSUME BatchInv, NEW s \in Stems, ScanReport(s) PROVE BatchInv'
<1> USE DEF BatchInv
<1> DEFINE to == IF DOMAIN scan \cup {s} = Stems THEN "indexJson" ELSE "scan"
<1>1. /\ Main("scan", to) /\ UNCHANGED <<report, index>>
      /\ scan' = [t \in DOMAIN scan \cup {s} |-> IF t = s THEN Indexed(s) ELSE scan[t]]
  BY DEF ScanReport
<1>2. to \in {"scan", "indexJson"} /\ (to = "indexJson" => DOMAIN scan \cup {s} = Stems)
  OBVIOUS
<1> HIDE DEF to
<1>3. DOMAIN scan' = DOMAIN scan \cup {s} /\ DOMAIN scan' \subseteq Stems
      /\ scan' = [t \in DOMAIN scan' |-> scan'[t]]
  BY <1>1 DEF BatchTypeOK
<1>4. BatchTypeOK'
  BY <1>1, <1>2, <1>3, AllDone, MainKeeps DEF BatchTypeOK, Phases, Main
<1>5. ReportsWritten'
  BY <1>1, <1>2, AllDone, MainKeeps, IndexSame
  DEF ReportsWritten, JsonReported, Reported, Phases, Main
<1>6. Undisturbed => \A t \in DOMAIN scan' : scan'[t] = Indexed(t)'
  <2>1. \A t \in Stems : Indexed(t)' = Indexed(t)
    BY <1>1, <1>2, AllDone, MainKeeps, IndexSame DEF Phases, Main
  <2> QED BY <1>1, <1>3, <2>1 DEF IndexBuilt
<1>7. IndexBuilt'
  BY <1>1, <1>2, <1>3, <1>6, AllDone, MainKeeps DEF IndexBuilt, Indexing, Phases, Main
<1> QED BY <1>1, <1>2, <1>4, <1>5, <1>7, AllDone, MainKeeps DEF Phases, Main

\* Each index file is made of that scan.
LEMMA IndexStep == ASSUME BatchInv, WriteFeatureIndex PROVE BatchInv'
<1> USE DEF BatchInv
<1>1. ASSUME OpenIndex("json", "indexJson", "indexJsonFlush") PROVE BatchInv'
  <2>1. /\ Main("indexJson", "indexJsonFlush") /\ UNCHANGED <<report, scan>>
        /\ index' = [index EXCEPT !["json"].whole = FALSE]
    BY <1>1 DEF OpenIndex
  <2>2. BatchTypeOK' /\ ReportsWritten' /\ IndexBuilt'
    BY <2>1, AllDone, MainKeeps, IndexSame
    DEF BatchTypeOK, ReportsWritten, JsonReported, Reported, IndexBuilt, Indexing, Phases,
        Main, Exts
  <2> QED BY <2>1, <2>2, AllDone, MainKeeps DEF Phases, Main
<1>2. ASSUME CloseIndex("json", "indexJsonFlush", "indexTxt") PROVE BatchInv'
  <2>1. /\ Main("indexJsonFlush", "indexTxt") /\ UNCHANGED <<report, scan>>
        /\ index' = [index EXCEPT !["json"] = [run |-> run, whole |-> TRUE, samples |-> scan]]
    BY <1>2 DEF CloseIndex
  <2>2. Undisturbed => [run |-> run, whole |-> TRUE, samples |-> scan] = FullIndex
    BY <2>1, ScanIsFull DEF Indexing, Main
  <2>3. BatchTypeOK' /\ ReportsWritten' /\ IndexBuilt'
    BY <2>1, <2>2, AllDone, MainKeeps, IndexSame
    DEF BatchTypeOK, ReportsWritten, JsonReported, Reported, IndexBuilt, Indexing, Phases,
        Main, Exts
  <2> QED BY <2>1, <2>3, AllDone, MainKeeps DEF Phases, Main
<1>3. ASSUME OpenIndex("txt", "indexTxt", "indexTxtFlush") PROVE BatchInv'
  <2>1. /\ Main("indexTxt", "indexTxtFlush") /\ UNCHANGED <<report, scan>>
        /\ index' = [index EXCEPT !["txt"].whole = FALSE]
    BY <1>3 DEF OpenIndex
  <2>2. BatchTypeOK' /\ ReportsWritten' /\ IndexBuilt'
    BY <2>1, AllDone, MainKeeps, IndexSame
    DEF BatchTypeOK, ReportsWritten, JsonReported, Reported, IndexBuilt, Indexing, Phases,
        Main, Exts
  <2> QED BY <2>1, <2>2, AllDone, MainKeeps DEF Phases, Main
<1>4. ASSUME CloseIndex("txt", "indexTxtFlush", "exited") PROVE BatchInv'
  <2>1. /\ Main("indexTxtFlush", "exited") /\ UNCHANGED <<report, scan>>
        /\ index' = [index EXCEPT !["txt"] = [run |-> run, whole |-> TRUE, samples |-> scan]]
    BY <1>4 DEF CloseIndex
  <2>2. Undisturbed => [run |-> run, whole |-> TRUE, samples |-> scan] = FullIndex
    BY <2>1, ScanIsFull DEF Indexing, Main
  <2>3. BatchTypeOK' /\ ReportsWritten' /\ IndexBuilt'
    BY <2>1, <2>2, AllDone, MainKeeps, IndexSame
    DEF BatchTypeOK, ReportsWritten, JsonReported, Reported, IndexBuilt, Indexing, Phases,
        Main, Exts
  <2> QED BY <2>1, <2>3, AllDone, MainKeeps DEF Phases, Main
<1> QED BY <1>1, <1>2, <1>3, <1>4, ScanStep DEF WriteFeatureIndex

\* A driver that is killed takes at most an analysis of its own with it.
LEMMA CrashStep == ASSUME BatchInv, DriverCrash PROVE BatchInv'
<1> USE DEF BatchInv
<1>1. /\ ~Undisturbed /\ phase # "idle" /\ phase' = "crashed"
      /\ UNCHANGED <<run, opts, task, record, report, index, scan>>
  BY DEF DriverCrash, Undisturbed, poolVars, outVars
<1>2. run \in RunIds /\ \A b \in Binaries : Attempt(b) \in Writers
  BY <1>1, OptIs, AttemptIs DEF BatchTypeOK, Attempt
<1>3. UNCHANGED writerVars \/ \E b \in Binaries : Kill(Attempt(b))
  BY DEF DriverCrash
<1>4. /\ WriterInv' /\ UNCHANGED <<json, text>>
      /\ \A v \in Writers : /\ status[v] = "ok" => status'[v] = "ok"
                            /\ stage[v] = "idle" => stage'[v] = "idle"
  <2>1. CASE UNCHANGED writerVars
    BY <2>1, WriterInvStutter DEF writerVars
  <2>2. CASE \E b \in Binaries : Kill(Attempt(b))
    <3>1. PICK w \in Writers : Kill(w)
      BY <1>2, <2>2
    <3>2. WriterInv'
      BY <3>1, WriterInvAct
    <3>3. /\ UNCHANGED <<json, text>> /\ status[w] = "running" /\ stage[w] # "idle"
          /\ status' = [status EXCEPT ![w] = "killed"] /\ stage' = [stage EXCEPT ![w] = "end"]
      BY <3>1 DEF Kill, files, WriterInv, Progress
    <3>4. \A v \in Writers : v # w => status'[v] = status[v] /\ stage'[v] = stage[v]
      BY <3>3 DEF WriterInv, TypeOK
    <3> QED BY <3>2, <3>3, <3>4
  <2> QED BY <1>3, <2>1, <2>2
<1>5. BatchTypeOK' /\ PoolDrained' /\ ReportsWritten'
  BY <1>1 DEF BatchTypeOK, Phases, PoolDrained, ReportsWritten, JsonReported, Reported
<1>6. RecordsKnow' /\ FutureIdle'
  BY <1>1, <1>2, <1>4 DEF RecordsKnow, FutureIdle, Attempt
<1>7. RunningIsAwaited' /\ OwnReportsStand' /\ SkipSees' /\ IndexBuilt'
  BY <1>1 DEF RunningIsAwaited, OwnReportsStand, SkipSees, IndexBuilt, Undisturbed
<1> QED BY <1>4, <1>5, <1>6, <1>7

\* The batch command preserves the inductive invariant.
LEMMA BatchInvStep == BatchInv /\ [BatchNext]_batchVars => BatchInv'
<1> SUFFICES ASSUME BatchInv, [BatchNext]_batchVars PROVE BatchInv'
  OBVIOUS
<1>1. CASE UNCHANGED batchVars
  <2>1. /\ UNCHANGED writerVars /\ UNCHANGED <<json, text, jsonDone, textDone, stage, status>>
        /\ UNCHANGED <<run, opts, phase, task, record, report, index, scan>>
    BY <1>1 DEF batchVars, writerVars, poolVars, outVars
  <2>2. WriterInv'
    BY <2>1, WriterInvStutter DEF BatchInv
  <2>3. BatchTypeOK' /\ PoolDrained' /\ RecordsKnow' /\ FutureIdle'
    BY <2>1 DEF BatchInv, BatchTypeOK, PoolDrained, RecordsKnow, FutureIdle, Attempt, Opt, ExistingStatus
  <2>4. ReportsWritten' /\ RunningIsAwaited'
    BY <2>1 DEF BatchInv, ReportsWritten, JsonReported, Reported, FullReport, RunningIsAwaited, Attempt, Recorded
  <2>5. OwnReportsStand' /\ SkipSees'
    BY <2>1 DEF BatchInv, OwnReportsStand, SkipSees, Attempt, Opt, Recorded, ExistingStatus
  <2>6. IndexBuilt'
    BY <2>1 DEF BatchInv, IndexBuilt, FullIndex, Indexed, Attempt, Opt, Recorded
  <2> QED BY <2>2, <2>3, <2>4, <2>5, <2>6 DEF BatchInv
<1>2. ASSUME NEW w \in Writers, AnalysisStep(w) \/ ChildKilled(w) PROVE BatchInv'
  BY <1>2, ProcessStep DEF AnalysisStep, ChildKilled
<1>3. CASE MainStep
  BY <1>3, PoolDoneStep, ReportStep, DecideStep, IndexStep DEF MainStep
<1> QED BY <1>1, <1>2, <1>3, StartStep, SkipStep, TakeStep, LaunchStep, CollectStep,
           TimeOutStep, CrashStep DEF BatchNext

\* The inductive invariant holds throughout.
LEMMA BatchInvariance == BatchSpec => []BatchInv
  BY BatchInvInit, BatchInvStep, PTL DEF BatchSpec
-----------------------------------------------------------------------------
(***************************************************************************)
(* Theorems.                                                               *)
(***************************************************************************)

\* Whoever crashed and whatever names collide: a sample that the batch command
\* calls processed or skipped has a complete JSON and a complete text report.
THEOREM RecordsBacked == BatchSpec => []RecordsAreBacked
<1>1. ASSUME BatchInv, NEW b \in Binaries, record[b] \in {"processed", "skipped_existing"}
      PROVE  ExistingStatus(StemOfBinary(b)) = "valid"
  <2>1. run \in RunIds
    BY <1>1, OptIs DEF BatchInv, BatchTypeOK, PoolDrained
  <2>2. Attempt(b) \in Writers /\ StemOf[Attempt(b)] = StemOfBinary(b) /\ StemOfBinary(b) \in Stems
    BY <2>1, AttemptIs DEF Attempt
  <2>3. CASE record[b] = "processed"
    <3>1. Attempt(b) \in textDone
      BY <1>1, <2>2, <2>3 DEF BatchInv, RecordsKnow, WriterInv, Progress
    <3> QED BY <1>1, <2>2, <3>1, InvalidHasNoText DEF BatchInv, WriterInv, Installed
  <2>4. CASE record[b] = "skipped_existing"
    BY <1>1, <2>2, <2>4, InvalidHasNoText DEF BatchInv, RecordsKnow
  <2> QED BY <1>1, <2>3, <2>4
<1>2. BatchInv => RecordsAreBacked
  BY <1>1 DEF RecordsAreBacked, Recorded
<1> QED BY <1>2, BatchInvariance, PTL

\* No batch, however it is disturbed, shows a torn report or a text report
\* alone, or leaves the temporary of an analysis that ended by itself.
THEOREM BatchNeverTorn == BatchSpec => [](NoTornReport /\ TextNeverAlone /\ NoTemporaryLeft)
<1>1. BatchInv => NoTornReport /\ TextNeverAlone /\ NoTemporaryLeft
  BY DEF BatchInv, WriterInv
<1> QED BY <1>1, BatchInvariance, PTL

\* When the command returns, its two reports are whole, of this run, and hold an
\* outcome of every sample: one processed has the reports of this run, one
\* skipped a complete pair that this run did not write.
THEOREM ReportsTrue ==
    ASSUME Undisturbed, DistinctNames
    PROVE  BatchSpec => []ReportIsTrue
<1>1. ASSUME BatchInv, phase = "exited" PROVE ReportIsTrue
  <2>1. run > 0 /\ run \in RunIds
    BY <1>1, OptIs DEF BatchInv, BatchTypeOK
  <2>2. \A x \in Exts : report[x] = FullReport
    BY <1>1 DEF BatchInv, ReportsWritten, JsonReported, Reported, Exts
  <2>3. ASSUME NEW b \in Recorded("processed")
        PROVE  json[StemOfBinary(b)].by = Attempt(b) /\ text[StemOfBinary(b)].by = Attempt(b)
    <3>1. Attempt(b) \in Writers /\ status[Attempt(b)] = "ok"
      BY <1>1, <2>1, AttemptIs DEF BatchInv, RecordsKnow, Recorded, Attempt
    <3>2. Attempt(b) \in jsonDone /\ Attempt(b) \in textDone
      BY <1>1, <3>1 DEF BatchInv, WriterInv, Progress
    <3> QED BY <1>1, <2>1, <3>2 DEF BatchInv, OwnReportsStand, Recorded
  <2>4. \A b \in Binaries : record[b] # "none"
    BY <1>1 DEF BatchInv, PoolDrained
  <2>5. ASSUME NEW b \in Recorded("skipped_existing")
        PROVE  /\ ExistingStatus(StemOfBinary(b)) = "valid"
               /\ json[StemOfBinary(b)].by # Attempt(b) /\ text[StemOfBinary(b)].by # Attempt(b)
    <3>1. /\ Attempt(b) \in Writers /\ StemOfBinary(b) \in Stems /\ stage[Attempt(b)] = "idle"
          /\ json[StemOfBinary(b)] # NoFile /\ text[StemOfBinary(b)] # NoFile
      BY <1>1, <2>1, AttemptIs DEF BatchInv, RecordsKnow, FutureIdle, Recorded, Attempt
    <3>2. Attempt(b) \notin jsonDone /\ Attempt(b) \notin textDone
      BY <1>1, <3>1 DEF BatchInv, WriterInv, Progress
    <3> QED BY <1>1, <3>1, <3>2, InvalidHasNoText DEF BatchInv, WriterInv, Signed
  <2> QED BY <2>2, <2>3, <2>4, <2>5 DEF ReportIsTrue, FullReport
<1>2. BatchInv => ReportIsTrue
  BY <1>1 DEF ReportIsTrue
<1> QED BY <1>2, BatchInvariance, PTL

\* A batch that processed something leaves index files in step with every
\* report of the directory.
THEOREM IndexCurrent ==
    ASSUME Undisturbed
    PROVE  BatchSpec => []IndexIsCurrent
<1>1. BatchInv => IndexIsCurrent
  BY DEF BatchInv, IndexBuilt, IndexIsCurrent, FullIndex
<1> QED BY <1>1, BatchInvariance, PTL

\* Which processes a step of the batch command moves, and that it leaves their
\* files alone when it moves none.
LEMMA StepMovesOne ==
    ASSUME BatchInv, [BatchNext]_batchVars
    PROVE  \/ UNCHANGED writerVars
           \/ \E w \in Writers : WriterStep(w) \/ Kill(w)
           \/ \E b \in Binaries : Launch(b) /\ Attempt(b) \in Writers
<1>1. ASSUME NEW b \in Binaries, run > 0 PROVE Attempt(b) \in Writers
  BY <1>1, OptIs, AttemptIs DEF BatchInv, Attempt
<1>2. phase # "idle" => run > 0
  BY DEF BatchInv, BatchTypeOK
<1>3. CASE UNCHANGED batchVars
  BY <1>3 DEF batchVars
<1>4. ASSUME NEW b \in Binaries, Launch(b) \/ Collect(b) \/ TimeOut(b)
      PROVE  \/ UNCHANGED writerVars
             \/ \E w \in Writers : WriterStep(w) \/ Kill(w)
             \/ Launch(b) /\ Attempt(b) \in Writers
  BY <1>1, <1>2, <1>4 DEF Launch, Collect, TimeOut
<1>5. CASE DriverCrash
  BY <1>1, <1>2, <1>5 DEF DriverCrash
<1>6. CASE MainStep
  BY <1>6
  DEF MainStep, PoolDone, WriteBatchReport, DecideIndex, WriteFeatureIndex, ScanReport,
              OpenReport, CloseReport, OpenIndex, CloseIndex, Main
<1> QED BY <1>3, <1>4, <1>5, <1>6
        DEF BatchNext, StartBatch, SkipExisting, TakeTask, AnalysisStep, ChildKilled

\* --skip-existing never touches a complete pair: whatever writes was taken
\* because its stem had none.
THEOREM SkipsKeepPairs ==
    ASSUME Undisturbed, DistinctNames
    PROVE  BatchSpec => SkipKeepsPairs
<1> DEFINE Kept == \A s \in Stems :
             run > 0 /\ run' = run /\ Opt.skip /\ ExistingStatus(s) = "valid" =>
                 json'[s] = json[s] /\ text'[s] = text[s]
<1>1. ASSUME BatchInv, [BatchNext]_batchVars PROVE Kept
  <2> SUFFICES ASSUME NEW s \in Stems, run > 0, Opt.skip, ExistingStatus(s) = "valid"
               PROVE  json'[s] = json[s] /\ text'[s] = text[s]
    OBVIOUS
  <2>1. WriterInv /\ text[s] # NoFile
    BY <1>1, InvalidHasNoText DEF BatchInv
  <2>2. CASE UNCHANGED writerVars
    BY <2>2 DEF writerVars
  <2>3. CASE \E b \in Binaries : Launch(b)
    BY <2>3 DEF Launch, Begin, files
  <2>4. ASSUME NEW w \in Writers, WriterStep(w) \/ Kill(w)
        PROVE  json'[s] = json[s] /\ text'[s] = text[s]
    <3>1. w = Attempt(w[1]) /\ task[w[1]] = "wait" /\ w[1] \in Binaries
      BY <1>1, <2>4, StepIsAwaited, WriterIs
    <3>2. StemOf[w] = StemOfBinary(w[1])
      BY <1>1, <3>1, OptIs, AttemptIs DEF BatchInv, Attempt
    <3>3. w \notin textDone => text[StemOf[w]] = NoFile
      BY <1>1, <3>1, <3>2 DEF BatchInv, SkipSees
    <3>4. CASE w \in textDone
      BY <2>1, <2>4, <3>4, WriterEffects
    <3>5. CASE w \notin textDone
      <4>1. StemOf[w] # s /\ json \in [Stems -> Content] /\ text \in [Stems -> Content]
        BY <2>1, <3>3, <3>5 DEF WriterInv, TypeOK
      <4>2. UNCHANGED json \/ json' = [json EXCEPT ![StemOf[w]] = [by |-> w, whole |-> TRUE]]
        BY <2>1, <2>4, WriterEffects
      <4>3. UNCHANGED text \/ text' = [text EXCEPT ![StemOf[w]] = [by |-> w, whole |-> TRUE]]
        BY <2>1, <2>4, WriterEffects
      <4> QED BY <4>1, <4>2, <4>3
    <3> QED BY <3>4, <3>5
  <2> QED BY <1>1, <2>2, <2>3, <2>4, StepMovesOne
<1>2. BatchInv /\ [BatchNext]_batchVars => [Kept]_batchVars
  BY <1>1
<1> QED BY <1>2, BatchInvariance, PTL DEF BatchSpec, SkipKeepsPairs

\* What PairWriter calls a serial caller: one whose analyses of a stem never
\* overlap, across threads, timeouts and runs.
SerialCaller == Serial => Undisturbed /\ DistinctNames

\* Each step of the batch command is a step of the report writer or changes
\* nothing of it.
LEMMA BatchIsCaller ==
    ASSUME SerialCaller, BatchInv, [BatchNext]_batchVars
    PROVE  [WriterNext]_writerVars
<1>1. ASSUME NEW b \in Binaries, Launch(b), Attempt(b) \in Writers
      PROVE  Start(Attempt(b))
  <2>1. ASSUME Serial, NEW v \in Writers, StemOf[v] = StemOf[Attempt(b)], status[v] = "running"
        PROVE  FALSE
    <3>1. v = Attempt(v[1]) /\ task[v[1]] = "wait" /\ v[1] \in Binaries /\ run \in RunIds
      BY <1>1, <2>1, WriterIs DEF SerialCaller, BatchInv, RunningIsAwaited, Attempt
    <3>2. v[1] = b
      BY <1>1, <2>1, <3>1, AttemptIs DEF SerialCaller, DistinctNames, Attempt
    <3> QED BY <1>1, <3>1, <3>2 DEF Launch
  <2> QED BY <1>1, <2>1 DEF Launch, Start
<1> QED BY <1>1, StepMovesOne DEF WriterNext

\* Refinement: the batch command is a legal caller of write_text_pair_atomically.
THEOREM BatchUsesPairWriter ==
    ASSUME SerialCaller
    PROVE  BatchSpec => UsesPairWriter
<1>1. BatchInit => WriterInit
  BY DEF BatchInit
<1>2. BatchInv /\ [BatchNext]_batchVars => [WriterNext]_writerVars
  BY BatchIsCaller
<1> QED BY <1>1, <1>2, BatchInvariance, PTL DEF BatchSpec, UsesPairWriter, WriterSpec

\* So what is proved of the report writer holds of every batch: the two reports
\* of a sample agree, and each file is an atomic file.
THEOREM BatchPairsAgree ==
    ASSUME SerialCaller
    PROVE  BatchSpec => []PairAgreement /\ ReportsAreAtomicFiles
  BY BatchUsesPairWriter, PairsAgree, ReportsRefineAtomicFile, PTL DEF UsesPairWriter
=============================================================================

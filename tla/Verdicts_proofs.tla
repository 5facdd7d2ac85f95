--------------------------- MODULE Verdicts_proofs ---------------------------
(***************************************************************************)
(* Proofs about the verdict script, for any directory, any answers, any    *)
(* number of threads, runs and faults.                                     *)
(***************************************************************************)
EXTENDS Verdicts, TLAPS

Mains == {"idle", "collect", "error", "errorOpen", "close", "exit"}
Tasks == Active \cup Done \cup {"none", "queued", "collected", "failed"}

TypeOK ==
    /\ run \in Nat /\ failed \in Nat
    /\ main \in Mains
    /\ task \in [Files -> Tasks]
    /\ DOMAIN answer = Files
    /\ out \in [Files -> VerdictFiles \cup {Torn, Absent}]

FromModel(r) == Mine(r) /\ out[r].by = "model"
FromError(r) == Mine(r) /\ out[r].by = "error"

\* A task that is none belongs to no run; in a run every report has a future.
TasksBelong ==
    /\ main = "idle" => task = [r \in Files |-> "none"]
    /\ Running => \A r \in Files : task[r] # "none"
    /\ main = "exit" => \/ task = [r \in Files |-> "none"] /\ code = "failure"
                        \/ \A r \in Files : task[r] # "none"

\* What a task has come to decides what is in the verdict file: an answer is
\* normalized before it is written, one that is written is of the model, and a
\* failure the main thread is done with has its error verdict.
TaskDecides ==
    \A r \in Files :
        /\ task[r] \in {"open", "write"} => answer[r] \in {"clean", "dirty", "unknown"}
        /\ task[r] \in {"ok", "collected"} => FromModel(r)
        /\ task[r] = "failed" /\ main = "collect" => FromError(r)
        /\ task[r] = "failed" /\ main \in {"error", "errorOpen"} /\ r # current => FromError(r)

\* The report the main thread is writing an error verdict for has failed.
CurrentFailed == main \in {"error", "errorOpen"} => current \in Files /\ task[current] = "failed"

\* The counter says whether anything failed.
FailedCounted == Running => (failed > 0 <=> \E r \in Files : task[r] = "failed")

\* A run that ended by itself has nothing pending, and nothing uncollected unless
\* it raised.
EndedQuietly ==
    main = "exit" /\ task # [r \in Files |-> "none"] =>
        /\ code \in {"success", "failure", "raised", "killed"}
        /\ code = "raised" => Pending = {}
        /\ code \in {"success", "failure"} =>
              /\ \A r \in Files : task[r] \in {"collected", "failed"}
              /\ \A r \in Files : task[r] = "failed" => FromError(r)
              /\ code = "failure" <=> \E r \in Files : task[r] = "failed"

\* The inductive invariant.
Inv ==
    /\ TypeOK
    /\ TasksBelong
    /\ TaskDecides
    /\ CurrentFailed
    /\ FailedCounted
    /\ EndedQuietly
-----------------------------------------------------------------------------
\* At the start there is no run, no task and no verdict file.
LEMMA InvInit == Init => Inv
  BY NoVerdictAssumption
  DEF Init, Inv, TypeOK, TasksBelong, TaskDecides, CurrentFailed, FailedCounted, EndedQuietly,
      Mains, Tasks, Running

\* What normalize_verdict returns is one of the three words of a verdict.
LEMMA Normalized ==
    ASSUME NEW w
    PROVE  NormalizeVerdict(w) \in {"clean", "dirty", "unknown"}
  BY DEF NormalizeVerdict

\* Every step keeps the invariant.
LEMMA InvStep == Inv /\ [Next]_vars => Inv'
<1> SUFFICES ASSUME Inv, [Next]_vars PROVE Inv'
  OBVIOUS
<1> USE VerdictsAssumption, NoVerdictAssumption
<1> USE DEF Inv, mainVars, Running, Alive, Active, Done, Mains, Tasks
<1>1. ASSUME NEW r \in Files, Take(r) PROVE Inv'
  <2>1. TypeOK'
    BY <1>1 DEF Take, TypeOK
  <2>2. TasksBelong'
    BY <1>1 DEF Take, TypeOK, TasksBelong
  <2>3. TaskDecides'
    BY <1>1 DEF Take, TypeOK, TasksBelong, TaskDecides, CurrentFailed, FromModel, FromError, Mine
  <2>4. CurrentFailed'
    BY <1>1 DEF Take, TypeOK, CurrentFailed
  <2>5. FailedCounted'
    BY <1>1 DEF Take, TypeOK, TasksBelong, FailedCounted
  <2>6. EndedQuietly'
    BY <1>1 DEF Take, TypeOK, TasksBelong, TaskDecides, FailedCounted, EndedQuietly, FromModel, FromError, Mine, Pending
  <2> QED BY <2>1, <2>2, <2>3, <2>4, <2>5, <2>6
<1>2. ASSUME NEW r \in Files, ReadReport(r) PROVE Inv'
  <2>1. TypeOK'
    BY <1>2 DEF ReadReport, TypeOK
  <2>2. TasksBelong'
    BY <1>2 DEF ReadReport, TypeOK, TasksBelong
  <2>3. TaskDecides'
    BY <1>2 DEF ReadReport, TypeOK, TasksBelong, TaskDecides, CurrentFailed, FromModel, FromError, Mine
  <2>4. CurrentFailed'
    BY <1>2 DEF ReadReport, TypeOK, CurrentFailed
  <2>5. FailedCounted'
    BY <1>2 DEF ReadReport, TypeOK, TasksBelong, FailedCounted
  <2>6. EndedQuietly'
    BY <1>2 DEF ReadReport, TypeOK, TasksBelong, TaskDecides, FailedCounted, EndedQuietly, FromModel, FromError, Mine, Pending
  <2> QED BY <2>1, <2>2, <2>3, <2>4, <2>5, <2>6
<1>3. ASSUME NEW r \in Files, Answered(r) PROVE Inv'
  <2>1. TypeOK'
    BY <1>3 DEF Answered, TypeOK
  <2>2. TasksBelong'
    BY <1>3 DEF Answered, TypeOK, TasksBelong
  <2>3. TaskDecides'
    BY <1>3, Normalized DEF Answered, TypeOK, TasksBelong, TaskDecides, CurrentFailed, FromModel, FromError, Mine
  <2>4. CurrentFailed'
    BY <1>3 DEF Answered, TypeOK, CurrentFailed
  <2>5. FailedCounted'
    BY <1>3 DEF Answered, TypeOK, TasksBelong, FailedCounted
  <2>6. EndedQuietly'
    BY <1>3 DEF Answered, TypeOK, TasksBelong, TaskDecides, FailedCounted, EndedQuietly, FromModel, FromError, Mine, Pending
  <2> QED BY <2>1, <2>2, <2>3, <2>4, <2>5, <2>6
<1>4. ASSUME NEW r \in Files, CallFails(r) PROVE Inv'
  <2>1. TypeOK'
    BY <1>4 DEF CallFails, TypeOK
  <2>2. TasksBelong'
    BY <1>4 DEF CallFails, TypeOK, TasksBelong
  <2>3. TaskDecides'
    BY <1>4 DEF CallFails, TypeOK, TasksBelong, TaskDecides, CurrentFailed, FromModel, FromError, Mine
  <2>4. CurrentFailed'
    BY <1>4 DEF CallFails, TypeOK, CurrentFailed
  <2>5. FailedCounted'
    BY <1>4 DEF CallFails, TypeOK, TasksBelong, FailedCounted
  <2>6. EndedQuietly'
    BY <1>4 DEF CallFails, TypeOK, TasksBelong, TaskDecides, FailedCounted, EndedQuietly, FromModel, FromError, Mine, Pending
  <2> QED BY <2>1, <2>2, <2>3, <2>4, <2>5, <2>6
<1>5. ASSUME NEW r \in Files, OpenVerdict(r) PROVE Inv'
  <2>1. TypeOK'
    BY <1>5 DEF OpenVerdict, TypeOK, Fault
  <2>2. TasksBelong'
    BY <1>5 DEF OpenVerdict, TypeOK, TasksBelong, Fault
  <2>3. TaskDecides'
    BY <1>5 DEF OpenVerdict, TypeOK, TasksBelong, TaskDecides, CurrentFailed, FromModel, FromError, Mine, Fault
  <2>4. CurrentFailed'
    BY <1>5 DEF OpenVerdict, TypeOK, CurrentFailed, Fault
  <2>5. FailedCounted'
    BY <1>5 DEF OpenVerdict, TypeOK, TasksBelong, FailedCounted, Fault
  <2>6. EndedQuietly'
    BY <1>5 DEF OpenVerdict, TypeOK, TasksBelong, TaskDecides, FailedCounted, EndedQuietly, FromModel, FromError, Mine, Pending, Fault
  <2> QED BY <2>1, <2>2, <2>3, <2>4, <2>5, <2>6
<1>6. ASSUME NEW r \in Files, WriteVerdict(r) PROVE Inv'
  <2>1. TypeOK'
    BY <1>6 DEF WriteVerdict, TypeOK, TaskDecides, VerdictFiles, Verdict, Fault
  <2>2. TasksBelong'
    BY <1>6 DEF WriteVerdict, TypeOK, TasksBelong, Fault
  <2>3. TaskDecides'
    BY <1>6 DEF WriteVerdict, TypeOK, TasksBelong, TaskDecides, CurrentFailed, FromModel, FromError, Mine, Verdict, VerdictFiles, Fault
  <2>4. CurrentFailed'
    BY <1>6 DEF WriteVerdict, TypeOK, CurrentFailed, Fault
  <2>5. FailedCounted'
    BY <1>6 DEF WriteVerdict, TypeOK, TasksBelong, FailedCounted, Fault
  <2>6. EndedQuietly'
    BY <1>6 DEF WriteVerdict, TypeOK, TasksBelong, TaskDecides, FailedCounted, EndedQuietly, FromModel, FromError, Mine, Pending, Fault
  <2> QED BY <2>1, <2>2, <2>3, <2>4, <2>5, <2>6
<1>7. ASSUME NEW r \in Files, Collect(r) PROVE Inv'
  <2>1. TypeOK'
    BY <1>7 DEF Collect, TypeOK
  <2>2. TasksBelong'
    BY <1>7 DEF Collect, TypeOK, TasksBelong
  <2>3. TaskDecides'
    BY <1>7 DEF Collect, TypeOK, TasksBelong, TaskDecides, CurrentFailed, FromModel, FromError, Mine
  <2>4. CurrentFailed'
    BY <1>7 DEF Collect, TypeOK, CurrentFailed
  <2>5. FailedCounted'
    BY <1>7 DEF Collect, TypeOK, TasksBelong, FailedCounted
  <2>6. EndedQuietly'
    BY <1>7 DEF Collect, TypeOK, TasksBelong, TaskDecides, FailedCounted, EndedQuietly, FromModel, FromError, Mine, Pending
  <2> QED BY <2>1, <2>2, <2>3, <2>4, <2>5, <2>6
<1>8. CASE StartFails
  <2>1. TypeOK'
    BY <1>8 DEF StartFails, TypeOK
  <2>2. TasksBelong'
    BY <1>8 DEF StartFails, TypeOK, TasksBelong
  <2>3. TaskDecides'
    BY <1>8 DEF StartFails, TypeOK, TasksBelong, TaskDecides, CurrentFailed, FromModel, FromError, Mine
  <2>4. CurrentFailed'
    BY <1>8 DEF StartFails, TypeOK, CurrentFailed
  <2>5. FailedCounted'
    BY <1>8 DEF StartFails, TypeOK, TasksBelong, FailedCounted
  <2>6. EndedQuietly'
    BY <1>8 DEF StartFails, TypeOK, TasksBelong, TaskDecides, FailedCounted, EndedQuietly, FromModel, FromError, Mine, Pending
  <2> QED BY <2>1, <2>2, <2>3, <2>4, <2>5, <2>6
<1>9. CASE Start
  <2>1. TypeOK'
    BY <1>9 DEF Start, TypeOK
  <2>2. TasksBelong'
    BY <1>9 DEF Start, TypeOK, TasksBelong
  <2>3. TaskDecides'
    BY <1>9 DEF Start, TypeOK, TasksBelong, TaskDecides, CurrentFailed, FromModel, FromError, Mine
  <2>4. CurrentFailed'
    BY <1>9 DEF Start, TypeOK, CurrentFailed
  <2>5. FailedCounted'
    BY <1>9 DEF Start, TypeOK, TasksBelong, FailedCounted
  <2>6. EndedQuietly'
    BY <1>9 DEF Start, TypeOK, TasksBelong, TaskDecides, FailedCounted, EndedQuietly, FromModel, FromError, Mine, Pending
  <2> QED BY <2>1, <2>2, <2>3, <2>4, <2>5, <2>6
<1>10. CASE ErrorOpen
  <2>1. TypeOK'
    BY <1>10 DEF ErrorOpen, TypeOK, Fault
  <2>2. TasksBelong'
    BY <1>10 DEF ErrorOpen, TypeOK, TasksBelong, Fault
  <2>3. TaskDecides'
    BY <1>10 DEF ErrorOpen, TypeOK, TasksBelong, TaskDecides, CurrentFailed, FromModel, FromError, Mine, Fault
  <2>4. CurrentFailed'
    BY <1>10 DEF ErrorOpen, TypeOK, CurrentFailed, Fault
  <2>5. FailedCounted'
    BY <1>10 DEF ErrorOpen, TypeOK, TasksBelong, FailedCounted, Fault
  <2>6. EndedQuietly'
    BY <1>10 DEF ErrorOpen, TypeOK, TasksBelong, TaskDecides, FailedCounted, EndedQuietly, FromModel, FromError, Mine, Pending, Fault
  <2> QED BY <2>1, <2>2, <2>3, <2>4, <2>5, <2>6
<1>11. CASE ErrorWrite
  <2>1. TypeOK'
    BY <1>11 DEF ErrorWrite, TypeOK, VerdictFiles, ErrorVerdict, Fault
  <2>2. TasksBelong'
    BY <1>11 DEF ErrorWrite, TypeOK, TasksBelong, Fault
  <2>3. TaskDecides'
    BY <1>11 DEF ErrorWrite, TypeOK, TasksBelong, TaskDecides, CurrentFailed, FromModel, FromError, Mine, ErrorVerdict, VerdictFiles, Fault
  <2>4. CurrentFailed'
    BY <1>11 DEF ErrorWrite, TypeOK, CurrentFailed, Fault
  <2>5. FailedCounted'
    BY <1>11 DEF ErrorWrite, TypeOK, TasksBelong, FailedCounted, Fault
  <2>6. EndedQuietly'
    BY <1>11 DEF ErrorWrite, TypeOK, TasksBelong, TaskDecides, FailedCounted, EndedQuietly, FromModel, FromError, Mine, Pending, Fault
  <2> QED BY <2>1, <2>2, <2>3, <2>4, <2>5, <2>6
<1>12. CASE Close
  <2>1. TypeOK'
    BY <1>12 DEF Close, TypeOK
  <2>2. TasksBelong'
    BY <1>12 DEF Close, TypeOK, TasksBelong
  <2>3. TaskDecides'
    BY <1>12 DEF Close, TypeOK, TasksBelong, TaskDecides, CurrentFailed, FromModel, FromError, Mine
  <2>4. CurrentFailed'
    BY <1>12 DEF Close, TypeOK, CurrentFailed
  <2>5. FailedCounted'
    BY <1>12 DEF Close, TypeOK, TasksBelong, FailedCounted
  <2>6. EndedQuietly'
    BY <1>12 DEF Close, TypeOK, TasksBelong, TaskDecides, FailedCounted, EndedQuietly, FromModel, FromError, Mine, Pending
  <2> QED BY <2>1, <2>2, <2>3, <2>4, <2>5, <2>6
<1>13. CASE Finish
  <2>1. TypeOK'
    BY <1>13 DEF Finish, TypeOK
  <2>2. TasksBelong'
    BY <1>13 DEF Finish, TypeOK, TasksBelong
  <2>3. TaskDecides'
    BY <1>13 DEF Finish, TypeOK, TasksBelong, TaskDecides, CurrentFailed, FromModel, FromError, Mine
  <2>4. CurrentFailed'
    BY <1>13 DEF Finish, TypeOK, CurrentFailed
  <2>5. FailedCounted'
    BY <1>13 DEF Finish, TypeOK, TasksBelong, FailedCounted
  <2>6. EndedQuietly'
    BY <1>13 DEF Finish, TypeOK, TasksBelong, TaskDecides, FailedCounted, EndedQuietly, FromModel, FromError, Mine, Pending
  <2> QED BY <2>1, <2>2, <2>3, <2>4, <2>5, <2>6
<1>14. CASE Kill
  <2>1. TypeOK'
    BY <1>14 DEF Kill, TypeOK, Fault
  <2>2. TasksBelong'
    BY <1>14 DEF Kill, TypeOK, TasksBelong, Fault
  <2>3. TaskDecides'
    BY <1>14 DEF Kill, TypeOK, TasksBelong, TaskDecides, CurrentFailed, FromModel, FromError, Mine, Fault
  <2>4. CurrentFailed'
    BY <1>14 DEF Kill, TypeOK, CurrentFailed, Fault
  <2>5. FailedCounted'
    BY <1>14 DEF Kill, TypeOK, TasksBelong, FailedCounted, Fault
  <2>6. EndedQuietly'
    BY <1>14 DEF Kill, TypeOK, TasksBelong, TaskDecides, FailedCounted, EndedQuietly, FromModel, FromError, Mine, Pending, Fault
  <2> QED BY <2>1, <2>2, <2>3, <2>4, <2>5, <2>6
<1>15. CASE Again
  <2>1. TypeOK'
    BY <1>15 DEF Again, TypeOK
  <2>2. TasksBelong'
    BY <1>15 DEF Again, TypeOK, TasksBelong
  <2>3. TaskDecides'
    BY <1>15 DEF Again, TypeOK, TasksBelong, TaskDecides, CurrentFailed, FromModel, FromError, Mine
  <2>4. CurrentFailed'
    BY <1>15 DEF Again, TypeOK, CurrentFailed
  <2>5. FailedCounted'
    BY <1>15 DEF Again, TypeOK, TasksBelong, FailedCounted
  <2>6. EndedQuietly'
    BY <1>15 DEF Again, TypeOK, TasksBelong, TaskDecides, FailedCounted, EndedQuietly, FromModel, FromError, Mine, Pending
  <2> QED BY <2>1, <2>2, <2>3, <2>4, <2>5, <2>6
<1>16. CASE UNCHANGED vars
  BY <1>16 DEF vars, Inv, TypeOK, TasksBelong, TaskDecides, CurrentFailed, FailedCounted, EndedQuietly, FromModel, FromError, Mine, Pending
<1> QED
  BY <1>1, <1>2, <1>3, <1>4, <1>5, <1>6, <1>7, <1>8, <1>9, <1>10, <1>11, <1>12, <1>13, <1>14, <1>15, <1>16 DEF Next, EvalOne, Main

\* What a run that ended leaves follows from what its tasks have come to.
LEMMA InvTells == Inv => EveryReportHasItsVerdict /\ RaiseCostsOnlyFailures
<1> SUFFICES ASSUME Inv PROVE EveryReportHasItsVerdict /\ RaiseCostsOnlyFailures
  OBVIOUS
<1> USE DEF Inv, FromModel, FromError
<1>1. EveryReportHasItsVerdict
  <2> SUFFICES ASSUME Evaluated, code \in {"success", "failure"}
               PROVE  /\ \A r \in Files : Mine(r)
                      /\ code = "success" <=> \A r \in Files : out[r].by = "model"
    BY DEF EveryReportHasItsVerdict
  <2>1. /\ \A r \in Files : task[r] \in {"collected", "failed"}
        /\ \A r \in Files : task[r] = "failed" => FromError(r)
        /\ code = "failure" <=> \E r \in Files : task[r] = "failed"
    BY DEF Evaluated, EndedQuietly
  <2>2. \A r \in Files : task[r] = "collected" => FromModel(r)
    BY DEF TaskDecides
  <2>3. \A r \in Files : Mine(r)
    BY <2>1, <2>2
  <2>4. code = "success" <=> \A r \in Files : out[r].by = "model"
    BY <2>1, <2>2
  <2> QED BY <2>3, <2>4
<1>2. RaiseCostsOnlyFailures
  BY DEF RaiseCostsOnlyFailures, Evaluated, EndedQuietly, TasksBelong, TaskDecides, TypeOK,
         Tasks, Pending, Active, Done
<1> QED BY <1>1, <1>2

\* The types of the variables, for any directory and any number of threads, runs and faults.
THEOREM TypeCorrect == Spec => []TypeOK
<1>1. Inv => TypeOK
  BY DEF Inv
<1> QED BY <1>1, InvInit, InvStep, PTL DEF Spec

\* A run of eval.py that comes to its end has written a verdict for every report, and exits
\* with 0 exactly if the model answered for all: for any directory, whatever fails, and with
\* any number of threads.
THEOREM EveryReportJudged == Spec => []EveryReportHasItsVerdict
  BY InvInit, InvStep, InvTells, PTL DEF Spec

\* A run that raises because an error verdict could not be written has kept every verdict the
\* model gave, and left no request unfinished: the pool is shut down before main is left.
THEOREM RaiseLosesNoAnswer == Spec => []RaiseCostsOnlyFailures
  BY InvInit, InvStep, InvTells, PTL DEF Spec
=============================================================================

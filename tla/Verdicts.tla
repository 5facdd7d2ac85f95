------------------------------- MODULE Verdicts -------------------------------
(***************************************************************************)
(* scripts/eval.py with passes/llm_verdict.py and llm/provider.py: one     *)
(* request to a language model for each JSON file of a directory, by a     *)
(* pool of Jobs threads, and one verdict file for each, an error verdict   *)
(* where anything failed.  The script is run again over the same output    *)
(* directory; it may be killed, and writes may fail.                       *)
(*                                                                         *)
(* The text of the model's answer is abstracted to where in it an object   *)
(* is found; the object to its verdict word.                               *)
(***************************************************************************)
EXTENDS Integers, FiniteSets

CONSTANTS
    Files,      \* the *.json files of the directory, *.verdict.json left out
    Documents,  \* those that hold a JSON object
    Texts,      \* message texts: [whole, braces, fence], see AnswerIn
    Words,      \* values of the answer's "verdict"
    Lower,      \* str.lower on Words
    Jobs,       \* --jobs, at least 1
    MaxRuns, MaxFaults,
    None, Torn, Absent

ASSUME VerdictsAssumption ==
    /\ Documents \subseteq Files
    /\ Jobs \in Nat \ {0} /\ MaxRuns \in Nat /\ MaxFaults \in Nat
    /\ DOMAIN Lower = Words

\* What a verdict file can hold once it is written.
VerdictFiles == [run : Nat, by : {"model", "error"}, verdict : {"clean", "dirty", "unknown"}]
ASSUME NoVerdictAssumption == Torn \notin VerdictFiles /\ Absent \notin VerdictFiles

VARIABLES
    run, faults,    \* runs started and faults spent
    main,           \* "idle", "collect", "error", "errorOpen", "close", "exit"
    code,           \* how the last run ended: 0 ("success"), 1 ("failure"), by an exception or a kill
    failed,         \* the counter of main
    current,        \* the report whose error verdict is being written
    task,           \* each report's future and where its eval_one is
    answer,         \* the normalized verdict of the answer to each report
    out             \* each report's verdict file

mainVars == <<main, code, failed, current>>
vars == <<run, faults, mainVars, task, answer, out>>

Active == {"read", "call", "open", "write"}
Done == {"ok", "raised"}

Verdict(v) == [run |-> run, by |-> "model", verdict |-> v]
ErrorVerdict == [run |-> run, by |-> "error", verdict |-> "unknown"]

Init ==
    /\ run = 0 /\ faults = 0
    /\ main = "idle" /\ code = None /\ failed = 0 /\ current = None
    /\ task = [r \in Files |-> "none"]
    /\ answer = [r \in Files |-> None]
    /\ out = [r \in Files |-> Absent]

-----------------------------------------------------------------------------
(* The answer. *)

\* json.loads, and then json.loads from the first to the last brace.
InBraces(t) == IF t.whole # "bad" THEN t.whole ELSE t.braces

\* _parse_json_text takes the text as it is; analyze_llm_verdict falls back on
\* parse_model_json, which looks inside a code fence first.
AnswerIn(t) ==
    \/ InBraces(t) = "object"
    \/ InBraces(IF t.fence = None THEN t ELSE t.fence) = "object"

\* normalize_verdict
NormalizeVerdict(w) ==
    IF Lower[w] = "suspicious" THEN "dirty"
    ELSE IF Lower[w] \in {"clean", "dirty", "unknown"} THEN Lower[w] ELSE "unknown"

-----------------------------------------------------------------------------
(* A thread of the pool: eval_one. *)

Fault == faults < MaxFaults /\ faults' = faults + 1
Running == main \in {"collect", "error", "errorOpen", "close"}
\* Threads do not stop because main ended, only because the process was killed.
Alive == main # "idle" /\ code # "killed"

\* The pool takes a report off its queue.
Take(r) ==
    /\ Alive /\ task[r] = "queued"
    /\ Cardinality({q \in Files : task[q] \in Active}) < Jobs
    /\ task' = [task EXCEPT ![r] = "read"]
    /\ UNCHANGED <<run, faults, mainVars, answer, out>>

\* The report is read and projected; what is no object raises.
ReadReport(r) ==
    /\ Alive /\ task[r] = "read"
    /\ task' = [task EXCEPT ![r] = IF r \in Documents THEN "call" ELSE "raised"]
    /\ UNCHANGED <<run, faults, mainVars, answer, out>>

\* complete_json returns a text, with an object in it or not.
Answered(r) ==
    /\ Alive /\ task[r] = "call"
    /\ \E t \in Texts, w \in Words :
        IF AnswerIn(t)
        THEN /\ task' = [task EXCEPT ![r] = "open"]
             /\ answer' = [answer EXCEPT ![r] = NormalizeVerdict(w)]
        ELSE task' = [task EXCEPT ![r] = "raised"] /\ UNCHANGED answer
    /\ UNCHANGED <<run, faults, mainVars, out>>

\* The request fails or times out, or the response is no JSON object.
CallFails(r) ==
    /\ Alive /\ task[r] = "call"
    /\ task' = [task EXCEPT ![r] = "raised"]
    /\ UNCHANGED <<run, faults, mainVars, answer, out>>

\* write_text truncates, then writes: both may fail.
OpenVerdict(r) ==
    /\ Alive /\ task[r] = "open"
    /\ \/ /\ task' = [task EXCEPT ![r] = "write"] /\ out' = [out EXCEPT ![r] = Torn]
          /\ UNCHANGED faults
       \/ Fault /\ task' = [task EXCEPT ![r] = "raised"] /\ UNCHANGED out
    /\ UNCHANGED <<run, mainVars, answer>>

WriteVerdict(r) ==
    /\ Alive /\ task[r] = "write"
    /\ \/ /\ task' = [task EXCEPT ![r] = "ok"]
          /\ out' = [out EXCEPT ![r] = Verdict(answer[r])]
          /\ UNCHANGED faults
       \/ Fault /\ task' = [task EXCEPT ![r] = "raised"] /\ UNCHANGED out
    /\ UNCHANGED <<run, mainVars, answer>>

-----------------------------------------------------------------------------
(* The main thread. *)

\* An empty directory, or a key that is missing, ends the run at once.
StartFails ==
    /\ main = "idle" /\ run < MaxRuns
    /\ run' = run + 1
    /\ main' = "exit" /\ code' = "failure"
    /\ UNCHANGED <<faults, failed, current, task, answer, out>>

Start ==
    /\ main = "idle" /\ run < MaxRuns /\ Files # {}
    /\ run' = run + 1
    /\ main' = "collect" /\ code' = None /\ failed' = 0
    /\ task' = [r \in Files |-> "queued"]
    /\ answer' = [r \in Files |-> None]
    /\ UNCHANGED <<faults, current, out>>

\* Mutant: as if a future that raised were never handed over.
CollectAnswered(r) ==
    /\ main = "collect" /\ task[r] = "ok"
    /\ task' = [task EXCEPT ![r] = "collected"]
    /\ UNCHANGED <<run, faults, mainVars, answer, out>>

\* as_completed hands over a future; one that raised is counted and gets an
\* error verdict.
Collect(r) ==
    /\ main = "collect" /\ task[r] \in Done
    /\ IF task[r] = "ok" THEN UNCHANGED <<main, failed, current>>
       ELSE main' = "error" /\ failed' = failed + 1 /\ current' = r
    /\ task' = [task EXCEPT ![r] = IF @ = "ok" THEN "collected" ELSE "failed"]
    /\ UNCHANGED <<run, faults, code, answer, out>>

\* A failure of write_error_verdict leaves the loop; the pool is shut down
\* before the exception leaves main.
ErrorOpen ==
    /\ main = "error"
    /\ \/ main' = "errorOpen" /\ out' = [out EXCEPT ![current] = Torn] /\ UNCHANGED faults
       \/ Fault /\ main' = "close" /\ UNCHANGED out
    /\ UNCHANGED <<run, code, failed, current, task, answer>>

ErrorWrite ==
    /\ main = "errorOpen"
    /\ \/ /\ main' = "collect" /\ out' = [out EXCEPT ![current] = ErrorVerdict]
          /\ UNCHANGED faults
       \/ Fault /\ main' = "close" /\ UNCHANGED out
    /\ UNCHANGED <<run, code, failed, current, task, answer>>

Pending == {r \in Files : task[r] \in Active \cup {"queued"}}

\* Mutant: as if the queue were dropped when main raises.
CloseNow ==
    /\ main = "close" /\ {r \in Files : task[r] \in Active} = {}
    /\ main' = "exit" /\ code' = "raised" /\ current' = None
    /\ UNCHANGED <<run, faults, failed, task, answer, out>>

\* shutdown(wait=True): what is queued runs, what runs is waited for.
Close ==
    /\ main = "close" /\ Pending = {}
    /\ main' = "exit" /\ code' = "raised" /\ current' = None
    /\ UNCHANGED <<run, faults, failed, task, answer, out>>

\* Mutant: as if only a run without any verdict had failed.
FinishIfAny ==
    /\ main = "collect" /\ \A r \in Files : task[r] \in {"collected", "failed"}
    /\ main' = "exit" /\ code' = (IF failed = Cardinality(Files) THEN "failure" ELSE "success")
    /\ current' = None
    /\ UNCHANGED <<run, faults, failed, task, answer, out>>

Finish ==
    /\ main = "collect" /\ \A r \in Files : task[r] \in {"collected", "failed"}
    /\ main' = "exit" /\ code' = (IF failed > 0 THEN "failure" ELSE "success")
    /\ current' = None
    /\ UNCHANGED <<run, faults, failed, task, answer, out>>

\* A kill ends every thread where it is.
Kill ==
    /\ Running /\ Fault
    /\ main' = "exit" /\ code' = "killed" /\ current' = None
    /\ UNCHANGED <<run, failed, task, answer, out>>

Again ==
    /\ main = "exit" /\ main' = "idle"
    /\ code = "killed" \/ Pending = {}
    /\ task' = [r \in Files |-> "none"]
    /\ UNCHANGED <<run, faults, code, failed, current, answer, out>>

EvalOne(r) ==
    Take(r) \/ ReadReport(r) \/ Answered(r) \/ CallFails(r) \/ OpenVerdict(r) \/ WriteVerdict(r)
Main == (\E r \in Files : Collect(r)) \/ ErrorOpen \/ ErrorWrite \/ Close \/ Finish

Next ==
    \/ \E r \in Files : EvalOne(r)
    \/ Main \/ StartFails \/ Start \/ Kill \/ Again

\* requests.post ends by its timeout; threads are not held up.
Fairness == WF_vars(Main) /\ \A r \in Files : WF_vars(EvalOne(r))
Spec == Init /\ [][Next]_vars /\ Fairness

-----------------------------------------------------------------------------
(* Properties. *)

Mine(r) == out[r] \notin {Absent, Torn} /\ out[r].run = run
Evaluated == main = "exit" /\ task # [r \in Files |-> "none"]

\* docs/llm-and-eval.md promises a verdict file for every analysis: a run that
\* comes to its end leaves a whole one of this run for each, whatever failed, and
\* exits with 0 exactly if the model answered for all of them.
EveryReportHasItsVerdict ==
    Evaluated /\ code \in {"success", "failure"} =>
        /\ \A r \in Files : Mine(r)
        /\ code = "success" <=> \A r \in Files : out[r].by = "model"

\* A run that raises, because an error verdict cannot be written, still finishes
\* every request it had queued: only reports that failed are without a verdict of
\* this run.
RaiseCostsOnlyFailures ==
    Evaluated /\ code = "raised" =>
        \A r \in Files :
            /\ task[r] \in Done \cup {"collected", "failed"}
            /\ task[r] \in {"ok", "collected"} => Mine(r) /\ out[r].by = "model"

\* Every run ends, by itself or by a kill.
EvalReturns == (main = "collect") ~> (main = "exit")
=============================================================================

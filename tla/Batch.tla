-------------------------------- MODULE Batch --------------------------------
(***************************************************************************)
(* gobbler/cli.py `batch`: one driver process that hands the sorted list   *)
(* of binaries to at most `jobs` worker threads.  A thread checks the      *)
(* reports already on disk, runs the analysis (in the driver itself when   *)
(* jobs = 1 and there is no timeout, else in a child process) and returns  *)
(* a record.  When every record is in, the driver writes batch_report.*    *)
(* and, if something was processed, feature_index.*                        *)
(*                                                                         *)
(* The driver may be killed anywhere and the batch started again with      *)
(* other options.  Children of a killed driver live on.  Each analysis is  *)
(* a writer of PairWriter.                                                 *)
(***************************************************************************)
EXTENDS PairWriter, Sequences, Naturals

CONSTANTS
    Queue,      \* sorted(directory.glob(pattern))[:limit], the same in every run
    MaxRuns,    \* bound on the number of times the batch is started
    MaxFaults,  \* bound on failed system calls, killed children and driver crashes
    MayCrash,   \* whether the driver itself may be killed
    Options     \* the command lines of every run: sets of [skip, noIndex, timeout, jobs, profile]

Binaries == {Queue[i] : i \in DOMAIN Queue}
RunIds == 1..MaxRuns

ASSUME BatchAssumption ==
    /\ Writers = Binaries \X RunIds
    /\ \A b \in Binaries : \A r, q \in RunIds : StemOf[<<b, r>>] = StemOf[<<b, q>>]
    /\ MaxRuns \in Nat /\ MayCrash \in BOOLEAN
    /\ \A r \in RunIds :
          Options[r] \subseteq [skip : BOOLEAN, noIndex : BOOLEAN, timeout : BOOLEAN,
                                jobs : Nat \ {0}, profile : {"full", "evaluator"}]

VARIABLES
    run,        \* number of the current run, 0 before the first
    opts,       \* the options of every run so far
    phase,      \* where the driver's main thread is
    task,       \* what the pool does for each binary
    record,     \* status of the record returned for each binary
    report,     \* batch_report.json and batch_report.txt
    index,      \* feature_index.json and feature_index.txt
    scan,       \* what build_feature_index has read so far
    faults      \* how many faults there were

poolVars == <<task, record>>
outVars == <<report, index, scan>>
batchVars == <<writerVars, run, opts, phase, poolVars, outVars, faults>>

Phases == {"idle", "work", "reportJson", "reportJsonFlush", "reportTxt", "reportTxtFlush",
           "decideIndex", "scan", "indexJson", "indexJsonFlush", "indexTxt",
           "indexTxtFlush", "exited", "crashed"}
Exts == {"json", "txt"}

StemOfBinary(b) == StemOf[<<b, 1>>]
Opt == opts[run]
Attempt(b) == <<b, run>>
Recorded(o) == {b \in Binaries : record[b] = o}
Active == {b \in Binaries : task[b] \in {"launch", "wait"}}
InProcess == Opt.jobs = 1 /\ ~Opt.timeout

BatchInit ==
    /\ WriterInit
    /\ run = 0
    /\ opts = <<>>
    /\ phase = "idle"
    /\ task = [b \in Binaries |-> "queued"]
    /\ record = [b \in Binaries |-> "none"]
    /\ report = [x \in Exts |-> [run |-> 0, whole |-> TRUE, records |-> record]]
    /\ index = [x \in Exts |-> [run |-> 0, whole |-> TRUE, samples |-> [s \in {} |-> None]]]
    /\ scan = [s \in {} |-> None]
    /\ faults = 0
-----------------------------------------------------------------------------
(* The driver starts the batch. *)
StartBatch(o) ==
    /\ phase \in {"idle", "exited", "crashed"}
    /\ run < MaxRuns
    /\ run' = run + 1
    /\ o \in Options[run']
    /\ opts' = Append(opts, o)
    /\ phase' = "work"
    /\ task' = [b \in Binaries |-> "queued"]
    /\ record' = [b \in Binaries |-> "none"]
    /\ scan' = [s \in {} |-> None]
    /\ UNCHANGED <<writerVars, report, index, faults>>

\* existing_analysis_status.  The reads are separate system calls, but a report
\* never disappears and is never torn, so the first read that fails, or the
\* last one, gives the answer a single look would give.
ExistingStatus(s) ==
    CASE json[s] = NoFile /\ text[s] = NoFile -> "missing"
      [] json[s] = NoFile /\ text[s] # NoFile -> "missing_json"
      [] json[s] # NoFile /\ text[s] = NoFile -> "missing_text"
      [] json[s] # NoFile /\ text[s] # NoFile /\ ~json[s].whole -> "invalid_json"
      [] json[s] # NoFile /\ text[s] # NoFile /\ json[s].whole /\ ~text[s].whole -> "empty_text"
      [] OTHER -> "valid"

Fault == faults < MaxFaults /\ faults' = faults + 1

Return(b, outcome) ==
    /\ task' = [task EXCEPT ![b] = "done"]
    /\ record' = [record EXCEPT ![b] = outcome]

\* A free thread takes the next task of the pool's FIFO queue; the sequential
\* loop (jobs = 1) is the same with one thread.
Takes(i) ==
    /\ phase = "work"
    /\ task[Queue[i]] = "queued"
    /\ \A j \in 1..(i - 1) : task[Queue[j]] # "queued"
    /\ Cardinality(Active) < Opt.jobs

SkipExisting(i) ==
    /\ Takes(i)
    /\ Opt.skip
    /\ ExistingStatus(StemOfBinary(Queue[i])) = "valid"
    /\ Return(Queue[i], "skipped_existing")
    /\ UNCHANGED <<writerVars, run, opts, phase, outVars, faults>>

\* Mutant: every binary is analysed again.
TakeAnyTask(i) ==
    /\ Takes(i)
    /\ task' = [task EXCEPT ![Queue[i]] = "launch"]
    /\ UNCHANGED <<writerVars, run, opts, phase, record, outVars, faults>>

TakeTask(i) ==
    /\ Takes(i)
    /\ Opt.skip => ExistingStatus(StemOfBinary(Queue[i])) # "valid"
    /\ task' = [task EXCEPT ![Queue[i]] = "launch"]
    /\ UNCHANGED <<writerVars, run, opts, phase, record, outVars, faults>>

\* run_analyze_subprocess spawns the child, or the analysis begins in place.
Launch(b) ==
    /\ phase = "work"
    /\ task[b] = "launch"
    /\ Begin(Attempt(b))
    /\ task' = [task EXCEPT ![b] = "wait"]
    /\ UNCHANGED <<run, opts, phase, record, outVars, faults>>

\* Mutant: the exit code of the child is not looked at (check=False alone).
CollectUnchecked(b) ==
    /\ phase = "work"
    /\ task[b] = "wait"
    /\ status[Attempt(b)] \in {"ok", "failed", "killed"}
    /\ Return(b, "processed")
    /\ UNCHANGED <<writerVars, run, opts, phase, outVars, faults>>

\* Mutant: only a success is collected.
CollectSuccess(b) ==
    /\ phase = "work"
    /\ task[b] = "wait"
    /\ status[Attempt(b)] = "ok"
    /\ Return(b, "processed")
    /\ UNCHANGED <<writerVars, run, opts, phase, outVars, faults>>

\* The analysis returned, raised, or its process ended with a non-zero code.
Collect(b) ==
    /\ phase = "work"
    /\ task[b] = "wait"
    /\ status[Attempt(b)] \in {"ok", "failed", "killed"}
    /\ Return(b, IF status[Attempt(b)] = "ok" THEN "processed" ELSE "failed")
    /\ UNCHANGED <<writerVars, run, opts, phase, outVars, faults>>

\* Mutant: the timed out child is not killed.
TimeOutLeavingChild(b) ==
    /\ phase = "work"
    /\ task[b] = "wait"
    /\ Opt.timeout
    /\ Return(b, "timeout")
    /\ UNCHANGED <<writerVars, run, opts, phase, outVars, faults>>

\* subprocess.run raises TimeoutExpired: it kills the child, unless the child
\* has just ended, and waits for it.
TimeOut(b) ==
    /\ phase = "work"
    /\ task[b] = "wait"
    /\ Opt.timeout
    /\ Return(b, "timeout")
    /\ \/ Kill(Attempt(b))
       \/ status[Attempt(b)] # "running" /\ UNCHANGED writerVars
    /\ UNCHANGED <<run, opts, phase, outVars, faults>>

\* Something else (the out-of-memory killer) ends a child process.
ChildKilled(w) ==
    /\ w[2] <= run
    /\ ~ (opts[w[2]].jobs = 1 /\ ~opts[w[2]].timeout)
    /\ Kill(w)
    /\ Fault
    /\ UNCHANGED <<run, opts, phase, poolVars, outVars>>

AnalysisStep(w) ==
    /\ WriterStep(w)
    /\ IF SystemCallFails(w) THEN Fault ELSE UNCHANGED faults
    /\ UNCHANGED <<run, opts, phase, poolVars, outVars>>
-----------------------------------------------------------------------------
(* After the pool: the driver's main thread writes the report and the index. *)

Main(from, to) ==
    /\ phase = from
    /\ phase' = to
    /\ UNCHANGED <<writerVars, run, opts, poolVars, faults>>

\* Mutant: the report is written as soon as one record is in.
PoolDoneEarly ==
    /\ \E b \in Binaries : task[b] = "done"
    /\ Main("work", "reportJson")
    /\ UNCHANGED outVars

\* Leaving the executor's with block waits for every task.
PoolDone ==
    /\ \A b \in Binaries : task[b] = "done"
    /\ Main("work", "reportJson")
    /\ UNCHANGED outVars

\* Path.write_text of an output file: open truncates it, close completes it.
OpenReport(x, from, to) ==
    /\ Main(from, to)
    /\ report' = [report EXCEPT ![x].whole = FALSE]
    /\ UNCHANGED <<index, scan>>

CloseReport(x, from, to) ==
    /\ Main(from, to)
    /\ report' = [report EXCEPT ![x] = [run |-> run, whole |-> TRUE, records |-> record]]
    /\ UNCHANGED <<index, scan>>

WriteBatchReport ==
    \/ OpenReport("json", "reportJson", "reportJsonFlush")
    \/ CloseReport("json", "reportJsonFlush", "reportTxt")
    \/ OpenReport("txt", "reportTxt", "reportTxtFlush")
    \/ CloseReport("txt", "reportTxtFlush", "decideIndex")

\* Mutant: the index is refreshed only by a batch without failures.
DecideIndexIfAllWell ==
    /\ Main("decideIndex",
            IF Recorded("processed") = Binaries /\ ~Opt.noIndex THEN "scan" ELSE "exited")
    /\ UNCHANGED outVars

\* `if processed and not args.no_index`.
DecideIndex ==
    /\ Main("decideIndex",
            IF Recorded("processed") # {} /\ ~Opt.noIndex THEN "scan" ELSE "exited")
    /\ UNCHANGED outVars

\* What build_feature_index makes of one report: a document that does not parse
\* is skipped, and one without "semantic_analysis" yields no feature, hence no
\* sample.  Every analysed binary is taken to exhibit some feature.
Indexed(s) ==
    IF json[s] # NoFile /\ json[s].whole /\ opts[json[s].by[2]].profile = "full"
    THEN json[s].by ELSE None

\* build_feature_index reads the reports one after the other.
ScanReport(s) ==
    /\ s \notin DOMAIN scan
    /\ Main("scan", IF DOMAIN scan \cup {s} = Stems THEN "indexJson" ELSE "scan")
    /\ scan' = [t \in DOMAIN scan \cup {s} |-> IF t = s THEN Indexed(s) ELSE scan[t]]
    /\ UNCHANGED <<report, index>>

OpenIndex(x, from, to) ==
    /\ Main(from, to)
    /\ index' = [index EXCEPT ![x].whole = FALSE]
    /\ UNCHANGED <<report, scan>>

CloseIndex(x, from, to) ==
    /\ Main(from, to)
    /\ index' = [index EXCEPT ![x] = [run |-> run, whole |-> TRUE, samples |-> scan]]
    /\ UNCHANGED <<report, scan>>

WriteFeatureIndex ==
    \/ \E s \in Stems : ScanReport(s)
    \/ OpenIndex("json", "indexJson", "indexJsonFlush")
    \/ CloseIndex("json", "indexJsonFlush", "indexTxt")
    \/ OpenIndex("txt", "indexTxt", "indexTxtFlush")
    \/ CloseIndex("txt", "indexTxtFlush", "exited")

MainStep == PoolDone \/ WriteBatchReport \/ DecideIndex \/ WriteFeatureIndex

\* The driver dies (killed, or an OSError of its own): an analysis running in
\* the driver dies with it, the children of a pool do not.
DriverCrash ==
    /\ phase \notin {"idle", "exited", "crashed"}
    /\ MayCrash
    /\ Fault
    /\ phase' = "crashed"
    /\ IF InProcess /\ \E b \in Binaries : status[Attempt(b)] = "running"
       THEN \E b \in Binaries : Kill(Attempt(b))
       ELSE UNCHANGED writerVars
    /\ UNCHANGED <<run, opts, poolVars, outVars>>

BatchNext ==
    \/ \E o \in UNION {Options[r] : r \in RunIds} : StartBatch(o)
    \/ \E i \in DOMAIN Queue : SkipExisting(i) \/ TakeTask(i)
    \/ \E b \in Binaries : Launch(b) \/ Collect(b) \/ TimeOut(b)
    \/ \E w \in Writers : AnalysisStep(w) \/ ChildKilled(w)
    \/ MainStep
    \/ DriverCrash

BatchSpec == BatchInit /\ [][BatchNext]_batchVars

\* A child without a timeout is given the time it needs (GoReSym has a timeout
\* of its own and the passes terminate); one with a timeout may hang.
UntimedStep(w) == w[2] <= run /\ ~opts[w[2]].timeout /\ AnalysisStep(w)

BatchFairness ==
    /\ WF_batchVars(MainStep)
    /\ \A i \in DOMAIN Queue : WF_batchVars(SkipExisting(i) \/ TakeTask(i))
    /\ \A b \in Binaries : WF_batchVars(Launch(b)) /\ WF_batchVars(Collect(b) \/ TimeOut(b))
    /\ \A w \in Writers : WF_batchVars(UntimedStep(w))

FairBatchSpec == BatchSpec /\ BatchFairness
-----------------------------------------------------------------------------
(***************************************************************************)
(* Safety and liveness.                                                    *)
(***************************************************************************)

\* A batch is a legal caller of the report writer: what it makes its analyses
\* do is a behaviour of PairWriter.  Where Serial is TRUE this includes that
\* two analyses of one stem never overlap, across threads, timeouts and runs.
UsesPairWriter == WriterSpec

\* When the batch command returns, both batch reports are whole, are of this
\* run and hold an outcome of every sample.  One said to be processed has the
\* reports of this very run; one said to be skipped has a complete pair, no
\* part of which was written for it in this run.  A sample that failed or
\* timed out may have old reports, new ones, or one of each.
ReportIsTrue ==
    phase = "exited" =>
        /\ \A x \in Exts : report[x] = [run |-> run, whole |-> TRUE, records |-> record]
        /\ \A b \in Binaries : record[b] # "none"
        /\ \A b \in Recorded("processed") :
              json[StemOfBinary(b)].by = Attempt(b) /\ text[StemOfBinary(b)].by = Attempt(b)
        /\ \A b \in Recorded("skipped_existing") :
              /\ ExistingStatus(StemOfBinary(b)) = "valid"
              /\ json[StemOfBinary(b)].by # Attempt(b) /\ text[StemOfBinary(b)].by # Attempt(b)

\* Whatever crashed before and whatever is left running, a sample the driver
\* calls processed or skipped has a complete JSON and a complete text report.
RecordsAreBacked ==
    \A b \in Recorded("processed") \cup Recorded("skipped_existing") :
        ExistingStatus(StemOfBinary(b)) = "valid"

\* A batch that returned after processing something leaves both index files
\* whole and in step with every report in the directory.
IndexIsCurrent ==
    phase = "exited" /\ Recorded("processed") # {} /\ ~Opt.noIndex =>
        \A x \in Exts : index[x] = [run |-> run, whole |-> TRUE,
                                   samples |-> [s \in Stems |-> Indexed(s)]]

\* --skip-existing never touches a pair that is complete.
SkipKeepsPairs ==
    [][\A s \in Stems :
         run > 0 /\ run' = run /\ Opt.skip /\ ExistingStatus(s) = "valid" =>
             json'[s] = json[s] /\ text'[s] = text[s]]_batchVars

\* A batch that is started returns, unless the driver is killed: a child that
\* hangs is ended by --timeout, and one that fails does not hold up the pool.
BatchReturns == phase = "work" ~> phase \in {"exited", "crashed"}
=============================================================================

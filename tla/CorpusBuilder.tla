---------------------------- MODULE CorpusBuilder ----------------------------
(***************************************************************************)
(* scripts/clean_corpus_builder.py: one process that goes through the      *)
(* providers (synthetic, gomod, gobinaries), puts one binary per           *)
(* configured item under the output directory and then merges a record of  *)
(* each into manifest.jsonl.  With --jobs the gomod items are built by a   *)
(* thread pool, whose results the main thread collects as they complete;   *)
(* --target-count ends the collection early.  The tool is run again and    *)
(* again on one directory, with and without --force, and may be killed:    *)
(* what go has been asked to build then goes on, and may write its output  *)
(* while a later run is at work.                                           *)
(* The paths of the configured items are distinct.                         *)
(***************************************************************************)
EXTENDS Sequences, Naturals, FiniteSets

CONSTANTS
    Queue,      \* the output paths of each provider's items, after --limit
    Pooled,     \* the position of gomod in Queue
    Fetched,    \* the position of gobinaries in Queue
    NoFile,     \* no binary at a path
    Options,    \* command lines of every run: [force, jobs, target, refresh]
    MaxRuns,    \* bound on the number of runs
    MaxFaults   \* bound on timeouts, failed writes and kills

Providers == DOMAIN Queue
ItemsOf(i) == {Queue[i][k] : k \in DOMAIN Queue[i]}
Paths == UNION {ItemsOf(i) : i \in Providers}
RunIds == 1..MaxRuns

ASSUME CorpusAssumption ==
    /\ Providers = 1..Len(Queue)
    /\ \A i, j \in Providers : i # j => ItemsOf(i) \cap ItemsOf(j) = {}
    /\ Pooled \in Providers /\ Fetched \in Providers
    /\ MaxRuns \in Nat /\ MaxFaults \in Nat
    /\ \A r \in RunIds : Options[r] \subseteq
          [force : BOOLEAN, jobs : Nat \ {0}, target : Nat, refresh : BOOLEAN]

VARIABLES
    disk,       \* the binary at each path: by which run, and whether whole
    manifest,   \* manifest.jsonl: path -> the binary its record describes
    run,        \* number of the current run
    opt,        \* its options
    phase,      \* where the main thread is
    at,         \* the provider it is working on
    item,       \* what has become of each item in this run
    records,    \* records collected by this run
    rendered,   \* what write_manifest is writing
    orphans,    \* go builds that killed runs have left, until they are over and a run starts
    cut,        \* runs that left a binary without recording it (history)
    wiped,      \* a run was killed while it wrote the manifest (history)
    faults      \* how many faults there were

main == <<run, opt, at>>
history == <<cut, wiped, faults>>
vars == <<disk, manifest, main, phase, item, records, rendered, orphans, history>>

Phases == {"idle", "build", "drain", "unwind", "open", "write", "done", "failed", "killed"}
Ended == {"idle", "done", "failed", "killed"}
Busy == {"building", "writing"}
Results == {"ok", "none", "raised"}
Binary == [by : RunIds, whole : BOOLEAN]

\* go build -o writes a synthetic binary itself.  The script copies what go
\* install has put into the cache, and writes what it has downloaded.
Direct == Paths \ (ItemsOf(Pooled) \cup ItemsOf(Fetched))
Orphan == [path : Direct, by : RunIds, stage : {"building", "writing", "ended"}]
Nothing == [p \in {} |-> NoFile]

Here == ItemsOf(at)
In(states) == {p \in Here : item[p] \in states}
Pool == at = Pooled /\ opt.jobs > 1
Exists(p) == disk[p] # NoFile

\* target_reached; a target of 0 is no target.
Full == opt.target # 0 /\ Cardinality(DOMAIN records) >= opt.target

Fault == faults < MaxFaults /\ faults' = faults + 1 /\ UNCHANGED <<cut, wiped>>
-----------------------------------------------------------------------------
Init ==
    /\ disk = [p \in Paths |-> NoFile]
    /\ manifest = Nothing
    /\ run = 0
    /\ opt = [force |-> FALSE, jobs |-> 1, target |-> 0, refresh |-> FALSE]
    /\ phase = "idle"
    /\ at = 1
    /\ item = [p \in Paths |-> "queued"]
    /\ records = Nothing
    /\ rendered = Nothing
    /\ orphans = {}
    /\ cut = {}
    /\ wiped = FALSE
    /\ faults = 0

\* refresh_existing: a record for every binary found, nothing is built.
Existing == [p \in {q \in Paths : Exists(q)} |-> disk[p]]

StartRun(o) ==
    /\ phase \in Ended
    /\ run < MaxRuns
    /\ run' = run + 1
    /\ o \in Options[run']
    /\ opt' = o
    /\ at' = 1
    /\ item' = [p \in Paths |-> "queued"]
    /\ phase' = IF o.refresh THEN "open" ELSE "build"
    /\ records' = IF o.refresh THEN Existing ELSE Nothing
    /\ orphans' = {left \in orphans : left.stage # "ended"}
    /\ UNCHANGED <<disk, manifest, rendered, history>>
-----------------------------------------------------------------------------
(* One item.  The loops take an item when the one before is done and the   *)
(* target is not reached; a pool thread takes the next one when it is free. *)
Takes(k) ==
    /\ phase = "build"
    /\ item[Queue[at][k]] = "queued"
    /\ \A j \in 1..(k - 1) : item[Queue[at][j]] # "queued"
    /\ IF Pool THEN Cardinality(In(Busy)) < opt.jobs
               ELSE In(Busy \cup Results) = {}
    /\ Pool \/ ~Full

ItemGoes(p, from, to) ==
    /\ phase \in {"build", "drain", "unwind"}
    /\ p \in Here
    /\ item[p] = from
    /\ item' = [item EXCEPT ![p] = to]
    /\ UNCHANGED <<manifest, main, phase, records, rendered, orphans>>

\* The binary is there already and --force is not given: it is recorded.
TakeExisting(k) ==
    /\ Takes(k)
    /\ Exists(Queue[at][k]) /\ ~opt.force
    /\ ItemGoes(Queue[at][k], "queued", "ok")
    /\ UNCHANGED <<disk, history>>

\* Mutant: existing binaries are built again.
TakeAlways(k) ==
    /\ Takes(k)
    /\ ItemGoes(Queue[at][k], "queued", "building")
    /\ UNCHANGED <<disk, history>>

\* go build, go install or the download starts.
TakeMissing(k) ==
    /\ Takes(k)
    /\ ~Exists(Queue[at][k]) \/ opt.force
    /\ ItemGoes(Queue[at][k], "queued", "building")
    /\ UNCHANGED <<disk, history>>

\* A non-zero exit code, no installed binary, or a RequestException.
BuildFails(p) ==
    /\ ItemGoes(p, "building", "none")
    /\ UNCHANGED <<disk, history>>

\* subprocess.run raises TimeoutExpired, which nobody catches.
BuildTimesOut(p) ==
    /\ at # Fetched
    /\ ItemGoes(p, "building", "raised")
    /\ Fault
    /\ UNCHANGED disk

\* The output is opened: by copy2, by write_bytes, or by go build itself.
WriteStarts(p) ==
    /\ ItemGoes(p, "building", "writing")
    /\ disk' = [disk EXCEPT ![p] = [by |-> run, whole |-> FALSE]]
    /\ UNCHANGED history

Written(p) ==
    /\ ItemGoes(p, "writing", "ok")
    /\ disk' = [disk EXCEPT ![p] = [by |-> run, whole |-> TRUE]]
    /\ UNCHANGED history

\* The disk is full, or the timeout ends go while it writes: the exception is
\* not caught, the torn file stays.
WriteFails(p) ==
    /\ ItemGoes(p, "writing", "raised")
    /\ Fault
    /\ UNCHANGED disk

ItemStep(p) ==
    \/ BuildFails(p)
    \/ BuildTimesOut(p)
    \/ WriteStarts(p)
    \/ Written(p)
    \/ WriteFails(p)
-----------------------------------------------------------------------------
(* The main thread. *)
Record(p) == [q \in DOMAIN records \cup {p} |-> IF q = p THEN disk[p] ELSE records[q]]
Cancelled == [p \in Paths |-> IF p \in Here /\ item[p] = "queued" THEN "cancelled" ELSE item[p]]
Collected(p, rest) == item' = [rest EXCEPT ![p] = "collected"]

\* A record that leaves the target unreached, or that a loop has appended.
CollectRecord(p) ==
    /\ phase = "build" /\ p \in In({"ok"})
    /\ records' = Record(p)
    /\ ~Pool \/ opt.target = 0 \/ Cardinality(DOMAIN records') < opt.target
    /\ Collected(p, item)
    /\ UNCHANGED <<disk, manifest, main, phase, rendered, orphans, history>>

\* The record that reaches the target: the pool's other items are cancelled,
\* if they have not been taken, and the loop over the futures is left.
CollectLast(p) ==
    /\ phase = "build" /\ p \in In({"ok"})
    /\ Pool /\ opt.target # 0 /\ Cardinality(DOMAIN records \cup {p}) >= opt.target
    /\ records' = Record(p)
    /\ Collected(p, Cancelled)
    /\ phase' = "drain"
    /\ UNCHANGED <<disk, manifest, main, rendered, orphans, history>>

\* build_one_gomod returned None, or the loop went on to the next item.
CollectNone(p) ==
    /\ phase = "build" /\ p \in In({"none"})
    /\ Collected(p, item)
    /\ UNCHANGED <<disk, manifest, main, phase, records, rendered, orphans, history>>

\* future.result() raises; shutdown cancels what has not been taken.
CollectRaised(p) ==
    /\ phase = "build" /\ p \in In({"raised"})
    /\ Collected(p, Cancelled)
    /\ phase' = "unwind"
    /\ UNCHANGED <<disk, manifest, main, records, rendered, orphans, history>>

Proceed ==
    IF at = Len(Queue) THEN at' = at /\ phase' = "open"
                       ELSE at' = at + 1 /\ phase' = "build"

\* Mutant: the loop is not left when the target is reached.
LeaveWhenTaken ==
    /\ phase = "build"
    /\ In(Busy \cup Results \cup {"queued"}) = {}
    /\ Proceed
    /\ UNCHANGED <<disk, manifest, run, opt, item, records, rendered, orphans, history>>

\* Every item is done, or the target is reached.
LeaveProvider ==
    /\ phase = "build"
    /\ In(Busy \cup Results) = {}
    /\ Full \/ In({"queued"}) = {}
    /\ Proceed
    /\ UNCHANGED <<disk, manifest, run, opt, item, records, rendered, orphans, history>>

\* shutdown(wait=True): items already taken run to their end, their results
\* are dropped (an exception too).
Drain ==
    /\ phase = "drain"
    /\ In(Busy) = {}
    /\ Proceed
    /\ cut' = IF In({"ok", "raised"}) # {} THEN cut \cup {run} ELSE cut
    /\ UNCHANGED <<disk, manifest, run, opt, item, records, rendered, orphans, wiped, faults>>

Unwind ==
    /\ phase = "unwind"
    /\ In(Busy) = {}
    /\ phase' = "failed"
    /\ cut' = cut \cup {run}
    /\ UNCHANGED <<disk, manifest, main, item, records, rendered, orphans, wiped, faults>>

\* Mutant: the manifest is replaced, not merged.
MergedFresh == records
\* by_path: the records of this run replace those of the same path.
Merged ==
    [p \in DOMAIN manifest \cup DOMAIN records |->
        IF p \in DOMAIN records THEN records[p] ELSE manifest[p]]

\* write_manifest reads the manifest, then write_text truncates it.
OpenManifest ==
    /\ phase = "open"
    /\ phase' = "write"
    /\ rendered' = Merged
    /\ manifest' = Nothing
    /\ UNCHANGED <<disk, main, item, records, orphans, history>>

CloseManifest ==
    /\ phase = "write"
    /\ phase' = "done"
    /\ manifest' = rendered
    /\ UNCHANGED <<disk, main, item, records, rendered, orphans, history>>

\* The script is killed, with its threads; a go build it was waiting for is not.
Kill ==
    /\ phase \notin Ended
    /\ faults < MaxFaults
    /\ faults' = faults + 1
    /\ phase' = "killed"
    /\ cut' = cut \cup {run}
    /\ wiped' = (wiped \/ phase = "write")
    /\ orphans' = orphans \cup
          {[path |-> p, by |-> run, stage |-> item[p]] : p \in {q \in Direct : item[q] \in Busy}}
    /\ UNCHANGED <<disk, manifest, main, item, records, rendered>>

OrphanGoes(o, from, to) ==
    /\ o.stage = from
    /\ orphans' = (orphans \ {o}) \cup {[o EXCEPT !.stage = to]}
    /\ UNCHANGED <<manifest, main, phase, item, records, rendered, history>>

\* It writes its output at any time, during a later run as well, ...
OrphanStarts(o) ==
    /\ OrphanGoes(o, "building", "writing")
    /\ disk' = [disk EXCEPT ![o.path] = [by |-> o.by, whole |-> FALSE]]

OrphanWrites(o) ==
    /\ OrphanGoes(o, "writing", "ended")
    /\ disk' = [disk EXCEPT ![o.path] = [by |-> o.by, whole |-> TRUE]]

\* ... or fails, before it has opened its output or while it writes.
OrphanFails(o) ==
    /\ o.stage \in Busy
    /\ OrphanGoes(o, o.stage, "ended")
    /\ UNCHANGED disk

OrphanStep(o) == OrphanStarts(o) \/ OrphanWrites(o) \/ OrphanFails(o)
Orphaned == {o.path : o \in orphans}

Collect(p) == CollectRecord(p) \/ CollectLast(p) \/ CollectNone(p) \/ CollectRaised(p)
MainStep ==
    \/ \E p \in Paths : Collect(p)
    \/ LeaveProvider
    \/ Drain
    \/ Unwind
    \/ OpenManifest
    \/ CloseManifest
Take == \E k \in 1..Len(Queue[at]) : TakeExisting(k) \/ TakeMissing(k)

Next ==
    \/ \E o \in UNION {Options[r] : r \in RunIds} : StartRun(o)
    \/ Take
    \/ \E p \in Paths : ItemStep(p)
    \/ MainStep
    \/ Kill
    \/ \E o \in orphans : OrphanStep(o)

Spec == Init /\ [][Next]_vars

\* go and the download end, at the latest when --timeout is over.
FairSpec ==
    /\ Spec
    /\ WF_vars(MainStep)
    /\ WF_vars(Take)
    /\ \A p \in Paths : WF_vars(ItemStep(p))
-----------------------------------------------------------------------------

\* Between runs, the manifest describes every binary there is, exactly as it
\* is, but for those left by a run that was killed, raised or dropped results
\* when it reached its target, and unless a kill tore the manifest itself.
ManifestAccounts ==
    phase \in Ended /\ ~wiped =>
        \A p \in Paths :
            Exists(p) => \/ p \in DOMAIN manifest /\ manifest[p] = disk[p]
                         \/ disk[p].by \in cut

\* A run without --force never touches a complete binary, and nothing does
\* between runs; but where a killed run has left a go build, this and a run that
\* looked before it was over may each write over what the other has completed.
ExistingKept ==
    [][\A p \in Paths :
         Exists(p) /\ disk[p].whole /\ disk'[p] # disk[p] =>
             (opt.force /\ phase \notin Ended) \/ p \in Orphaned]_vars

\* Every run returns, raises or is killed; a hanging build ends by its timeout.
BuilderReturns == phase = "build" ~> phase \in {"done", "failed", "killed"}
=============================================================================

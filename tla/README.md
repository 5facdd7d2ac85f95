# Verification of Gobbler

Gobbler is a static analyser of Go binaries: it asks GoReSym for functions and
strings, disassembles what is reachable from `main.main`, follows constants
through registers and the stack, runs semantic passes over the result and
writes one JSON and one text report per binary. Around it stand a batch driver
with a pool of child processes, a feature index over the reports, a script that
asks a language model for a verdict per report, and a script that builds a
corpus of clean binaries to evaluate on.

This directory holds TLA+ specifications of the parts of Gobbler whose state is
hard to test, TLC configurations that check them on small instances, and proofs
checked by TLAPS of the properties that matter most, for every instance.
Paths below are relative to `src/`.

## 1. Inventory

| Component | State | Operations | Hard part |
|---|---|---|---|
| Report writer, `gobbler/pipeline.py` | two report files per stem, two temporaries per call | analyse, write both temporaries, rename twice, unlink in `finally` | a failure or kill between any two system calls; two processes on one stem |
| Batch driver, `gobbler/cli.py` | records, options, pool of threads, child processes, `batch_report.*` | skip existing, launch, collect, time out, report, refresh the index | timeouts racing children, orphans of a killed driver, reruns with other options |
| Feature index, `gobbler/output/corpus_index.py` | `feature_index.*` | scan all reports, write two files in place | staleness, documents of another profile |
| Call graph, `gobbler/analyzer.py` | `visited`, the graph, `calls_by_function` across builds, recursion | search from the entry, fallbacks | identity by name, builds that raise half way |
| Register and stack tracking, `analyzer.py`, `passes/dataflow.py`, `arch.py` | registers, slots, pushes of two passes | one rule per instruction kind | a tracked value that is no longer there |
| Corpus builder, `scripts/clean_corpus_builder.py` | binaries on disk, manifest, pool | three providers, target, force, refresh, manifest merge | builds in flight at the target, exceptions nobody catches, torn files |
| Semantic pass driver, `passes/semantic.py` | one dictionary shared by fifteen passes, lists of timings and errors; the scanner's lists | run a pass, or keep its default; scan every function, merge blobs, promote loaders, trace sources | a pass that raises half way; passes that write into the results of others; ranges that meet at a boundary |
| Control flow graphs, `passes/cfg.py` | leaders, blocks, edges, prefix sums | build blocks, find loops, weigh evidence | off by one, jumps into an instruction |
| Constants and blobs, `passes/constants.py`, `passes/semantic.py` | references, windows, blobs, spans | merge, coalesce, number | overlapping ranges at a section's end |
| Behaviour views, `passes/behavior_*.py`, `semantic_chains.py`, `interesting.py` | operations, chains, actions | classify, de-duplicate, sort, cut | what a cut or a key drops |
| Decoding and artifacts, `runtime_decoding.py`, `decryption.py`, `artifact_*.py`, `indicator_consumers.py` | candidates, indicators, classifications | bounded layered decoding, joins with consumers | bounds, one indicator annotated twice |
| Sink arguments, `sink_args.py`, `http_args.py`, `process_file_args.py` | one record per sink | collect from five views, merge by key, name the arguments | what belongs to which call |
| Evaluator document and text report, `output/evaluator.py`, `formatters.py`, `diff.py` | none of their own | select, cut, print | none but wording |
| Verdicts, `passes/llm_verdict.py`, `llm/provider.py`, `scripts/eval.py` | one verdict file per report, pool | ask, normalise, write, or write an error verdict | one of several failing |
| Directory script, `scripts/analyze.py` | none of its own | a child per file | the batch driver's, without its records |
| Binary loading, `binary.py` | parsed image | read bytes, map addresses | none |

How they interact. The batch driver calls the report writer, in its own process
or in a child; the writer's only shared state is the file system, through which
`--skip-existing`, the index, the verdict script and later runs read it. Inside
one analysis everything is sequential: the call graph is built first, the
fallbacks are merged into it, and every pass reads that graph and the shared
dictionary of the passes before it. Two of the passes do more: `behavior_graph`
moves string candidates inside dataflow's records, and `indicator_consumers`
writes into the indicators of `runtime_decoding`.

What makes each part correct, in a line. Writer: a reader never meets half a
report, and never a text without its JSON. Driver: what a record, the batch
report or the index says is so on disk. Call graph: closed, and nothing in it
that is not reached. Tracking: a constant reported as an argument is the
argument. Passes: a failing pass costs what is made of its result and nothing
else, and the views made from the same calls do not contradict each other or the
program. Corpus builder: the manifest accounts for every binary.
PROJECT.json lists the hazards one by one with the properties that watch them.

## 2. Modules

| Module | Models | Composed with |
|---|---|---|
| `AtomicFile` | what one report file promises: absent, or the whole content of one analysis, each installing at most once | abstract specification |
| `PairWriter` | `write_text_pair_atomically` and the analysis that ends in it | implements `AtomicFile` twice |
| `Batch` | the batch command over several runs, and the index | extends `PairWriter`: each (binary, run) is a writer |
| `ReachGraph` | `build_reachable_graph`, the cache, the fallbacks | |
| `Trackers` | `analyze_function` and `FunctionDataflow.analyze`, in lockstep with the machine | |
| `CorpusBuilder` | `clean_corpus_builder.py` over several runs | |
| `Cfg` | `passes/cfg.py` for one function | |
| `Verdicts` | `scripts/eval.py`, `passes/llm_verdict.py`, `llm/provider.py` | |
| `Ops` | calls, owners of functions, what a literal looks like, list idioms | used by all of the following |
| `Code` | instructions, sections, ranges of functions | |
| `Scanner` | `SemanticScanner`: copies, blobs, transformers, loaders, embedded artifacts | extends `Ops`, `Code` |
| `SemanticScanner` | the scanner at work, a function a step | extends `Scanner` |
| `Constants`, `Dataflow`, `Interesting` | `constants.py`, `dataflow.py`, `interesting.py` | |
| `BehaviorIR`, `BehaviorGraph`, `SemanticChains`, `BehaviorStory` | the pass of the same name | each reads those before it |
| `RuntimeDecoding`, `IndicatorConsumers`, `Decryption`, `Artifacts` | `runtime_decoding.py`, `indicator_consumers.py`, `decryption.py`, `artifact_classifier.py` | |
| `HttpArgs`, `ProcessFileArgs`, `SinkArgs` | `http_args.py`, `process_file_args.py`, `sink_args.py` | `SinkArgs` uses the other two and reads five views |
| `PassDriver` | what `analyze_semantics` promises, whatever the passes compute | abstract specification |
| `Pipeline` | `analyze_semantics` with all its passes | composes all the passes |
| `PipelineProperties` | what the passes promise together; the refinement of `PassDriver` | extends `Pipeline` |
| `Batch_proofs`, `ReachGraph_proofs`, `Trackers_proofs`, `CorpusBuilder_proofs`, `Cfg_proofs`, `Verdicts_proofs`, `SemanticScanner_proofs`, `Pipeline_proofs` | theorems about the module of the name, and their proofs | `Batch_proofs` is about `PairWriter` first and builds on that; `Pipeline_proofs` ends with `PassDriver` |
| `MC*` | the values of the constants for TLC | |

### PairWriter

A writer is one invocation of the analysis; `stage` is its program counter and
`status` how it ended. `json` and `text` map a stem to the invocation whose
content the file has and whether it is whole. The temporaries' names carry a
fresh uuid, so they belong to the writer. `Path.write_text` is two steps (open
truncates, close completes). `SystemCallFails` raises at any of the six calls
of the `try` block and leads to the `finally` block (`Cleanup`); `Kill` skips
it. `jsonDone` and `textDone` are history: who has renamed. `Serial` is a
promise of the caller that two writers of one stem do not overlap. Assumed:
`unlink` raises only `FileNotFoundError`; `os.replace` is atomic.

### Batch

`phase` is where the main thread is, `task` and `record` what the pool does for
each binary, `report` and `index` the driver's own files (each one opened and
closed in two steps, since they are written in place). `Options` gives the
command lines of every run. A task is taken in the order of the queue by a free
thread (`Takes`); `TimeOut` is `TimeoutExpired`: `subprocess.run` kills the
child and waits, unless the child has just ended. `DriverCrash` kills the
driver with an analysis running in it, but not the children of a pool, which go
on writing while a later run works. `Indexed` is what the index makes of one
report: an evaluator-profile document has no `semantic_analysis` and yields
nothing. `ReportIsTrue` says what the outcomes in `batch_report.json` mean: a sample
processed has the two reports of this run, a sample skipped a complete pair that
this run did not write; of one that failed or timed out nothing more is known. The
counts printed from the records are not state and are left out, and so is the order
in which futures complete: records are kept by binary. Abstracted: `ExistingStatus` is one look at the directory (the comment
in the module says why that is enough); every analysed binary has some feature;
the directory holds only reports.

### ReachGraph

Functions are identified by address, `visited`, the graph and the cache by
name. The recursion of `visit` is the variable `stack`. A program is any
assignment of call lists to functions; which functions cannot be read, and
which make a call the report shows, are part of it. `Raise` is what a visit that
raises does: the main build takes the analysis with it, a fallback build is
dropped while what it put into the cache stays; `kept` remembers the fallbacks
whose graph was merged, and only those count as entries in `GraphReached` and
`ExactForUniqueNames`. A call through an unknown address leads to a synthetic
function. The passes look functions up by name in `user_by_name`, which keeps the
last of a name (`Last`): what is decoded is what a visit or such a lookup decodes
(`Disassembled`).

### Trackers

The machine has registers and the stack above its top. An action is a kind of
instruction and changes the machine and both passes' beliefs. A belief is a number
with the kind of thing the pass's lookup takes it for (`ALookup`,
`Analyzer.value_from_address`; `DLookup`, `value_for_address`), which differ in the
places they look in and in their order, or `Opaque`, an entry that claims no number.
An operand is any form the code reads: a register, an immediate, an address for
`lea`, memory at a spelt-out address (which may hold anything, and which both passes
take for the address when they know it), memory through a register, a slot, a slot
with an index register (taken for the slot). The second group
of actions are instructions the passes misread, writes of a part of a register or a
slot and stores through an index register among them; those, a load the passes guess
at (`Guessed`), a call that leaves a
value the passes go on following, and stores and pushes they lose sight of, set
`hidden` when they touch something that is being followed. `RegistersTrue` and
`StackArgsTrue` say that the passes are right as long as that has not happened:
the list of causes in the model is therefore complete, and it is the content of
the property. `DataflowSubsumes` holds whatever happened: dataflow has the number
the analyzer has, and the same kind unless the address is of more than one thing
(`Ambiguous`). Left out: slots based
on RBP, the naming of calls, `last_function_literal`, and dataflow's copies of
slices and fields.

### CorpusBuilder

`item` is the state of each configured item in the run, `disk` what is at its
output path. The three providers share their actions; a pool is used for the
Go modules when `--jobs` is above one. An exception of a build is delivered to
the main thread by `CollectRaised`, passes through `shutdown` (`Unwind`) and
ends the run without a manifest. `cut` and `wiped` are history: runs that left
binaries they did not list, and a kill while the manifest was being rewritten.
A kill ends the script and its threads but not the `go` it waits for
(`subprocess.run`): `orphans` are the `go build`s of killed runs, which open and
write their output at any later moment, beside a later run's own build of it, or
after that run found the file complete. They write where `-o` says, and that is the
item's path for synthetic binaries only (`Direct`); `go install` writes into the
cache, and copying from there, like a download's write, is the script's and ends
with it. `ExistingKept` therefore leaves out the paths at which such an orphan may
be at work (`Orphaned`), and says that nothing else touches a complete binary.
Assumed: output paths of configured items are distinct. Left out: `--dry-run`, `--summary`, the queue file.

### Cfg

`Decode` is the disassembler: it appends the facts `instruction_fact` takes from
one instruction and may stop anywhere. `Analyze` is `analyze_function_cfg`; its
operators are named for what the code computes (`Starts`, `Blocks`, `Jumps`,
`Fallthroughs`, `Loops`, `FactPrefixes`, `Evidence`, `TransformLoops`). Where no
jump lands inside an instruction, blocks, edges, loops and transforming loops
are those of a direct definition over the instructions, the last one counted by
`LoopTransformEvidence` as the code's own `loop_transform_evidence` counts. Where
one does, the code takes the end of the function for the end of the block before
it, blocks overlap, and `JumpsKept` says exactly which jumps lose their edge. A
block that runs into the next without a jump has no edge to it in the code: the
edges are those of jumps, and `edge_count` counts no more. A sorted list is stated
by what it is (`Ascending`, the one increasing list of a set) and the prefix sums
by their recursive function, so that the module can be proved about.

### Verdicts

`task` is each report's future together with the place its `eval_one` has
reached, `main` the main thread's. A text of the model is abstracted to where an
object is found in it: as the whole, from the first to the last brace, inside a
code fence. `write_text` is two steps. An exception of `write_error_verdict`
leaves the loop over the futures and meets the shutdown of the pool (`Close`).
A fault is a failing write or a
kill; requests fail and answers are unusable without bound. The code does not
keep the cost of an answer it cannot parse, and the error verdict has no field
for it.

### Scanner and SemanticScanner

A program is its call graph, the code of each function as a list of the facts
the passes take from an instruction (operation, first register, kind of source
and memory operand, number), and sections as rows of cells, each zero, noise, a
text or a signature. Sections are in the order of their names, so that the place
of one in the list stands for its name; `header` is its place in the file, by which
`_section_for_va` finds the first of several that hold an address, as the sections
an ELF file does not load all start at 0. `_scan_function` is one walk over the
instructions (`note_instruction`) with the registers' provenance, the last
constants of registers and the last address; `noted` appends what it found to the
scanner's lists, and `conclude` is what `analyze` makes of them. In
`SemanticScanner` a function is a step. Each loop of the code is a recursive
function over its list with one operator for its body (`with_span`, `with_blob`,
`handed_on`), and sorted lists are stated by what they are, so that the module can
be proved about. Numbers of chunks, thresholds and windows are constants, small in
the configurations; where a comparison with one decides something there is an input
on each side of it. Counts of occurrences, previews and hashes are left out.

### The passes

Every pass is an operator that takes the call graph and the dictionary and
returns the entry it adds. A list that the code cuts is cut (`Take`), one that
it makes unique keeps the first (`First`, `Distinct`) by the same key, one that
it sorts is sorted stably (`SortBy`) by the same order; the constants that name
the limits have the names of the code. Text is abstracted to what is asked of
it: a literal is a member of sets (URLs, paths, commands, ...), and tables say
what it decodes to (`B64Text`, `HexText`, `Inflated`). What the code finds in the
spelling of a name is a table from names (`API_BEHAVIOR_HINTS`,
`IMPORTANT_RUNTIME_CALLS`, `TARGET_HINTS`, ...), that of a user's function
included; who is called, and how, are attributes of the call (`user`, `via`,
`visible`, `side`), and each pass asks the two in its own order. Evidence strings, descriptions and confidences that
nothing reads are left out, and each module's head says what it leaves out.

* `Constants`: references of the code, arrays of large copies and windows around
  referenced data, their merging and keys, strings with the functions that refer
  to them. The code tells sections apart by name: names are taken to be distinct, and
  sections to be listed in the order of their names.
* `Dataflow`: the values registers and slots hold by the rules that `Trackers`
  checks against the machine, and what is recorded of each call: typed
  arguments, string pairs, slices, symbolic values, fields and candidates.
* `Interesting`: scores and reasons, the ranking and its cut.
* `BehaviorIR`, `BehaviorGraph`: operations, edges, tags and data of each
  function; nodes and edges made apart from the same calls. `behavior_ir` asks for
  `newproc`, callbacks and functions of the program before it looks for an API in the
  name (`op_kind`); `behavior_graph` looks for the API first (`has_behavior`). So a user
  function named like an API is an edge of the one and an API of the other, and
  `ViewsAgree` says what still holds then. A node keeps the record it was made of and
  updates it, which changes dataflow (`facts_after`).
* `SemanticChains`, `BehaviorStory`: chains by the clauses of the code in their
  order; actions, their key, order, cut, narrative and execution flow.
* `RuntimeDecoding`, `IndicatorConsumers`, `Decryption`, `Artifacts`: decoders,
  the indicators of their literals and sources, who consumes them (cut at
  `MAX_CONSUMERS`), the bounded search through layers, and what blobs and decoded data
  are. The two decoders keep their own thresholds (`LongBase64`, `LongHex` are the
  literals `decryption.py` tries, `runtime_decoding.py` tries them all) and their own
  classifiers: domains, fragments and file names are indicators to the one and nothing
  to the other. `DecryptionSubsumes` is about what passes both.
* `HttpArgs`, `ProcessFileArgs`, `SinkArgs`: every mention of a sink in the five
  views is a record; mentions of one key are merged, in the order of the views,
  list by list with its limit; then arguments are named, sources made alike and
  the list sorted and cut. `arg_roles`, evidence and summaries are left out.

### Pipeline and PassDriver

`semantics` is the dictionary, `next` the pass that runs next. A pass completes,
or raises and leaves its default (`RaisesAtOnce`). Two passes may also raise
having written into results of others: `RaisesWithGraphBuilt`,
`RaisesBetweenIndicators`. `Finish` is what `analyze_semantics` does with the
errors. `cfg` and `go_types` are what the program says they find: `Cfg` is about
the first, the second reads GoReSym's JSON.

`PassDriver` knows nothing of what a pass computes: N passes, each a function of
the results it reads. A pass that fails leaves any result; it, and what is made
from it, is `tainted`. `READ_BY` in `PipelineProperties` is the claim which pass
reads which, and `part` says what of the dictionary is the result of a pass. The
refinement `ImplementsPassDriver` is therefore three claims in one: a pass reads
nothing that `READ_BY` does not name (it is computed from those results alone),
what it reads is there, and the writing into earlier results changes nothing a
later pass goes by.

## 3. What is checked

| Run | Instance | Question | Properties |
|---|---|---|---|
| `pair_writer` | two invocations on one stem, one on another | any interleaving, failure and kill: no text alone, no temporaries, both files implement `AtomicFile` | `TextNeverAlone`, `NoTemporaryLeft`, `ReportsAreAtomicFiles` |
| `batch_clean` | two binaries, two runs, jobs 2 with timeout or jobs 1 in process, one fault | reports, index and pairs are true when the command returns; a skipped pair is untouched; the driver never lets two writers of one stem overlap | `ReportIsTrue`, `IndexIsCurrent`, `PairAgreement`, `UsesPairWriter`, `SkipKeepsPairs` |
| `batch_crash` | the same with a driver crash and children that outlive it | records are backed by files; a batch returns | `RecordsAreBacked`, `BatchReturns` |
| `reach_unique` | all programs of four functions with unique names, recursion limit 3 | reached, and exact | `GraphReached`, `ExactForUniqueNames` |
| `reach_shared` | the same, two functions of one name | closed, names keep their function, the search ends | `GraphClosed`, `OneFunctionPerName`, `Terminates` |
| `reach_generic` | violation; an entry and three functions of one name | a reachable function of a name, neither the first visited nor the last listed, is disassembled by no pass | `ReachableUserFunctionsDisassembled` |
| `trackers` | two registers (one in the ABI), two slots, two pushes, both architectures, every form of operand | what the passes hold is true until one of the named events; dataflow has what the analyzer has | `RegistersTrue`, `StackArgsTrue`, `DataflowSubsumes` |
| `cfg` | every function of six bytes with five kinds of one byte instructions and jumps of two bytes, read to any point | blocks, edges, loops and evidence are those of a direct definition; what a jump into an instruction costs | `BlocksPartition`, `JumpsKept`, `EdgesAndLoopsTrue`, `TransformLoopsTrue` |
| `corpus_builder` | five items, pool of two, two runs, one fault, orphans of a killed run | the manifest accounts for the binaries, existing ones are kept, every run ends | `ManifestAccounts`, `ExistingKept`, `BuilderReturns` |
| `verdicts` | two reports and one file that is none, two threads, two runs, one fault | every report has its verdict, a failing error verdict costs no other report its own, every run ends | `EveryReportHasItsVerdict`, `RaiseCostsOnlyFailures`, `EvalReturns` |
| `scanner` | 7200 programs of three functions that copy, transform and refer to two data sections | blobs are apart and cover copies and signatures; sources are handed down the calls | `BlobsApart`, `CopiesCovered`, `SignaturesReported`, `SourcesTraceable` |
| `pipeline` | 400 programs of four functions, any one pass failing, at once or half way | the views agree, with one another and with the program; indicators reach the story; every call is told and has its own arguments; the passes are those of `PassDriver` | `ViewsAgree`, `DecryptionSubsumes`, `IndicatorsReachStory`, `StoryTrue`, `ReferencesKept`, `SinksTellCalls`, `ArgumentsPassed`, `ImplementsPassDriver` |

`reach_generic` shows a disagreement between the code and a statement of the
documentation, quoted under "findings" in PROJECT.json.

Met while modelling, and part of the models as the code has them:

* A kill while the manifest is rewritten leaves half of it
  (`scripts/clean_corpus_builder.py:355`), where `docs/clean-corpus.md:58` calls
  it the source of truth; `ManifestAccounts` names the case.
* The feature index is not refreshed by a run that processes nothing
  (`gobbler/cli.py:139`, where the help at line 47 has it refreshed after a batch); `IndexIsCurrent`
  names the case.
* `decryption.py:79` reports "XOR recovery is disabled."; `docs/architecture.md:58`,
  `docs/limitations.md:38` and `docs/output-format.md:72` describe it.
* A pointer into an array is reported as the array's start (`dataflow.py:94`).
* Signature offsets of joined blobs stay relative to their chunk
  (`semantic.py:1231`), and a search for signatures ends with the match that
  fills the list (`artifact_classifier.py:391`).
* A copy's size and source are the last constant of RCX and the last address,
  however long ago they were set, so that a copy may be reported that is none
  (`semantic.py:276`).
* `TARGET_HINTS` has hints for `http.Get` and its like behind the general ones for
  `net/http` (`sink_args.py:124`), which match first: one call is two sinks, one of
  `behavior_ir`'s kind and one of kind `http_network`.
* The URL of an unnamed static source is taken for the text of any typed pointer,
  and the strings of the sink are never asked, since every value has a label
  (`http_args.py:509`).
* A POST without a recognisable content type reports its second argument as one
  (`http_args.py:43`), also where that is a second reading of the URL.
* A binary called `batch_report` or `feature_index` writes where the driver does
  (`cli.py:340`); a stray JSON array in the directory ends the run
  (`corpus_index.py:21`).

Bounds, and why they are enough.

* Writers: properties relate at most two writers of one stem (who wrote the
  JSON, who wrote the text); a third on another stem shows that stems do not
  interfere. The proofs lift the bound.
* `MaxRuns = 2`: what one run leaves is all a later run sees; a third run sees a
  directory of the same kind. `MaxFaults = 1`: a fault is a failed call, a
  killed child or a crashed driver. One is the case the code is written for;
  timeouts are not counted as faults and may strike every child.
* Two binaries and at most two jobs: the smallest pool in which one analysis
  overlaps another, and in which a task waits when `jobs = 1`.
* Four functions cover a cycle, a shared callee, two functions of one name and a
  synthetic one; four unique names in a chain go past the recursion limit of three, and
  functions that cannot be read end a build anywhere. The real limit of
  twelve fallbacks is 2 here, the number of candidates. The proofs lift these.
* Trackers: a register inside and one outside the ABI, and enough slots for a push
  to shift one onto another. The constraint `InSight` stops at the first event
  out of sight, after which `RegistersTrue` and `StackArgsTrue` claim nothing. Two
  numbers, zero and the address of a function, are enough to be wrong about a place:
  unknown places hold either. Strings, headers, arrays
  and blobs, addresses of two things at once, and what `DataflowSubsumes` says after
  an event out of sight, are in the theorems, which need neither the constraint nor
  the bounds.
* Corpus: three modules for two threads, so that one is queued, one in flight and
  one complete at the moment the target is reached.

* Functions of six bytes: a loop around three byte operations, two loops of which
  one is listed (`MaxListed = 1`), a loop longer than `MaxLoop`, more instructions
  than `MaxInsns`, jumps into, behind and out of every instruction.
* Two reports for two threads, so that one fails while the other is asked; the
  third file fails before its request, and waits in the queue.

* Scanner: sections of ten and three cells with chunks of four, so that copies
  start, end and nest at, before and behind the borders of chunks and of the
  section, and two sections that lie on each other; three functions are a caller, a callee and a library function.
* Pipeline: one literal of each depth of coding, long enough for `decryption.py` or
  not, and one of each kind of text; three ways of calling a decoder,
  five decoders and five consumers, two contents of the data. A library function that
  was compiled in has the name of an API, so that a call of it is a user's and an
  API's; the decoder is called, or started by `go` (the one hidden call beside the
  runtime's own); a callback is passed to `filepath.Walk`. `MAX_CONSUMERS` is 1, so
  that a second consumer is cut. Limits are small enough
  that lists are cut in some programs and not in others; a property that speaks of
  lists that are not cut says so. `MaxFailures = 1`: a failing pass is an input to
  all the passes after it, and `Isolation` is proved for any number. The run takes
  about two minutes, 63384 states.

Deadlock checking is off where the program ends: a batch that has used its runs,
a search, a scan or an analysis that is done. `Trackers` has no end and is checked for deadlock.

Fairness. `Batch`: the main thread, each pool thread's next step, and collecting
or timing out a child are weakly fair, since nothing else holds a Python thread
up; a child is fair only without `--timeout`, so with it a child may hang for
ever and the batch must return all the same (without it a hanging child does
hang the batch, in the code as well). `ReachGraph`: sequential code, weak
fairness of the next step. `CorpusBuilder`: the main thread, the taking of an
item, and each item, whose build is ended by `--timeout` at the latest. `Verdicts`: the main thread and each thread of the pool; a
request ends, by its timeout at the latest (a server that keeps sending single
bytes could hold `requests` up longer). `SemanticScanner` and `Pipeline` are
sequential and state no fairness: each step ends one function or one pass, and
nothing promised of them is about time. Starting a run, faults and kills are
never fair.

## 4. What is proved

For any set of writers and stems (`Batch_proofs`, first part), from `StemAssumption`
and `NoneAssumption`:

* `WriterInv` is inductive: it adds to the properties, for each stage of a writer,
  what its two temporaries hold, that a writer past its first rename is in
  `jsonDone` (past its second, in `textDone`), that a report names only writers that
  have installed it (`Signed`), and that a stem whose text was
  renamed by somebody has a JSON. From it: `WriterTypeCorrect`,
  `ReportsNeverTorn`, `TextIsNeverAlone`, `TemporariesRemoved`.
* `ReportsRefineAtomicFile`: seen through either file, every step is an `Install`
  of the abstract file or a stutter; the invariant supplies that the temporary
  renamed is whole and that its writer has not installed before.
* `PairsAgree`: with `Serial`, a second invariant about the one writer of a stem
  that is running.

For any program, any names and any bounds (`ReachGraph_proofs`), from
`GraphAssumption`:

* `Inv` is inductive. Its heart is a statement about the build in progress: a name
  in the graph being built either has all its callees visited, or is on the
  stack, with the callees before its next call visited; and every visited name is
  in the graph, reached from the root of the build. Closure of the finished graph
  follows when the stack is empty, survives the merge with an older graph because
  both read their functions from the one cache, and is unharmed by a build that
  raises, since that graph is dropped. From it: `TypeCorrect`, `GraphIsClosed`,
  `GraphIsReached`, `NamesKeepTheirFunction`.
* `ExactReachability`: with unique names the two inclusions of "the graph is what
  is reachable by address from the entry and the fallbacks merged" follow from closure
  and reachedness. It holds for any number of fallbacks, also after some that raised
  half way and left their functions in the shared cache.

For any number of passes, any reading order in which a pass reads only earlier
ones, and any computations (`Pipeline_proofs`, last part), from `Wellordered`:

* `Isolation`: a result that no failure can have reached is that of the run in which
  nothing fails. The invariant says so of the results so far and adds that what is
  not tainted read nothing tainted.
* `Blame`: a tainted result is that of a failed pass or was made from one.

That the passes of the code are such passes is the refinement `ImplementsPassDriver`,
which TLC checks in the run `pipeline`: together they say of `analyze_semantics`
that a failing pass costs its own result and what is made of it.

For any queue, any directory of stems and any command lines (`Batch_proofs`, second part), from
`BatchAssumption`, `StemAssumption` and `NoneAssumption`:

* `BatchInv` is inductive. It contains `WriterInv`, since the analyses of a batch are
  writers, and adds what the driver knows: a record is backed by what its task did
  (`RecordsKnow`), no task is left when the pool is drained, a report once written
  says what the records say, an analysis of a run to come, or of a sample that was
  skipped, has not begun (`FutureIdle`), a writer that is running is one whose task waits for it
  (`RunningIsAwaited`), a pair of this run stays as its writer left it
  (`OwnReportsStand`), a task not skipped under `--skip-existing` finds no text report
  until it installs its own (`SkipSees`), and the index so far says of every report
  scanned what the file holds (`IndexBuilt`).
* `RecordsBacked` and `BatchNeverTorn` have no hypothesis: whatever crashes, and
  whatever names collide, a sample called processed or skipped has a complete pair
  and no report is torn.
* `IndexCurrent` holds where the driver is not killed (`Undisturbed`), `ReportsTrue`
  and `SkipsKeepPairs` where in addition no two binaries have one stem
  (`DistinctNames`). Both are needed: children outlive a killed driver and go on
  writing, and `a/x.exe` and `b/x.exe` have one report (`cli.py:267`). Distinct names
  are what the default `--glob "*.exe"` over one directory gives (`cli.py:37`).
* `BatchUsesPairWriter`: under the same two conditions every step of the batch is a
  step of a legal, serial caller of the report writer, or leaves it alone. From it
  `BatchPairsAgree`: the pairs of a batch agree and are atomic files. The proof is
  that of the report writer, carried over by the refinement. Where `Serial` is
  false nothing is asked of the names.

For any registers, slots, constants and any number of pushes (`Trackers_proofs`),
from `TrackersAssumption`:

* `Inv` is the conjunction of the three properties with types and with the fact that
  nothing is recorded as pushed on x86_64. `LookupAgrees` is what the two lookups have
  in common; `DataflowKnowsMore` carries it through every instruction. None of the three is inductive alone: a
  register may be loaded from a slot, and a slot stored from a register.
  From it: `RegistersAreTrue`, `StackArgsAreTrue`, `DataflowKnowsMore`,
  `TypeCorrect`.

For any items, pool size and number of runs (`CorpusBuilder_proofs`), from
`CorpusAssumption`:

* `Inv` says for each phase where a binary on the disk is accounted for: in the
  manifest, among the records, in flight, or left by a run that failed. The obvious
  form is not inductive: an existing binary that the run takes over loses its place
  if the run then fails, so the invariant adds that what is of this run and not yet
  listed is of nobody else. A `go build` left by a killed run writes binaries of a run
  that is in `cut`, at a path of its own (`OrphansCut`). From it: `ManifestTells`,
  `CompleteBinariesKept` (an action property), `TypeCorrect`.

For functions of any length, any instructions and any limits (`Cfg_proofs`), from
`CfgAssumption`:

* `CfgInv`: the instructions are consecutive, and a result is `AnalyzeFunctionCfg` of
  them. The rest is about that operator. The blocks kept are those of leaders that are
  addresses; where no jump is misaligned they cut the function (`BlocksArePartition`),
  an instruction is the last of its block exactly if no leader lies between the
  block's start and the instruction's end, which is what decides whether a jump keeps
  its edge (`JumpsKeepTheirEdges`). Loop edges correspond one to one to backward jumps
  (`EdgesAndLoopsAreTrue`). The differences of the prefix sums are the counts over the
  loop, first by the existence of the prefix function and then by the least index
  at which it would differ (`TransformLoopsAreTrue`).

For any reports, workers and runs (`Verdicts_proofs`), from `VerdictsAssumption` and
`NoVerdictAssumption`:

* `Inv` says what each place of a task in `eval_one` implies for the file of its report,
  that the counter of failures is above zero exactly if a task failed, and what a run
  that has ended can have left behind. From it: `EveryReportJudged`,
  `RaiseLosesNoAnswer`, `TypeCorrect`.

For any programs and thresholds (`SemanticScanner_proofs`), from
`ConstantsAssumption` (sizes are positive, and a chunk is no longer than the sample
that is searched for signatures) and `ProgramsAssumption` (what a program is;
sections may overlap, graphs may be cyclic):

* `ScanInvariant`: what has been scanned is a list of references and of copies, and a
  result is `conclude` of the whole list. It is also an invariant TLC checks, and by
  it the rest is about operators. Each loop of the code is a function on the length of
  the list, shown to exist by counting up, and has an invariant of its own:
* merging the sorted spans of the copies (`MergingStep`): the spans so far are in order,
  apart, each lies in its section, and every place read is inside one that names its
  reader. A span that ends inside the one before is the case in which "the last span"
  and "the furthest end" differ; the invariant says that ends are increasing, too.
* joining adjoining blobs (`CoalescingStep`): blobs so far are apart and do not touch, in
  order, and every blob taken in is inside one that knows all that it knew. It needs
  that copied spans and kept chunks are disjoint to begin with, which is what the test
  for overlapping chunks gives. From the two: `BlobsApartHolds`, `CopiesCoveredHolds`.
* `SignaturesReportedHolds` adds that a chunk left out for a span is one a copy reads
  a part of, and that the eight hits kept tell of a program if there is one: signatures
  of programs are looked for before those of archives, so that any that a full list
  keeps out are kept out by another program's.
* handing sources on (`Traced`): each source of each transformer so far is owned by some
  member of every set of transformers that has it and is closed under callers among
  them. Reachability is stated by these closed sets, so that no path is needed. From
  it `SourcesTraceableHolds`.

For any program and any failures (`Pipeline_proofs`), from `WindowsAssumption` (sizes
are natural, the alignment is positive and no longer than a window, and a window no
longer than the greatest length) and `ProgramsAssumption` (what a program is; sections
may overlap):

* `ArraysKept`: from the constants pass on, the arrays of the dictionary are those that
  `analyze_constants` made, or the pass is among the errors. `ArraysInvariant` is
  inductive because of what each pass writes (`WRITES`, `PassWrites`): no default of a
  failed pass, no half-written result and no later pass has the entry `arrays`.
* `DataIsKept` (`ReferencesKept`): data referred to is in an array that names the
  function. By `ArraysKept` this is about `analyze_constants` alone. There it goes by a
  window around each address, which its section covers (`WindowIs`); by merging
  (`StepMerges`, `MergedAre`: windows so far are in order, no two begin at one place,
  and each window taken in is held by one of them with its functions, or that one has
  the greatest length, where the code cuts it); and by the keys of the arrays
  (`IdsAre`, `AnalyzedData`): no merged window has the place and the size of a large
  copy, since the address it was made for would lie in the copy and would have had no
  window, so that none is lost to an array of the same key.
* It rests on lemmas about the list operators of `Ops`, for any lists: what `Kept`,
  `Firsts`, `InOrder` and `SortBy` keep, and in which order.

Only model-checked:

* All liveness (`BatchReturns`, `Terminates`, `BuilderReturns`, `EvalReturns`), which
  the prover does not do.
* What the passes after the scanner and the constants agree on (`ViewsAgree`,
  `DecryptionSubsumes`, `IndicatorsReachStory`, `StoryTrue`, `SinksTellCalls`,
  `ArgumentsPassed`) and that they are those of `PassDriver` (`ImplementsPassDriver`):
  they are folds, selections and stable sorts over records of many fields, most of them
  unique to one list. The way taken for the scanner and the constants, an invariant for
  each loop and no induction but over the length, would serve there too, loop by loop.

## 5. Not modelled

* GoReSym, LIEF, Capstone and the optional Magika are external: what they return is
  any value of the right kind. `binary.py` wraps them.
* Heuristics over bytes and spellings (entropy, the validators of decoded data, the
  patterns for domains, paths, commands and noise) are given by tables and sets: the
  properties do not tell apart what they decide, only what is made of it.
* `go_types.py` extracts names from GoReSym's JSON and keeps no state.
* The evaluator document, the text report, the diff and the viewer select from and
  print finished results. Only the shape of the evaluator document matters elsewhere
  (`Batch`).
* `arg_roles`, evidence and summaries of `sink_args.py`: texts about what the model
  already has.
* `scripts/analyze.py` is the pool of the batch driver without records, skip and
  index; its writer is `PairWriter`.

## 6. Plan

Done, in the order of importance: report writer and batch (what users keep),
call graph and tracking (what every pass builds on), corpus builder and verdicts
(what the evaluation rests on), control flow graphs, the scanner, all the passes
and their driver, sinks and their arguments; proofs for all but the passes.

Next:

1. Proofs of the properties of the passes, by the invariants of their loops, after the
   model of the scanner.
2. The evaluator document: its selection from the story and the sinks, against what
   the full document holds.
3. `arg_roles`: that a role is given only to an argument the sink has.

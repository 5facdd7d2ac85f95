------------------------------ MODULE Pipeline ------------------------------
(***************************************************************************)
(* analyze_semantics of passes/semantic.py: the passes run one after       *)
(* another over one shared dictionary.  A pass that raises leaves its      *)
(* default and a line in analysis_errors; two passes write into the        *)
(* results of earlier ones and may raise half way.                         *)
(*                                                                         *)
(* A program is [graph, sections, ranges, code, missing, string_data,      *)
(* string_headers, loops, types]: loops and types are what the cfg and     *)
(* go_types passes find in it (Cfg is about the first).                    *)
(***************************************************************************)
EXTENDS Scanner, Dataflow, Interesting, BehaviorGraph, IndicatorConsumers, Decryption, Artifacts,
        SinkArgs

CONSTANTS Programs, MaxFailures

ASSUME WindowsAssumption ==
    /\ ALIGNMENT \in Nat \ {0} /\ MIN_ARRAY_SIZE \in Nat \ {0} /\ MAX_LARGE_COPY_ARRAY_BYTES \in Nat
    /\ DEFAULT_ARRAY_WINDOW \in Nat /\ MAX_ARRAY_WINDOW \in Nat
    /\ ALIGNMENT <= DEFAULT_ARRAY_WINDOW /\ DEFAULT_ARRAY_WINDOW <= MAX_ARRAY_WINDOW

Instruction == [at : Int, op : STRING, reg : STRING, src : STRING, mem : STRING, base : STRING, imm : Int,
                width : Nat, to : STRING]

ASSUME ProgramsAssumption ==
    \A p \in Programs :
        /\ AreSections(p.sections)
        /\ p.graph.order \in Seq(STRING)
        /\ \A f \in ToSet(p.graph.order) \ p.missing : p.code[f] \in Seq(Instruction)

VARIABLES
    program,        \* the analyzer and the call graph
    semantics,      \* the dictionary
    next,           \* the number of the pass that runs next
    errors,         \* the passes that failed, in order
    shadow          \* the dictionary of the same program in the end when no pass fails

vars == <<program, semantics, next, errors, shadow>>

PASSES == <<"semantic_scanner", "constants", "dataflow", "cfg", "go_types", "interesting_functions",
            "behavior_graph", "behavior_ir", "semantic_chains", "runtime_decoding",
            "decryption_recovery", "artifact_classification", "indicator_consumers",
            "behavior_story", "sink_args">>

-----------------------------------------------------------------------------
(* Static data as the passes that read bytes see it.                       *)

SIGNATURES == [MZ |-> "pe", ELF |-> "elf", PK |-> "zip", gzip |-> "gzip"]
not_text == DOMAIN SIGNATURES \cup {"zero", "noise", "gotable"}
bytes_of(p, x) == cells(p.sections[x.section], x.lo, x.hi)

\* Bytes decode as a whole if nothing but zeroes follows what they begin with.
whole(bytes) == IF \A i \in 2..Len(bytes) : bytes[i] = "zero" THEN bytes[1] ELSE Junk

\* The address and size of a blob or an array are enough to read it.
read_source_bytes(p, x) ==
    LET bytes == bytes_of(p, x)
    IN  Over([texts |-> SelectSeq(bytes, LAMBDA c : c \notin not_text), data |-> whole(bytes),
              readable |-> bytes # <<>>], x)

\* Arrays have a preview; one of a table of the Go runtime is known for what it is.
source_of_array(p, a) ==
    LET x == Over([hi |-> a.lo + a.size], a)
    IN  Over([preview |-> TRUE, high |-> is_high_entropy(a.bytes),
              magic |-> {SIGNATURES[c] : c \in ToSet(a.bytes) \cap DOMAIN SIGNATURES},
              go_metadata |-> /\ "referenced_global_data" \in a.reasons
                              /\ "gotable" \in ToSet(bytes_of(p, x))
                              /\ ToSet(bytes_of(p, x)) \cap DOMAIN SIGNATURES = {}],
             read_source_bytes(p, x))
source_of_blob(p, b) == Over([preview |-> FALSE, go_metadata |-> FALSE], read_source_bytes(p, b))

source_for_blob(p, b) ==
    LET bytes == bytes_of(p, b)
    IN  [id |-> b.id, lo |-> b.lo, hi |-> b.hi,
         magic |-> Each(bytes, LAMBDA c : IF c \in DOMAIN SIGNATURES THEN SIGNATURES[c] ELSE None),
         look |-> IF ToSet(bytes) \cap not_text = {} THEN "text" ELSE "unknown_binary"]

-----------------------------------------------------------------------------
(* The callbacks: what each pass makes of the dictionary, as the entries   *)
(* it adds or replaces.                                                    *)

scanned_entries(p) ==
    [analyze(p) EXCEPT !.blobs = Each(@, LAMBDA b : source_of_blob(p, b))]

constant_entries(p) ==
    [analyze_constants(p) EXCEPT !.arrays = Each(@, LAMBDA a : source_of_array(p, a))]

classified_entries(p, sem) ==
    analyze_artifacts(p.sections, Each(sem.blobs, LAMBDA b : source_for_blob(p, b)),
                      Each(sem.embedded, LAMBDA e : [source |-> source_for_blob(p, e.source)]),
                      sem.decryption.artifacts)

callback(p, pass, sem) ==
    CASE pass = "semantic_scanner" -> scanned_entries(p)
      [] pass = "constants" -> constant_entries(p)
      [] pass = "dataflow" -> [dataflow |-> analyze_dataflow(p, sem)]
      [] pass = "cfg" -> [cfg |-> p.loops]
      [] pass = "go_types" -> [go_types |-> p.types]
      [] pass = "interesting_functions" -> [interesting |-> rank_interesting_functions(p.graph, sem)]
      [] pass = "behavior_graph" -> [behavior_graph |-> build_behavior_graph(p.graph, sem)]
      [] pass = "behavior_ir" -> [behavior_ir |-> build_behavior_ir(p.graph, sem)]
      [] pass = "semantic_chains" -> [semantic_chains |-> build_semantic_chains(p.graph, sem)]
      [] pass = "runtime_decoding" -> [decoding |-> analyze_runtime_decoding(p.graph, sem)]
      [] pass = "decryption_recovery" ->
            [decryption |-> analyze_decryption_recovery([decoding |-> sem.decoding.functions])]
      [] pass = "artifact_classification" -> [classified |-> classified_entries(p, sem)]
      [] pass = "indicator_consumers" ->
            [decoding |-> attach_indicator_consumers(sem.decoding, p.graph, sem.semantic_chains)]
      [] pass = "behavior_story" ->
            [story |-> build_behavior_story(p.graph, Over([indicators |-> sem.decoding.indicators], sem))]
      [] pass = "sink_args" -> [sinks |-> analyze_sink_args(p.graph, sem)]

DEFAULTS ==
    [semantic_scanner |-> [blobs |-> <<>>, transformers |-> <<>>, loaders |-> <<>>, embedded |-> <<>>,
                           indirect |-> <<>>, mid |-> <<>>, hints |-> {}],
     constants |-> [arrays |-> <<>>, strings |-> <<>>],
     dataflow |-> [dataflow |-> <<>>],
     cfg |-> [cfg |-> <<>>],
     go_types |-> [go_types |-> None],
     interesting_functions |-> [interesting |-> <<>>],
     behavior_graph |-> [behavior_graph |-> [nodes |-> {}, edges |-> {}]],
     behavior_ir |-> [behavior_ir |-> <<>>],
     semantic_chains |-> [semantic_chains |-> <<>>],
     runtime_decoding |-> [decoding |-> [functions |-> <<>>, indicators |-> <<>>]],
     decryption_recovery |-> [decryption |-> [artifacts |-> <<>>, aes_candidates |-> <<>>]],
     artifact_classification |->
        [classified |-> [notable_blobs |-> <<>>, embedded_artifacts |-> <<>>, decoded_artifacts |-> <<>>]],
     behavior_story |-> [story |-> [actions |-> <<>>, action_count |-> 0, artifacts |-> {},
                                    narrative |-> {}, execution_flow |-> <<>>]],
     sink_args |-> [sinks |-> <<>>]]

Nothing == [x \in {} |-> x]

\* Mutant: the indicator pass has a default like the others, that of the pass it works on.
default_Own(pass) ==
    DEFAULTS[IF pass = "indicator_consumers" THEN "runtime_decoding" ELSE pass]

\* What timed returns for a pass that raised; for indicator_consumers the dictionary as it is.
default(pass) == IF pass \in DOMAIN DEFAULTS THEN DEFAULTS[pass] ELSE Nothing

\* What the behavior graph has done to dataflow once it has added its nodes.
rewritten(sem) == [dataflow |-> [f \in DOMAIN sem.dataflow |-> facts_after(sem.dataflow[f])]]

\* The dictionary after a pass that returned.
after(p, pass, sem) ==
    Over(callback(p, pass, sem), IF pass = "behavior_graph" THEN Over(rewritten(sem), sem) ELSE sem)

undisturbed(p) ==
    FoldLeft(LAMBDA sem, name : after(p, name, sem), Nothing, PASSES)

-----------------------------------------------------------------------------

Init ==
    /\ program \in Programs
    /\ semantics = Nothing
    /\ shadow = undisturbed(program)
    /\ next = 1
    /\ errors = <<>>

pass == PASSES[next]

Advance ==
    /\ next <= Len(PASSES)
    /\ next' = next + 1
    /\ UNCHANGED <<program, shadow>>

\* The callback returns.
Completes ==
    /\ Advance
    /\ semantics' = after(program, pass, semantics)
    /\ UNCHANGED errors

Raises ==
    /\ Len(errors) < MaxFailures
    /\ Advance
    /\ errors' = Append(errors, pass)

\* The callback raises before it has written anything into what there is.
RaisesAtOnce ==
    /\ Raises
    /\ semantics' = Over(default(pass), semantics)

\* behavior_graph raises after its data flow nodes, of which the last kept are those of dataflow.
RaisesWithGraphBuilt ==
    /\ next <= Len(PASSES) /\ pass = "behavior_graph"
    /\ Raises
    /\ semantics' = Over(default(pass), Over(rewritten(semantics), semantics))

\* indicator_consumers raises after some of the indicators have been told of their consumers.
RaisesBetweenIndicators ==
    /\ next <= Len(PASSES) /\ pass = "indicator_consumers"
    /\ Raises
    /\ \E n \in 1..Len(semantics.decoding.indicators) :
          semantics' = Over([decoding |-> annotate(semantics.decoding, n, program.graph,
                                                   semantics.semantic_chains)], semantics)

\* The errors and what they and the decoders add to the hints.
Finish ==
    /\ next = Len(PASSES) + 1
    /\ next' = next + 1
    /\ semantics' = Over([analysis_errors |-> errors,
                          hints |-> semantics.hints
                            \cup (IF errors # <<>> THEN {"passes_failed"} ELSE {})
                            \cup (IF \E d \in ToSet(semantics.decoding.functions) : d.labels # {}
                                  THEN {"decodes_strings"} ELSE {})], semantics)
    /\ UNCHANGED <<program, errors, shadow>>

Next == Completes \/ RaisesAtOnce \/ RaisesWithGraphBuilt \/ RaisesBetweenIndicators \/ Finish
Spec == Init /\ [][Next]_vars
=============================================================================

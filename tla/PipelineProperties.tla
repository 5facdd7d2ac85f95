------------------------- MODULE PipelineProperties -------------------------
(***************************************************************************)
(* What the passes promise together: that they are the passes PassDriver   *)
(* is about, and that the views of a report agree with one another and     *)
(* with the program.                                                       *)
(***************************************************************************)
EXTENDS Pipeline

finished == next > Len(PASSES)
returned(pass_name) == finished /\ pass_name \notin ToSet(errors)

-----------------------------------------------------------------------------
(* The passes as those of PassDriver.                                      *)

\* The passes whose entries of the dictionary a pass reads.
READ_BY ==
    [semantic_scanner |-> {}, constants |-> {}, cfg |-> {}, go_types |-> {},
     dataflow |-> {"semantic_scanner", "constants"},
     interesting_functions |-> {"semantic_scanner", "dataflow", "cfg"},
     behavior_graph |-> {"semantic_scanner", "constants", "dataflow", "cfg"},
     behavior_ir |-> {"semantic_scanner", "constants", "dataflow", "cfg"},
     semantic_chains |-> {"semantic_scanner", "behavior_ir"},
     runtime_decoding |-> {"behavior_ir", "semantic_chains"},
     decryption_recovery |-> {"runtime_decoding"},
     artifact_classification |-> {"semantic_scanner", "decryption_recovery"},
     indicator_consumers |-> {"runtime_decoding", "semantic_chains"},
     behavior_story |-> {"semantic_scanner", "behavior_ir", "semantic_chains",
                         "decryption_recovery", "indicator_consumers"},
     sink_args |-> {"semantic_scanner", "dataflow", "behavior_ir", "semantic_chains", "behavior_story"}]
Numbers(names) == {i \in 1..Len(PASSES) : PASSES[i] \in names}

\* The part of the dictionary that is the result of a pass, whatever later passes make of it: the
\* graph moves candidates to other instructions, the consumers tell the indicators, Finish hints.
unplaced(known) == [known EXCEPT !.candidates = Each(@, LAMBDA c : [c EXCEPT !.at = None, !.pair = None])]
untold(xs) == Each(xs, LAMBDA x : [x EXCEPT !.consumed_by = <<>>])
placeless(e) == IF e[3] = "may_read_string_field" THEN <<e[1], e[2], e[3], None>> ELSE e
part(pass_name, sem) ==
    CASE pass_name = "semantic_scanner" ->
            [x \in DOMAIN DEFAULTS.semantic_scanner |->
                IF x = "hints" THEN sem.hints \ {"passes_failed", "decodes_strings"} ELSE sem[x]]
      [] pass_name = "dataflow" ->
            [dataflow |-> [f \in DOMAIN sem.dataflow |-> unplaced(sem.dataflow[f])]]
      [] pass_name = "behavior_graph" ->
            [behavior_graph |-> [sem.behavior_graph EXCEPT !.edges = {placeless(e) : e \in @}]]
      [] pass_name = "runtime_decoding" ->
            [decoding |-> [functions |-> Each(sem.decoding.functions, LAMBDA d :
                                            [d EXCEPT !.recovered_indicators = untold(@)]),
                           indicators |-> untold(sem.decoding.indicators)]]
      [] pass_name = "indicator_consumers" -> [decoding |-> sem.decoding]
      [] OTHER -> [x \in DOMAIN DEFAULTS[pass_name] |-> sem[x]]

\* The dictionary that holds the results read and nothing else.
together(results) ==
    LET order == InOrder(DOMAIN results, <)
    IN  FoldLeft(LAMBDA sem, i : Over(results[i], sem), Nothing, order)

made(p, i, results) == part(PASSES[i], callback(p, PASSES[i], together(results)))
ran == 1..(IF finished THEN Len(PASSES) ELSE next - 1)
SOURCES[i \in 1..Len(PASSES)] ==      \* the passes whose failure can reach pass i
    {i} \cup UNION {SOURCES[j] : j \in Numbers(READ_BY[PASSES[i]])}
failures == {i \in ran : PASSES[i] \in ToSet(errors)}

Driver == INSTANCE PassDriver WITH
    N <- Len(PASSES), Reads <- [i \in 1..Len(PASSES) |-> Numbers(READ_BY[PASSES[i]])],
    Compute <- made,
    next <- IF finished THEN Len(PASSES) + 1 ELSE next,
    results <- [i \in ran |-> part(PASSES[i], semantics)],
    shadow  <- [i \in ran |-> part(PASSES[i], shadow)],
    failed  <- failures,
    tainted <- {i \in ran : SOURCES[i] \cap failures # {}}

\* analyze_semantics is the pass driver: each pass makes its result from the results of the passes
\* READ_BY names and from nothing else, a pass that raises, half way or not, costs its own result
\* only, and what behavior_graph and indicator_consumers write into the results of earlier passes
\* changes nothing a later pass goes by.
ImplementsPassDriver == Driver!Spec

-----------------------------------------------------------------------------
(* The views and the program.                                              *)

graph == program.graph
calls_in(f) == ToSet(graph.calls[f])

\* A call of a function of the program that no table of names takes for something else.
ordinary(c) ==
    /\ c.visible /\ c.user /\ c.to \in ToSet(graph.order) \ Noise
    /\ classify_call_behavior(c.to) = None /\ classify_runtime_call(c.to) = None

\* The behaviour graph goes by what a call's target is named and behavior_ir by what it is, and yet
\* they agree: the ordinary calls that are shown are edges of both, also where the list of
\* operations is cut; each API a function is said to invoke is a tag of its record, or else a
\* function of the program with the name of one and an edge of the record; each tag that stands
\* for an API has such an edge in the graph; and no edge of the graph hangs in the air, whichever
\* passes failed before.
ViewsAgree ==
    returned("behavior_graph") /\ returned("behavior_ir") =>
        LET edges == semantics.behavior_graph.edges   nodes == semantics.behavior_graph.nodes
            edges_of_kind(f, kind) == {e \in edges : e[1] = func(f) /\ e[3] = kind}
        IN  /\ \A e \in edges : e[1] \in nodes /\ e[2] \in nodes
            /\ \A f \in ToSet(graph.order) :
                LET record == semantics.behavior_ir[f]
                    shown  == {c.at : c \in {x \in calls_in(f) : ordinary(x)}}
                IN  /\ {<<func(e.to), e.at>> : e \in {x \in ToSet(record.edges) : x.at \in shown}} =
                            {<<e[2], e[4]>> : e \in {x \in edges_of_kind(f, "calls") : x[4] \in shown}}
                    /\ \A e \in edges_of_kind(f, "invokes_behavior") :
                            \E c \in calls_in(f) :
                                /\ e[4] = c.at /\ e[2] = api(c)
                                /\ \/ classify_runtime_call(c.to) # None \/ c.to \in Noise
                                   \/ ~c.user /\ e[2][2] \in record.tags
                                   \/ \E r \in ToSet(record.edges) : r.at = c.at /\ r.to = c.to
                    /\ \A tag \in record.tags \cap Range(API_BEHAVIOR_HINTS) :
                            \E e \in edges_of_kind(f, "invokes_behavior") : e[2][2] = tag

\* What a literal is the encoding of, where it is long enough for decryption to try.
undone(v) ==
    {c.text : c \in {x \in ToSet(decoded_literal_candidates(v)) :
        /\ ~x.nested
        /\ IF x.encoding = "hex" THEN plausible_hex_literal(v) ELSE plausible_base64_literal(v)}}

\* What runtime_decoding recovers from a literal passed to a decoder is among what decryption
\* recovers for that decoder, by layers of its own, unless its list is full; but only what
\* decryption calls an artifact, and reached by texts that are each long enough for it.  Of the
\* indicators it leaves out domains, other paths, the names of files, and those in short literals.
DecryptionSubsumes ==
    returned("decryption_recovery") /\ Len(semantics.decryption.artifacts) < MAX_DECODED_ARTIFACTS
    => \A d \in ToSet(semantics.decoding.functions) : \A g \in ToSet(d.callers) :
        \A v \in ToSet(g.strings) : \A c \in ToSet(decoded_literal_candidates(v)) :
            /\ c.text \in Strong
            /\ c.text \in undone(v) \cup UNION {undone(t) : t \in undone(v)}
            => \E y \in ToSet(semantics.decryption.artifacts) :
                    y.function = d.function /\ y.data = c.text

\* An indicator that is listed reaches the action it belongs to: where the function that passes a
\* literal to a decoder also calls a function with a chain of the kind that uses such a value, the
\* story's action of that chain shows the value, whichever other passes failed; unless the greatest
\* number of consumers is told and that function is none of them.
IndicatorsReachStory ==
    returned("indicator_consumers") /\ returned("behavior_story")
    /\ semantics.story.action_count <= ACTION_LIMIT =>
        \A x \in ToSet(semantics.decoding.indicators) : x.caller # None =>
            \A c \in calls_in(x.caller) : c.visible /\ c.to # x.producer /\ is_app_function(c.to) =>
                \A chain \in ToSet(semantics.semantic_chains) :
                    /\ chain.function = c.to
                    /\ chain.kind \in CONSUMER_CHAIN_KINDS
                    /\ consumer_matches_indicator_type(chain.kind, x.type)
                    => \/ \E a \in ToSet(semantics.story.actions) :
                            /\ a.function = c.to /\ a.kind = chain.kind
                            /\ <<x.type, x.value>> \in ToSet(a.artifacts) \/ Len(a.artifacts) = 20
                       \/ /\ Len(x.consumed_by) = MAX_CONSUMERS
                          /\ \A y \in ToSet(x.consumed_by) : y.function # c.to

\* The story is true to the program: each action of an API is a call of it in that function; a
\* call that allocates executable memory, resolves imports or enters the kernel is told only of
\* functions the scanner promoted to loaders, and so of none when the scanner failed; that a
\* function loads code is told of others too, but then it calls what loads a library or resolves an
\* import; and every other operation of the program's own functions is told.
StoryTrue ==
    returned("behavior_story") =>
        LET promoted == {l.function : l \in ToSet(semantics.loaders)}
            told_of  == ToSet(semantics.story.actions)
        IN  /\ \A a \in told_of : a.target_api # None =>
                    /\ is_app_function(a.function)
                    /\ \E c \in calls_in(a.function) : c.to = a.target_api
            /\ \A a \in told_of : a.category = "execution" =>
                    \/ a.function \in promoted
                    \/ /\ a.kind = "dynamic_loader" /\ a.target_api = None
                       /\ \E c \in calls_in(a.function) :
                              ~c.user /\ classify_call_behavior(c.to) \in LIBRARY_LOADS
            /\ semantics.story.action_count <= ACTION_LIMIT =>
                \A f \in DOMAIN semantics.behavior_ir : \A o \in ToSet(semantics.behavior_ir[f].flow) :
                    /\ is_app_function(f) /\ o.kind \in DOMAIN ACTION_KINDS
                    /\ ACTION_KINDS[o.kind] # "execution"
                    => \E a \in told_of : a.function = f /\ a.kind = o.kind /\ a.target_api = o.target

\* Data that an instruction refers to is in an array that names the function, however the windows
\* around such data were merged and made unique, unless the window is zero, the array has the
\* greatest length, or a large copy reads there, if only from a section before that ends earlier.
ReferencesKept ==
    returned("constants") =>
        \A f \in ToSet(scanned_functions(program)) : \A i \in ToSet(program.code[f]) :
            \A r \in places_for_va(program.sections, i.imm) :
                LET seen == window_bytes(program.sections[r], i.imm)
                IN  /\ i.src = "imm" \/ i.mem = "global"
                    /\ ~program.sections[r].excluded
                    /\ Len(seen) >= MIN_ARRAY_SIZE /\ ~is_mostly_zero(seen)
                    => \E a \in ToSet(semantics.arrays) :
                          /\ a.lo <= i.imm
                          /\ \/ /\ a.section = r
                                /\ \/ i.imm < a.lo + a.size /\ f \in a.refs
                                   \/ a.size >= MAX_ARRAY_WINDOW
                             \/ i.imm < a.lo + a.size /\ "large_copy_source" \in a.reasons

\* Every interaction is told, and told once: a visible call that TARGET_HINTS knows has one sink of
\* its address and kind, with the strings the call passes, whichever passes failed before; a sink
\* that has an address is a call of its target there, and all that is said of one address is of one
\* category, whichever of the views came first; a sink without one is of a function that calls its
\* target.
SinksTellCalls ==
    returned("sink_args") =>
        LET sinks == ToSet(semantics.sinks)
        IN  /\ \A s \in sinks : s.at # NoPlace =>
                    \E c \in calls_in(s.function) : c.at = s.at /\ c.to = s.target
            /\ \A s, t \in sinks : s.function = t.function /\ s.at = t.at /\ s.at # NoPlace
                                  => s.category = t.category
            /\ \A s \in sinks : s.target \in DOMAIN TARGET_HINTS =>
                    \E c \in calls_in(s.function) : c.to = s.target
            /\ Len(semantics.sinks) < MAX_SINKS =>
                \A f \in ToSet(graph.order) : \A c \in calls_in(f) :
                    /\ c.visible /\ c.to \in DOMAIN TARGET_HINTS
                    => LET here == {s \in sinks : s.function = f /\ s.at = c.at
                                                 /\ s.kind = TARGET_HINTS[c.to]}
                       IN  /\ Cardinality(here) = 1
                           /\ \A s \in here : \/ Len(s.strings) = MAX_STRINGS
                                              \/ \A v \in ToSet(c.strs) :
                                                    useful_sink_string(v) => v \in ToSet(s.strings)

\* What is named as an argument of a call: the parts of a request, a process, a file and a loader.
named_of(s) ==
    Concat(s.http, LAMBDA h : h.url \o h.content_type)
    \o Concat(s.process, LAMBDA p : p.executable \o p.argv)
    \o Concat(s.file, LAMBDA x : x.path \o x.data)
    \o Concat(s.loader, LAMBDA l : l.values)
FROM_CALL == DIRECT_SOURCES \cup {"dataflow"}

\* An argument that is said to come from the call comes from that call and not from another one of
\* the same function or target, from what the program passes there or what dataflow saw passed; and
\* where a call passes words to a process, its arguments are among those, not words from near by.
ArgumentsPassed ==
    returned("sink_args") =>
        \A s \in ToSet(semantics.sinks) :
            LET calls  == {c \in calls_in(s.function) : c.at = s.at}
                passed == UNION {ToSet(c.strs) : c \in calls}
                seen   == UNION {ToSet(x.strs) : x \in ToSet(call_args(semantics.dataflow, s.function, s.at))}
            IN  /\ \A x \in ToSet(named_of(s)) :
                    x.source \in FROM_CALL => s.at # NoPlace /\ x.value \in passed \cup seen
                /\ \A p \in ToSet(s.process) :
                    (\E v \in passed : useful_argv_part(v) /\ useful_direct_sink_argument(v))
                    => \A x \in ToSet(p.argv) :
                        x.source # "argument_array_or_slice" => x.value \in passed
=============================================================================

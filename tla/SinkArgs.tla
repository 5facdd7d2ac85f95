------------------------------ MODULE SinkArgs ------------------------------
(***************************************************************************)
(* passes/sink_args.py: one record for each interaction with the system,   *)
(* put together from the operations, the chains, the story, the loaders    *)
(* and the visible calls.  What they say of one function, kind, target and *)
(* address is one sink; of those without an address, of function, kind and *)
(* target.  Then the arguments are named, and the sinks sorted and cut.    *)
(*                                                                         *)
(* Evidence, arg_roles and summaries are left out, and artifacts that      *)
(* differ in confidence and details only count once.  Addresses have as    *)
(* many digits as one another, so that their strings are in their order.   *)
(***************************************************************************)
EXTENDS BehaviorStory, ProcessFileArgs

CONSTANTS
    MAX_SINKS, MAX_STRINGS, MAX_DATA_SOURCES,       \* 200, 12, 8
    TARGET_HINTS,                                   \* callee -> the kind of sink its name stands for
    Libraries, Procedures                           \* literals: file names of libraries; names with a capital

FILE_KINDS ==
    {"file_read", "file_write", "file_create", "file_open", "file_delete", "file_rename",
     "directory_create", "recursive_filesystem_walk", "permission_change", "stream_read"}
LOADER_KINDS ==
    {"dynamic_library_load", "dynamic_import_resolution", "dynamic_syscall_call", "raw_syscall",
     "executable_memory_allocation", "memory_protection_change", "thread_creation"}

KIND_CATEGORIES ==
    [kind \in FILE_KINDS |-> "filesystem"]
    @@ [kind \in NETWORK_KINDS |-> "network"]
    @@ [kind \in {"process_launch", "process_execution"} |-> "process"]
    @@ [kind \in {"start_goroutine"} |-> "concurrency"]
    @@ [kind \in LOADER_KINDS |-> "loader"]
    @@ [kind \in {"registry_read", "registry_write", "registry_create", "registry_delete"} |-> "registry"]
    @@ [kind \in {"service_create", "scheduled_task_create", "persistence_setup"} |-> "persistence"]

CHAIN_KIND_CATEGORIES ==
    [outbound_network_client |-> "network", inbound_network_service |-> "network",
     network_activity |-> "network", file_write |-> "filesystem", file_read |-> "filesystem",
     process_launch |-> "process", goroutine_spawn |-> "concurrency", dynamic_loader |-> "loader"]

CHAIN_KIND_TO_SINK_KIND ==
    [outbound_network_client |-> "network_connect", inbound_network_service |-> "network_listen",
     network_activity |-> "network_connect", file_write |-> "file_write", file_read |-> "file_read",
     process_launch |-> "process_launch", goroutine_spawn |-> "start_goroutine",
     dynamic_loader |-> "dynamic_code_or_process_execution"]

CATEGORY_RANK ==
    <<"process", "loader", "network", "filesystem", "concurrency", "persistence", "registry">>

NoPlace == 0        \* no address

classify_target(target) == IF target \in DOMAIN TARGET_HINTS THEN TARGET_HINTS[target] ELSE None

category_for_kind_or_target(kind, target) ==
    CASE kind \in DOMAIN KIND_CATEGORIES -> KIND_CATEGORIES[kind]
      [] kind \in DOMAIN CHAIN_KIND_CATEGORIES -> CHAIN_KIND_CATEGORIES[kind]
      [] classify_target(target) # None -> KIND_CATEGORIES[classify_target(target)]
      [] OTHER -> None

useful_sink_string(v) == classify_artifact(v) # None \/ v \in Sentences \cup Bodies
useful_direct_sink_argument(v) == v \notin Sentences \cup Bodies \cup ContentTypes

-----------------------------------------------------------------------------
(* Static sources.                                                         *)

source_kind(x) ==
    CASE "class" \in DOMAIN x -> "string" [] "data" \in DOMAIN x /\ x.preview -> "constant_array"
      [] OTHER -> "data_blob"

first_among(texts, S) == Take(SelectSeq(texts, LAMBDA v : v \in S), 1)
static_source(kind, id, named, section, size, high, magic, reasons, texts, other) ==
    [kind |-> kind, id |-> id, named |-> named, section |-> section, size |-> size, high |-> high,
     magic |-> magic, reasons |-> reasons, url |-> first_among(texts, Urls), ctype |-> first_among(texts, ContentTypes),
     body |-> first_among(texts, Bodies), other |-> other]

\* What is known of a static source: the chains tell a string by its address and leave out the
\* reasons and signatures.  A preview with the noise of a packed array shows nothing else.
described(x, whole_item) ==
    CASE source_kind(x) = "string" ->
            static_source("string", IF whole_item THEN None ELSE x.id, ~whole_item, 0, 0, FALSE, {}, {},
                          <<x.value>>, SelectSeq(<<x.value>>, useful_sink_string))
      [] source_kind(x) = "constant_array" ->
            static_source("constant_array", x.id, TRUE, x.section, x.size, x.high,
                          IF whole_item THEN x.magic ELSE {}, IF whole_item THEN x.reasons ELSE {},
                          x.texts, Guarded(~x.high, <<"unclassified">>))
      [] OTHER ->
            static_source("data_blob", x.id, TRUE, x.section, x.hi - x.lo, x.high,
                          IF whole_item THEN x.magic ELSE {}, IF whole_item THEN x.reasons ELSE {}, <<>>, <<>>)

should_keep_data_source(s) ==
    \/ s.kind = "string" \/ preview(s) # <<>> \/ s.magic # {} \/ s.high
    \/ s.reasons \ {"referenced_global_data"} # {}

compact_data_sources(items, whole_item) ==
    SelectSeq(Each(items, LAMBDA x : described(x, whole_item)), should_keep_data_source)

static_items(items) == SelectSeq(items, LAMBDA x : "kind" \notin DOMAIN x)     \* not the operations

\* Sources that look the same once their numbers are gone are one, with what either was kept for.
looks(s) == [s EXCEPT !.id = None, !.named = FALSE, !.magic = {}, !.reasons = {}]
of_alike(alike) ==
    [alike[1] EXCEPT !.id = None, !.named = FALSE,
        !.magic   = UNION ToSet(Take(SelectSeq(Each(alike, LAMBDA s : s.magic), LAMBDA m : m # {}), 1)),
        !.reasons = UNION ToSet(Take(SelectSeq(Each(alike, LAMBDA s : s.reasons), LAMBDA r : r # {}), 1))]
coalesce_data_sources(sources) ==
    Each(First(sources, looks), LAMBDA a : of_alike(SelectSeq(sources, LAMBDA s : looks(s) = looks(a))))

-----------------------------------------------------------------------------
(* What the views say of the sinks: each mention is a sink of its own, and *)
(* those that belong together are merged.                                  *)

mention(f, kind, target, category, at) ==
    [function |-> f, kind |-> kind, target |-> IF target = None THEN kind ELSE target,
     category |-> IF category = "execution" THEN "loader" ELSE category, at |-> at,
     strings |-> <<>>, artifacts |-> <<>>, sources |-> <<>>, registers |-> <<>>, typed |-> <<>>,
     direct |-> <<>>, listed |-> <<>>, arrays |-> <<>>, fields |-> <<>>, roles |-> <<>>]

merge_strings(s, values) == [s EXCEPT !.strings = @ \o SelectSeq(values, useful_sink_string)]
merge_artifacts(s, artifacts) == [s EXCEPT !.artifacts = @ \o artifacts]
with_strings(s, values) == merge_artifacts(merge_strings(s, values), classified(values))
merge_role(s, role) == [s EXCEPT !.roles = @ \o Guarded(role # None, <<role>>)]

\* What a source shows counts also where the source is one too many.
merge_data_sources(s, sources) ==
    [with_strings(s, SelectSeq(Concat(sources, preview), LAMBDA v : classify_artifact(v) # None))
        EXCEPT !.sources = @ \o sources]

merge_direct_strings(s, values, source) ==
    [s EXCEPT !.direct = @ \o SelectSeq(
        [i \in 1..Len(values) |-> argument_value(values[i], source, <<"arg", i>>)] \o <<>>,
        LAMBDA x : useful_direct_sink_argument(x.value))]

merge_typed_call_args(s, dataflow) == [s EXCEPT !.typed = call_args(dataflow, s.function, s.at)]

from_operation(f, o, category, sources, dataflow) ==
    merge_role(merge_data_sources(merge_typed_call_args(merge_direct_strings(with_strings(
        [mention(f, o.kind, o.target, category, o.at) EXCEPT
            !.listed = SelectSeq(o.args, useful_sink_string),
            !.arrays = Each(SelectSeq(o.symbolic, LAMBDA a : a.value.kind \in TEXT_KINDS),
                            LAMBDA a : a.value.label)],
        o.strs \o o.args), o.strs, "behavior_ir_string_args"), dataflow), sources), o.role)

from_function(f, record, dataflow) ==
    Concat(record.flow, LAMBDA o :
        Guarded(category_for_kind_or_target(o.kind, o.target) # None,
            <<from_operation(f, o, category_for_kind_or_target(o.kind, o.target),
                  compact_data_sources(record.data.data_blobs \o record.data.constant_arrays
                                       \o record.data.strings, TRUE), dataflow)>>))

_collect_from_behavior_ir(graph, sem) ==
    Concat(SelectSeq(graph.order, LAMBDA f : f \in DOMAIN sem.behavior_ir),
           LAMBDA f : from_function(f, sem.behavior_ir[f], sem.dataflow))

\* The sinks of a chain; a chain without any stands for one.
chain_sinks(c) ==
    IF c.sinks # <<>>
    THEN Each(c.sinks, LAMBDA o : [kind |-> o.kind, target |-> o.target, at |-> o.at, strs |-> Take(o.strs, 6),
                                   role |-> o.role])
    ELSE <<[kind |-> CHAIN_KIND_TO_SINK_KIND[c.kind], target |-> c.kind, at |-> NoPlace, strs |-> <<>>,
            role |-> None]>>

chain_category(c, o) ==
    IF category_for_kind_or_target(o.kind, o.target) # None THEN category_for_kind_or_target(o.kind, o.target)
    ELSE CHAIN_KIND_CATEGORIES[c.kind]

merge_field_args(s, fields) ==
    [merge_artifacts(s, Each(fields, LAMBDA v : <<"field_name", v>>)) EXCEPT !.fields = @ \o fields]

from_chain_sink(c, o, sources) ==
    merge_role(merge_role(merge_data_sources(merge_field_args(with_strings(
        mention(c.function, o.kind, o.target, chain_category(c, o), o.at), o.strs \o c.literals), c.fields),
        sources), o.role), c.role)

_collect_from_semantic_chains(sem) ==
    Concat(SelectSeq(sem.semantic_chains, LAMBDA c : c.kind \in DOMAIN CHAIN_KIND_CATEGORIES), LAMBDA c :
        Each(chain_sinks(c), LAMBDA o :
            from_chain_sink(c, o, compact_data_sources(static_items(c.sources), FALSE))))

is_sink_action(a) ==
    \/ category_for_kind_or_target(a.kind, a.target_api) # None
    \/ a.category \in ToSet(CATEGORY_RANK) \cup {"execution"}

\* The actions that are listed, and then those of each function, which are without address and role.
_collect_from_behavior_story(story) ==
    Concat(SelectSeq(story.actions, is_sink_action), LAMBDA a :
        <<with_strings(merge_artifacts(merge_role(mention(a.function, a.kind, a.target_api, a.category, a.at),
                                                  a.role), a.artifacts), a.strs)>>)
    \o Concat(story.execution_flow, LAMBDA x : Each(SelectSeq(x.actions, is_sink_action), LAMBDA a :
        merge_artifacts(mention(x.function, a.kind, a.target_api, a.category, NoPlace), Take(a.artifacts, 8))))

_collect_from_loader_behaviors(loaders) ==
    Each(loaders, LAMBDA l : mention(l.function, l.kind, None, "loader", NoPlace))

in_pairs(strs) ==
    [i \in 1..Len(strs) |-> argument_value(strs[i], "call_graph", <<"pair", STRING_REGISTERS[2*i - 1]>>)] \o <<>>

from_call(f, c, dataflow) ==
    merge_typed_call_args(merge_direct_strings(with_strings(
        [mention(f, classify_target(c.to), c.to, KIND_CATEGORIES[classify_target(c.to)], c.at)
            EXCEPT !.registers = in_pairs(c.strs)],
        c.strs), c.strs, "call_graph_string_args"), dataflow)

_collect_from_call_graph(graph, dataflow) ==
    Concat(graph.order, LAMBDA f :
        Each(SelectSeq(graph.calls[f], LAMBDA c : c.visible /\ classify_target(c.to) # None),
             LAMBDA c : from_call(f, c, dataflow)))

mentions(graph, sem) ==
    _collect_from_behavior_ir(graph, sem) \o _collect_from_semantic_chains(sem)
    \o _collect_from_behavior_story(sem.story) \o _collect_from_loader_behaviors(sem.loaders)
    \o _collect_from_call_graph(graph, sem.dataflow)

\* Mutant: the address is left out of the key.
sink_key_Target(s) == <<s.function, s.kind, s.target>>

sink_key(s) == <<s.function, s.kind, s.target, s.at>>

\* The first to mention a sink settles its category and its role.
_upsert_sink(same) ==
    [same[1] EXCEPT
        !.strings   = Take(Distinct(Concat(same, LAMBDA s : s.strings)), MAX_STRINGS),
        !.artifacts = Take(Distinct(Concat(same, LAMBDA s : s.artifacts)), 20),
        !.sources   = Take(Distinct(Concat(same, LAMBDA s : s.sources)), MAX_DATA_SOURCES),
        !.registers = Take(Concat(same, LAMBDA s : s.registers), 2),
        !.typed     = Take(Concat(same, LAMBDA s : s.typed), 1),
        !.direct    = Take(Distinct(Concat(same, LAMBDA s : s.direct)), MAX_COMPONENTS),
        !.listed    = Take(Distinct(Concat(same, LAMBDA s : s.listed)), MAX_COMPONENTS),
        !.arrays    = Take(Distinct(Concat(same, LAMBDA s : s.arrays)), MAX_COMPONENTS),
        !.fields    = Take(Distinct(Concat(same, LAMBDA s : s.fields)), MAX_COMPONENTS),
        !.roles     = Take(Concat(same, LAMBDA s : s.roles), 1)]

collected(all) ==
    Each(First(all, sink_key), LAMBDA s : _upsert_sink(SelectSeq(all, LAMBDA t : sink_key(t) = sink_key(s))))

-----------------------------------------------------------------------------
(* Loaders, and the list.                                                  *)

loader_shape(s) ==
    CASE s.kind = "dynamic_library_load" \/ named_by(s.target) = "load_library" -> "load_library"
      [] s.kind = "dynamic_import_resolution" \/ named_by(s.target) = "resolve_procedure" -> "resolve_procedure"
      [] s.kind = "dynamic_syscall_call" \/ named_by(s.target) = "call_resolved_procedure" ->
            "call_resolved_procedure"
      [] s.kind = "raw_syscall" \/ named_by(s.target) = "raw_syscall" -> "raw_syscall"
      [] OTHER -> None

ordered_loader_strings(s) ==
    Distinct(typed_string_args(s) \o s.registers
             \o Each(s.listed, LAMBDA v : argument_value(v, "behavior_ir_arguments", None)) \o sink_strings(s))

loader_record(shape, values) ==
    Guarded(shape # None /\ values # <<>>,
        <<[shape |-> shape, library |-> Take(among(values, Libraries), 1),
           procedure |-> Guarded(shape = "resolve_procedure", Take(among(values, Procedures), 1)),
           values |-> Take(values, MAX_COMPONENTS)]>>)

loader_arguments(s) ==
    Guarded(s.category = "loader", loader_record(loader_shape(s), ordered_loader_strings(s)))

\* The names found are artifacts of the sink too.
named_artifacts(r) ==
    Each(r.library, LAMBDA x : <<"dll_name", x.value>>)
    \o Each(r.procedure, LAMBDA x : <<"windows_api_name", x.value>>)

with_arguments(s, loader, producers) ==
    [s EXCEPT !.artifacts = Take(Distinct(@ \o Concat(loader, named_artifacts)), 20),
              !.sources = coalesce_data_sources(@)]
    @@ [http |-> http_arguments(s, producers), process |-> process_arguments(s), file |-> file_arguments(s),
        loader |-> loader]

enrich_sink_arguments(s, dataflow) ==
    with_arguments(s, loader_arguments(s), body_producers_from_dataflow(dataflow, s.function))

\* The story's order of functions, if it has one.
_sink_function_order(graph, story) ==
    IF story.execution_flow = <<>> THEN _function_order(graph)
    ELSE Distinct(Each(story.execution_flow, LAMBDA x : x.function) \o graph.order)

\* Sinks of one function and category without an address are left in the order they were found,
\* where the code goes on to compare the names of their targets.
_sink_before(order, a, b) ==
    LET x == Rank(order, a.function)             y == Rank(order, b.function)
        j == Rank(CATEGORY_RANK, a.category)     k == Rank(CATEGORY_RANK, b.category)
    IN  \/ x < y
        \/ x = y /\ (j < k \/ (j = k /\ (Rank(Names, a.function) < Rank(Names, b.function)
                                         \/ (a.function = b.function /\ a.at < b.at))))

sorted_sinks(sinks, order) == SortBy(sinks, LAMBDA a, b : _sink_before(order, a, b))

analyze_sink_args(graph, sem) ==
    Take(sorted_sinks(Each(collected(mentions(graph, sem)), LAMBDA s : enrich_sink_arguments(s, sem.dataflow)),
                      _sink_function_order(graph, sem.story)), MAX_SINKS)
=============================================================================

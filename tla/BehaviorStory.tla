--------------------------- MODULE BehaviorStory ---------------------------
(***************************************************************************)
(* passes/behavior_story.py: the actions an evaluator reads.  They come    *)
(* from the operations of behavior_ir, the semantic chains, the embedded   *)
(* artifacts and what was decrypted; they are made unique, ordered by when *)
(* their function is first reached from main.main and by what they do, and *)
(* cut at ACTION_LIMIT.  Descriptions and previews are left out.           *)
(***************************************************************************)
EXTENDS SemanticChains

CONSTANTS ACTION_LIMIT      \* 120

ACTION_KINDS ==
    [kind \in {"http_network", "http_request", "http_get", "http_post", "network_connect",
               "network_listen"} |-> "network"]
    @@ [kind \in {"file_read", "file_open", "file_write", "file_create", "file_delete",
                  "file_rename", "directory_create", "recursive_filesystem_walk",
                  "permission_change"} |-> "filesystem"]
    @@ [kind \in {"process_launch"} |-> "process"]
    @@ [kind \in {"dynamic_library_load", "dynamic_import_resolution", "dynamic_syscall_call",
                  "raw_syscall", "executable_memory_allocation", "memory_protection_change",
                  "thread_creation"} |-> "execution"]
    @@ [kind \in {"environment_read", "environment_write"} |-> "environment"]
    @@ [kind \in {"start_goroutine"} |-> "concurrency"]

ACTION_RANK ==
    <<"network", "filesystem", "process", "execution", "concurrency", "environment",
      "crypto_or_decoding", "embedded_artifact">>

LOW_LEVEL_EXECUTION_KINDS == {k \in DOMAIN ACTION_KINDS : ACTION_KINDS[k] = "execution"}

category_for_chain(kind) ==
    CASE kind \in {"outbound_network_client", "inbound_network_service", "network_activity"} ->
            "network"
      [] kind = "process_launch" -> "process"
      [] kind = "goroutine_spawn" -> "concurrency"
      [] kind = "dynamic_loader" -> "execution"
      [] kind = "runtime_string_materialization" -> "crypto_or_decoding"
      [] OTHER -> "filesystem"

\* The functions in the order a breadth-first walk from main.main takes them off its queue; the
\* rest after them.  A queue may hold a function twice; only its first turn counts.
next_in(graph, seen) ==
    LET callees == Concat(seen, LAMBDA f : Each(graph.calls[f], LAMBDA c : c.to))
    IN  SelectSeq(Guarded("main.main" \in ToSet(graph.order), <<"main.main">>) \o callees,
                  LAMBDA f : f \in ToSet(graph.order) /\ f \notin ToSet(seen))

_function_order(graph) ==
    LET walk[n \in 0..Len(graph.order)] ==
            IF n = 0 THEN <<>> ELSE LET seen == walk[n-1] IN seen \o Take(next_in(graph, seen), 1)
        reached == walk[Len(graph.order)]
    IN  reached \o SelectSeq(graph.order, LAMBDA f : f \notin ToSet(reached))

\* Mutant: the consumers of an indicator are not told of it.
_indicators_by_function_NoConsumers(indicators, f) ==
    Concat(indicators, LAMBDA x : Each(SelectSeq(<<x.producer, x.caller>>, LAMBDA g : g = f),
                                       LAMBDA g : <<x.type, x.value>>))

_indicators_by_function(indicators, f) ==
    Concat(indicators, LAMBDA x :
        Each(SelectSeq(<<x.producer, x.caller>> \o Each(x.consumed_by, LAMBDA y : y.function),
                       LAMBDA g : g = f),
             LAMBDA g : <<x.type, x.value>>))

classified(values) == Concat(values, LAMBDA v : Guarded(classify_artifact(v) # None,
                                                        <<<<classify_artifact(v), v>>>>))
artifacts_for_operation(o) == classified(o.strs \o o.args)
artifacts_for_chain(c) ==
    classified(c.literals) \o Concat(c.sinks, LAMBDA o : classified(Take(o.strs, 6)))
    \o Each(c.fields, LAMBDA v : <<"field_name", v>>)

confidence_for_operation(o, artifacts) ==
    high_if(artifacts # <<>> \/ o.kind \in {"raw_syscall", "dynamic_syscall_call",
                                            "process_launch", "http_post", "http_get"})

\* Mutant: the promotion of loaders is not looked at.
_is_unpromoted_low_level_execution_Never(kind, f, promoted) == FALSE

_is_unpromoted_low_level_execution(kind, f, promoted) ==
    kind \in LOW_LEVEL_EXECUTION_KINDS /\ f \notin promoted

\* The address is that of an operation, the strings those of the sinks of a chain.
action(category, kind, f, api, conf, artifacts, role) ==
    [category |-> category, kind |-> kind, function |-> f, target_api |-> api,
     confidence |-> conf, artifacts |-> Take(Distinct(artifacts), 20), role |-> role,
     at |-> 0, strs |-> <<>>]

_operation_actions(graph, sem) ==
    LET promoted == {l.function : l \in ToSet(sem.loaders)}
    IN  Concat(SelectSeq(graph.order, LAMBDA f : f \in DOMAIN sem.behavior_ir /\ is_app_function(f)),
            LAMBDA f : Concat(SelectSeq(sem.behavior_ir[f].flow, LAMBDA o :
                /\ o.kind \in DOMAIN ACTION_KINDS
                /\ ~_is_unpromoted_low_level_execution(o.kind, f, promoted)),
                LAMBDA o : LET found == artifacts_for_operation(o)
                                        \o _indicators_by_function(sem.indicators, f)
                           IN  <<[action(ACTION_KINDS[o.kind], o.kind, f, o.target,
                                         confidence_for_operation(o, found), found, o.role)
                                     EXCEPT !.at = o.at]>>))

_semantic_chain_actions(sem) ==
    Concat(SelectSeq(sem.semantic_chains, LAMBDA c : is_app_function(c.function)), LAMBDA c :
        <<[action(category_for_chain(c.kind), c.kind, c.function, None, c.confidence,
                  artifacts_for_chain(c) \o _indicators_by_function(sem.indicators, c.function),
                  c.role)
              EXCEPT !.strs = Concat(Take(c.sinks, 12), LAMBDA o : Take(o.strs, 6))]>>)

_embedded_artifact_observations(embedded) ==
    Concat(embedded, LAMBDA p :
        Each(IF p.loaders # <<>> THEN p.loaders
             ELSE IF p.transformers # <<>> THEN p.transformers ELSE <<COMPONENT>>,
             LAMBDA f : action("embedded_artifact", p.kind, f, None, p.confidence,
                               <<<<"embedded_artifact", p.kind>>>>, None)))

\* An artifact is known by its type and description, not by its bytes; then the AES candidates.
_decryption_observations(recovery) ==
    Each(recovery.artifacts, LAMBDA x :
        action("crypto_or_decoding", "decoded_artifact_recovered", x.function, None,
               "high", <<<<x.type, x.description>>>>, None))
    \o Each(recovery.aes_candidates, LAMBDA f :
        action("crypto_or_decoding", "aes_decryption_candidate", f, None, "medium",
               <<<<"crypto", "AES/cipher path identified">>>>, None))

action_key(a) == <<a.function, a.kind, a.target_api, Take(a.artifacts, 6)>>

_action_before(order, a, b) ==
    LET x == Rank(order, a.function)              y == Rank(order, b.function)
        j == Rank(ACTION_RANK, a.category)        k == Rank(ACTION_RANK, b.category)
    IN  x < y \/ (x = y /\ j < k)

\* All the actions, in order and before the cut.  Actions of one function and category are left
\* in the order they were found, where the code goes on to compare the names of their kinds.
story_actions(graph, sem) ==
    LET order == _function_order(graph)
    IN  SortBy(First(_operation_actions(graph, sem) \o _semantic_chain_actions(sem)
                 \o _embedded_artifact_observations(sem.embedded)
                 \o _decryption_observations(sem.decryption), action_key),
           LAMBDA a, b : _action_before(order, a, b))

\* What every action's artifacts and the embedded artifacts add up to.
collect_artifacts(actions, embedded) ==
    {x \in UNION {ToSet(a.artifacts) : a \in ToSet(actions)} :
        x[1] \in {"url", "windows_path", "path", "command", "file_name", "domain_or_file", "domain",
                  "embedded_artifact", "field_name",
                  "embedded_pe", "embedded_elf", "zip_archive", "gzip_stream",
                  "decoded_indicators", "decoded_text_config", "decoded_pe", "decoded_elf",
                  "decoded_zip", "decoded_gzip", "decoded_zlib", "decoded_script"}}
    \cup {<<"embedded_artifact", p.kind>> : p \in ToSet(embedded)}

narrative_for_actions(actions) ==
    LET cats == {a.category : a \in ToSet(actions)}
        roles == {a.role : a \in ToSet(actions)}
    IN  (cats \cap {"filesystem", "process", "execution", "embedded_artifact", "crypto_or_decoding"})
        \cup IF "network" \notin cats THEN {}
             ELSE IF "outbound_client" \in roles THEN {"outbound"}
             ELSE IF "inbound_listener" \in roles THEN {"inbound"} ELSE {"network"}

_execution_flow(order, actions) ==
    LET fs == {a.function : a \in ToSet(actions)}
    IN  Take(Each(InOrder(fs, LAMBDA f, g : Rank(order, f) < Rank(order, g)),
                  LAMBDA f : [function |-> f, actions |->
                      Take(SelectSeq(actions, LAMBDA a : a.function = f), 20)]), 80)

build_behavior_story(graph, sem) ==
    LET actions == story_actions(graph, sem)
    IN  [actions   |-> Take(actions, ACTION_LIMIT),
         action_count |-> Len(actions),
         artifacts |-> collect_artifacts(actions, sem.embedded),
         narrative |-> narrative_for_actions(actions),
         execution_flow |-> _execution_flow(_function_order(graph), actions)]
============================================================================

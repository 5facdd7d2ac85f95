-------------------------- MODULE SemanticChains --------------------------
(***************************************************************************)
(* passes/semantic_chains.py: for each function of behavior_ir, at most    *)
(* one chain of each kind its operations call for, with the sources, the   *)
(* sinks, the literals and the fields around them; sorted and cut.         *)
(* Evidence strings and previews are left out.                             *)
(***************************************************************************)
EXTENDS BehaviorIR

CONSTANTS SINK_LIMIT, CHAIN_LIMIT       \* 20 operations, 200 chains

SOURCE_OPERATION_KINDS ==
    {"crypto_random", "file_read", "stream_read", "environment_read", "base64_decode_or_encode",
     "hex_decode_or_encode", "gzip_compression", "zlib_compression", "aes_crypto",
     "cipher_crypto", "chacha20_crypto"}

SINK_OPERATION_KINDS ==
    {"file_read", "file_write", "file_create", "file_open", "file_delete", "file_rename",
     "directory_create", "recursive_filesystem_walk", "http_network", "http_request",
     "http_get", "http_post", "network_connect", "network_listen", "process_launch",
     "dynamic_library_load", "dynamic_import_resolution", "dynamic_syscall_call",
     "raw_syscall", "permission_change", "environment_write", "start_goroutine"}

DECODER_OPERATION_KINDS ==
    {"base64_decode_or_encode", "hex_decode_or_encode", "gzip_compression", "zlib_compression",
     "aes_crypto", "cipher_crypto", "chacha20_crypto"}

NETWORK_KINDS ==
    {"http_network", "http_request", "http_get", "http_post", "network_connect", "network_listen"}
FILE_WRITE_OPERATION_KINDS == {"file_write", "file_create"}
FILE_READ_OPERATION_KINDS == {"file_read", "file_open"}
LOADER_OPERATION_KINDS ==
    {"dynamic_library_load", "dynamic_import_resolution", "dynamic_syscall_call", "raw_syscall"}
LIBRARY_LOADS == {"dynamic_library_load", "dynamic_import_resolution"}

kinds_of(flow) == {o.kind : o \in ToSet(flow)}
of_kind(flow, kinds) == SelectSeq(flow, LAMBDA o : o.kind \in kinds)

has_high_level_loader_behavior(kinds) == kinds \cap (LIBRARY_LOADS \cup {"process_launch"}) # {}

\* A caller is listed once for each visible call it makes.
_index_callers(graph, f) ==
    Concat(graph.order, LAMBDA g :
        Each(SelectSeq(graph.calls[g], LAMBDA c : c.visible /\ c.to = f), LAMBDA c : g))

_index_crypto_random_functions(ir) == {f \in DOMAIN ir : "crypto_random" \in kinds_of(ir[f].flow)}

map_field_names(flow) ==
    LET values == Concat(of_kind(flow, {"map_write"}), LAMBDA o : o.strs \o o.args)
    IN  Take(Distinct(SelectSeq(values, LAMBDA v : v \in Fields)), 30)

caller_map_fields(f, ir, graph) ==
    LET near == Take(_index_callers(graph, f), 12)
    IN  Take(Distinct(Concat(near, LAMBDA g : IF g \in DOMAIN ir THEN map_field_names(ir[g].flow)
                                               ELSE <<>>)), 30)

literal_strings(flow) == Take(Distinct(Concat(flow, LAMBDA o : o.strs \o o.args)), 40)

path_like_literals(values) == Take(SelectSeq(values, LAMBDA v : v \in Paths \cup Fragments \cup FileNames), 12)

static_data_sources(data) == Take(data.data_blobs \o data.constant_arrays \o data.strings, 40)

network_chain_kind(flow) ==
    LET ops == ToSet(of_kind(flow, NETWORK_KINDS))
    IN  IF \E o \in ops : o.role = "inbound_listener" \/ o.kind = "network_listen" \/ o.side = "in"
        THEN "inbound_network_service"
        ELSE IF \E o \in ops : \/ o.role = "outbound_client"
                               \/ o.kind \in {"http_get", "http_post", "http_request", "network_connect"}
        THEN "outbound_network_client"
        ELSE "network_activity"

process_chain_role(sinks, literals) ==
    process_role(Concat(sinks, LAMBDA o : Take(o.strs, 6)) \o literals)

high_if(cond) == IF cond THEN "high" ELSE "medium"
clause(kind, conf, sources, sinks, fields, literals) ==
    [kind |-> kind, confidence |-> conf, sources |-> Take(sources, 12), sinks |-> Take(sinks, 12),
     fields |-> Take(fields, 20), literals |-> Take(literals, 12), role |-> None]

\* The chains of one function.  Every list of sinks is cut before a clause takes its own from it.
_add_function_chains(f, ir, graph, promoted) ==
    LET flow     == ir[f].flow
        kinds    == kinds_of(flow)
        literals == literal_strings(flow)
        static   == static_data_sources(ir[f].data)
        ops      == Take(of_kind(flow, SOURCE_OPERATION_KINDS), 20)
        sources  == ops \o Take(static, 20)
        all      == Take(of_kind(flow, SINK_OPERATION_KINDS), SINK_LIMIT)
        Sinks(K) == of_kind(all, K)
        fields   == map_field_names(flow)
        near     == Distinct(fields \o caller_map_fields(f, ir, graph))
        paths    == path_like_literals(literals)
        callees  == SelectSeq(flow, LAMBDA o : /\ o.kind = "call_user"
                                               /\ o.target \in _index_crypto_random_functions(ir))
        network  == network_chain_kind(flow)
        loads    == IF f \in Library /\ kinds_of(Sinks(LOADER_OPERATION_KINDS)) \cap LIBRARY_LOADS = {}
                    THEN <<>> ELSE Sinks(LOADER_OPERATION_KINDS)
    IN
    IF f \in Library /\ ~has_high_level_loader_behavior(kinds) THEN <<>> ELSE
       Guarded(\/ callees # <<>>
               \/ "crypto_random" \in kinds
                  /\ kinds \cap {"bytes_to_string", "string_to_bytes", "file_write", "map_write"} # {},
            <<clause("generated_identifier", high_if(all # <<>>),
                     of_kind(ops, {"crypto_random"}) \o callees,
                     Sinks(FILE_WRITE_OPERATION_KINDS \cup FILE_READ_OPERATION_KINDS),
                     fields, <<>>)>>)
    \o Guarded(kinds \cap NETWORK_KINDS # {},
            <<[clause(network, high_if(near \o literals # <<>>), sources, Sinks(NETWORK_KINDS),
                      near, literals) EXCEPT !.role =
                  CASE network = "inbound_network_service" -> "inbound_listener"
                    [] network = "outbound_network_client" -> "outbound_client"
                    [] OTHER -> "network_activity"]>>)
    \o Guarded(kinds \cap FILE_WRITE_OPERATION_KINDS # {},
            <<clause("file_write", high_if(sources \o literals # <<>>), sources,
                     Sinks(FILE_WRITE_OPERATION_KINDS), fields, paths)>>)
    \o Guarded(kinds \cap FILE_READ_OPERATION_KINDS # {},
            <<clause("file_read", "medium", Take(static, 20), Sinks(FILE_READ_OPERATION_KINDS),
                     fields, paths)>>)
    \o Concat(<<"file_delete", "file_rename", "recursive_filesystem_walk">>, LAMBDA k :
            Guarded(k \in kinds, <<clause(k, high_if(literals # <<>>), sources, Sinks({k}),
                                          fields, paths)>>))
    \o Guarded("process_launch" \in kinds,
            <<[clause("process_launch", high_if(Sinks({"process_launch"}) # <<>>), sources,
                      Sinks({"process_launch"}), <<>>, literals)
                  EXCEPT !.role = process_chain_role(Sinks({"process_launch"}), literals)]>>)
    \o Guarded("start_goroutine" \in kinds,
            <<clause("goroutine_spawn", high_if(Sinks({"start_goroutine"}) # <<>>), sources,
                     Sinks({"start_goroutine"}), <<>>, literals)>>)
    \o Guarded(loads # <<>> /\ (f \in promoted \/ kinds \cap LIBRARY_LOADS # {}),
            <<clause("dynamic_loader", high_if("dynamic_library_load" \in kinds), sources, loads,
                     <<>>, literals)>>)
    \o Guarded(\/ kinds \cap DECODER_OPERATION_KINDS # {}
               \/ /\ ir[f].loops # <<>> /\ "bytes_to_string" \in kinds
                  /\ ir[f].data.data_blobs \o ir[f].data.constant_arrays # <<>>
                  /\ kinds \cap {"file_read", "file_write", "crypto_random"} = {},
            <<clause("runtime_string_materialization",
                     high_if(kinds \cap DECODER_OPERATION_KINDS # {}), sources, all, <<>>, literals)>>)

chain_key(c) == <<c.kind, c.function, Each(Take(c.sinks, 4), LAMBDA o : <<o.kind, o.target>>)>>

confidence_rank(c) == CASE c = "high" -> 3 [] c = "medium" -> 2 [] c = "low" -> 1 [] OTHER -> 0

chain_kinds ==      \* in the order of strings
    <<"dynamic_loader", "file_delete", "file_read", "file_rename", "file_write",
      "generated_identifier", "goroutine_spawn", "inbound_network_service", "network_activity",
      "outbound_network_client", "process_launch", "recursive_filesystem_walk",
      "runtime_string_materialization">>

chain_before(a, b) ==
    LET x == confidence_rank(a.confidence)   y == confidence_rank(b.confidence)
        j == Rank(chain_kinds, a.kind)       k == Rank(chain_kinds, b.kind)
    IN  \/ x > y
        \/ x = y /\ j < k
        \/ x = y /\ j = k /\ Rank(Names, a.function) < Rank(Names, b.function)

build_semantic_chains(graph, sem) ==
    LET promoted == {l.function : l \in ToSet(sem.loaders)}
        all == Concat(SelectSeq(graph.order, LAMBDA f : f \in DOMAIN sem.behavior_ir), LAMBDA f :
                   Each(_add_function_chains(f, sem.behavior_ir, graph, promoted),
                        LAMBDA c : c @@ [function |-> f]))
    IN  Take(SortBy(First(all, chain_key), chain_before), CHAIN_LIMIT)
============================================================================

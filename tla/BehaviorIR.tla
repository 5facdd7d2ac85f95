---------------------------- MODULE BehaviorIR ----------------------------
(***************************************************************************)
(* passes/behavior_ir.py: for each function of the call graph the calls    *)
(* worth keeping, in order, cut at MAX_FLOW_OPS_PER_FUNCTION; the edges to *)
(* user functions; the data and loops that concern it.                     *)
(*                                                                         *)
(* The graph is [order, calls]: the functions in the order of the          *)
(* dictionary and the calls of each.                                       *)
(***************************************************************************)
EXTENDS Ops

CONSTANTS MAX_FLOW_OPS_PER_FUNCTION, MAX_DATA_ITEMS_PER_FUNCTION

\* What the dataflow and cfg passes say of a function they know nothing about.
NoFacts == [args |-> <<>>, flows |-> <<>>, fields |-> <<>>, candidates |-> <<>>]
facts_of(dataflow, f) == IF f \in DOMAIN dataflow THEN dataflow[f] ELSE NoFacts

\* The arguments recorded for the call at an address; the last record wins.
call_args(dataflow, f, at) ==
    LET here == SelectSeq(facts_of(dataflow, f).args, LAMBDA a : a.at = at)
    IN  IF here = <<>> THEN <<>> ELSE <<here[Len(here)]>>

has_interesting_args(args) ==
    args # <<>> /\ (args[1].strs # <<>> \/ args[1].slices # <<>> \/ args[1].symbolic # <<>>)

\* The first of these: who is called counts before what an API's name says.
op_kind(c, args) ==
    LET named(kind) == Guarded(kind # None, <<kind>>)
    IN  Head(Guarded(c.via = "newproc", <<"start_goroutine">>)
             \o Guarded(c.via # None /\ c.user, <<"callback">>)
             \o named(classify_runtime_call(c.to))
             \o Guarded(c.to \in Noise, <<None>>)
             \o Guarded(c.user, <<"call_user">>)
             \o named(classify_call_behavior(c.to))
             \o Guarded(has_interesting_args(args), <<"call_with_semantic_args">>)
             \o <<None>>)

network_role(kind, side) ==
    CASE kind = "network_listen" \/ side = "in" -> "inbound_listener"
      [] kind \in {"http_get", "http_post", "http_request", "network_connect"} \/ side = "out" ->
            "outbound_client"
      [] OTHER -> "network_activity"

process_role(strs) ==
    IF ToSet(strs) \cap Tools # {} THEN "developer_tooling_or_environment_probe"
    ELSE IF ToSet(strs) \cap Commands # {} THEN "system_command_execution" ELSE "process_launch"

\* A file operation other than directory_create has no role.
operation_role(kind, c) ==
    CASE kind = "process_launch" -> process_role(c.strs)
      [] kind \in {"http_network", "http_request", "http_get", "http_post", "network_connect",
                   "network_listen"} -> network_role(kind, c.side)
      [] kind = "directory_create" -> "directory_create"
      [] OTHER -> None

_operation(kind, c, args) ==
    [kind |-> kind, target |-> c.to, at |-> c.at, strs |-> c.strs, side |-> c.side,
     args |-> Guarded(args # <<>>, Take(args[1].strs, 10)),
     symbolic |-> Guarded(args # <<>>, Take(args[1].symbolic, 12)), role |-> operation_role(kind, c)]

operations(f, calls, dataflow) ==
    Concat(calls, LAMBDA c : LET args == call_args(dataflow, f, c.at)
                                 kind == op_kind(c, args)
                             IN  Guarded(kind # None, <<_operation(kind, c, args)>>))

\* Mutant: the edges are collected from the flow after it is cut.
edges_of_Cut(f, ops) ==
    Concat(Take(ops, MAX_FLOW_OPS_PER_FUNCTION),
           LAMBDA o : Guarded(o.kind \in {"call_user", "start_goroutine", "callback"},
                              <<[from |-> f, to |-> o.target, type |-> o.kind, at |-> o.at]>>))

edges_of(f, ops) ==
    Concat(ops, LAMBDA o : Guarded(o.kind \in {"call_user", "start_goroutine", "callback"},
                              <<[from |-> f, to |-> o.target, type |-> o.kind, at |-> o.at]>>))

_function_data(f, sem) ==
    LET Of(items) == Take(SelectSeq(items, LAMBDA x : f \in x.refs), MAX_DATA_ITEMS_PER_FUNCTION)
    IN  [strings |-> Of(SelectSeq(sem.strings, LAMBDA x : x.class # "string")),
         constant_arrays |-> Of(sem.arrays), data_blobs |-> Of(sem.blobs)]

\* The record of one function: loops are those of the cfg pass, tags what is true of the whole list.
_function_ir(f, calls, sem) ==
    LET ops   == operations(f, calls, sem.dataflow)
        data  == _function_data(f, sem)
        known == facts_of(sem.dataflow, f)
        loops == Take(At(sem.cfg, f), 20)
    IN  [flow  |-> Take(ops, MAX_FLOW_OPS_PER_FUNCTION),
         edges |-> edges_of(f, ops),
         data  |-> data,
         loops |-> loops,
         tags  |-> {o.kind : o \in {x \in ToSet(ops) : x.kind \in Range(API_BEHAVIOR_HINTS)}}
                   \cup (IF data.strings \o data.constant_arrays \o data.data_blobs # <<>>
                         THEN {"uses_static_data"} ELSE {})
                   \cup (IF known.fields # <<>> THEN {"reads_struct_fields"} ELSE {})
                   \cup (IF known.candidates # <<>> THEN {"reads_go_string_fields"} ELSE {})
                   \cup (IF \E a \in ToSet(known.args) : a.slices # <<>>
                         THEN {"passes_slices"} ELSE {})
                   \cup (IF loops # <<>> THEN {"has_transform_loop"} ELSE {})]

build_behavior_ir(graph, sem) ==
    [f \in ToSet(graph.order) |-> _function_ir(f, graph.calls[f], sem)]
============================================================================

--------------------------- MODULE BehaviorGraph ---------------------------
(***************************************************************************)
(* passes/behavior_graph.py: one graph of functions, calls, data, loops,   *)
(* loaders and artifacts, its nodes identified by names made of their      *)
(* parts.  A node added a second time keeps the metadata it has and        *)
(* updates it with the new metadata, and that metadata is the record of    *)
(* the pass it came from, not a copy.                                      *)
(*                                                                         *)
(* Nodes are tuples of the parts of their names; edges are                 *)
(* <<from, to, type, evidence>>.  Tags and labels are left out.            *)
(***************************************************************************)
EXTENDS BehaviorIR

func(f) == <<"func", f>>
functions_nodes(graph) == {func(f) : f \in ToSet(graph.order)}
shown_calls(graph, f) == SelectSeq(graph.calls[f], LAMBDA c : c.visible)
calls_of_graph(graph) ==
    UNION {{<<f, i>> : i \in DOMAIN shown_calls(graph, f)} : f \in ToSet(graph.order)}
call_at(graph, x) == shown_calls(graph, x[1])[x[2]]
\* Whatever is called: a function of the program with such a name is an API too.
has_behavior(c) == classify_call_behavior(c.to) # None
api(c) == <<"api", classify_call_behavior(c.to), c.to>>

call_edges(graph) ==
    {<<func(x[1]), func(call_at(graph, x).to), "calls", call_at(graph, x).at>> :
        x \in {y \in calls_of_graph(graph) :
                  LET c == call_at(graph, y)
                  IN  ~has_behavior(c) /\ c.user /\ c.to \in ToSet(graph.order)}}

behavior_calls(graph) == {x \in calls_of_graph(graph) : has_behavior(call_at(graph, x))}
literal_arg(f, c, i) == <<"literal_arg", f, c.at, i>>

_add_call_behavior(graph) ==
    [nodes |-> functions_nodes(graph)
               \cup {api(call_at(graph, x)) : x \in behavior_calls(graph)}
               \cup UNION {{literal_arg(x[1], call_at(graph, x), i) :
                               i \in 1..Len(call_at(graph, x).strs)} : x \in behavior_calls(graph)},
     edges |-> call_edges(graph)
               \cup {<<func(x[1]), api(call_at(graph, x)), "invokes_behavior", call_at(graph, x).at>> :
                        x \in behavior_calls(graph)}
               \cup UNION {{<<literal_arg(x[1], call_at(graph, x), i), api(call_at(graph, x)),
                              "argument_to", call_at(graph, x).at>> :
                               i \in 1..Len(call_at(graph, x).strs)} : x \in behavior_calls(graph)}]

\* Data nodes and their edges to the functions that refer to them.
referring(kind, items, Id(_)) ==
    [nodes |-> {<<kind, Id(x)>> : x \in ToSet(items)}
               \cup UNION {{func(f) : f \in x.refs} : x \in ToSet(items)},
     edges |-> UNION {{<<<<kind, Id(x)>>, func(f), "referenced_by", None>> : f \in x.refs} :
                         x \in ToSet(items)}]

INTERESTING_STRING_CLASSES ==
    {"url", "path_or_url_fragment", "dll_name", "environment_variable", "long_text"}

_add_constants(sem) ==
    LET a == referring("array", sem.arrays, LAMBDA x : x.id)
        s == referring("string", SelectSeq(sem.strings,
                                   LAMBDA x : x.class \in INTERESTING_STRING_CLASSES),
                       LAMBDA x : x.at)
    IN  [nodes |-> a.nodes \cup s.nodes, edges |-> a.edges \cup s.edges]

\* The first array of the blob's section whose bytes overlap the blob's.
_array_for_blob(b, arrays) ==
    Take(SelectSeq(arrays, LAMBDA a : a.section = b.section /\ a.lo < b.hi /\ b.lo < a.hi), 1)

_add_notable_blobs(sem) ==
    LET b == referring("blob", sem.blobs, LAMBDA x : x.id)
    IN  [nodes |-> b.nodes,
         edges |-> b.edges \cup {<<<<"array", _array_for_blob(x, sem.arrays)[1].id>>,
                                   <<"blob", x.id>>, "overlaps", None>> :
                       x \in {y \in ToSet(sem.blobs) : _array_for_blob(y, sem.arrays) # <<>>}}]

\* Where a value flow comes from; a constant string makes a node of its own.
flow_source(flow) ==
    CASE flow.kind = "constant_array" -> <<"array", flow.from>>
      [] flow.kind = "data_blob" -> <<"blob", flow.from>>
      [] flow.kind = "global_string" -> <<"flow_string", flow.from>>
      [] OTHER -> <<>>

_candidate(f, c) == <<"struct_string", f, c.base, c.pointer, c.length>>

_add_dataflow(dataflow, nodes) ==
    LET flows == UNION {{<<f, x>> : x \in ToSet(dataflow[f].flows)} : f \in DOMAIN dataflow}
        known == {y \in flows : \/ flow_source(y[2]) \in nodes
                                \/ y[2].kind = "global_string"}
        typed == UNION {{<<"typed_call", f, a.at, a.target>> : a \in ToSet(Take(dataflow[f].args, 50))} :
                           f \in DOMAIN dataflow}
        reads == UNION {{<<"struct_field", f, x.at, x.base, x.offset>> :
                            x \in ToSet(Take(dataflow[f].fields, 50))} : f \in DOMAIN dataflow}
        named == UNION {{_candidate(f, c) : c \in ToSet(Take(dataflow[f].candidates, 20))} :
                           f \in DOMAIN dataflow}
    IN  [nodes |-> {func(f) : f \in DOMAIN dataflow} \cup {func(y[2].to) : y \in known}
                   \cup {flow_source(y[2]) : y \in known} \cup typed \cup reads \cup named,
         edges |-> {<<flow_source(y[2]), func(y[2].to), "flows_to_call", y[2].at>> : y \in known}
                   \cup {<<func(n[2]), n, "has_typed_call", n[3]>> : n \in typed}
                   \cup {<<func(n[2]), n, "reads_struct_field", n[3]>> : n \in reads}
                   \cup UNION {{<<func(f), _candidate(f, c), "may_read_string_field", c.at>> :
                                   c \in ToSet(Take(dataflow[f].candidates, 20))} :
                                  f \in DOMAIN dataflow}]

\* What the pass leaves in dataflow: of the candidates with one name the first is the node's
\* metadata, and every later one is written over it; they differ in instruction and registers.
facts_after(known) ==
    LET cs == known.candidates
        Same(i, j) == _candidate(None, cs[i]) = _candidate(None, cs[j])
        top == IF Len(cs) < 20 THEN Len(cs) ELSE 20
        Last_of(i) == CHOOSE j \in i..top : Same(i, j) /\ \A k \in (j+1)..top : ~Same(i, k)
        First_of(i) == \A j \in 1..(i-1) : ~Same(i, j)
    IN  [known EXCEPT !.candidates =
            [i \in 1..Len(cs) |-> IF i <= top /\ First_of(i) THEN cs[Last_of(i)] ELSE cs[i]]]

_add_cfg(cfg) ==
    LET loops == UNION {{<<"loop", f, l.start, l.end>> : l \in ToSet(cfg[f])} : f \in DOMAIN cfg}
    IN  [nodes |-> {func(f) : f \in DOMAIN cfg} \cup loops,
         edges |-> {<<func(n[2]), n, "contains_transform_loop", None>> : n \in loops}]

\* A transformer's input is an edge only if the blob has a node.
_add_transformers(transformers, nodes) ==
    [nodes |-> {func(t.function) : t \in ToSet(transformers)}
               \cup UNION {{<<"copy", c.at, c.source>> : c \in ToSet(t.copies)} :
                              t \in ToSet(transformers)},
     edges |-> UNION {{<<<<"blob", b>>, func(t.function), "input_to_transformer", None>> :
                          b \in {x \in t.sources : <<"blob", x>> \in nodes}} :
                         t \in ToSet(transformers)}
               \cup UNION {{<<func(t.function), <<"copy", c.at, c.source>>, "performs_large_copy", c.at>> :
                               c \in ToSet(t.copies)} : t \in ToSet(transformers)}]

loader_node(l) == <<"loader", l.function, l.kind>>

_add_loader_behaviors(loaders) ==
    [nodes |-> UNION {{loader_node(l)} \cup {func(f) : f \in ToSet(l.functions \o l.transformers)}
                        \cup (IF l.function = COMPONENT THEN {} ELSE {func(l.function)}) :
                         l \in ToSet(loaders)},
     edges |-> {<<func(l.function), loader_node(l), "has_behavior", None>> :
                   l \in {x \in ToSet(loaders) : x.function # COMPONENT}}
               \cup UNION {{<<func(f), loader_node(l), "contributes_to", None>> :
                               f \in ToSet(l.functions)} : l \in ToSet(loaders)}
               \cup UNION {{<<func(f), loader_node(l), "feeds_loader", None>> :
                               f \in ToSet(l.transformers)} : l \in ToSet(loaders)}]

_add_embedded_artifacts(embedded, nodes) ==
    LET at == 1..Len(embedded)
        into(i) == {n \in nodes : n[1] = "loader" /\ n[2] \in ToSet(embedded[i].loaders)}
    IN  [nodes |-> {<<"embedded_artifact", i>> : i \in at}
                   \cup UNION {{func(f) : f \in ToSet(embedded[i].transformers)} : i \in at},
         edges |-> {<<<<"blob", embedded[i].source_blob>>, <<"embedded_artifact", i>>,
                      "source_for_embedded_artifact", None>> :
                       i \in {j \in at : <<"blob", embedded[j].source_blob>> \in nodes}}
                   \cup UNION {{<<func(f), <<"embedded_artifact", i>>, "transforms_into", None>> :
                                   f \in ToSet(embedded[i].transformers)} : i \in at}
                   \cup UNION {{<<<<"embedded_artifact", i>>, n, "passed_to_loader", None>> :
                                   n \in into(i)} : i \in at}]

_add_indirect_calls(indirect) ==
    LET known == {c \in ToSet(indirect) : c.class # "unresolved_indirect_call"}
    IN  [nodes |-> {func(c.function) : c \in known} \cup {<<"indirect", c.function, c.at>> : c \in known},
         edges |-> {<<func(c.function), <<"indirect", c.function, c.at>>,
                      "performs_indirect_call", c.at>> : c \in known}]

\* Each step sees the nodes of the steps before it.
build_behavior_graph(graph, sem) ==
    LET Plus(g, h) == [nodes |-> g.nodes \cup h.nodes, edges |-> g.edges \cup h.edges]
        data  == Plus(Plus(_add_call_behavior(graph), _add_constants(sem)), _add_notable_blobs(sem))
        flow  == Plus(Plus(data, _add_dataflow(sem.dataflow, data.nodes)), _add_cfg(sem.cfg))
        moved == Plus(flow, _add_transformers(sem.transformers, flow.nodes))
        load  == Plus(moved, _add_loader_behaviors(sem.loaders))
        art   == Plus(load, _add_embedded_artifacts(sem.embedded, load.nodes))
    IN  Plus(art, _add_indirect_calls(sem.indirect))
============================================================================

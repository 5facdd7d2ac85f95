---------------------------- MODULE Interesting ----------------------------
(***************************************************************************)
(* passes/interesting.py: the functions worth reading first.  Every fact   *)
(* about a function gives points and a reason; a program's own functions   *)
(* get more, a library's lose most of theirs.  A reason is a tuple.        *)
(***************************************************************************)
EXTENDS Ops

CONSTANTS CALL_MARKERS,     \* callee -> the reasons its name gives, in order
          REASON_LIMIT, RANKING_LIMIT

given(f, points, reason) == <<[function |-> f, points |-> points, reason |-> reason]>>
smaller(a, b) == IF a < b THEN a ELSE b

\* Every call of add, in order.
contributions(graph, sem) ==
    Concat(sem.transformers, LAMBDA t :
        given(t.function, IF t.confidence = "high" THEN 25 ELSE 15, <<"data_transformer">>)
        \o Guarded(t.sources # {}, given(t.function, 15, <<"has_notable_static_data_source">>)))
    \o Concat(sem.loaders, LAMBDA l :
        IF l.function = COMPONENT
        THEN Concat(l.functions, LAMBDA f : given(f, 20, <<"participates_in", l.kind>>))
        ELSE given(l.function, IF l.confidence = "high" THEN 30 ELSE 15, <<l.kind>>))
    \o Concat(sem.embedded, LAMBDA e :
        Concat(e.transformers, LAMBDA f : given(f, 25, <<"transforms_embedded_artifact">>))
        \o Concat(e.loaders, LAMBDA f :
              Guarded(f # COMPONENT, given(f, 25, <<"passes_embedded_artifact_to_loader">>))))
    \o Concat(SelectSeq(graph.order, LAMBDA f : f \in DOMAIN sem.dataflow), LAMBDA f :
        LET known == sem.dataflow[f]
        IN  Guarded(known.flows # <<>>,
                    given(f, smaller(20, 5 * Len(known.flows)), <<"has_value_flows_from_constants">>))
            \o Guarded(known.candidates # <<>>, given(f, 10, <<"reads_possible_struct_string_fields">>))
            \o Guarded(\E a \in ToSet(known.args) : a.slices # <<>>,
                       given(f, 10, <<"passes_slice_like_arguments">>)))
    \o Concat(SelectSeq(graph.order, LAMBDA f : f \in DOMAIN sem.cfg /\ sem.cfg[f] # <<>>), LAMBDA f :
        given(f, 20 + smaller(20, 5 * Len(sem.cfg[f])), <<"has_probable_transform_loop">>))
    \o Concat(graph.order, LAMBDA f : Concat(graph.calls[f], LAMBDA c :
        IF c.to \in DOMAIN CALL_MARKERS
        THEN Concat(CALL_MARKERS[c.to], LAMBDA r : given(f, 10, <<r, c.to>>)) ELSE <<>>))

strong_reasons ==
    {<<"transforms_embedded_artifact">>, <<"passes_embedded_artifact_to_loader">>, <<"reflective_pe_loader">>,
     <<"dynamic_code_loader">>}

\* What the points of a function come to in the end.
rank_of(f, given_to_f) ==
    LET score   == FoldLeft(LAMBDA n, x : n + x.points, 0, given_to_f)
        reasons == Distinct(Each(given_to_f, LAMBDA x : x.reason))
        weak    == f \in Library /\ ToSet(reasons) \cap strong_reasons = {}
    IN  [function |-> f,
         score |-> IF is_app_function(f) THEN score + 35
                   ELSE IF ~weak THEN score ELSE IF score > 45 THEN score - 45 ELSE 0,
         reasons |-> Take(Guarded(is_app_function(f), << <<"application_owned">> >>) \o reasons
                          \o Guarded(weak, << <<"deprioritized_library_code">> >>), REASON_LIMIT)]

rank_interesting_functions(graph, sem) ==
    LET all == contributions(graph, sem)
        fs  == Distinct(Each(all, LAMBDA x : x.function))
    IN  Take(SortBy(Each(fs, LAMBDA f : rank_of(f, SelectSeq(all, LAMBDA x : x.function = f))),
                    LAMBDA a, b : \/ a.score > b.score
                                  \/ a.score = b.score /\ Rank(Names, a.function) < Rank(Names, b.function)),
             RANKING_LIMIT)
============================================================================

------------------------- MODULE IndicatorConsumers -------------------------
(***************************************************************************)
(* passes/indicator_consumers.py: each recovered indicator is told of the  *)
(* chains that may use its value: those of its producer, of its caller and *)
(* of the functions the caller calls beside the producer.  The pass works  *)
(* in place.  The indicators listed under a function are the records of    *)
(* the common list, so far as that list goes.                              *)
(***************************************************************************)
EXTENDS RuntimeDecoding

CONSTANTS MAX_CONSUMERS     \* 8

CONSUMER_CHAIN_KINDS ==
    {"outbound_network_client", "dynamic_loader", "process_launch", "file_write", "file_read",
     "generated_identifier"}

consumers_for_function(f, chains, link) ==
    Each(SelectSeq(chains, LAMBDA c : c.kind \in CONSUMER_CHAIN_KINDS /\ c.function = f),
         LAMBDA c : [function |-> f, kind |-> c.kind, confidence |-> c.confidence, link |-> link,
                     sinks |-> Each(Take(c.sinks, 6), LAMBDA o : <<o.kind, o.target>>)])

consumers_for_sibling_calls(caller, graph, chains, producer) ==
    Concat(SelectSeq(At(graph.calls, caller), LAMBDA c : c.visible /\ c.to # producer),
           LAMBDA c : consumers_for_function(c.to, chains, "sibling"))

dedupe_consumers(consumers) ==
    SortBy(First(consumers, LAMBDA c : <<c.function, c.kind, c.sinks>>),
           LAMBDA a, b : \/ confidence_rank(a.confidence) > confidence_rank(b.confidence)
                         \/ /\ a.confidence = b.confidence
                            /\ \/ Rank(chain_kinds, a.kind) < Rank(chain_kinds, b.kind)
                               \/ /\ a.kind = b.kind
                                  /\ Rank(Names, a.function) < Rank(Names, b.function))

NETWORK_TYPES == {"url", "domain", "path_or_url_fragment"}
FILE_TYPES == {"windows_path", "file_name_or_path"}

consumer_matches_indicator_type(kind, type) ==
    CASE type \in NETWORK_TYPES -> kind = "outbound_network_client"
      [] type \in FILE_TYPES -> kind \in {"file_read", "file_write", "dynamic_loader"}
      [] type = "command" -> kind = "process_launch"

\* The ranks of consumer_kind_rank as the kinds in order.
consumer_kind_rank(kind, type) ==
    Rank(CASE type \in NETWORK_TYPES -> <<"outbound_network_client", "file_write", "file_read">>
           [] type \in FILE_TYPES ->
                 <<"file_write", "file_read", "dynamic_loader", "outbound_network_client">>
           [] type = "command" -> <<"process_launch">>, kind)

select_consumers(type, consumers) ==
    LET preferred == SelectSeq(consumers, LAMBDA c : consumer_matches_indicator_type(c.kind, type))
        selected  == IF preferred # <<>> THEN preferred ELSE consumers
    IN  Take(SortBy(selected, LAMBDA a, b :
                LET x == consumer_kind_rank(a.kind, type)  y == consumer_kind_rank(b.kind, type)
                    j == confidence_rank(a.confidence)     k == confidence_rank(b.confidence)
                IN  \/ x < y
                    \/ x = y /\ j > k
                    \/ /\ x = y /\ j = k
                       /\ Rank(Names, a.function) < Rank(Names, b.function)), MAX_CONSUMERS)

consumers_of(x, graph, chains) ==
    select_consumers(x.type, dedupe_consumers(
        consumers_for_function(x.producer, chains, "producer_function")
        \o Guarded(x.caller # None,
                   consumers_for_sibling_calls(x.caller, graph, chains, x.producer)
                   \o consumers_for_function(x.caller, chains, "caller_function"))))

consumer_key(x) == <<x.type, x.value, x.producer, x.caller>>
told(x, graph, chains) == [x EXCEPT !.consumed_by = consumers_of(x, graph, chains)]

\* decoding after the first n indicators are told; a record of the list is told wherever it is.
annotate(decoding, n, graph, chains) ==
    LET here == {decoding.indicators[i] : i \in 1..n}
    IN  [indicators |-> [i \in 1..Len(decoding.indicators) |->
                            IF i <= n THEN told(decoding.indicators[i], graph, chains)
                            ELSE decoding.indicators[i]],
         functions  |-> Each(decoding.functions, LAMBDA d :
            [d EXCEPT !.recovered_indicators =
                Each(d.recovered_indicators, LAMBDA x :
                    IF x \in here THEN told(x, graph, chains) ELSE x)])]

\* All of them, and then those under the functions from the list by key, or nothing.
attach_indicator_consumers(decoding, graph, chains) ==
    LET all == annotate(decoding, Len(decoding.indicators), graph, chains)
        By(x) == SelectSeq(all.indicators, LAMBDA y : consumer_key(y) = consumer_key(x))
    IN  IF decoding.indicators = <<>> THEN decoding ELSE
        [all EXCEPT !.functions = Each(@, LAMBDA d :
            [d EXCEPT !.recovered_indicators = Each(@, LAMBDA x :
                [x EXCEPT !.consumed_by = IF By(x) = <<>> THEN <<>>
                                          ELSE By(x)[Len(By(x))].consumed_by])])]
============================================================================

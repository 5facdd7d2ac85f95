-------------------------- MODULE RuntimeDecoding --------------------------
(***************************************************************************)
(* passes/runtime_decoding.py with passes/indicator_consumers.py: the      *)
(* functions that decode strings, the indicators recovered from the        *)
(* literals their callers pass and from the static data they use, and then *)
(* the calls that consume an indicator, written into it.                   *)
(*                                                                         *)
(* What a literal decodes to is given by two tables.  A hexadecimal text   *)
(* of even length is base64 text too, of some bytes that mean nothing, and *)
(* so may any word be; such bytes are left out.                            *)
(***************************************************************************)
EXTENDS SemanticChains

CONSTANTS
    B64Text, HexText,       \* encoded literals, and the text each is the encoding of
    Plain,                  \* other literals of the characters of encodings, nearly all of them
    INDICATOR_LIMIT         \* 100

Junk == "junk"              \* bytes that are no text

decoder_kind(o) ==
    CASE o.kind = "base64_decode_or_encode" -> "base64"  [] o.kind = "hex_decode_or_encode" -> "hex"
      [] o.kind = "gzip_compression" -> "gzip"           [] o.kind = "zlib_compression" -> "zlib"
      [] o.kind = "aes_crypto" -> "aes"                  [] o.kind = "chacha20_crypto" -> "chacha20"
      [] OTHER -> None

decoder_direction(o) ==
    CASE o.side \in {"decode", "encode"} -> o.side
      [] o.kind \in {"gzip_compression", "zlib_compression"} -> "codec"
      [] o.kind \in {"aes_crypto", "chacha20_crypto"} -> "crypto"
      [] OTHER -> "unknown"

decoder_operations(flow) ==
    SelectSeq(flow, LAMBDA o : decoder_kind(o) # None)
directions(flow) == {decoder_direction(o) : o \in ToSet(decoder_operations(flow))}

\* From four characters on, and whatever they are the encoding of.
plausible_encoded_literal(v) == v \in DOMAIN B64Text \cup DOMAIN HexText \cup Plain

base64_decode_variants(v) ==
    IF v \in DOMAIN B64Text THEN <<B64Text[v]>> ELSE Guarded(v \in DOMAIN HexText, <<Junk>>)

candidate(encoding, text, nested) == [encoding |-> encoding, text |-> text, nested |-> nested]

layered_encoded_candidates(candidates) ==
    Concat(SelectSeq(candidates, LAMBDA c : plausible_encoded_literal(c.text)), LAMBDA c :
        IF base64_decode_variants(c.text) # <<>>
        THEN <<candidate("base64", Head(base64_decode_variants(c.text)), TRUE)>>
        ELSE Guarded(c.text \in DOMAIN HexText, <<candidate("hex", HexText[c.text], TRUE)>>))

decoded_literal_candidates(v) ==
    LET outer == Each(base64_decode_variants(v), LAMBDA t : candidate("base64", t, FALSE))
                 \o Guarded(v \in DOMAIN HexText, <<candidate("hex", HexText[v], FALSE)>>)
    IN  outer \o layered_encoded_candidates(outer)

decoded_previews(strs) ==
    Take(Distinct(Concat(strs, decoded_literal_candidates)), 8)

\* One entry for each call of f, by anyone, with an argument that may be encoded.
callers_with_literals(graph, f) ==
    Concat(graph.order, LAMBDA g :
        Concat(SelectSeq(graph.calls[g], LAMBDA c : c.to = f), LAMBDA c :
            LET strs == SelectSeq(c.strs, plausible_encoded_literal)
            IN  Guarded(strs # <<>>, <<[caller |-> g, at |-> c.at, strings |-> Take(strs, 8),
                                     previews |-> decoded_previews(strs)]>>)))

classify_decoding_behavior(dirs, materializes, loops, static, called) ==
    CASE "decode" \in dirs -> IF materializes THEN "explicit_string_decoder" ELSE "explicit_decoder"
      [] "crypto" \in dirs /\ (static \/ called) ->
            IF materializes THEN "api_assisted_string_materialization" ELSE "transform_api_usage"
      [] "encode" \in dirs -> "encoder_api_usage"
      [] loops /\ materializes ->
            IF static \/ called THEN "likely_runtime_string_decoder"
            ELSE "byte_transformer_materializes_string"
      [] OTHER -> None

confidence_for_decoding(dirs, materializes, loops, static, called, recovered) ==
    LET one(b) == IF b THEN 1 ELSE 0
        score == (IF "decode" \in dirs THEN 2 ELSE one(dirs # {})) + one(materializes) + one(loops)
                 + one(static) + one(called) + 2 * one(recovered)
    IN  IF score >= 4 THEN "high" ELSE IF score >= 2 THEN "medium" ELSE "low"

\* The first that fits counts, in an order of its own: cmd.exe is the name of a file here.
INDICATOR_TYPES ==
    [v \in Urls |-> "url"] @@ [v \in Paths |-> "windows_path"]
    @@ [v \in Fragments |-> "path_or_url_fragment"] @@ [v \in FileNames |-> "file_name_or_path"]
    @@ [v \in Commands |-> "command"] @@ [v \in Domains |-> "domain"]

classify_recovered_indicator(v) == kind_in(INDICATOR_TYPES, v)

\* In static data paths that are not of windows, domains and libraries are not taken for indicators.
is_strong_static_indicator(v) ==
    /\ classify_recovered_indicator(v) \in {"url", "command", "windows_path", "file_name_or_path"}
    /\ v \notin DllNames

\* What the bytes of a source hold: the indicators found in plain text and those it encodes.  A
\* string constant has no size and is not read; an array that cannot be read gives its preview.
recover_static_source_previews(sources) ==
    LET plain(s) == Each(SelectSeq(s.texts, is_strong_static_indicator),
                         LAMBDA v : candidate("plain_static", v, FALSE))
        encoded(s) == Guarded(s.readable, SelectSeq(Concat(s.texts, decoded_literal_candidates),
                                                    LAMBDA c : is_strong_static_indicator(c.text)))
    IN  Take(Distinct(Concat(Take(sources, 20), LAMBDA s :
            Each(plain(s) \o encoded(s), LAMBDA c : [source |-> s.id, preview |-> c]))), 20)

indicator(type, value, producer, caller, at, nested) ==
    [type |-> type, value |-> value, producer |-> producer, caller |-> caller, at |-> at,
     nested |-> nested, consumed_by |-> <<>>]

\* The caller is no part of the key.
indicator_key(x) == <<x.type, x.value, x.producer, x.nested>>

recovered_indicators_for_function(f, callers, recoveries) ==
    Take(First(
        Concat(callers, LAMBDA g :
            Concat(g.previews, LAMBDA c : Guarded(classify_recovered_indicator(c.text) # None,
                <<indicator(classify_recovered_indicator(c.text), c.text, f, g.caller, g.at, c.nested)>>)))
        \o Each(recoveries, LAMBDA r :
            indicator(classify_recovered_indicator(r.preview.text), r.preview.text, f, None, 0, r.preview.nested)),
        indicator_key), 20)

\* The labels that count as a likely string decoder.
decoding_feature_labels(dirs, materializes, loops, static, called) ==
    (IF "decode" \in dirs THEN {"explicit_decoder_api"} ELSE {})
    \cup (IF loops /\ materializes /\ (static \/ called) THEN {"custom_decoder_candidate"} ELSE {})

_decoding_of(f, graph, sem) ==
    LET item == sem.behavior_ir[f]
        dirs == directions(item.flow)
        materializes == "bytes_to_string" \in kinds_of(item.flow)
        blobs == item.data.data_blobs \o item.data.constant_arrays
        static == blobs \o item.data.strings # <<>>
        callers == Take(callers_with_literals(graph, f), 20)
        recoveries == recover_static_source_previews(blobs)
    IN  [function |-> f,
         classification |-> classify_decoding_behavior(dirs, materializes, item.loops # <<>>,
                                                       static, callers # <<>>),
         confidence |-> confidence_for_decoding(dirs, materializes, item.loops # <<>>, static,
                                                callers # <<>>, recoveries # <<>>),
         labels |-> decoding_feature_labels(dirs, materializes, item.loops # <<>>, static,
                                            callers # <<>>),
         decodes |-> decoder_operations(item.flow), callers |-> callers,
         sources |-> Take(blobs, 20), recovered |-> recoveries # <<>>,
         recovered_indicators |-> recovered_indicators_for_function(f, callers, recoveries)]

\* Left out: what no classification fits, generated identifiers with nothing else to show for
\* them, and library functions that are not explicit string decoders.
_kept_decoding(d, sem) ==
    /\ d.classification # None
    /\ ~ /\ \E c \in ToSet(sem.semantic_chains) :
                c.kind = "generated_identifier" /\ c.function = d.function
         /\ d.decodes = <<>> /\ d.callers = <<>>
    /\ d.function \notin Library \/ d.classification = "explicit_string_decoder"

decoding_order ==       \* of the classifications, as strings
    <<"api_assisted_string_materialization", "byte_transformer_materializes_string",
      "encoder_api_usage", "explicit_decoder", "explicit_string_decoder",
      "likely_runtime_string_decoder", "transform_api_usage">>

decoding_before(a, b) ==
    LET x == <<3 - confidence_rank(a.confidence), Rank(decoding_order, a.classification),
               Rank(Names, a.function)>>
        y == <<3 - confidence_rank(b.confidence), Rank(decoding_order, b.classification),
               Rank(Names, b.function)>>
    IN  \E i \in 1..3 : x[i] < y[i] /\ \A j \in 1..(i-1) : x[j] = y[j]

\* The functions, and the indicators of them all.
analyze_runtime_decoding(graph, sem) ==
    LET results == SortBy(SelectSeq(Each(SelectSeq(graph.order, LAMBDA f : f \in DOMAIN sem.behavior_ir),
                                         LAMBDA f : _decoding_of(f, graph, sem)),
                                    LAMBDA d : _kept_decoding(d, sem)), decoding_before)
    IN  [functions |-> results,
         indicators |-> Take(First(Concat(results, LAMBDA d : d.recovered_indicators),
                                   indicator_key), INDICATOR_LIMIT)]
============================================================================

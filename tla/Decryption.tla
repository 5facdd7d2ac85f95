---------------------------- MODULE Decryption ----------------------------
(***************************************************************************)
(* passes/decryption.py: for the functions runtime_decoding kept, every    *)
(* way of undoing base64, hexadecimal and compression layers, breadth      *)
(* first and at most MAX_LAYER_DEPTH deep, from the static data they use   *)
(* and the literals they are called with; what is reached and is an        *)
(* artifact is reported.  Bytes are names; hashes, previews and entropy    *)
(* are left out.                                                           *)
(***************************************************************************)
EXTENDS RuntimeDecoding

CONSTANTS
    Inflated,               \* compressed bytes, and what they inflate to
    Executables,            \* bytes with a PE or ELF header
    LongBase64,             \* texts with sixteen characters of base64 and four letters among them
    LongHex,                \* texts with twenty-four hexadecimal digits and four different ones
    Strong,                 \* texts with a URL, a command or a robust windows path in them
    MAX_LAYER_DEPTH, MAX_ENCODED_STATIC_SOURCES, MAX_DECODED_ARTIFACTS

\* This pass has thresholds of its own, higher than those of runtime_decoding.
plausible_base64_literal(v) == v \in LongBase64
plausible_hex_literal(v)    == v \in LongHex
plausible_literal(v)        == plausible_base64_literal(v) \/ plausible_hex_literal(v)

\* Text decodes apply to text, which all that is encoded is; the first layer of a literal is one of
\* them.
possible_decodes(d, text_only) ==
    Guarded(~text_only /\ d \in DOMAIN Inflated, <<<<"decompress", Inflated[d]>>>>)
    \o Guarded(plausible_base64_literal(d),
               Each(base64_decode_variants(d), LAMBDA t : <<"base64_decode", t>>))
    \o Guarded(plausible_hex_literal(d) /\ d \in DOMAIN HexText, <<<<"hex_decode", HexText[d]>>>>)

\* The candidates of one layer more, from those of a layer.
next_layer(candidates, text_only) ==
    Concat(candidates, LAMBDA c : Each(possible_decodes(c.data, text_only),
        LAMBDA t : [data |-> t[2], transforms |-> Append(c.transforms, t[1])]))

\* Mutant: one layer too few.
layered_decode_candidates_Shallow(d, text_only) ==
    LET layer[n \in 0..MAX_LAYER_DEPTH-1] ==
            IF n = 0 THEN <<[data |-> d, transforms |-> <<>>]>>
            ELSE next_layer(layer[n-1], text_only /\ n = 1)
    IN  Distinct(FlattenSeq([n \in 1..MAX_LAYER_DEPTH-1 |-> layer[n]]))

\* The queue holds one layer after another; a candidate is its data and its transforms.
layered_decode_candidates(d, text_only) ==
    LET layer[n \in 0..MAX_LAYER_DEPTH] ==
            IF n = 0 THEN <<[data |-> d, transforms |-> <<>>]>>
            ELSE next_layer(layer[n-1], text_only /\ n = 1)
    IN  Distinct(FlattenSeq([n \in 1..MAX_LAYER_DEPTH |-> layer[n]]))

\* Domains, names of files and other paths are no reason to report a text.
classify_decoded_artifact(d) ==
    CASE d \in Executables -> "decoded_pe"
      [] d \in DOMAIN Inflated -> "decoded_gzip"
      [] d \in Strong -> "decoded_text_config"
      [] OTHER -> None

artifact_rank(type) == CASE type = "decoded_pe" -> 6 [] type \in {"decoded_gzip", "decoded_text_config"} -> 4

recoveries_of(f, d, text_only) ==
    Each(SelectSeq(layered_decode_candidates(d, text_only),
                   LAMBDA c : classify_decoded_artifact(c.data) # None),
         LAMBDA c : [function |-> f, method |-> c.transforms[Len(c.transforms)],
                     transforms |-> c.transforms, data |-> c.data,
                     type |-> classify_decoded_artifact(c.data),
                     description |-> classify_artifact(c.data)])

has_explicit_decode_api(item) == \E o \in ToSet(item.decodes) : decoder_direction(o) = "decode"

\* A source is passed over if it looks like the tables of the Go runtime, or if nothing says that
\* it is worth decoding.
_scanned(item, s) ==
    \/ has_explicit_decode_api(item)
    \/ /\ ~s.go_metadata
       /\ item.recovered \/ (s.preview /\ \E v \in ToSet(s.texts) : plausible_literal(v))

from_source(f, s) ==
    Guarded(s.readable, recoveries_of(f, s.data, FALSE))
    \o Guarded(s.readable \/ s.preview,
               Concat(SelectSeq(s.texts, plausible_literal), LAMBDA v : recoveries_of(f, v, TRUE)))

recover_encoded_artifacts_for_function(item) ==
    SortBy(Concat(SelectSeq(Take(item.sources, MAX_ENCODED_STATIC_SOURCES),
                            LAMBDA s : _scanned(item, s)),
                  LAMBDA s : from_source(item.function, s))
           \o Concat(item.callers, LAMBDA g :
                  Concat(g.strings, LAMBDA v : recoveries_of(item.function, v, TRUE))),
           LAMBDA a, b : \/ artifact_rank(a.type) > artifact_rank(b.type)
                         \/ /\ artifact_rank(a.type) = artifact_rank(b.type)
                            /\ Len(a.transforms) > Len(b.transforms))

recovery_key(x) == <<x.function, x.method, x.type, x.data>>

analyze_decryption_recovery(sem) ==
    [artifacts |-> Take(First(Concat(sem.decoding, recover_encoded_artifacts_for_function),
                              recovery_key), MAX_DECODED_ARTIFACTS),
     aes_candidates |-> Take(Each(SelectSeq(sem.decoding, LAMBDA d :
                                 \E o \in ToSet(d.decodes) : decoder_kind(o) = "aes"),
                             LAMBDA d : d.function), 40)]
============================================================================

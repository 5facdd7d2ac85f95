----------------------------- MODULE Artifacts -----------------------------
(***************************************************************************)
(* passes/artifact_classifier.py: what the notable blobs, the embedded     *)
(* artifacts and the decoded artifacts of a report are.  The bytes of a    *)
(* buffer are a sequence of signatures, one place for each offset, and a   *)
(* "look", what a buffer without a signature at its start would pass for.  *)
(* Hashes, previews, entropy and the optional Magika verdict are left out. *)
(***************************************************************************)
EXTENDS Ops

CONSTANTS MAGIC_LIMIT,          \* 32 matches
          MAX_SOURCE_READ_BYTES

MAGIC_SIGNATURES == <<"pe", "elf", "zip", "gzip">>

\* The offsets of one signature after another; the search ends with the match that fills the list.
all_matches(bytes) ==
    Concat(MAGIC_SIGNATURES, LAMBDA m :
        Each(SelectSeq([i \in 1..Len(bytes) |-> i], LAMBDA i : bytes[i] = m),
             LAMBDA i : [type |-> m, offset |-> i - 1]))

magic_offsets(bytes) == Take(all_matches(bytes), MAGIC_LIMIT)

\* A signature at the start decides, in the order of the table; otherwise the looks of the buffer.
classify_kind(bytes, look) ==
    LET start == {m.type : m \in {x \in ToSet(magic_offsets(bytes)) : x.offset = 0}}
    IN  IF start # {} THEN MAGIC_SIGNATURES[CHOOSE i \in 1..4 : /\ MAGIC_SIGNATURES[i] \in start
                                            /\ \A j \in 1..(i-1) : MAGIC_SIGNATURES[j] \notin start]
        ELSE look

\* The bytes of the section the address lies in, to its end at most; none elsewhere.
read_va(sections, va, size) ==
    LET here == SelectSeq(sections, LAMBDA s : s.lo <= va /\ va < s.hi)
    IN  IF here = <<>> THEN <<>>
        ELSE <<[lo |-> va, hi |-> IF va + size < here[1].hi THEN va + size ELSE here[1].hi]>>

\* A source is classified by what could be read of it; an unreadable one says so.
classify_source(sections, s) ==
    LET size == s.hi - s.lo
        read == Guarded(size > 0, read_va(sections, s.lo, IF size < MAX_SOURCE_READ_BYTES THEN size
                                                        ELSE MAX_SOURCE_READ_BYTES))
    IN  IF read = <<>> THEN [id |-> s.id, type |-> "unreadable", truncated |-> FALSE]
        ELSE [id |-> s.id, type |-> classify_kind(Take(s.magic, read[1].hi - read[1].lo), s.look),
              truncated |-> read[1].hi - read[1].lo < size]

classify_sources(sections, sources) == Each(sources, LAMBDA s : classify_source(sections, s))

\* An embedded artifact is read where its source is.
analyze_artifacts(sections, blobs, embedded, decoded) ==
    [notable_blobs |-> classify_sources(sections, Take(blobs, 20)),
     embedded_artifacts |-> classify_sources(sections, Take(Each(embedded, LAMBDA p : p.source), 20)),
     decoded_artifacts |-> Take(Each(decoded, LAMBDA x : <<x.function, x.type, x.data>>), 40)]
============================================================================

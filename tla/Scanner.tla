------------------------------ MODULE Scanner ------------------------------
(***************************************************************************)
(* SemanticScanner of passes/semantic.py: what one pass over the           *)
(* instructions of every function of the graph notes down, and what is     *)
(* made of it afterwards: the notable blobs, the functions that transform  *)
(* data, the loaders and the embedded artifacts.                           *)
(* Counts of occurrences, previews and hashes are left out.                *)
(***************************************************************************)
EXTENDS Code

CONSTANTS
    CHUNK_SIZE, MIN_BLOB_SIZE, LARGE_COPY_THRESHOLD, ENTROPY_SAMPLE_LIMIT,
    MAGIC_HITS,                     \* 8: the signatures kept of a chunk
    ARTIFACT_BLOBS,                 \* 8: the blobs looked at for embedded artifacts
    TRANSFORM_CALL_HINTS,           \* callee -> the operations its name stands for
    LOADER_CALL_HINTS,              \* callee -> the loader hints its name stands for
    ApiReturns, AllocReturns,       \* callees that return an API's address, or memory
    MagicValues, ExecValues, AllocValues    \* immediates, the first with their label

-----------------------------------------------------------------------------
(* One function's instructions.                                            *)

memory_kind(mem) ==
    CASE mem \in {"global", "stack", "table", "based"} -> mem  [] OTHER -> "unknown"

\* What a register holds: a call's return, an immediate, a load, or no more than a register's name.
update_register_provenance(prov, i) ==
    CASE i.src = "imm" -> Put(prov, i.reg, [kind |-> "immediate", of |-> None])
      [] i.src = "mem" -> Put(prov, i.reg, [kind |-> "memory_load", of |-> memory_kind(i.mem)])
      [] i.src \in DOMAIN prov -> Put(prov, i.reg, prov[i.src])
      [] OTHER -> Put(prov, i.reg, [kind |-> "register_value", of |-> None])

\* A RIP-relative operand of the call itself counts as based on a register.
indirect_call_provenance(prov, i) ==
    IF i.src = "mem"
    THEN [kind |-> "memory_target", of |-> IF i.mem = "global" THEN "based" ELSE memory_kind(i.mem)]
    ELSE IF i.src \in DOMAIN prov THEN prov[i.src] ELSE [kind |-> "unknown_register", of |-> None]

classify_indirect_call(p) ==
    CASE p.kind = "call_return" ->
            (CASE p.of \in ApiReturns -> "dynamic_api_function_pointer"
               [] p.of \in AllocReturns -> "runtime_allocated_code_pointer"
               [] OTHER -> "call_return_function_pointer")
      [] p.of = "stack"  -> "stack_closure_or_defer_call"
      [] p.of = "global" -> "global_function_pointer_or_dispatch_table"
      [] p.of = "table"  -> "dispatch_table_or_interface_call"
      [] p.of = "based"  -> "interface_method_or_object_dispatch"
      [] p.kind = "immediate" -> "computed_or_obfuscated_direct_pointer"
      [] OTHER -> "unresolved_indirect_call"

NoFeatures == [ops |-> {}, magic |-> {}, alloc |-> FALSE, protect |-> FALSE, back |-> 0, byte |-> 0]

\* The numbers of every immediate operand count, those of jumps and calls too.
_record_features(features, i) ==
    LET imms == IF i.src = "imm" THEN {i.imm} ELSE {}
    IN  [ops     |-> features.ops \cup ({i.op} \cap {"xor", "add", "sub", "rotate", "shift"}),
         magic   |-> features.magic \cup {MagicValues[v] : v \in imms \cap DOMAIN MagicValues},
         alloc   |-> features.alloc \/ imms \cap AllocValues # {},
         protect |-> features.protect \/ imms \cap ExecValues # {},
         back    |-> features.back + one(i.op = "jmp" /\ \E v \in imms : v < i.at),
         byte    |-> features.byte + one(i.mem = "byte")]

_function_containing_va(ranges, va) ==
    Take(range_containing_va(ranges.user, va) \o range_containing_va(ranges.std, va), 1)

\* A jump or call into the middle of a function; a jump inside its own function is only counted.
_record_mid_function_transfer(ranges, f, i) ==
    IF i.op \notin {"jmp", "call"} \/ i.src # "imm" THEN <<>> ELSE
    Concat(_function_containing_va(ranges, i.imm), LAMBDA into :
        Guarded(into.lo < i.imm /\ (i.op = "call" \/ into.name # f),
            <<[function |-> f, at |-> i.at, target |-> into.name,
               class |-> CASE into.helper # None -> into.helper
                           [] into.name = f -> "internal_branch"
                           [] i.op = "call" -> "mid_function_call"
                           [] OTHER -> "inter_function_mid_jump"]>>))

NothingSeen == [ints |-> <<>>, prov |-> <<>>, source |-> NoAddress, features |-> NoFeatures,
                refs |-> <<>>, copies |-> <<>>, indirect |-> <<>>, mid |-> <<>>]

\* What is known after one more instruction of a function.
note_instruction(sections, ranges, f, s, i) ==
    LET size == copy_size_from_instruction(next_ints(s.ints, i), i)
    IN  [ints     |-> next_ints(s.ints, i),
         prov     |-> CASE i.op \in {"mov", "lea"} -> update_register_provenance(s.prov, i)
                        [] i.op = "call" /\ i.src = "imm" ->
                              Put(s.prov, "RAX", [kind |-> "call_return", of |-> i.to])
                        [] OTHER -> s.prov,
         source   |-> IF i.op = "lea" /\ i.mem = "global" THEN i.imm ELSE s.source,
         features |-> _record_features(s.features, i),
         refs     |-> s.refs \o Guarded((i.mem = "global" \/ i.src = "imm")
                                        /\ places_for_va(sections, i.imm) # {},
                                        <<[function |-> f, target |-> i.imm]>>),
         copies   |-> s.copies \o Guarded(i.op = "movs" /\ size >= LARGE_COPY_THRESHOLD,
                                          <<[function |-> f, at |-> i.at, source |-> s.source, size |-> size]>>),
         indirect |-> s.indirect \o Guarded(i.op = "call" /\ i.src # "imm",
                         <<[function |-> f, at |-> i.at, class |->
                               classify_indirect_call(indirect_call_provenance(s.prov, i))]>>),
         mid      |-> s.mid \o _record_mid_function_transfer(ranges, f, i)]

_scan_function(sections, ranges, f, code) ==
    LET after[n \in 0..Len(code)] ==
            IF n = 0 THEN NothingSeen ELSE note_instruction(sections, ranges, f, after[n-1], code[n])
    IN  after[Len(code)]

-----------------------------------------------------------------------------
(* Blobs.                                                                  *)

\* Mutant: a span that ends inside the one before cuts that one short.
_merge_Last(previous, span) == [previous EXCEPT !.hi = span.hi, !.refs = @ \cup span.refs]

_merge(previous, span) ==
    [previous EXCEPT !.hi = IF span.hi > @ THEN span.hi ELSE @, !.refs = @ \cup span.refs]

_place_before(a, b) ==
    \/ a.section < b.section
    \/ a.section = b.section /\ (a.lo < b.lo \/ (a.lo = b.lo /\ a.hi < b.hi))

\* Where a large copy reads, as far as the section goes: a set of at most one place.
places_read(sections, c) ==
    {[section |-> r, lo |-> c.source, hi |-> Least(c.source + c.size, sections[r].hi)] :
        r \in {q \in places_for_va(sections, c.source) :
                  /\ c.source # NoAddress /\ ~sections[q].excluded
                  /\ Least(c.source + c.size, sections[q].hi) - c.source >= MIN_BLOB_SIZE}}

\* The places read, each with the functions that copy from just there.
copied_spans(sections, copies) ==
    LET spans(c) == {[section |-> x.section, lo |-> x.lo, hi |-> x.hi,
                      refs |-> {d.function : d \in {e \in ToSet(copies) : x \in places_read(sections, e)}}] :
                        x \in places_read(sections, c)}
    IN  UNION {spans(c) : c \in ToSet(copies)}

with_span(done, s) ==
    IF done # <<>> /\ s.section = done[Len(done)].section /\ s.lo <= done[Len(done)].hi
    THEN [done EXCEPT ![Len(done)] = _merge(done[Len(done)], s)] ELSE Append(done, s)

_merged_large_copy_spans(sections, copies) ==
    LET spans == InOrder(copied_spans(sections, copies), _place_before)
        merged[n \in 0..Len(spans)] == IF n = 0 THEN <<>> ELSE with_span(merged[n-1], spans[n])
    IN  merged[Len(spans)]

\* The kinds of signatures among the first MAGIC_HITS: they are looked for kind after kind.
chunk_magic(bytes) ==
    LET needles == [MZ |-> 1, PE |-> 2, ELF |-> 3, PK |-> 4, gzip |-> 5, zlib |-> 6]
        hits(kinds) == {i \in 1..Len(bytes) : bytes[i] \in kinds}
        sooner(m)   == {k \in DOMAIN needles : needles[k] < needles[m]}
    IN  {m \in DOMAIN needles : hits({m}) # {} /\ Cardinality(hits(sooner(m))) < MAGIC_HITS}
is_high_entropy(bytes) == \E i \in 1..Len(bytes) : bytes[i] = "noise"

_blob(sections, place, refs, reasons) ==
    LET bytes == cells(sections[place.section], place.lo, Least(place.hi, place.lo + ENTROPY_SAMPLE_LIMIT))
    IN  [id |-> 0, section |-> place.section, lo |-> place.lo, hi |-> place.hi, refs |-> refs,
         magic |-> chunk_magic(bytes), high |-> is_high_entropy(bytes), reasons |-> reasons]

_large_copy_blob_spans(sections, copies) ==
    {_blob(sections, s, s.refs, {"large_copy_source"}) : s \in ToSet(_merged_large_copy_spans(sections, copies))}

chunks(sections) ==
    UNION {{[section |-> r, lo |-> sections[r].lo + k * CHUNK_SIZE,
             hi |-> Least(sections[r].lo + (k + 1) * CHUNK_SIZE, sections[r].hi)] :
                k \in {j \in 0..Len(sections[r].cells) : j * CHUNK_SIZE < Len(sections[r].cells)}} :
                    r \in {q \in DOMAIN sections : ~sections[q].excluded}}

\* Mutant: only the first byte of a chunk is compared with the copied spans.
_is_free_Start(spans, c) == \A b \in spans : b.section # c.section \/ ~(b.lo <= c.lo /\ c.lo < b.hi)

_is_free(spans, c) == \A b \in spans : b.section # c.section \/ ~Overlap(c.lo, c.hi, b.lo, b.hi)

_chunk_blob(sections, refs, copies, c) ==
    LET by == {r.function : r \in {x \in ToSet(refs) : /\ c.section \in places_for_va(sections, x.target)
                                                       /\ c.lo <= x.target /\ x.target < c.hi}}
        copied == \E x \in ToSet(copies) : x.source # NoAddress /\ c.lo <= x.source /\ x.source < c.hi
        b  == _blob(sections, c, by, {})
    IN  [b EXCEPT !.reasons = (IF b.high THEN {"high_entropy"} ELSE {})
            \cup (IF by # {} THEN {"referenced_by_reachable_code"} ELSE {})
            \cup (IF copied THEN {"large_copy_source"} ELSE {})
            \cup (IF b.magic # {} THEN {"contains_magic_bytes"} ELSE {})]

\* The chunks of the sections that are worth a mention; a chunk any copied span touches is not.
_chunk_blobs(sections, spans, refs, copies) ==
    LET free == {c \in chunks(sections) : c.hi - c.lo >= MIN_BLOB_SIZE /\ _is_free(spans, c)}
    IN  {b \in {_chunk_blob(sections, refs, copies, c) : c \in free} :
            \/ {"large_copy_source", "contains_magic_bytes"} \cap b.reasons # {}
            \/ {"high_entropy", "referenced_by_reachable_code"} \subseteq b.reasons}

\* Mutant: a run has the signatures of its first blob.
_extended_First(run, b) ==
    [run EXCEPT !.hi = b.hi, !.high = @ \/ b.high, !.refs = @ \cup b.refs,
                !.reasons = @ \cup b.reasons]

_extended(run, b) ==
    [run EXCEPT !.hi = b.hi, !.high = @ \/ b.high, !.refs = @ \cup b.refs,
                !.magic = @ \cup b.magic, !.reasons = @ \cup b.reasons]

with_blob(done, b) ==
    IF done # <<>> /\ b.section = done[Len(done)].section /\ b.lo = done[Len(done)].hi
    THEN [done EXCEPT ![Len(done)] = _extended(done[Len(done)], b)] ELSE Append(done, b)

\* Adjoining blobs become one, with all that was known of each.  No two are of one place and size
\* here, so that dedupe_blob_spans, which comes first, changes nothing.
coalesce_blob_runs(found) ==
    LET sorted == InOrder(found, _place_before)
        runs[n \in 0..Len(sorted)] == IF n = 0 THEN <<>> ELSE with_blob(runs[n-1], sorted[n])
        all == runs[Len(sorted)]
    IN  [i \in 1..Len(all) |-> [all[i] EXCEPT !.id = i]] \o <<>>

_notable_data_blobs(sections, refs, copies) ==
    LET spans == _large_copy_blob_spans(sections, copies)
    IN  coalesce_blob_runs(spans \cup _chunk_blobs(sections, spans, refs, copies))

-----------------------------------------------------------------------------
(* Transformers, loaders, embedded artifacts.                              *)

CODECS == {"base64", "hex", "gzip", "zlib", "aes", "rc4", "chacha20"}
confidence(score) == IF score >= 4 THEN "high" ELSE IF score >= 2 THEN "medium" ELSE "low"
hints_of(table, graph, f) ==
    UNION {table[c.to] : c \in {x \in ToSet(graph.calls[f]) : x.to \in DOMAIN table}}

sources_for_function(f, blobs, copies) ==
    {b.id : b \in {x \in ToSet(blobs) :
        \/ f \in x.refs
        \/ \E c \in ToSet(copies) :
              c.function = f /\ c.source # NoAddress /\ x.lo <= c.source /\ c.source < x.hi}}

\* Mutant: a function is given the sources of what it calls, too.
handed_on_Back(graph, sources, f) ==
    [g \in DOMAIN sources |->
        IF f \in DOMAIN sources /\ sources[g] = {}
           /\ (g \in {c.to : c \in ToSet(graph.calls[f])} \/ f \in {c.to : c \in ToSet(graph.calls[g])})
        THEN sources[f] ELSE sources[g]]

\* A transformer that has sources gives them to those it calls and that have none.
handed_on(graph, sources, f) ==
    [g \in DOMAIN sources |->
        IF f \in DOMAIN sources /\ sources[g] = {} /\ g \in {c.to : c \in ToSet(graph.calls[f])}
        THEN sources[f] ELSE sources[g]]

\* One pass over the callers in the order of the graph: what one was given earlier it hands on.
propagate_transformer_sources(sources, graph) ==
    LET after[n \in 0..Len(graph.order)] ==
            IF n = 0 THEN sources ELSE handed_on(graph, after[n-1], graph.order[n])
    IN  after[Len(graph.order)]

transform_score(x, ops, own) ==
    one(x.back > 0) + one(x.byte >= 3) + one(Cardinality(ops) >= 2) + 2 * one(ops \cap CODECS # {}) + one(own # {})

is_transformer(f, x, ops, own, from) ==
    LET api == ops \cap (CODECS \cup {"bytes_to_string"}) # {}
    IN  /\ ops # {} /\ transform_score(x, ops, own) > 0
        /\ x.byte >= 3 \/ own # {} \/ from # {} \/ api
        /\ f \notin Library \/ from # {} \/ own # {} \/ api

\* features: what was noted of each function scanned; the list is in the order of the scan.
_data_transformers(scanned, features, blobs, copies, graph) ==
    LET fs    == ToSet(scanned)
        ops   == [f \in fs |-> features[f].ops \cup hints_of(TRANSFORM_CALL_HINTS, graph, f)]
        own   == [f \in fs |-> {i \in 1..Len(copies) : copies[i].function = f}]
        from  == [f \in fs |-> sources_for_function(f, blobs, copies)]
        known == {f \in fs : is_transformer(f, features[f], ops[f], own[f], from[f])}
        given == propagate_transformer_sources([f \in known |-> from[f]], graph)
    IN  Each(InOrder({n \in 1..Len(scanned) : scanned[n] \in known}, <), LAMBDA n :
            [function |-> scanned[n], operations |-> ops[scanned[n]], sources |-> given[scanned[n]],
             copies |-> Each(InOrder(own[scanned[n]], <), LAMBDA i : copies[i]),
             confidence |-> confidence(transform_score(features[scanned[n]], ops[scanned[n]], own[scanned[n]]))])

HEADERS == {"pe_header_parsing", "elf_header_parsing"}

normalized_loader_hints(hints, x, copies) ==
    hints \cup IF \/ hints \cap {"executable_memory_allocation", "memory_protection_change"} # {}
                  \/ /\ hints \cap {"raw_syscall", "dynamic_syscall_call"} # {}
                     /\ x.alloc /\ x.protect /\ copies # <<>>
               THEN {"executable_memory_requested"} ELSE {}

_loader_hints(graph, f, x, copies) ==
    normalized_loader_hints(hints_of(LOADER_CALL_HINTS, graph, f), x, copies)
    \cup (IF x.magic \cap {"MZ", "PE"} # {} THEN {"pe_header_parsing"} ELSE {})
    \cup (IF "ELF" \in x.magic THEN {"elf_header_parsing"} ELSE {})

classify_loader(hints) ==
    CASE {"pe_header_parsing", "dynamic_import_resolution"} \subseteq hints -> "reflective_pe_loader"
      [] {"elf_header_parsing", "dynamic_import_resolution"} \subseteq hints -> "reflective_elf_loader"
      [] /\ "executable_memory_requested" \in hints
         /\ hints \cap ({"dynamic_import_resolution", "thread_creation"} \cup HEADERS) # {} ->
            "dynamic_code_loader"
      [] hints \cap {"dynamic_import_resolution", "dynamic_library_load"} # {} -> "dynamic_api_resolution"
      [] "raw_syscall" \in hints -> "native_api_usage"
      [] OTHER -> "runtime_behavior_pattern"

CODE_LOADERS == {"reflective_pe_loader", "reflective_elf_loader", "dynamic_code_loader"}

should_promote_loader(kind, hints, called, transformers) ==
    \/ kind \in CODE_LOADERS
    \/ /\ hints \cap HEADERS # {}
       /\ hints \cap {"dynamic_import_resolution", "dynamic_syscall_call", "raw_syscall"} # {}
    \/ \E t \in ToSet(transformers) : t.function \in ToSet(called) /\ t.sources # {}

by_name(f, g) == Rank(Names, f) < Rank(Names, g)

\* A loader made of all the evidence together, if it is enough for one.
_component_loader_behavior(loaders, transformers) ==
    LET evidence == UNION {l.evidence : l \in ToSet(loaders)}
        runs     == evidence \cap {"dynamic_syscall_call", "executable_memory_requested"} # {}
        resolves == "dynamic_import_resolution" \in evidence
        kind == CASE "pe_header_parsing" \in evidence /\ resolves /\ runs -> "reflective_pe_loader"
                  [] "elf_header_parsing" \in evidence /\ resolves /\ runs -> "reflective_elf_loader"
                  [] /\ "executable_memory_requested" \in evidence
                     /\ resolves \/ "thread_creation" \in evidence -> "dynamic_code_loader"
                  [] OTHER -> None
    IN  Guarded(kind # None,
            <<[function |-> COMPONENT, kind |-> kind, confidence |-> "high", evidence |-> evidence,
               functions |-> InOrder({l.function : l \in ToSet(loaders)}, by_name),
               transformers |-> InOrder({t.function : t \in {x \in ToSet(transformers) : x.sources # {}}},
                                             by_name)]>>)

\* The component first, and then the functions promoted.
_loader_behaviors(scanned, features, transformers, copies, graph) ==
    LET known == {t.function : t \in ToSet(transformers)}
        loaders == Concat(scanned, LAMBDA f :
            LET own    == SelectSeq(copies, LAMBDA c : c.function = f)
                hints  == _loader_hints(graph, f, features[f], own)
                called == SortBy(Each(SelectSeq(graph.calls[f], LAMBDA c : c.to \in known), LAMBDA c : c.to),
                                 by_name)
                score  == Cardinality(hints) + one(called # <<>>)
                          + one(hints \cap HEADERS # {} /\ "dynamic_import_resolution" \in hints)
                          + one({"raw_syscall", "executable_memory_requested"} \subseteq hints)
            IN  Guarded(hints # {} /\ should_promote_loader(classify_loader(hints), hints, called, transformers),
                    <<[function |-> f, kind |-> classify_loader(hints), confidence |-> confidence(score),
                       evidence |-> hints, functions |-> <<>>, transformers |-> called]>>))
    IN  _component_loader_behavior(loaders, transformers) \o loaders

loader_consumes_transformer(loaders, related) ==
    \E l \in ToSet(loaders) : ToSet(l.transformers) \cap ToSet(related) # {}

_embedded_artifacts(blobs, transformers, loaders) ==
    LET code == SelectSeq(loaders, LAMBDA l : l.kind \in CODE_LOADERS)
    IN  IF code = <<>> THEN <<>> ELSE
        Concat(Take(blobs, ARTIFACT_BLOBS), LAMBDA b :
            LET related == Each(SelectSeq(transformers, LAMBDA t : b.id \in t.sources),
                                LAMBDA t : t.function)
                copied  == "large_copy_source" \in b.reasons
                program == b.magic \cap {"MZ", "PE", "ELF"} # {}
                archive == b.magic \cap {"PK", "gzip", "zlib"} # {}
            IN  Guarded(/\ b.refs # {} \/ copied
                        /\ b.high \/ copied \/ program
                        /\ \/ copied \/ program
                           \/ archive /\ related # <<>>
                           \/ loader_consumes_transformer(code, related),
                    <<[kind |-> "encoded_or_encrypted_embedded_artifact", source |-> b,
                       source_blob |-> b.id, transformers |-> related,
                       loaders |-> Each(code, LAMBDA l : l.function),
                       confidence |-> confidence(1 + one(program) + one(copied) + one(related # <<>>))]>>))

\* The hints of a report, each named by what it is about.
assessment_hints(blobs, transformers, loaders, embedded, mid, indirect) ==
    {h \in {"mid_function_transfer", "notable_blobs", "computed_calls", "transformers", "loader", "payload"} :
        CASE h = "mid_function_transfer" ->
                \E t \in ToSet(mid) : t.class \notin {"go_runtime_duff_helper", "internal_branch"}
          [] h = "notable_blobs" -> blobs # <<>>
          [] h = "computed_calls" ->
                \E c \in ToSet(indirect) : c.class \in {"dynamic_api_function_pointer",
                    "runtime_allocated_code_pointer", "computed_or_obfuscated_direct_pointer"}
          [] h = "transformers" -> transformers # <<>>
          [] h = "loader" -> \E l \in ToSet(loaders) : l.kind \in CODE_LOADERS
          [] h = "payload" -> embedded # <<>>}

-----------------------------------------------------------------------------
(* What SemanticScanner.analyze makes of a program                         *)
(* [graph, sections, ranges, code, missing]: missing are the functions of  *)
(* the graph that the analyzer does not find.                              *)

\* What was noted of each function, put together from what was noted before and of one more.
NothingNoted == [features |-> <<>>, refs |-> <<>>, copies |-> <<>>, indirect |-> <<>>, mid |-> <<>>]
noted(found, p, f) ==
    LET s == _scan_function(p.sections, p.ranges, f, p.code[f])
    IN  [features |-> Put(found.features, f, s.features), refs |-> found.refs \o s.refs,
         copies |-> found.copies \o s.copies, indirect |-> found.indirect \o s.indirect,
         mid |-> found.mid \o s.mid]

by_place(a, b) == by_name(a.function, b.function) \/ (a.function = b.function /\ a.at < b.at)

conclude(p, found) ==
    LET scanned      == scanned_functions(p)
        indirect     == SortBy(found.indirect, by_place)
        mid          == SortBy(found.mid, by_place)
        blobs        == _notable_data_blobs(p.sections, found.refs, found.copies)
        transformers == _data_transformers(scanned, found.features, blobs, found.copies, p.graph)
        loaders      == _loader_behaviors(scanned, found.features, transformers, found.copies, p.graph)
        embedded     == _embedded_artifacts(blobs, transformers, loaders)
    IN  [indirect |-> indirect, mid |-> mid, blobs |-> blobs, transformers |-> transformers,
         loaders |-> loaders, embedded |-> embedded,
         hints |-> assessment_hints(blobs, transformers, loaders, embedded, mid, indirect)]

analyze(p) ==
    conclude(p, FoldLeft(LAMBDA found, f : noted(found, p, f), NothingNoted, scanned_functions(p)))
============================================================================

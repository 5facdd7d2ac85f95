-------------------------- MODULE SemanticScanner --------------------------
(***************************************************************************)
(* SemanticScanner.analyze at work on one program: the functions of the    *)
(* graph are scanned one after another into the scanner's lists, and the   *)
(* lists then become blobs, transformers, loaders and embedded artifacts.  *)
(***************************************************************************)
EXTENDS Scanner

CONSTANTS Programs

ASSUME ConstantsAssumption ==
    /\ CHUNK_SIZE \in Nat \ {0} /\ MIN_BLOB_SIZE \in Nat \ {0} /\ MAGIC_HITS \in Nat \ {0}
    /\ LARGE_COPY_THRESHOLD \in Nat
    /\ ENTROPY_SAMPLE_LIMIT \in Nat /\ CHUNK_SIZE <= ENTROPY_SAMPLE_LIMIT

Instruction == [at : Int, op : STRING, reg : STRING, src : STRING, mem : STRING, imm : Int, width : Nat,
                to : STRING]

ASSUME ProgramsAssumption ==
    \A p \in Programs :
        /\ AreSections(p.sections)
        /\ p.graph.order \in Seq(STRING)
        /\ \A f \in ToSet(p.graph.order) \ p.missing : p.code[f] \in Seq(Instruction)

VARIABLES
    program,        \* what is analyzed
    found,          \* the scanner's lists
    scanned,        \* how many functions were scanned
    result          \* what analyze returns, or nothing yet

vars == <<program, found, scanned, result>>

NoResult == <<>>

Init ==
    /\ program \in Programs
    /\ found = NothingNoted
    /\ scanned = 0
    /\ result = NoResult

\* A function the analyzer does not find is passed over.
ScanFunction ==
    /\ scanned < Len(program.graph.order)
    /\ LET f == program.graph.order[scanned + 1]
       IN  found' = IF f \in program.missing THEN found ELSE noted(found, program, f)
    /\ scanned' = scanned + 1
    /\ UNCHANGED <<program, result>>

Conclude ==
    /\ scanned = Len(program.graph.order) /\ result = NoResult
    /\ result' = conclude(program, found)
    /\ UNCHANGED <<program, found, scanned>>

Next == ScanFunction \/ Conclude
Spec == Init /\ [][Next]_vars

-----------------------------------------------------------------------------

done == result # NoResult
sections == program.sections
copies == ToSet(found.copies)
blobs == ToSet(result.blobs)
inside(b, r, lo, hi) == b.section = r /\ b.lo <= lo /\ hi <= b.hi

\* The blobs of a report are apart: no two of one section overlap or even touch, whatever the
\* copies, the grid of chunks and the merging made of them, and each is known by its place.
BlobsApart ==
    done => /\ \A i \in 1..Len(result.blobs) : result.blobs[i].id = i
            /\ \A a, b \in blobs : a = b \/ a.section # b.section \/ a.hi < b.lo \/ b.hi < a.lo

\* Every large copy out of a data section reads, as far as the section goes, from a single blob,
\* and that blob names the function that copies.
CopiesCovered ==
    done => \A c \in copies : \A r \in places_for_va(sections, c.source) :
        LET hi == Least(c.source + c.size, sections[r].hi)
        IN  /\ c.source # NoAddress /\ ~sections[r].excluded
            /\ hi - c.source >= MIN_BLOB_SIZE
            => \E b \in blobs : /\ inside(b, r, c.source, hi)
                                /\ c.function \in b.refs /\ "large_copy_source" \in b.reasons

\* A chunk that holds the signature of a program is reported with one, whatever it was merged with,
\* unless a large copy reads a part of the chunk; then the rest of the chunk may be lost.
SignaturesReported ==
    done => \A r \in DOMAIN sections : \A k \in 0..Len(sections[r].cells) :
        LET lo == sections[r].lo + k * CHUNK_SIZE
            hi == Least(lo + CHUNK_SIZE, sections[r].hi)
            held == ToSet(cells(sections[r], lo, hi)) \cap {"MZ", "PE", "ELF"}
        IN  /\ ~sections[r].excluded /\ hi - lo >= MIN_BLOB_SIZE /\ held # {}
            => \/ \E b \in blobs : inside(b, r, lo, hi) /\ held \cap b.magic # {}
               \/ \E c \in copies : /\ c.source # NoAddress /\ r \in places_for_va(sections, c.source)
                                    /\ Overlap(lo, hi, c.source, c.source + c.size)

\* What a transformer is said to read, it or a function that calls it, through transformers only,
\* refers to or copies from: sources are handed down the calls and never up or across.  Any set of
\* transformers that has it, and those of them that call one it has, has one that owns the source.
SourcesTraceable ==
    done => \A t \in ToSet(result.transformers) : \A id \in t.sources :
        LET owns(f) == f \in result.blobs[id].refs
                       \/ \E c \in copies : /\ c.function = f /\ c.source # NoAddress
                                            /\ result.blobs[id].lo <= c.source /\ c.source < result.blobs[id].hi
            known == {x.function : x \in ToSet(result.transformers)}
            calls(f) == {c.to : c \in ToSet(program.graph.calls[f])}
            closed(S) == \A f \in known : calls(f) \cap S # {} => f \in S
        IN  /\ id \in DOMAIN result.blobs
            /\ \A S \in SUBSET known : t.function \in S /\ closed(S) => \E f \in S : owns(f)

============================================================================

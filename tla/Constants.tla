----------------------------- MODULE Constants -----------------------------
(***************************************************************************)
(* passes/constants.py: the static data that reachable code refers to, as  *)
(* arrays, and the strings of the program with the functions that refer to *)
(* their addresses.  An array is a large copy's source, or a window around *)
(* the data referred to; windows that meet are merged.                     *)
(***************************************************************************)
EXTENDS Code

CONSTANTS
    ALIGNMENT, DEFAULT_ARRAY_WINDOW, MAX_ARRAY_WINDOW, MIN_ARRAY_SIZE, MAX_LARGE_COPY_ARRAY_BYTES

\* The addresses in data that are referred to, each with the functions that do.
collect_data_references(p) ==
    LET functions == ToSet(scanned_functions(p))
        named_in(f) == {i.imm : i \in {x \in ToSet(p.code[f]) :
                           /\ x.src = "imm" \/ x.mem = "global"
                           /\ places_for_va(p.sections, x.imm) # {}
                           /\ ~p.sections[place_for_va(p.sections, x.imm)].excluded}}
    IN  [a \in UNION {named_in(f) : f \in functions} |-> {f \in functions : a \in named_in(f)}]

\* section is the place of the array's section.
_array(section, lo, size, bytes, refs, reason) ==
    [id |-> 0, section |-> section, lo |-> lo, size |-> size, bytes |-> bytes, refs |-> refs,
     reasons |-> {reason}]

NothingCopied == [ints |-> <<>>, source |-> <<>>, arrays |-> <<>>]

\* What is known after one more instruction: a number that is an address counts as a source.  The
\* size of an array is that of the copy, though the section may end before.
note_copy(p, f, s, i) ==
    LET size  == copy_size_from_instruction(s.ints, i)
        lo    == s.source[1]
        r     == place_for_va(p.sections, lo)
        bytes == cells(p.sections[r], lo, lo + Least(size, MAX_LARGE_COPY_ARRAY_BYTES))
    IN  [ints   |-> next_ints(s.ints, i),
         source |-> IF \/ i.op = "lea" /\ i.mem = "global"
                       \/ i.op = "mov" /\ i.src = "imm" /\ places_for_va(p.sections, i.imm) # {}
                    THEN <<i.imm>> ELSE s.source,
         arrays |-> s.arrays \o Guarded(/\ i.op = "movs" /\ s.source # <<>> /\ size >= MIN_ARRAY_SIZE
                                        /\ places_for_va(p.sections, lo) # {} /\ ~p.sections[r].excluded
                                        /\ Len(bytes) >= MIN_ARRAY_SIZE,
                        <<_array(r, lo, size, bytes, {f}, "large_copy_source")>>)]

copies_of(p, f) ==
    LET after[n \in 0..Len(p.code[f])] ==
            IF n = 0 THEN NothingCopied ELSE note_copy(p, f, after[n-1], p.code[f][n])
    IN  after[Len(p.code[f])].arrays

collect_large_copy_arrays(p) == Concat(scanned_functions(p), LAMBDA f : copies_of(p, f))

align_down(a) == a - (a % ALIGNMENT)
is_mostly_zero(bytes) == \A c \in ToSet(bytes) : c = "zero"

\* The window before, longer by what the next one adds, but not beyond the greatest length.
merge_windows(prev, w) ==
    LET end == prev.lo + prev.size
        new == Least(IF w.lo + w.size > end THEN w.lo + w.size ELSE end, prev.lo + MAX_ARRAY_WINDOW)
        all == prev.bytes \o SubSeq(w.bytes, end - w.lo + 1, new - w.lo)
    IN  [prev EXCEPT !.bytes = Take(all, new - prev.lo), !.size = Len(Take(all, new - prev.lo)),
                     !.refs = @ \cup w.refs]

with_window(done, w) ==
    IF done # <<>> /\ w.section = done[Len(done)].section
       /\ w.lo <= done[Len(done)].lo + done[Len(done)].size
    THEN [done EXCEPT ![Len(done)] = merge_windows(done[Len(done)], w)] ELSE Append(done, w)

window_before(a, b) == a.section < b.section \/ (a.section = b.section /\ a.lo < b.lo)

merge_array_windows(windows) ==
    LET sorted == SortBy(windows, window_before)
        merged[n \in 0..Len(sorted)] == IF n = 0 THEN <<>> ELSE with_window(merged[n-1], sorted[n])
    IN  merged[Len(sorted)]

\* The window around an address, of what its section has of it.
window_start(section, va) == IF align_down(va) < section.lo THEN section.lo ELSE align_down(va)
window_bytes(section, va) ==
    cells(section, window_start(section, va), window_start(section, va) + DEFAULT_ARRAY_WINDOW)
window_around(sections, va, functions) ==
    LET r == place_for_va(sections, va)
    IN  _array(r, window_start(sections[r], va), Len(window_bytes(sections[r], va)),
               window_bytes(sections[r], va), functions, "referenced_global_data")

\* A reference into a large copy's source has no window of its own.
collect_referenced_array_windows(p, refs, copies) ==
    LET around(va) == window_around(p.sections, va, refs[va])
        wanted == {va \in DOMAIN refs :
                      /\ ~ \E a \in ToSet(copies) : a.lo <= va /\ va < a.lo + a.size
                      /\ Len(around(va).bytes) >= MIN_ARRAY_SIZE
                      /\ ~is_mostly_zero(around(va).bytes)}
    IN  merge_array_windows(Each(InOrder(wanted, <), around))

\* Mutant: arrays are told apart by their places only.
array_key_Place(a) == <<a.section, a.lo>>

\* Of two arrays of one place, size and content the first is kept, and its references alone.
array_key(a) == <<a.section, a.lo, a.size, a.bytes>>

array_before(a, b) ==
    window_before(a, b) \/ (a.section = b.section /\ a.lo = b.lo /\ a.size < b.size)

assign_array_ids(arrays) ==
    LET kept == First(SortBy(arrays, array_before), array_key)
    IN  [i \in 1..Len(kept) |-> [kept[i] EXCEPT !.id = 100 + i]] \o <<>>

classify_string(v) ==
    CASE v \in Urls -> "url"
      [] v \in Paths \cup Fragments -> "path_or_url_fragment"
      [] v \in DllNames -> "dll_name"
      [] OTHER -> "string"

\* The strings the analyzer knows, in the order of their addresses.
global_strings(p, refs) ==
    Each(InOrder(DOMAIN p.string_data, <), LAMBDA va :
        [at |-> va, id |-> va, value |-> p.string_data[va], class |-> classify_string(p.string_data[va]),
         refs |-> IF va \in DOMAIN refs THEN refs[va] ELSE {}])

analyze_constants(p) ==
    LET refs   == collect_data_references(p)
        copies == collect_large_copy_arrays(p)
    IN  [arrays  |-> assign_array_ids(copies \o collect_referenced_array_windows(p, refs, copies)),
         strings |-> global_strings(p, refs)]
============================================================================

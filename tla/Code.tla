-------------------------------- MODULE Code --------------------------------
(***************************************************************************)
(* A program as the passes that read instructions see it.                  *)
(*                                                                         *)
(* An instruction is [at, op, reg, src, mem, base, imm, width, to]: src is *)
(* a register, "imm" or "mem", mem the kind of its memory operand (base    *)
(* the register of a "based" one), imm its number, the address of that     *)
(* operand or its displacement, to the function a call names.  Sections    *)
(* are in the order of their names, and the place of one in that list      *)
(* stands for its name; one is [header, lo, hi, excluded, cells], header   *)
(* its place in the file, each cell a signature, a text, noise or zero.    *)
(***************************************************************************)
EXTENDS Ops

NoAddress == 0
Put(f, x, v) == [y \in DOMAIN f \cup {x} |-> IF y = x THEN v ELSE f[y]]
Drop(f, x) == [y \in DOMAIN f \ {x} |-> f[y]]
Overlap(a, b, c, d) == a < d /\ c < b
Least(a, b) == IF a < b THEN a ELSE b
one(b) == IF b THEN 1 ELSE 0

\* A section has a place of its own in the file, but may overlap others: those that an ELF file
\* does not load all start at 0.
Section == [header : Nat, lo : Nat, hi : Nat, excluded : BOOLEAN, cells : Seq(STRING)]
AreSections(ss) ==
    /\ ss \in Seq(Section)
    /\ \A r \in DOMAIN ss : ss[r].hi = ss[r].lo + Len(ss[r].cells)
    /\ \A r, q \in DOMAIN ss : ss[r].header = ss[q].header => r = q

\* The place of the section an address is in, the first in the file: a set of at most one.
places_for_va(sections, va) ==
    LET around == {r \in DOMAIN sections : sections[r].lo <= va /\ va < sections[r].hi}
    IN  {r \in around : \A q \in around : sections[r].header <= sections[q].header}
place_for_va(sections, va) == CHOOSE r \in places_for_va(sections, va) : TRUE
_section_for_va(sections, va) == Each(InOrder(places_for_va(sections, va), <), LAMBDA r : sections[r])
cells(section, lo, hi) == SubSeq(section.cells, lo - section.lo + 1, Least(hi, section.hi) - section.lo)

\* The last of some ranges, if the address is in it; that of the ranges that start at or below it.
last_around(ranges, va) ==
    Guarded(ranges # <<>> /\ va < ranges[Len(ranges)].hi, <<ranges[Len(ranges)]>>)
range_containing_va(ranges, va) == last_around(SelectSeq(ranges, LAMBDA r : r.lo <= va), va)

copy_size_from_instruction(ints, i) == IF "RCX" \in DOMAIN ints THEN ints["RCX"] * i.width ELSE 0

\* Only mov writes the numbers of registers; lea, arithmetic and calls leave them as they were.
next_ints(ints, i) ==
    CASE i.op = "mov" /\ i.src = "imm" -> Put(ints, i.reg, i.imm)
      [] i.op = "mov" /\ i.src # "imm" -> Drop(ints, i.reg)
      [] OTHER -> ints

\* The functions of the graph that the analyzer finds.
scanned_functions(p) ==
    LET order == p.graph.order
    IN  Each(InOrder({n \in 1..Len(order) : order[n] \notin p.missing}, <), LAMBDA n : order[n])
============================================================================

----------------------------- MODULE Dataflow -----------------------------
(***************************************************************************)
(* passes/dataflow.py on x86_64: the values registers and stack slots are  *)
(* known to hold, and what is recorded of them at each call.  How those    *)
(* values follow the machine is the subject of Trackers; this module is    *)
(* about what a value is taken to be and what a call is said to be passed. *)
(*                                                                         *)
(* A value is [kind, label, address, n]; texts take one cell each.         *)
(***************************************************************************)
EXTENDS Constants

ABI_INT_REGS == <<"RAX", "RBX", "RCX", "RDI", "RSI">>       \* of nine
STRING_ARG_REG_PAIRS == <<<<"RAX", "RBX">>, <<"RCX", "RDI">>>>      \* of four
SLICE_ARG_REG_TRIPLES == <<<<"RAX", "RBX", "RCX">>>>        \* of three

value(kind, label, address, n) == [kind |-> kind, label |-> label, address |-> address, n |-> n]

\* The item with the last start not above an address, if the address is in it.
range_item_for_address(items, va) ==
    range_containing_va(SortBy(items, LAMBDA a, b : a.lo < b.lo \/ (a.lo = b.lo /\ a.hi < b.hi)), va)

array_ranges(sem) == Each(sem.arrays, LAMBDA a : [lo |-> a.lo, hi |-> a.lo + a.size, id |-> a.id])

\* An address in an array or else in a blob stands for its start; so does the value's address.
\* Others are known for the string, the header of one or the function that starts there.
value_for_address(p, sem, va) ==
    Take(Each(range_item_for_address(array_ranges(sem), va),
              LAMBDA a : value("constant_array", a.id, a.lo, 0))
         \o Each(range_item_for_address(sem.blobs, va), LAMBDA b : value("data_blob", b.id, b.lo, 0))
         \o Guarded(va \in DOMAIN p.string_data, <<value("global_string", p.string_data[va], va, 0)>>)
         \o Guarded(va \in DOMAIN p.string_headers,
                    <<value("global_string_header", p.string_headers[va], va, 0)>>)
         \o Each(SelectSeq(p.ranges.user, LAMBDA f : f.lo = va),
                 LAMBDA f : value("function", f.name, va, 0)), 1)

\* What an operand is known to hold, as a list of at most one.
_value_from_operand(p, sem, regs, slots, i) ==
    CASE i.src = "imm" -> Take(Append(value_for_address(p, sem, i.imm),
                                      value("int", None, NoAddress, i.imm)), 1)
      [] i.src = "mem" /\ i.mem = "global" ->
            Take(value_for_address(p, sem, i.imm)
                 \o Guarded(i.op = "lea", <<value("ptr", None, i.imm, 0)>>), 1)
      [] i.src = "mem" /\ i.mem = "stack" ->
            IF i.imm \in DOMAIN slots THEN <<slots[i.imm]>>
            ELSE Guarded(i.op = "lea", <<value("stack_address", None, NoAddress, 0)>>)
      [] i.src = "mem" /\ i.mem = "based" -> <<value("field_load", i.base, NoAddress, i.imm)>>
      [] OTHER -> Guarded(i.src \in DOMAIN regs, <<regs[i.src]>>)

\* The text at an address, if it can be read.
read_string_at(p, va) ==
    Concat(_section_for_va(p.sections, va), LAMBDA s :
        SelectSeq(cells(s, va, va + 1), LAMBDA c : c \notin {"zero", "noise", "MZ", "ELF", "PK", "gzip"}))

\* The strings, each with the register of its pointer.
_string_args(p, regs) ==
    Concat(STRING_ARG_REG_PAIRS, LAMBDA r :
        Guarded({r[1], r[2]} \subseteq DOMAIN regs
                /\ regs[r[2]].kind = "int" /\ regs[r[1]].address # NoAddress /\ regs[r[2]].n > 0,
                Each(read_string_at(p, regs[r[1]].address), LAMBDA v : [reg |-> r[1], value |-> v])))

_slice_args(regs) ==
    Concat(SLICE_ARG_REG_TRIPLES, LAMBDA r :
        Guarded({r[1], r[2], r[3]} \subseteq DOMAIN regs
                /\ regs[r[2]].kind = "int" /\ regs[r[3]].kind = "int"
                /\ regs[r[1]].kind \in {"constant_array", "data_blob", "ptr", "stack_address"},
                <<regs[r[1]]>>))

\* What is recorded of a call; nothing of the runtime's own, nothing when nothing is known.
_record_call(p, facts, regs, i) ==
    LET args == Concat(ABI_INT_REGS, LAMBDA r : Guarded(r \in DOMAIN regs, <<[reg |-> r, value |-> regs[r]]>>))
        pairs == _string_args(p, regs)
        to   == IF i.src = "imm" THEN i.to ELSE "indirect_call"
    IN  IF to \in Noise THEN facts ELSE
        [facts EXCEPT
            !.args = @ \o Guarded(args # <<>>,
                <<[at |-> i.at, target |-> to, args |-> args, pairs |-> pairs,
                   strs |-> Each(pairs, LAMBDA x : x.value),
                   slices |-> _slice_args(regs),
                   symbolic |-> SelectSeq(args, LAMBDA a : a.value.kind \notin {"int", "call_return"})]>>),
            !.flows = @ \o Each(SelectSeq(args, LAMBDA a : a.value.kind \in
                                    {"constant_array", "data_blob", "global_string"}),
                LAMBDA a : [kind |-> a.value.kind, from |-> a.value.label, to |-> to, at |-> i.at])]

_clobber_call_registers(regs, i) ==
    LET kept == [r \in DOMAIN regs \ ToSet(ABI_INT_REGS) |-> regs[r]]
    IN  IF i.src = "imm" /\ i.to \in Noise THEN kept
        ELSE Put(kept, "RAX", value("call_return", IF i.src = "imm" THEN i.to ELSE "indirect_call", NoAddress, 0))

\* Two registers of a pair that hold neighbouring fields of one structure may be a string.
_record_string_field_candidate(facts, regs, i) ==
    LET held(r) == r \in DOMAIN regs /\ regs[r].kind = "field_load"
        found == Concat(STRING_ARG_REG_PAIRS, LAMBDA r :
            Guarded(/\ held(r[1]) /\ held(r[2]) /\ regs[r[1]].label = regs[r[2]].label
                    /\ regs[r[2]].n = regs[r[1]].n + 8,
                <<[at |-> i.at, base |-> regs[r[1]].label, pointer |-> regs[r[1]].n,
                   length |-> regs[r[2]].n, pair |-> r]>>))
    IN  [facts EXCEPT !.candidates = Distinct(@ \o found)]

NoFunctionFacts == [args |-> <<>>, flows |-> <<>>, fields |-> <<>>, candidates |-> <<>>]

\* held is what the operand of the instruction is known to hold.
_stored(s, i, held) ==
    [s EXCEPT !.slots = IF held # <<>> THEN Put(@, i.imm, held[1]) ELSE Drop(@, i.imm)]

_with_register(s, i, held, regs) ==
    [s EXCEPT !.regs = regs,
              !.facts = IF held # <<>> /\ held[1].kind \in {"field_load", "int"}
                        THEN _record_string_field_candidate(@, regs, i) ELSE @]

_loaded(s, i, held) ==
    _with_register([s EXCEPT !.facts.fields = IF i.op \in {"mov", "lea"} /\ i.mem = "based"
                                             THEN Append(@, [at |-> i.at, base |-> i.base, offset |-> i.imm])
                                             ELSE @],
                   i, held, IF held # <<>> THEN Put(s.regs, i.reg, held[1]) ELSE Drop(s.regs, i.reg))

\* What is known after an instruction; of ours no slot outlives a call, all are above the stack
\* pointer.
_handle_instruction(p, sem, s, i) ==
    CASE i.op = "call" -> [regs |-> _clobber_call_registers(s.regs, i), slots |-> [d \in {} |-> d],
                           facts |-> _record_call(p, s.facts, s.regs, i)]
      [] i.op = "store" -> _stored(s, i, _value_from_operand(p, sem, s.regs, s.slots, i))
      [] OTHER -> _loaded(s, i, Guarded(i.op \in {"mov", "lea"},
                                        _value_from_operand(p, sem, s.regs, s.slots, i)))

analyze_function(p, sem, f) ==
    FoldLeft(LAMBDA s, i : _handle_instruction(p, sem, s, i),
             [regs |-> <<>>, slots |-> <<>>, facts |-> NoFunctionFacts], p.code[f]).facts

\* Only functions of which something was recorded are kept.
known_functions(facts) == [f \in {g \in DOMAIN facts : facts[g] # NoFunctionFacts} |-> facts[f]]
analyze_dataflow(p, sem) ==
    known_functions([f \in ToSet(scanned_functions(p)) |-> analyze_function(p, sem, f)])
============================================================================

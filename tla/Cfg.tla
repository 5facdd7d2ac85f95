--------------------------------- MODULE Cfg ---------------------------------
(***************************************************************************)
(* passes/cfg.py: the basic blocks of one function, the edges between them *)
(* and the loops that look like a decoder of bytes.                        *)
(*                                                                         *)
(* The function occupies the addresses 0 .. End-1.  The disassembler        *)
(* appends one instruction after another and may stop anywhere, at bytes   *)
(* that are no instruction: then function_content has fewer instructions   *)
(* than the function has bytes.  Indices start at 1 where Python's start   *)
(* at 0, and a block names its last instruction, where Python names the    *)
(* one after it.                                                           *)
(***************************************************************************)
EXTENDS Integers, Sequences, FiniteSets

CONSTANTS
    End,        \* the function's End - Start
    Shapes,     \* instructions: [op, size, target, cond, mem, byte]
    NoTarget,   \* branch_target is None
    Ops,        \* TRANSFORM_MNEMONICS, which are READ_MODIFY_WRITE_MNEMONICS too
    Strong,     \* the transformations that suffice: xor, rol, ror, not
    ByteOps,    \* byte operations that suffice otherwise, 3 in the code
    MaxInsns,   \* MAX_CFG_INSTRUCTIONS
    MaxLoop,    \* MAX_LOOP_INSTRUCTIONS
    MaxListed   \* loops and transformations listed, 20 in the code

ASSUME CfgAssumption ==
    /\ End \in Nat \ {0} /\ MaxInsns \in Nat /\ MaxLoop \in Nat /\ MaxListed \in Nat
    /\ Strong \subseteq Ops
    /\ NoTarget \notin Nat
    /\ \A s \in Shapes : s.size \in Nat \ {0} /\ s.target \in Nat \cup {NoTarget}

VARIABLES
    code,   \* the facts: [addr, size, target, cond, reads, writes, bytes, op]
    cfg     \* what analyze_function_cfg returns, blocks and edges included

vars == <<code, cfg>>

Flag(b) == IF b THEN 1 ELSE 0

\* sorted(), of a set of numbers: the k-th member is above k-1 others.
Ascending(S) == [k \in 1..Cardinality(S) |-> CHOOSE x \in S : Cardinality({y \in S : y < x}) = k - 1]

\* instruction_fact: the first operand is written, the others are read, and a
\* transformation reads what it writes.
InstructionFact(s, a) ==
    [addr |-> a, size |-> s.size, target |-> s.target, cond |-> s.cond, op |-> s.op,
     reads |-> Flag(s.mem = "source" \/ (s.mem = "dest" /\ s.op \in Ops)),
     writes |-> Flag(s.mem = "dest"),
     bytes |-> Flag(s.mem # "none" /\ s.byte)]

-----------------------------------------------------------------------------
(* Blocks. *)

InFunction(t) == t # NoTarget /\ t \in 0..(End - 1)

Addresses(c) == {c[i].addr : i \in DOMAIN c}
Index(c, a) == CHOOSE i \in DOMAIN c : c[i].addr = a

\* Mutant: as if an unconditional jump did not end its block.
StartsAfterConditional(c) ==
    LET jumps == {i \in DOMAIN c : InFunction(c[i].target)}
    IN {c[1].addr} \cup {c[i].target : i \in jumps}
                   \cup {c[i + 1].addr : i \in {j \in jumps \ {Len(c)} : c[j].cond}}

\* starts: the first instruction, the targets, what follows a jump.
Starts(c) ==
    LET jumps == {i \in DOMAIN c : InFunction(c[i].target)}
    IN {c[1].addr} \cup {c[i].target : i \in jumps}
                   \cup {c[i + 1].addr : i \in jumps \ {Len(c)}}

HasBackwardJump(c) ==
    \E i \in DOMAIN c : InFunction(c[i].target) /\ c[i].target <= c[i].addr

\* Mutant: as if the block ended at the last instruction before a.
LastBeforeByAddress(c, a) == Cardinality({i \in DOMAIN c : c[i].addr < a})

\* end_index - 1: where no instruction starts at the next leader, the end of
\* the function.
LastBefore(c, a) == IF a \in Addresses(c) THEN Index(c, a) - 1 ELSE Len(c)

\* The next of the sorted starts, or the end of the function.
NextStart(c, a) ==
    CHOOSE b \in Starts(c) \cup {End} : b > a /\ \A d \in Starts(c) : d > a => b <= d

Block(c, a) ==
    [start |-> a, last |-> LastBefore(c, NextStart(c, a)),
     first |-> IF a \in Addresses(c) THEN Index(c, a) ELSE Len(c) + 1]

\* The blocks that are not empty.
Blocks(c) ==
    LET starts == Ascending({a \in Starts(c) : Block(c, a).first <= Block(c, a).last})
    IN [k \in DOMAIN starts |-> Block(c, starts[k])]

-----------------------------------------------------------------------------
(* Edges, between the numbers of blocks. *)

Jumps(c, B) ==
    {[from |-> p[1], to |-> p[2], type |-> "jump", at |-> c[B[p[1]].last].addr] :
        p \in {q \in (DOMAIN B) \X (DOMAIN B) : c[B[q[1]].last].target = B[q[2]].start}}

Fallthroughs(c, B) ==
    {[from |-> b, to |-> b + 1, type |-> "fallthrough", at |-> c[B[b].last].addr] :
        b \in {d \in DOMAIN B : c[B[d].last].cond /\ d < Len(B)}}

\* By the blocks they come from; a block has one jump.
InOrder(edges) ==
    LET froms == Ascending({e.from : e \in edges})
    IN [k \in DOMAIN froms |-> CHOOSE e \in edges : e.from = froms[k]]

\* Mutant: as if a block that jumps to its own start were no loop.
LoopsOfOthers(c, B) == InOrder({e \in Jumps(c, B) : B[e.to].start < B[e.from].start})

\* loop_edges, in the order of the blocks.
Loops(c, B) == InOrder({e \in Jumps(c, B) : B[e.to].start <= B[e.from].start})

-----------------------------------------------------------------------------
(* Loops that transform bytes. *)

\* fact_prefixes: how much of an amount the instructions before each hold.
Prefix(amounts) ==
    LET p[i \in 0..Len(amounts)] == IF i = 0 THEN 0 ELSE p[i - 1] + amounts[i] IN p

FactPrefixes(c) ==
    [reads |-> Prefix([i \in DOMAIN c |-> c[i].reads]),
     writes |-> Prefix([i \in DOMAIN c |-> c[i].writes]),
     bytes |-> Prefix([i \in DOMAIN c |-> c[i].bytes]),
     ops |-> [op \in Ops |-> Prefix([i \in DOMAIN c |-> Flag(c[i].op = op)])]]

\* Mutant: as if the first instruction of the range were left out.
EvidenceAfterFirst(P, first, last) ==
    LET between(p) == p[last] - p[first]
    IN [ops |-> {op \in Ops : between(P.ops[op]) # 0},
        reads |-> between(P.reads), writes |-> between(P.writes), bytes |-> between(P.bytes)]

\* loop_transform_evidence_from_prefix
Evidence(P, first, last) ==
    LET between(p) == p[last] - p[first - 1]
    IN [ops |-> {op \in Ops : between(P.ops[op]) # 0},
        reads |-> between(P.reads), writes |-> between(P.writes), bytes |-> between(P.bytes)]

Transforms(e) ==
    /\ e.ops # {} /\ e.reads > 0 /\ e.writes > 0
    /\ e.ops \cap Strong # {} \/ e.bytes >= ByteOps

TransformLoops(c, B) ==
    LET P == FactPrefixes(c)
        loop(e) == [edge |-> e, first |-> B[e.to].first, last |-> B[e.from].last,
                    evidence |-> Evidence(P, B[e.to].first, B[e.from].last)]
        L == Loops(c, B)
        found == Ascending({k \in DOMAIN L : LET t == loop(L[k]) IN /\ t.edge.to <= t.edge.from
                                                                   /\ t.last - t.first < MaxLoop
                                                                   /\ Transforms(t.evidence)})
    IN [n \in DOMAIN found |-> loop(L[found[n]])]

Listed(s) == SubSeq(s, 1, IF Len(s) < MaxListed THEN Len(s) ELSE MaxListed)

-----------------------------------------------------------------------------
Empty(status) ==
    [status |-> status, blocks |-> <<>>, edges |-> {}, loopCount |-> 0,
     loops |-> <<>>, transforms |-> <<>>]

\* analyze_function_cfg
AnalyzeFunctionCfg(c) ==
    IF c = <<>> THEN Empty("empty")
    ELSE IF Len(c) > MaxInsns THEN Empty("too_many_instructions")
    ELSE IF ~HasBackwardJump(c) THEN Empty("empty")
    ELSE LET B == Blocks(c)
             L == Loops(c, B)
         IN [status |-> "done", blocks |-> B, edges |-> Jumps(c, B) \cup Fallthroughs(c, B),
             loopCount |-> Len(L), loops |-> Listed(L),
             transforms |-> Listed(TransformLoops(c, B))]

Undecided == Empty("not analyzed")

Init == code = <<>> /\ cfg = Undecided

NextAddress == IF code = <<>> THEN 0 ELSE code[Len(code)].addr + code[Len(code)].size

\* The disassembler meets one more instruction of the function.
Decode ==
    /\ cfg = Undecided
    /\ \E s \in Shapes :
        /\ NextAddress + s.size <= End
        /\ code' = Append(code, InstructionFact(s, NextAddress))
    /\ UNCHANGED cfg

Analyze ==
    /\ cfg = Undecided
    /\ cfg' = AnalyzeFunctionCfg(code)
    /\ UNCHANGED code

Next == Decode \/ Analyze

Spec == Init /\ [][Next]_vars

-----------------------------------------------------------------------------
(* Properties. *)

\* A jump lands inside an instruction.
Misaligned(c) ==
    \E i \in DOMAIN c : InFunction(c[i].target) /\ c[i].target \notin Addresses(c)

Analyzed == cfg.status = "done"

\* Basic blocks are what the word says as long as no jump lands inside an
\* instruction: they partition the instructions read, control enters one at its
\* first and leaves it at its last instruction only.  (analyze_function_cfg
\* computes ends by address, with the end of the function where an address is no
\* instruction's.)
BlocksPartition ==
    Analyzed /\ ~Misaligned(code) =>
        LET B == cfg.blocks IN
        /\ B[1].first = 1 /\ B[Len(B)].last = Len(code)
        /\ \A b \in 1..(Len(B) - 1) : B[b + 1].first = B[b].last + 1
        /\ \A b \in DOMAIN B :
            /\ \A i \in (B[b].first + 1)..B[b].last, j \in DOMAIN code :
                code[j].target # code[i].addr
            /\ \A i \in B[b].first..(B[b].last - 1) : ~InFunction(code[i].target)

\* What a jump into the middle of an instruction costs: the block around that
\* target runs to the end of the function, so the jump it hits or that follows it
\* there has no edge.  Every other jump to an instruction has its edge, and so has the
\* last instruction in any case.
JumpsKept ==
    Analyzed =>
        LET starts == Starts(code)
            next(i) == code[i].addr + code[i].size
            leader(i) == CHOOSE a \in starts \cap Addresses(code) :
                            /\ a <= code[i].addr
                            /\ \A b \in starts \cap Addresses(code) : b <= code[i].addr => b <= a
        IN \A i \in DOMAIN code :
            code[i].target \in Addresses(code) =>
                ((\E e \in cfg.edges : e.type = "jump" /\ e.at = code[i].addr)
                    <=> i = Len(code) \/ \A a \in starts : ~(leader(i) < a /\ a < next(i)))

\* Where no jump lands inside an instruction, an edge is a transfer the program
\* can make, a jump to its target or a conditional jump to the instruction after
\* it, and no loop is missed, invented or counted twice: loop edges are the
\* backward jumps within the function.
EdgesAndLoopsTrue ==
    Analyzed /\ ~Misaligned(code) =>
        LET back == {i \in DOMAIN code : InFunction(code[i].target) /\ code[i].target <= code[i].addr}
            from(e) == code[cfg.blocks[e.from].last]
            to(e) == cfg.blocks[e.to].start
        IN /\ \A e \in cfg.edges :
                IF e.type = "jump" THEN to(e) = from(e).target
                ELSE from(e).cond /\ to(e) = from(e).addr + from(e).size
           /\ cfg.loopCount = Cardinality(back)
           /\ \A l \in DOMAIN cfg.loops :
                \E i \in back : cfg.loops[l].at = code[i].addr
                                /\ cfg.blocks[cfg.loops[l].to].start = code[i].target

\* loop_transform_evidence, the direct form the module keeps beside the prefixes.
LoopTransformEvidence(first, last) ==
    [ops |-> {code[i].op : i \in first..last} \cap Ops,
     reads |-> Cardinality({i \in first..last : code[i].reads = 1}),
     writes |-> Cardinality({i \in first..last : code[i].writes = 1}),
     bytes |-> Cardinality({i \in first..last : code[i].bytes = 1})]

\* The transforming loops listed are the first backward jumps over a range of at
\* most MaxLoop instructions that, counted one by one from the target to the
\* jump, transform bytes; each is listed with that count.
TransformLoopsTrue ==
    Analyzed /\ ~Misaligned(code) =>
        LET ranges == {r \in (DOMAIN code) \X (DOMAIN code) :
                         /\ r[1] <= r[2] /\ code[r[2]].target = code[r[1]].addr
                         /\ r[2] - r[1] + 1 <= MaxLoop
                         /\ Transforms(LoopTransformEvidence(r[1], r[2]))}
            listed == {<<cfg.transforms[k].first, cfg.transforms[k].last>> : k \in DOMAIN cfg.transforms}
        IN /\ listed \subseteq ranges
           /\ \A r \in ranges \ listed, s \in listed : s[2] < r[2]
           /\ ranges # listed => Len(cfg.transforms) = MaxListed
           /\ \A k \in DOMAIN cfg.transforms :
                cfg.transforms[k].evidence
                    = LoopTransformEvidence(cfg.transforms[k].first, cfg.transforms[k].last)
=============================================================================

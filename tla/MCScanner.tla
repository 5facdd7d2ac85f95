----------------------------- MODULE MCScanner -----------------------------
(***************************************************************************)
(* Two functions with any of ten bodies and a library function with any of *)
(* three, four call graphs, and three contents of a data section next to   *)
(* another, to code and to two sections that lie on each other.            *)
(***************************************************************************)
EXTENDS SemanticScanner

MCNames == <<"main.a", "main.b", "os.c">>
MCLibrary == {"os.c"}
NoLiterals == {}
NoTable == [callee \in {} |-> None]
MCTransform == [f \in {"hex"} |-> {"hex"}]
MCLoader == ("resolve" :> {"dynamic_import_resolution"}) @@ ("mmap" :> {"executable_memory_allocation"})
MCApiReturns == {"resolve"}
MCAllocReturns == {"mmap"}
MCMagicValues == (77 :> "MZ")
MCExec == {64}
MCAlloc == {48}

Mov(at, r, n)  == [at |-> at, op |-> "mov", reg |-> r, src |-> "imm", mem |-> None, imm |-> n, width |-> 0, to |-> None]
Load(at, r, n) == [at |-> at, op |-> "mov", reg |-> r, src |-> "mem", mem |-> "global", imm |-> n, width |-> 0, to |-> None]
Lea(at, n)     == [at |-> at, op |-> "lea", reg |-> "RSI", src |-> "mem", mem |-> "global", imm |-> n, width |-> 0, to |-> None]
Movs(at, w)    == [at |-> at, op |-> "movs", reg |-> None, src |-> None, mem |-> None, imm |-> 0, width |-> w, to |-> None]
Xor(at)        == [at |-> at, op |-> "xor", reg |-> None, src |-> None, mem |-> "byte", imm |-> 0, width |-> 0, to |-> None]
Jump(at, n)    == [at |-> at, op |-> "jmp", reg |-> None, src |-> "imm", mem |-> None, imm |-> n, width |-> 0, to |-> None]
Call(at, f, n) == [at |-> at, op |-> "call", reg |-> None, src |-> "imm", mem |-> None, imm |-> n, width |-> 0, to |-> f]
CallR(at, r)   == [at |-> at, op |-> "call", reg |-> None, src |-> r, mem |-> None, imm |-> 0, width |-> 0, to |-> None]
CallM(at, m)   == [at |-> at, op |-> "call", reg |-> None, src |-> "mem", mem |-> m, imm |-> 0, width |-> 0, to |-> None]

Copy(at, from, n, w) == <<Lea(at, from), Mov(at+1, "RCX", n), Movs(at+2, w)>>
Loop(at) == <<Xor(at), Xor(at+1), Xor(at+2), Jump(at+3, at)>>

\* The bodies of a function that starts at an address.
Bodies(at) ==
    {<<>>,
     Loop(at),
     Loop(at) \o <<Load(at+4, "RAX", 101)>>,
     Loop(at) \o Copy(at+4, 104, 2, 4),
     Copy(at, 101, 4, 1) \o Copy(at+3, 104, 2, 1),
     Copy(at, 101, 8, 1) \o <<Lea(at+3, 103), Mov(at+4, "RCX", 4), Movs(at+5, 1)>>,
     Copy(at, 107, 2, 8) \o <<Load(at+3, "RCX", 109), Movs(at+4, 8)>>,
     <<Mov(at, "RDX", 77), Load(at+1, "RBX", 105), Call(at+2, "resolve", 200), CallR(at+3, "RAX"), CallM(at+4, "stack")>>,
     <<Mov(at, "RDX", 64), Mov(at+1, "RBX", 48), CallR(at+2, "RBX"), Jump(at+3, 13), Call(at+4, "mmap", 201)>>,
     <<Load(at, "RAX", 109), CallR(at+1, "RAX"), CallM(at+2, "global"), CallR(at+3, "RDI"), Jump(at+4, 33)>>}

Graphs ==
    LET c(f) == [to |-> f]
    IN  {[order |-> <<"main.a", "main.b", "os.c">>, calls |-> g] :
            g \in {("main.a" :> x) @@ ("main.b" :> y) @@ ("os.c" :> z) :
                      x \in {<<c("main.b"), c("os.c")>>, <<c("resolve"), c("mmap")>>},
                      y \in {<<c("os.c"), c("main.a")>>, <<c("hex")>>},
                      z \in {<<c("main.b")>>}}}

Contents ==
    {<<"zero", "zero", "zero", "zero", "zero", "zero", "zero", "zero", "zero", "zero">>,
     <<"noise", "zero", "PE", "ELF", "zero", "zero", "zero", "zero", "MZ", "zero">>,
     <<"noise", "zero", "zero", "zero", "noise", "PK", "noise", "ELF", "zlib", "zero">>}

\* The two sections of names are not loaded: numbers like 2, 4 and 8 seem to refer to the first.
MCPrograms ==
    {[graph |-> g, missing |-> m,
      sections |-> <<[header |-> 3, lo |-> 100, hi |-> 110, excluded |-> FALSE, cells |-> content],
                     [header |-> 2, lo |-> 110, hi |-> 113, excluded |-> FALSE, cells |-> <<"MZ", "zero", "noise">>],
                     [header |-> 5, lo |-> 0, hi |-> 3, excluded |-> FALSE, cells |-> <<"zero", "zero", "MZ">>],
                     [header |-> 4, lo |-> 0, hi |-> 5, excluded |-> FALSE,
                      cells |-> <<"noise", "zero", "zero", "zero", "noise">>],
                     [header |-> 1, lo |-> 10, hi |-> 41, excluded |-> TRUE, cells |-> [i \in 1..31 |-> "MZ"]]>>,
      ranges |-> [user |-> <<[name |-> "main.a", lo |-> 10, hi |-> 20, helper |-> None],
                             [name |-> "main.b", lo |-> 20, hi |-> 30, helper |-> None]>>,
                  std  |-> <<[name |-> "os.c", lo |-> 30, hi |-> 40, helper |-> "go_runtime_duff_helper"]>>],
      code |-> ("main.a" :> a) @@ ("main.b" :> b) @@ ("os.c" :> c)] :
        g \in Graphs, m \in {{}, {"os.c"}}, content \in Contents,
        a \in Bodies(10), b \in Bodies(20), c \in {<<>>, Loop(30), Loop(30) \o Copy(34, 106, 8, 1)}}
============================================================================

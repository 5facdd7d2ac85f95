----------------------------- MODULE MCPipeline -----------------------------
(***************************************************************************)
(* Programs of four functions: main.main passes literals to main.dec, or   *)
(* starts it, and calls main.use; main.dec decodes; main.use consumes; and *)
(* a library function that was compiled in, whose name is that of an API.  *)
(* A function is a list of items, each a call with the instructions before *)
(* it; the call graph and the code are made of the same items.  A call is  *)
(* hidden if it is a go statement or one of the runtime's own.             *)
(***************************************************************************)
EXTENDS PipelineProperties

Lib == "golang.org/x/sys/windows.LoadDLL"
MCNames == <<Lib, "main.dec", "main.main", "main.use">>
MCLibrary == {Lib}
MCUrls == {"u1", "u2"}
MCPaths == {"p1"}
MCFragments == {"f1"}
MCDomains == {"n1"}
MCCommands == {"c1", "c2"}
MCFileNames == {"c1", "d1"}
MCDllNames == {"d1"}
NoLiterals == {}
MCFields == {"k1"}
MCPlain == MCUrls \cup MCPaths \cup MCFragments \cup MCDomains \cup MCCommands \cup MCFileNames
MCB64 == ("b1" :> "u1") @@ ("b2" :> "x1") @@ ("b3" :> "b1") @@ ("b4" :> "c1") @@ ("b5" :> "n1")
         @@ ("b6" :> "f1") @@ ("b7" :> "c2")
MCHex == ("x1" :> "p1") @@ ("x2" :> "u2")
MCLongBase64 == {"b1", "b2", "b3", "b5", "b6", "b7", "x1"}
MCLongHex == {"x1"}
MCStrong == MCUrls \cup MCPaths \cup MCCommands
MCInflated == ("z1" :> "exe") @@ ("z2" :> "b1")
MCExecutables == {"exe"}
MCContentTypes == {"t1"}
MCBodies == {"j1"}
MCWords == ("s1" :> <<"w1", "w2">>)
MCLibraries == {"d1"}
MCProcedures == {"q1"}
MCBodyBuilders == {"strings.NewReader"}
MCApiShapes ==
    ("net/http.Get" :> "http_get") @@ ("net/http.Post" :> "http_post") @@ ("os/exec.Command" :> "exec_command")
    @@ ("os.WriteFile" :> "write_file") @@ ("syscall.GetProcAddress" :> "resolve_procedure")
    @@ ("syscall.Syscall" :> "raw_syscall") @@ ("syscall.Mmap" :> "raw_syscall") @@ (Lib :> "load_library")
MCApiHints ==
    ("net/http.Get" :> "http_network") @@ ("net/http.Post" :> "http_network")
    @@ ("os/exec.Command" :> "process_launch") @@ ("os.WriteFile" :> "file_write")
    @@ ("os.Remove" :> "file_delete") @@ ("os.Getenv" :> "environment_read")
    @@ ("net.Listen" :> "network_listen") @@ ("path/filepath.Walk" :> "recursive_filesystem_walk")
    @@ ("syscall.GetProcAddress" :> "dynamic_import_resolution")
    @@ ("syscall.Mmap" :> "executable_memory_allocation") @@ ("syscall.Syscall" :> "raw_syscall")
    @@ (Lib :> "dynamic_library_load") @@ ("crypto/aes.New" :> "aes_crypto")
    @@ ("crypto/rand.Read" :> "crypto_random") @@ ("encoding/base64.Decode" :> "base64_decode_or_encode")
    @@ ("encoding/hex.Encode" :> "hex_decode_or_encode") @@ ("encoding/hex.Decode" :> "hex_decode_or_encode")
MCRuntimeCalls ==
    ("runtime.newproc" :> "start_goroutine") @@ ("runtime.slicebytetostring" :> "bytes_to_string")
    @@ ("runtime.mapassign" :> "map_write")
MCTargetHints ==
    [f \in {"net/http.Get", "net/http.Post", "os/exec.Command", "os.WriteFile", "os.Remove", "net.Listen",
            "path/filepath.Walk", "syscall.GetProcAddress", "syscall.Mmap", "syscall.Syscall", Lib} |->
        MCApiHints[f]]
MCNoise == {"runtime.morestack"}
MCMarkers ==
    [f \in {"syscall.GetProcAddress", "syscall.Mmap", "syscall.Syscall"} |-> <<"calls">>]
    @@ [f \in {"crypto/aes.New", "crypto/rand.Read"} |-> <<"calls_crypto">>]
    @@ [f \in {"os.WriteFile", "os/exec.Command", "path/filepath.Walk"} |-> <<"calls_behavioral_api">>]
MCTransform ==
    ("encoding/base64.Decode" :> {"base64"}) @@ ("encoding/hex.Decode" :> {"hex"})
    @@ ("encoding/hex.Encode" :> {"hex"}) @@ ("crypto/aes.New" :> {"aes"})
    @@ ("runtime.slicebytetostring" :> {"bytes_to_string"})
MCLoader ==
    ("syscall.GetProcAddress" :> {"dynamic_import_resolution"})
    @@ ("syscall.Mmap" :> {"executable_memory_allocation"}) @@ ("syscall.Syscall" :> {"raw_syscall"})
    @@ ("os/exec.Command" :> {"process_execution"}) @@ (Lib :> {"dynamic_library_load"})
MCApiReturns == {"syscall.GetProcAddress", "syscall.Syscall"}
MCAllocReturns == {"VirtualAlloc"}
MCMagicValues == (77 :> "MZ")
MCExec == {64}
MCAlloc == {48}

Ins(op, reg, src, mem, imm, width, to) ==
    [op |-> op, reg |-> reg, src |-> src, mem |-> mem, base |-> None, imm |-> imm,
     width |-> width, to |-> to]
Mov(r, n)    == Ins("mov", r, "imm", None, n, 0, None)
Lea(r, n)    == Ins("lea", r, "mem", "global", n, 0, None)
Field(r, n)  == [Ins("mov", r, "mem", "based", n, 0, None) EXCEPT !.base = "RDX"]
Xor          == Ins("xor", None, None, "byte", 0, 0, None)
Back(n)      == Ins("jmp", None, "imm", None, n, 0, None)
Movs(w)      == Ins("movs", None, None, None, 0, w, None)
CallTo(f)    == Ins("call", None, "imm", None, 200, 0, f)

\* Code without a call; a call of an API or of a function of the program.
Code_(ins) == [ins |-> ins, call |-> <<>>]
Call_(to, user, strs, side, before) ==
    [ins |-> Append(before, CallTo(to)),
     call |-> <<[to |-> to, user |-> user, via |-> None, visible |-> TRUE, strs |-> strs, side |-> side]>>]
Api(to, side, strs)  == Call_(to, FALSE, strs, side, <<>>)
Fun(f, strs, before) == Call_(f, TRUE, strs, "any", before)
Hidden(item)         == [item EXCEPT !.call[1].visible = FALSE]

\* A function whose address is passed to another that will call it.
Passed(f, start, to, via) ==
    [ins  |-> <<Lea("RAX", start), CallTo(to)>>,
     call |-> <<[to |-> f, user |-> TRUE, via |-> via, visible |-> TRUE, strs |-> <<>>, side |-> "any"]>>]
Go(f, start) == Hidden(Passed(f, start, "runtime.newproc", "newproc"))
Walk(f, start) == Passed(f, start, "path/filepath.Walk", "path/filepath.Walk")

\* The code and the calls of a function whose first instruction is at an address.
Assembled(lo, items) ==
    FoldLeft(LAMBDA s, it :
        LET at == lo + Len(s.code)
        IN  [code  |-> s.code \o [i \in 1..Len(it.ins) |-> it.ins[i] @@ [at |-> at + i - 1]],
             calls |-> s.calls \o [i \in 1..Len(it.call) |->
                                      it.call[i] @@ [at |-> at + Len(it.ins) - 1]]],
        [code |-> <<>>, calls |-> <<>>], items)

Materialize == Api("runtime.slicebytetostring", "any", <<>>)
Loop(lo) == Code_(<<Xor, Xor, Xor, Back(lo)>>)

\* What main.dec may be.
Decoders ==
    {<<Api("encoding/base64.Decode", "decode", <<>>), Materialize>>,
     <<Api("crypto/aes.New", "any", <<>>), Code_(<<Lea("RAX", 107)>>), Materialize>>,
     <<Loop(40), Code_(<<Lea("RSI", 100), Mov("RCX", 4), Movs(1)>>), Materialize>>,
     <<Loop(40), Materialize, Api("crypto/rand.Read", "any", <<>>), Api("net/http.Get", "out", <<"u1">>)>>,
     <<Api("encoding/hex.Encode", "encode", <<>>)>>}

\* What main.use may do.
Uses ==
    {<<Call_("net/http.Get", FALSE, <<"u2">>, "out", <<Lea("RAX", 108), Mov("RBX", 2)>>),
       Api("net/http.Get", "out", <<"u1">>),
       Call_("strings.NewReader", FALSE, <<>>, "any", <<Lea("RAX", 109), Mov("RBX", 2)>>),
       Call_("net/http.Post", FALSE, <<"u1", "t1">>, "out", <<Lea("RAX", 111), Mov("RBX", 2)>>)>>,
     <<Api("os.WriteFile", "any", <<"p1", "s1">>), Fun("main.dec", <<>>, <<>>),
       Api("os.Remove", "any", <<"f1">>), Api("os.Getenv", "any", <<"k1">>)>>,
     <<Code_(<<Mov("RDX", 77), Lea("RSI", 104), Mov("RCX", 3), Movs(1)>>),
       Api("syscall.GetProcAddress", "any", <<"d1", "q1">>), Api("syscall.Mmap", "any", <<>>)>>,
     <<Api("syscall.Syscall", "any", <<>>), Code_(<<Field("RAX", 0), Field("RBX", 8), Field("RAX", 0)>>),
       Hidden(Api("runtime.morestack", "any", <<>>)),
       Api("os/exec.Command", "any", <<"c1", "w1">>), Api("os/exec.Command", "any", <<"p1", "w2">>)>>,
     <<Api("runtime.mapassign", "any", <<"k1">>), Api("net.Listen", "in", <<"n1">>), Walk(Lib, 80),
       Fun(Lib, <<"x2">>, <<>>)>>}

\* What main.main may pass to main.dec, and how it calls main.use.
Mains ==
    {<<Fun("main.dec", l, <<>>), u>> :
        l \in {<<"b1", "b4">>, <<"b2", "x1", "b6">>, <<"b3", "b7", "b5", "z1">>},
        u \in {Fun("main.use", <<>>, <<>>), Go("main.use", 60)}}
    \cup {<<Fun("main.use", <<>>, <<Lea("RAX", 101), Mov("RBX", 2)>>), Fun("main.dec", <<"b1">>, <<>>)>>,
          <<Fun(Lib, <<"x1">>, <<>>), Fun("main.use", <<>>, <<>>), Go("main.dec", 40), Go(Lib, 80),
            Fun("main.use", <<"u1">>, <<>>)>>}

LibBody == <<Api("encoding/hex.Decode", "decode", <<>>), Materialize>>

Contents ==
    {<<"b1", "u1", "zero", "zero", "MZ", "noise", "b3", "zero", "u2", "zero", "u2", "zero">>,
     <<"z1", "zero", "zero", "zero", "x1", "gotable", "p1", "zero", "c1", "j1", "u2", "zero">>}

MCPrograms ==
    {LET m == Assembled(10, main)  d == Assembled(40, dec)  u == Assembled(60, use)  l == Assembled(80, LibBody)
     IN  [graph |-> [order |-> <<"main.main", "main.use", "main.dec", Lib>>,
                     calls |-> ("main.main" :> m.calls) @@ ("main.use" :> u.calls)
                               @@ ("main.dec" :> d.calls) @@ (Lib :> l.calls)],
          sections |-> <<[header |-> 2, lo |-> 100, hi |-> 112, excluded |-> FALSE, cells |-> content],
                         [header |-> 1, lo |-> 10, hi |-> 90, excluded |-> TRUE,
                          cells |-> [i \in 1..80 |-> "noise"]]>>,
          ranges |-> [user |-> <<[name |-> "main.main", lo |-> 10, hi |-> 40, helper |-> None],
                                 [name |-> "main.dec", lo |-> 40, hi |-> 60, helper |-> None],
                                 [name |-> "main.use", lo |-> 60, hi |-> 80, helper |-> None],
                                 [name |-> Lib, lo |-> 80, hi |-> 90, helper |-> None]>>,
                      std |-> <<>>],
          code |-> ("main.main" :> m.code) @@ ("main.use" :> u.code)
                   @@ ("main.dec" :> d.code) @@ (Lib :> l.code),
          missing |-> {},
          string_data |-> (110 :> "u2"),
          string_headers |-> (111 :> "u2"),
          loops |-> IF \E i \in 1..Len(d.code) : d.code[i].op = "xor"
                    THEN ("main.dec" :> <<[start |-> 40, end |-> 43]>>) ELSE <<>>,
          types |-> "types"] :
        main \in Mains, dec \in Decoders, use \in Uses, content \in Contents}
=============================================================================

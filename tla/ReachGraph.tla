----------------------------- MODULE ReachGraph -----------------------------
(***************************************************************************)
(* gobbler/analyzer.py: the reachable call graph.                          *)
(*                                                                         *)
(* build_reachable_graph explores the program depth first from an entry    *)
(* function.  `visited`, the graph and the cache of decoded calls are all  *)
(* keyed by FullName, while calls lead to functions by address: two        *)
(* functions may have one name (instantiations of one generic are all      *)
(* called F[...]).  The cache outlives the build.  If the graph of the     *)
(* entry shows no visible call, add_fallback_entry_graphs builds the       *)
(* graph of some other roots and merges those whose build does not raise.  *)
(***************************************************************************)
EXTENDS Sequences, Naturals

CONSTANTS
    Functions,      \* functions by start address, synthetic ones included
    UserOrder,      \* UserFunctions in GoReSym's order, a sequence
    Names,          \* full names
    NameOf,         \* FullName of every function
    ShortOf,        \* FullName without its directory part
    Elsewhere,      \* target of a call that leads to no function to visit
    Programs,       \* the programs considered: [calls, unreadable, visible]
    EntryName,      \* --entry
    Candidates,     \* fallback_entry_functions before the cut, a sequence
    MaxFallbacks,   \* the cut, 12 in the code
    MaxDepth        \* Python's recursion limit, in visits

UserFunctions == {UserOrder[i] : i \in DOMAIN UserOrder}
Callees == Functions \cup {Elsewhere}

ASSUME GraphAssumption ==
    /\ UserOrder \in Seq(Functions)
    /\ NameOf \in [Functions -> Names]
    /\ ShortOf \in [Functions -> Names]
    /\ Elsewhere \notin Functions
    /\ Programs \subseteq [calls : [Functions -> Seq(Callees)],
                           unreadable : SUBSET Functions,
                           visible : SUBSET Functions]
    /\ Candidates \in Seq(UserFunctions)
    /\ MaxFallbacks \in Nat
    /\ MaxDepth \in Nat \ {0}

VARIABLES
    program,    \* the binary: calls of each function, which cannot be read,
                \* which make a call the graph shows
    phase,      \* what the analysis is doing
    stack,      \* the recursion of visit: functions and next call to follow
    visited,    \* names seen by the build under way
    cur,        \* the graph of the build under way: name -> function
    cache,      \* calls_by_function: name -> function whose calls it holds
    graph,      \* the graph returned so far
    tried,      \* fallback candidates tried
    kept        \* those of them whose graph was merged (history)

vars == <<program, phase, stack, visited, cur, cache, graph, tried, kept>>

Phases == {"start", "main", "pick", "fallback", "done", "failed"}
Building == phase \in {"main", "fallback"}
Frame == [fn : Functions, next : Nat \ {0}]
Empty == [n \in {} |-> Elsewhere]
CallsOf(f) == program.calls[f]
IsGraph(g) == DOMAIN g \subseteq Names /\ g \in [DOMAIN g -> Functions]

\* dict[n] = f, and the setdefault of every item of a second dict.
Set(g, n, f) == [m \in DOMAIN g \cup {n} |-> IF m = n THEN f ELSE g[m]]
SetDefaults(g, h) == [m \in DOMAIN g \cup DOMAIN h |-> IF m \in DOMAIN g THEN g[m] ELSE h[m]]

\* user_by_name and user_by_short_name: the last function of a name wins.
Last(key, n) ==
    LET hits == {i \in DOMAIN UserOrder : key[UserOrder[i]] = n}
    IN  UserOrder[CHOOSE i \in hits : \A j \in hits : j <= i]
Known(key, n) == \E f \in UserFunctions : key[f] = n

\* function_by_entry_name, where it does not raise KeyError.
FunctionByEntryName(n) == IF Known(NameOf, n) THEN Last(NameOf, n) ELSE Last(ShortOf, n)

Top == stack[Len(stack)]
Below == SubSeq(stack, 1, Len(stack) - 1)
Advanced == Append(Below, [fn |-> Top.fn, next |-> Top.next + 1])
-----------------------------------------------------------------------------
Init ==
    /\ program \in Programs
    /\ phase = "start"
    /\ stack = <<>>
    /\ visited = {}
    /\ cur = Empty
    /\ cache = Empty
    /\ graph = Empty
    /\ tried = 0
    /\ kept = {}

\* Mutant: no cache, every visit decodes its own function.
SourceUncached(f) == f

\* analyze_function answers from the cache by name; otherwise it decodes f.
Source(f) == IF NameOf[f] \in DOMAIN cache THEN cache[NameOf[f]] ELSE f
Raises(f) == f \in program.unreadable /\ NameOf[f] \notin DOMAIN cache

\* visit(f) of a name not seen before, called with `frames` on the stack.
Visit(f, seen, built, frames) ==
    /\ visited' = seen \cup {NameOf[f]}
    /\ cache' = Set(cache, NameOf[f], Source(f))
    /\ cur' = Set(built, NameOf[f], Source(f))
    /\ stack' = Append(frames, [fn |-> Source(f), next |-> 1])

\* build_reachable_graph starts: fresh `visited` and graph, then visit(entry).
StartBuild(f, to) ==
    /\ ~Raises(f)
    /\ phase' = to
    /\ Visit(f, {}, Empty, <<>>)

StartMain ==
    /\ phase = "start"
    /\ Known(NameOf, EntryName) \/ Known(ShortOf, EntryName)
    /\ StartBuild(FunctionByEntryName(EntryName), "main")
    /\ UNCHANGED <<program, kept, graph, tried>>

\* The entry is not found (KeyError) or cannot be read.
StartFails ==
    /\ phase = "start"
    /\ Known(NameOf, EntryName) \/ Known(ShortOf, EntryName) =>
          Raises(FunctionByEntryName(EntryName))
    /\ phase' = "failed"
    /\ UNCHANGED <<program, kept, stack, visited, cur, cache, graph, tried>>

\* The loop over the calls of the innermost visit stands at a call.
AtCall(c) ==
    /\ Building
    /\ stack # <<>>
    /\ Top.next <= Len(CallsOf(Top.fn))
    /\ c = CallsOf(Top.fn)[Top.next]

New(c) == c \in Functions /\ NameOf[c] \notin visited
TooDeep == Len(stack) >= MaxDepth

\* A call that leads nowhere, or to a name already visited.
SkipCall(c) ==
    /\ AtCall(c)
    /\ ~New(c)
    /\ stack' = Advanced
    /\ UNCHANGED <<program, kept, phase, visited, cur, cache, graph, tried>>

\* A call of a new user function, or of a synthetic one.
FollowCall(c) ==
    /\ AtCall(c)
    /\ New(c)
    /\ ~TooDeep /\ ~Raises(c)
    /\ Visit(c, visited, cur, Advanced)
    /\ UNCHANGED <<program, kept, phase, graph, tried>>

\* Mutant: the raising fallback build keeps what it had found so far.
RaiseKeepingPart(c) ==
    /\ AtCall(c)
    /\ New(c)
    /\ TooDeep \/ Raises(c)
    /\ stack' = <<>>
    /\ phase' = IF phase = "main" THEN "failed" ELSE "fallback"
    /\ UNCHANGED <<program, kept, visited, cur, cache, graph, tried>>

\* The visit raises (RecursionError, unreadable bytes): the whole build is lost.
\* The main build takes the analysis with it, a fallback build is passed over.
Raise(c) ==
    /\ AtCall(c)
    /\ New(c)
    /\ TooDeep \/ Raises(c)
    /\ stack' = <<>>
    /\ phase' = IF phase = "main" THEN "failed" ELSE "pick"
    /\ UNCHANGED <<program, kept, visited, cur, cache, graph, tried>>

\* Mutant: the loop ends one call early.
ReturnEarly ==
    /\ Building
    /\ stack # <<>>
    /\ Top.next >= Len(CallsOf(Top.fn))
    /\ stack' = Below
    /\ UNCHANGED <<program, kept, phase, visited, cur, cache, graph, tried>>

\* All calls of the innermost visit are done.
Return ==
    /\ Building
    /\ stack # <<>>
    /\ Top.next > Len(CallsOf(Top.fn))
    /\ stack' = Below
    /\ UNCHANGED <<program, kept, phase, visited, cur, cache, graph, tried>>

ShowsCall(g) == \E n \in DOMAIN g : g[n] \in program.visible

\* The graph of the entry is complete; fallbacks are tried if it shows nothing.
MainDone ==
    /\ phase = "main"
    /\ stack = <<>>
    /\ graph' = cur
    /\ phase' = IF ShowsCall(cur) THEN "done" ELSE "pick"
    /\ UNCHANGED <<program, kept, stack, visited, cur, cache, tried>>

More == tried < Len(Candidates) /\ tried < MaxFallbacks
\* Mutant: the candidates are taken from the end of the sorted list.
CandidateFromEnd == FunctionByEntryName(NameOf[Candidates[Len(Candidates) - tried]])
Candidate == FunctionByEntryName(NameOf[Candidates[tried + 1]])

StartFallback ==
    /\ phase = "pick"
    /\ More
    /\ StartBuild(Candidate, "fallback")
    /\ tried' = tried + 1
    /\ UNCHANGED <<program, kept, graph>>

\* Mutant: a root whose build raises at once is tried again.
FallbackRetries ==
    /\ phase = "pick"
    /\ More
    /\ Raises(Candidate)
    /\ UNCHANGED <<program, kept, phase, stack, visited, cur, cache, graph, tried>>

FallbackRaises ==
    /\ phase = "pick"
    /\ More
    /\ Raises(Candidate)
    /\ tried' = tried + 1
    /\ UNCHANGED <<program, kept, phase, stack, visited, cur, cache, graph>>

\* A completed fallback graph is merged; names already there are kept.
MergeFallback ==
    /\ phase = "fallback"
    /\ stack = <<>>
    /\ graph' = SetDefaults(graph, cur)
    /\ kept' = kept \cup {tried}
    /\ phase' = "pick"
    /\ UNCHANGED <<program, stack, visited, cur, cache, tried>>

FallbacksDone ==
    /\ phase = "pick"
    /\ ~More
    /\ phase' = "done"
    /\ UNCHANGED <<program, kept, stack, visited, cur, cache, graph, tried>>

Next ==
    \/ StartMain
    \/ StartFails
    \/ \E c \in Callees : SkipCall(c) \/ FollowCall(c) \/ Raise(c)
    \/ Return
    \/ MainDone
    \/ StartFallback
    \/ FallbackRaises
    \/ MergeFallback
    \/ FallbacksDone

Spec == Init /\ [][Next]_vars

\* Sequential code: it goes on until it has returned or raised.
FairSpec == Spec /\ WF_vars(Next)
-----------------------------------------------------------------------------
\* The state of the search stays within what analyzer.py can build.
TypeOK ==
    /\ program.calls \in [Functions -> Seq(Callees)]
    /\ program.unreadable \subseteq Functions /\ program.visible \subseteq Functions
    /\ phase \in Phases
    /\ stack \in Seq(Frame)
    /\ visited \in SUBSET Names
    /\ IsGraph(cur)
    /\ IsGraph(cache)
    /\ IsGraph(graph)
    /\ tried \in Nat
    /\ kept \subseteq DOMAIN Candidates

\* The functions the calls of f lead to.
Follows(f) == {c \in Functions : \E i \in DOMAIN CallsOf(f) : CallsOf(f)[i] = c}

\* A set of names that holds the names called by its members.
ClosedIn(g, S) == \A n \in DOMAIN g \cap S : \A c \in Follows(g[n]) : NameOf[c] \in S

\* The graph handed to the semantic passes is closed: whatever its functions
\* call and can be visited is in it, even after fallback builds that raised
\* half way, because a partial graph is never merged.
GraphClosed == ClosedIn(graph, DOMAIN graph)

Roots == {NameOf[FunctionByEntryName(EntryName)]} \cup {NameOf[Candidates[i]] : i \in kept}

\* The graph holds nothing that is not reached: it is contained in every closed
\* set of names that holds the entry and the fallbacks whose graph was merged.
\* A build that raised leaves its functions in the cache and none in the graph.
GraphReached ==
    \A S \in SUBSET Names :
        Roots \subseteq S /\ ClosedIn(graph, S) => DOMAIN graph \subseteq S

\* The calls under a name are those of one function of that name, the same in
\* the graph and in every later build: the cache never changes its mind.
OneFunctionPerName ==
    /\ \A n \in DOMAIN graph : n \in DOMAIN cache /\ graph[n] = cache[n] /\ NameOf[graph[n]] = n
    /\ \A n \in DOMAIN cur : cur[n] = cache[n]

\* The analysis ends: recursion in the program does not make visit run forever.
Terminates == <>(phase \in {"done", "failed"})

\* The functions reached from f by address, the reference for what a reachable
\* function is: the members of every closed set of functions that holds f.
ReachedFrom(f) ==
    {g \in Functions : \A S \in SUBSET Functions :
        f \in S /\ (\A h \in S : Follows(h) \subseteq S) => g \in S}

InGraph == {graph[n] : n \in DOMAIN graph}
UniqueNames == \A f, g \in Functions : NameOf[f] = NameOf[g] => f = g

Entries == {FunctionByEntryName(EntryName)} \cup {Candidates[i] : i \in kept}

\* Where names are unique, the graph holds exactly the functions reachable, by
\* address, from the entry and from the fallbacks whose graph was merged.
ExactForUniqueNames ==
    phase = "done" /\ UniqueNames => InGraph = UNION {ReachedFrom(f) : f \in Entries}

\* What is decoded: by a visit, or by a pass, which asks user_by_name for the
\* function of each name of the graph and so gets the last one of the name.
Disassembled ==
    {cache[n] : n \in DOMAIN cache}
        \cup {Last(NameOf, n) : n \in {m \in DOMAIN graph : Known(NameOf, m)}}

\* docs/README.md:19: "It disassembles reachable user functions with Capstone".
ReachableUserFunctionsDisassembled ==
    phase = "done" =>
        ReachedFrom(FunctionByEntryName(EntryName)) \cap UserFunctions \subseteq Disassembled
=============================================================================

-------------------------------- MODULE Ops --------------------------------
(***************************************************************************)
(* What the views of a report share: what the name of a callee says, who   *)
(* owns a function, what a literal looks like, and the list idioms of the  *)
(* passes (a prefix, a list without repeats).                              *)
(*                                                                         *)
(* A call is a record                                                      *)
(*   [at, to, user, via, visible, strs, side]                              *)
(* its address, its target, whether the target is a function of the        *)
(* program, the consumer it was passed to ("none", "newproc" or another),  *)
(* whether the call is shown, its string arguments, and whether the        *)
(* target's name reads as a server's, a client's or neither ("in", "out",  *)
(* "any").  The tables that look for needles in a name are functions of    *)
(* the names; that of a user's function may hold a needle too.             *)
(***************************************************************************)
EXTENDS Naturals, Sequences, FiniteSets, SequencesExt, Functions

CONSTANTS
    Names,                              \* the names of functions, in the order of strings
    Library,                            \* the functions is_library_function recognises
    Urls, Commands, Paths,              \* literals by what is in them: windows paths, other paths,
    Fragments, FileNames, Domains,      \* file names and domains; cmd.exe is two of these
    DllNames,                           \* the FileNames that end in .dll
    Tools,                              \* the Commands that run a developer tool
    Fields,                             \* literals fit to name a map field
    IMPORTANT_RUNTIME_CALLS,            \* callee -> the kind of a runtime function
    API_BEHAVIOR_HINTS,                 \* callee -> the kind of the first needle in its name
    Noise                               \* the callees is_runtime_noise_call knows

None == "none"
COMPONENT == "<reachable_component>"    \* stands for all the loaders together

Take(s, n) == SubSeq(s, 1, IF n < Len(s) THEN n ELSE Len(s))
Each(s, F(_)) == [i \in 1..Len(s) |-> F(s[i])] \o <<>>       \* a tuple, that TLC works out once
Concat(s, F(_)) == FlattenSeq(Each(s, F))
Kept(s, N) ==                                           \* the members at the places in N
    LET kept[n \in 0..Len(s)] ==
            IF n = 0 THEN <<>> ELSE IF n \in N THEN Append(kept[n-1], s[n]) ELSE kept[n-1]
    IN  kept[Len(s)]
Where(s, P(_)) == Kept(s, {i \in DOMAIN s : P(s[i])})
Firsts(s, keys) == Kept(s, {i \in DOMAIN s : \A j \in 1..(i-1) : keys[j] # keys[i]})
First(s, Key(_)) == Firsts(s, Each(s, Key))
Distinct(s) == LET Same(x) == x IN First(s, Same)
Rank(s, x) == IF x \in ToSet(s) THEN CHOOSE i \in 1..Len(s) : s[i] = x ELSE Len(s) + 1
At(f, x) == IF x \in DOMAIN f THEN f[x] ELSE <<>>     \* f.get(x) or []
Guarded(cond, s) == IF cond THEN s ELSE <<>>
InOrder(S, Lt(_, _)) ==                                 \* a set that Lt orders, as a list
    [k \in 1..Cardinality(S) |-> CHOOSE x \in S : Cardinality({y \in S : Lt(y, x)}) = k - 1] \o <<>>
SortBy(s, Lt(_, _)) ==                                  \* Python's sort: stable
    LET before(i, j) == Lt(s[i], s[j]) \/ (~Lt(s[j], s[i]) /\ i < j)
    IN  Each(InOrder(DOMAIN s, before), LAMBDA i : s[i])
Whole(f) == CHOOSE g \in {f} : g = f                     \* f, that TLC works out once
Over(f, g) ==                                           \* {**g, **f}
    Whole([x \in DOMAIN g \cup DOMAIN f |-> IF x \in DOMAIN f THEN f[x] ELSE g[x]])

-----------------------------------------------------------------------------

kind_in(table, callee) == IF callee \in DOMAIN table THEN table[callee] ELSE None
classify_runtime_call(callee)  == kind_in(IMPORTANT_RUNTIME_CALLS, callee)
classify_call_behavior(callee) == kind_in(API_BEHAVIOR_HINTS, callee)

is_app_function(f) == f # None /\ f \notin Library

\* The first that fits counts.
ARTIFACT_TYPES ==
    [v \in Urls |-> "url"] @@ [v \in Commands |-> "command"] @@ [v \in Paths |-> "windows_path"]
    @@ [v \in Fragments |-> "path"] @@ [v \in FileNames |-> "file_name"]
    @@ [v \in Domains |-> "domain_or_file"]

classify_artifact(v) == kind_in(ARTIFACT_TYPES, v)
============================================================================

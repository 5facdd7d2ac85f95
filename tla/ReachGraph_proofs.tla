-------------------------- MODULE ReachGraph_proofs --------------------------
(***************************************************************************)
(* Proofs about ReachGraph, for any program, any naming of its functions,  *)
(* any recursion limit and any fallback roots.                             *)
(***************************************************************************)
EXTENDS ReachGraph, SequenceTheorems, WellFoundedInduction, TLAPS

-----------------------------------------------------------------------------
(* The dictionary of the last function of a name is well defined.           *)

\* A non-empty set of naturals has a least member.
LEMMA LeastExists ==
  ASSUME NEW T \in SUBSET Nat, T # {}
  PROVE  \E i \in T : \A j \in T : i <= j
<1> DEFINE R == OpToRel(<, Nat)
<1>1. IsWellFoundedOn(R, Nat)
  BY NatLessThanWellFounded
<1>2. \A x, y \in Nat : <<y, x>> \in R <=> y < x
  BY DEF OpToRel
<1> HIDE DEF R
<1>3. PICK x \in T : \A y \in T : ~ (<<y, x>> \in R)
  BY <1>1, WFMin
<1>4. \A y \in T : x \in Nat /\ y \in Nat /\ ~ (y < x)
  BY <1>2, <1>3
<1>5. \A y \in T : x <= y
  BY <1>4
<1>6. QED
  BY <1>5

\* A non-empty set of indices of a finite sequence has a greatest member.
LEMMA GreatestExists ==
  ASSUME NEW n \in Nat, NEW T \in SUBSET (1..n), T # {}
  PROVE  \E i \in T : \A j \in T : j <= i
<1> DEFINE M == {n - i : i \in T}
<1>1. \A i \in T : n - i \in Nat
  OBVIOUS
<1>2. M \in SUBSET Nat /\ M # {}
  BY <1>1
<1>3. PICK k \in M : \A l \in M : k <= l
  <2> HIDE DEF M
  <2> QED BY <1>2, LeastExists
<1>4. PICK i \in T : k = n - i
  BY <1>3
<1>5. \A j \in T : n - i <= n - j
  BY <1>3, <1>4
<1>6. QED
  BY <1>4, <1>5

\* user_by_name[n] is a user function called n.
LEMMA LastIsKnown ==
  ASSUME NEW key \in [Functions -> Names], NEW n, Known(key, n)
  PROVE  Last(key, n) \in UserFunctions /\ Last(key, n) \in Functions /\ key[Last(key, n)] = n
<1> DEFINE hits == {i \in DOMAIN UserOrder : key[UserOrder[i]] = n}
<1>1. UserOrder \in Seq(Functions)
  BY GraphAssumption
<1>2. Len(UserOrder) \in Nat /\ hits \in SUBSET (1..Len(UserOrder)) /\ hits # {}
  BY <1>1 DEF Known, UserFunctions
<1>3. \E i \in hits : \A j \in hits : j <= i
  <2> HIDE DEF hits
  <2> QED BY <1>2, GreatestExists
<1> DEFINE last == CHOOSE i \in hits : \A j \in hits : j <= i
<1>4. last \in hits
  BY <1>3
<1>5. Last(key, n) = UserOrder[last]
  BY DEF Last
<1>6. \A i \in hits : UserOrder[i] \in UserFunctions /\ UserOrder[i] \in Functions
                      /\ key[UserOrder[i]] = n
  BY <1>1 DEF UserFunctions
<1> HIDE DEF last, hits
<1>7. QED
  BY <1>4, <1>5, <1>6

\* A name of the fallback list is looked up to a function of that name.
LEMMA CandidateIsNamed ==
  ASSUME NEW i \in DOMAIN Candidates
  PROVE  /\ FunctionByEntryName(NameOf[Candidates[i]]) \in Functions
         /\ NameOf[FunctionByEntryName(NameOf[Candidates[i]])] = NameOf[Candidates[i]]
<1>1. Candidates[i] \in UserFunctions
  BY GraphAssumption
<1>2. Known(NameOf, NameOf[Candidates[i]])
  BY <1>1 DEF Known
<1>3. QED
  BY <1>2, LastIsKnown, GraphAssumption DEF FunctionByEntryName

\* So is the entry, by full or by short name, unless KeyError is raised.
LEMMA EntryIsFunction ==
  Known(NameOf, EntryName) \/ Known(ShortOf, EntryName)
    => FunctionByEntryName(EntryName) \in Functions
  BY LastIsKnown, GraphAssumption DEF FunctionByEntryName
-----------------------------------------------------------------------------
(* The stack of visits.                                                      *)

\* The frames under the innermost one.
LEMMA BelowFacts ==
  ASSUME stack \in Seq(Frame), stack # <<>>
  PROVE  /\ Below \in Seq(Frame)
         /\ Len(stack) \in Nat \ {0}
         /\ DOMAIN stack = 1..Len(stack)
         /\ DOMAIN Below = 1..(Len(stack) - 1)
         /\ Len(Below) = Len(stack) - 1
         /\ \A k \in 1..(Len(stack) - 1) : Below[k] = stack[k]
         /\ Top \in Frame
<1>1. Len(stack) \in Nat \ {0} /\ DOMAIN stack = 1..Len(stack)
  BY EmptySeq, LenProperties
<1>2. \A k \in 1..Len(stack) : stack[k] \in Frame
  BY ElementOfSeq
<1>3. /\ Below \in Seq(Frame)
      /\ Len(Below) = Len(stack) - 1
      /\ \A k \in 1..(Len(stack) - 1) : Below[k] = stack[k]
  BY <1>1, <1>2, SubSeqProperties DEF Below
<1>4. DOMAIN Below = 1..(Len(stack) - 1)
  BY <1>3, LenProperties
<1>5. Top \in Frame
  BY <1>1, <1>2 DEF Top
<1>6. QED
  BY <1>1, <1>3, <1>4, <1>5

\* Following or skipping a call moves the innermost frame to the next call.
LEMMA AdvancedFacts ==
  ASSUME stack \in Seq(Frame), stack # <<>>
  PROVE  /\ Advanced \in Seq(Frame)
         /\ Len(Advanced) = Len(stack)
         /\ DOMAIN Advanced = DOMAIN stack
         /\ \A k \in DOMAIN stack : Advanced[k].fn = stack[k].fn
         /\ \A k \in DOMAIN stack : k # Len(stack) => Advanced[k] = stack[k]
         /\ Advanced[Len(stack)].next = Top.next + 1
<1> DEFINE top == [fn |-> Top.fn, next |-> Top.next + 1]
<1>1. top \in Frame /\ top.fn = Top.fn /\ top.next = Top.next + 1
  BY BelowFacts DEF Frame
<1> HIDE DEF top
<1>2. Advanced = Append(Below, top)
  BY DEF Advanced, top
<1>3. /\ Advanced \in Seq(Frame)
      /\ Len(Advanced) = Len(stack)
      /\ Advanced[Len(stack)] = top
      /\ \A k \in 1..(Len(stack) - 1) : Advanced[k] = stack[k]
  <2>1. /\ Below \in Seq(Frame) /\ Len(Below) = Len(stack) - 1 /\ Len(stack) \in Nat \ {0}
        /\ \A k \in 1..(Len(stack) - 1) : Below[k] = stack[k]
    BY BelowFacts
  <2> HIDE DEF Below
  <2>2. /\ Append(Below, top) \in Seq(Frame)
        /\ Len(Append(Below, top)) = Len(Below) + 1
        /\ \A k \in 1..Len(Below) : Append(Below, top)[k] = Below[k]
        /\ Append(Below, top)[Len(Below) + 1] = top
    BY <1>1, <2>1, AppendProperties
  <2>3. Len(Below) + 1 = Len(stack)
    BY <2>1
  <2>4. QED
    BY <1>2, <2>1, <2>2, <2>3
<1>4. QED
  BY <1>1, <1>3, BelowFacts, LenProperties DEF Top
-----------------------------------------------------------------------------
(***************************************************************************)
(* The inductive invariant.  A closed graph at the end needs, during the   *)
(* search, that a call not followed yet is still ahead of some visit on    *)
(* the stack; a graph without strays needs that every closed set holding   *)
(* the root holds what was found; both need that graph, stack and cache    *)
(* mean the same function by a name.                                       *)
(***************************************************************************)

\* The cache holds a function under its own name.
CacheNamed == \A n \in DOMAIN cache : NameOf[cache[n]] = n

\* A graph gives its names the functions the cache gives them.
InCache(g) == \A n \in DOMAIN g : n \in DOMAIN cache /\ g[n] = cache[n]

\* The functions on the stack are in the graph, under their names.
FramesInGraph ==
    \A k \in DOMAIN stack :
        NameOf[stack[k].fn] \in DOMAIN cur /\ cur[NameOf[stack[k].fn]] = stack[k].fn

\* Every call found leads into the graph or is still to be followed.
NothingForgotten ==
    \A n \in DOMAIN cur : \A i \in DOMAIN CallsOf(cur[n]) :
        CallsOf(cur[n])[i] \in Functions =>
            \/ NameOf[CallsOf(cur[n])[i]] \in DOMAIN cur
            \/ \E k \in DOMAIN stack : stack[k].fn = cur[n] /\ stack[k].next <= i

\* Every closed set of names that holds r holds the whole graph.
OnlyReached(g, r) ==
    \A S \in SUBSET Names : r \in S /\ ClosedIn(g, S) => DOMAIN g \subseteq S

\* The name the build under way started from.
Root == IF phase = "main" THEN NameOf[FunctionByEntryName(EntryName)]
                          ELSE NameOf[Candidates[tried]]

SearchInv ==
    Building =>
        /\ visited = DOMAIN cur
        /\ phase = "fallback" => tried \in DOMAIN Candidates
        /\ phase = "main" => FunctionByEntryName(EntryName) \in Functions
        /\ Root \in DOMAIN cur
        /\ FramesInGraph
        /\ NothingForgotten
        /\ OnlyReached(cur, Root)

\* Once the main build has returned, its entry is in the graph, and so is that
\* of every build merged since.
EntryInGraph ==
    /\ phase \in {"start", "main"} => kept = {}
    /\ phase \in {"pick", "fallback", "done"} =>
        /\ FunctionByEntryName(EntryName) \in Functions
        /\ NameOf[FunctionByEntryName(EntryName)] \in DOMAIN graph
        /\ \A i \in kept : NameOf[Candidates[i]] \in DOMAIN graph

CacheInv == CacheNamed /\ InCache(cur) /\ InCache(graph)

Inv == TypeOK /\ CacheInv /\ SearchInv /\ GraphClosed /\ GraphReached /\ EntryInGraph
-----------------------------------------------------------------------------
(* What a visit does to graph, cache and stack.                              *)

\* The function whose calls a visit records has the name of the visited one.
LEMMA SourceIsNamed ==
  ASSUME TypeOK, CacheNamed, NEW f \in Functions
  PROVE  /\ Source(f) \in Functions
         /\ NameOf[Source(f)] = NameOf[f]
         /\ NameOf[f] \in Names
         /\ NameOf[f] \in DOMAIN cache => Source(f) = cache[NameOf[f]]
  BY GraphAssumption DEF TypeOK, CacheNamed, Source, IsGraph

\* dict[n] = f.
LEMMA SetFacts ==
  ASSUME NEW g, IsGraph(g), NEW n \in Names, NEW f \in Functions
  PROVE  /\ IsGraph(Set(g, n, f))
         /\ DOMAIN Set(g, n, f) = DOMAIN g \cup {n}
         /\ Set(g, n, f)[n] = f
         /\ \A m \in DOMAIN g : m # n => Set(g, n, f)[m] = g[m]
  BY DEF IsGraph, Set

\* What visit(f) establishes: graph and cache have one more name and have kept
\* every entry, and the new frame stands before its first call.
Visited(f, seen, built, frames) ==
    /\ visited' = seen \cup {NameOf[f]}
    /\ visited' \in SUBSET Names
    /\ IsGraph(cur') /\ IsGraph(cache') /\ stack' \in Seq(Frame)
    /\ DOMAIN cur' = DOMAIN built \cup {NameOf[f]}
    /\ \A n \in DOMAIN built : cur'[n] = built[n]
    /\ NameOf[cur'[NameOf[f]]] = NameOf[f]
    /\ Len(frames) \in Nat
    /\ DOMAIN frames = 1..Len(frames)
    /\ DOMAIN stack' = 1..(Len(frames) + 1)
    /\ \A k \in DOMAIN frames : stack'[k] = frames[k]
    /\ stack'[Len(frames) + 1] = [fn |-> cur'[NameOf[f]], next |-> 1]
    /\ \A n \in DOMAIN cache' : NameOf[cache'[n]] = n
    /\ \A n \in DOMAIN cur' : n \in DOMAIN cache' /\ cur'[n] = cache'[n]
    /\ \A n \in DOMAIN graph : n \in DOMAIN cache' /\ graph[n] = cache'[n]

\* A visit extends graph and cache by one name and never changes an entry.
LEMMA VisitFacts ==
  ASSUME TypeOK, CacheInv, NEW f \in Functions, NEW seen \in SUBSET Names,
         NEW built, IsGraph(built), InCache(built), NameOf[f] \notin DOMAIN built,
         NEW frames \in Seq(Frame), Visit(f, seen, built, frames)
  PROVE  Visited(f, seen, built, frames)
<1>1. /\ Source(f) \in Functions /\ NameOf[Source(f)] = NameOf[f] /\ NameOf[f] \in Names
      /\ NameOf[f] \in DOMAIN cache => Source(f) = cache[NameOf[f]]
  BY SourceIsNamed DEF CacheInv
<1>2. IsGraph(cache)
  BY DEF TypeOK
<1>3. /\ IsGraph(cur')
      /\ DOMAIN cur' = DOMAIN built \cup {NameOf[f]}
      /\ cur'[NameOf[f]] = Source(f)
      /\ \A n \in DOMAIN built : cur'[n] = built[n]
  <2> DEFINE n0 == NameOf[f]
             f0 == Source(f)
             d == Set(built, n0, f0)
  <2>1. cur' = d
    BY DEF Visit
  <2>2. n0 \in Names /\ f0 \in Functions /\ IsGraph(built)
    BY <1>1, <1>2
  <2> HIDE DEF n0, f0
  <2>3. /\ IsGraph(d)
        /\ DOMAIN d = DOMAIN built \cup {n0}
        /\ d[n0] = f0
        /\ \A m \in DOMAIN built : m # n0 => d[m] = built[m]
    BY <2>2, SetFacts
  <2> HIDE DEF d
  <2>4. QED
    BY <2>1, <2>3 DEF n0, f0
<1>4. /\ IsGraph(cache')
      /\ DOMAIN cache' = DOMAIN cache \cup {NameOf[f]}
      /\ cache'[NameOf[f]] = Source(f)
      /\ \A n \in DOMAIN cache : cache'[n] = cache[n]
  <2> DEFINE n0 == NameOf[f]
             f0 == Source(f)
             d == Set(cache, n0, f0)
  <2>1. cache' = d
    BY DEF Visit
  <2>2. n0 \in Names /\ f0 \in Functions /\ IsGraph(cache)
    BY <1>1, <1>2
  <2> HIDE DEF n0, f0
  <2>3. /\ IsGraph(d)
        /\ DOMAIN d = DOMAIN cache \cup {n0}
        /\ d[n0] = f0
        /\ \A m \in DOMAIN cache : m # n0 => d[m] = cache[m]
    BY <2>2, SetFacts
  <2> HIDE DEF d
  <2>4. /\ IsGraph(cache')
        /\ DOMAIN cache' = DOMAIN cache \cup {NameOf[f]}
        /\ cache'[NameOf[f]] = Source(f)
        /\ \A n \in DOMAIN cache : n # NameOf[f] => cache'[n] = cache[n]
    BY <2>1, <2>3 DEF n0, f0
  <2>5. QED
    BY <1>1, <2>4
<1> DEFINE frame == [fn |-> Source(f), next |-> 1]
<1>5. frame \in Frame /\ stack' = Append(frames, frame)
  BY <1>1 DEF Frame, Visit
<1> HIDE DEF frame
<1>6. /\ stack' \in Seq(Frame) /\ Len(stack') = Len(frames) + 1
      /\ \A k \in 1..Len(frames) : stack'[k] = frames[k]
      /\ stack'[Len(frames) + 1] = frame
  BY <1>5, AppendProperties
<1>7. Len(frames) \in Nat /\ DOMAIN frames = 1..Len(frames) /\ DOMAIN stack' = 1..Len(stack')
  BY <1>6, LenProperties
<1>8. visited' = seen \cup {NameOf[f]} /\ visited' \in SUBSET Names
  BY <1>1 DEF Visit
<1>9. \A n \in DOMAIN cache' : NameOf[cache'[n]] = n
  BY <1>1, <1>4 DEF CacheInv, CacheNamed
<1>10. /\ \A n \in DOMAIN cur' : n \in DOMAIN cache' /\ cur'[n] = cache'[n]
       /\ \A n \in DOMAIN graph : n \in DOMAIN cache' /\ graph[n] = cache'[n]
  BY <1>3, <1>4 DEF CacheInv, InCache
<1>11. stack'[Len(frames) + 1] = [fn |-> cur'[NameOf[f]], next |-> 1]
  BY <1>3, <1>6 DEF frame
<1>12. QED
  BY <1>1, <1>3, <1>4, <1>6, <1>7, <1>8, <1>9, <1>10, <1>11 DEF Visited
-----------------------------------------------------------------------------
(* The steps.                                                                *)

\* Before the analysis there is no graph, cache or stack.
LEMMA InvInit == Init => Inv
<1> SUFFICES ASSUME Init PROVE Inv
  OBVIOUS
<1>1. program.calls \in [Functions -> Seq(Callees)] /\ program.unreadable \subseteq Functions
      /\ program.visible \subseteq Functions
  BY GraphAssumption DEF Init
<1>2. IsGraph(Empty) /\ DOMAIN Empty = {}
  BY DEF IsGraph, Empty
<1>3. TypeOK
  BY <1>1, <1>2 DEF Init, TypeOK, Phases
<1>4. CacheInv /\ SearchInv /\ GraphClosed /\ GraphReached /\ EntryInGraph
  BY <1>2 DEF EntryInGraph, Init, CacheInv, CacheNamed, InCache, SearchInv, Building, GraphClosed,
              ClosedIn, GraphReached
<1>5. QED
  BY <1>3, <1>4 DEF Inv

\* A closed set that holds the root holds the entry itself after the first visit.
LEMMA StartStep ==
  ASSUME Inv, NEW f \in Functions, NEW to \in {"main", "fallback"}, StartBuild(f, to),
         UNCHANGED <<program, kept, graph>>, tried' \in Nat,
         tried <= tried',
         Root' = NameOf[f], to = "fallback" => tried' \in DOMAIN Candidates,
         to = "main" => FunctionByEntryName(EntryName) \in Functions,
         to = "main" => phase = "start", to = "fallback" => phase = "pick"
  PROVE  Inv'
<1> USE GraphAssumption
<1>1. TypeOK /\ CacheInv /\ GraphClosed /\ GraphReached /\ EntryInGraph
  BY DEF Inv
<1>2. IsGraph(Empty) /\ InCache(Empty) /\ DOMAIN Empty = {} /\ <<>> \in Seq(Frame)
      /\ Len(<<>>) = 0
  BY DEF IsGraph, InCache, Empty
<1>3. Visit(f, {}, Empty, <<>>) /\ phase' = to
  BY DEF StartBuild
<1> DEFINE n == NameOf[f]
<1>4. /\ visited' = {n} /\ DOMAIN cur' = {n} /\ visited' \in SUBSET Names
      /\ IsGraph(cur') /\ IsGraph(cache') /\ stack' \in Seq(Frame)
      /\ NameOf[cur'[n]] = n
      /\ DOMAIN stack' = {1}
      /\ stack'[1] = [fn |-> cur'[n], next |-> 1]
      /\ \A m \in DOMAIN cache' : NameOf[cache'[m]] = m
      /\ \A m \in DOMAIN cur' : m \in DOMAIN cache' /\ cur'[m] = cache'[m]
      /\ \A m \in DOMAIN graph : m \in DOMAIN cache' /\ graph[m] = cache'[m]
  <2>1. {} \in SUBSET Names /\ n \notin DOMAIN Empty
    BY <1>2
  <2> HIDE DEF Empty
  <2>2. Visited(f, {}, Empty, <<>>)
    BY <1>1, <1>2, <1>3, <2>1, VisitFacts DEF n
  <2>3. QED
    BY <1>2, <2>2 DEF Visited
<1> HIDE DEF n
<1>5. TypeOK'
  BY <1>1, <1>3, <1>4 DEF TypeOK, Phases
<1>6. CacheInv'
  BY <1>4 DEF CacheInv, CacheNamed, InCache
<1>7. FramesInGraph'
  BY <1>4 DEF FramesInGraph
<1>8. NothingForgotten'
  <2>1. program.calls \in [Functions -> Seq(Callees)] /\ cur'[n] \in Functions
    BY <1>1, <1>4 DEF TypeOK, IsGraph
  <2>2. \A i \in DOMAIN CallsOf(cur'[n]) : 1 <= i
    BY <2>1, LenProperties DEF CallsOf
  <2>3. QED
    BY <1>4, <2>2 DEF NothingForgotten, CallsOf
<1>9. OnlyReached(cur, Root)'
  BY <1>4 DEF OnlyReached, n
<1>10. SearchInv'
  BY <1>3, <1>4, <1>7, <1>8, <1>9 DEF SearchInv, n
<1>11. GraphClosed'
  BY <1>1 DEF GraphClosed, ClosedIn, Follows, CallsOf
<1>12. GraphReached'
  <2>1. Roots \subseteq Roots'
    BY <1>1 DEF Roots, TypeOK
  <2>2. QED
    BY <1>1, <2>1 DEF GraphReached, ClosedIn, Follows, CallsOf
<1>13. EntryInGraph'
  BY <1>1, <1>3 DEF EntryInGraph, StartBuild
<1>14. QED
  BY <1>5, <1>6, <1>10, <1>11, <1>12, <1>13 DEF Inv

\* Following a call finds one more function that every closed set must hold, and
\* leaves its calls to the new frame.
LEMMA FollowStep ==
  ASSUME Inv, NEW c \in Callees, FollowCall(c)
  PROVE  Inv'
<1>1. /\ TypeOK /\ CacheInv /\ GraphClosed /\ GraphReached /\ EntryInGraph
      /\ visited = DOMAIN cur /\ Root \in DOMAIN cur
      /\ phase = "main" => FunctionByEntryName(EntryName) \in Functions
      /\ phase = "fallback" => tried \in DOMAIN Candidates
      /\ FramesInGraph /\ NothingForgotten /\ OnlyReached(cur, Root)
  BY DEF Inv, SearchInv, FollowCall, AtCall
<1>2. /\ c \in Functions /\ NameOf[c] \notin DOMAIN cur
      /\ stack # <<>> /\ c = CallsOf(Top.fn)[Top.next] /\ Building
      /\ Top.next <= Len(CallsOf(Top.fn))
      /\ Visit(c, visited, cur, Advanced)
      /\ UNCHANGED <<program, kept, phase, graph, tried>>
  BY <1>1 DEF FollowCall, AtCall, New
<1>3. /\ stack \in Seq(Frame) /\ visited \in SUBSET Names /\ IsGraph(cur) /\ InCache(cur)
      /\ program.calls \in [Functions -> Seq(Callees)]
  BY <1>1 DEF TypeOK, CacheInv
<1> DEFINE l == Len(stack)
<1>4. /\ Advanced \in Seq(Frame) /\ DOMAIN Advanced = 1..l /\ DOMAIN stack = 1..l
      /\ l \in Nat \ {0}
      /\ \A k \in 1..l : Advanced[k].fn = stack[k].fn
      /\ \A k \in 1..l : k # l => Advanced[k] = stack[k]
      /\ Advanced[l].next = Top.next + 1
      /\ Top \in Frame /\ Top = stack[l]
  BY <1>2, <1>3, AdvancedFacts, BelowFacts DEF Top
<1>5. Len(Advanced) = l
  BY <1>2, <1>3, AdvancedFacts
<1> HIDE DEF l
<1> DEFINE n == NameOf[c]
<1>6. /\ visited' = visited \cup {n} /\ visited' \in SUBSET Names
      /\ DOMAIN cur' = DOMAIN cur \cup {n}
      /\ \A m \in DOMAIN cur : cur'[m] = cur[m]
      /\ IsGraph(cur') /\ IsGraph(cache') /\ stack' \in Seq(Frame)
      /\ NameOf[cur'[n]] = n
      /\ DOMAIN stack' = 1..(l + 1)
      /\ \A k \in 1..l : stack'[k] = Advanced[k]
      /\ stack'[l + 1] = [fn |-> cur'[n], next |-> 1]
      /\ \A m \in DOMAIN cache' : NameOf[cache'[m]] = m
      /\ \A m \in DOMAIN cur' : m \in DOMAIN cache' /\ cur'[m] = cache'[m]
      /\ \A m \in DOMAIN graph : m \in DOMAIN cache' /\ graph[m] = cache'[m]
  <2>1. Visited(c, visited, cur, Advanced)
    BY <1>1, <1>2, <1>3, <1>4, VisitFacts
  <2>2. QED
    BY <1>1, <1>4, <1>5, <2>1 DEF Visited
<1> HIDE DEF n
<1>7. TypeOK'
  BY <1>1, <1>2, <1>6 DEF TypeOK
<1>8. CacheInv'
  BY <1>2, <1>6 DEF CacheInv, CacheNamed, InCache
<1>9. FramesInGraph'
  <2> SUFFICES ASSUME NEW k \in 1..(l + 1)
               PROVE  /\ NameOf[stack'[k].fn] \in DOMAIN cur'
                      /\ cur'[NameOf[stack'[k].fn]] = stack'[k].fn
    BY <1>6 DEF FramesInGraph
  <2>1. CASE k = l + 1
    BY <1>6, <2>1
  <2>2. CASE k \in 1..l
    <3>1. stack'[k].fn = stack[k].fn /\ k \in DOMAIN stack
      BY <1>4, <1>6, <2>2
    <3>2. NameOf[stack[k].fn] \in DOMAIN cur /\ cur[NameOf[stack[k].fn]] = stack[k].fn
      BY <1>1, <3>1 DEF FramesInGraph
    <3> QED BY <1>6, <3>1, <3>2
  <2>3. QED
    BY <1>4, <2>1, <2>2
<1>10. NothingForgotten'
  <2> SUFFICES ASSUME NEW m \in DOMAIN cur', NEW i \in DOMAIN CallsOf(cur'[m]),
                      CallsOf(cur'[m])[i] \in Functions,
                      NameOf[CallsOf(cur'[m])[i]] \notin DOMAIN cur'
               PROVE  \E k \in DOMAIN stack' : stack'[k].fn = cur'[m] /\ stack'[k].next <= i
    BY <1>2 DEF NothingForgotten, CallsOf
  <2>1. CallsOf(cur'[m]) \in Seq(Callees)
    BY <1>3, <1>6 DEF CallsOf, IsGraph
  <2>2. i \in Nat \ {0}
    BY <2>1, LenProperties
  <2>3. CASE m = n
    BY <1>4, <1>6, <2>2, <2>3
  <2>4. CASE m \in DOMAIN cur
    <3>1. PICK k \in 1..l : stack[k].fn = cur[m] /\ stack[k].next <= i
      BY <1>1, <1>4, <1>6, <2>4 DEF NothingForgotten
    <3>2. CASE k # l
      <4>1. k \in DOMAIN stack' /\ stack'[k] = stack[k] /\ cur'[m] = cur[m]
        BY <1>4, <1>6, <2>4, <3>2
      <4>2. QED
        BY <3>1, <4>1
    <3>3. CASE k = l
      <4>1. Top.next # i
        BY <1>2, <1>4, <1>6, <2>4, <3>1, <3>3 DEF n
      <4>2. Top.next + 1 <= i
        BY <1>4, <2>2, <3>1, <3>3, <4>1 DEF Frame
      <4>3. QED
        BY <1>4, <1>6, <2>4, <3>1, <3>3, <4>2
    <3>4. QED
      BY <3>2, <3>3
  <2>5. QED
    BY <1>6, <2>3, <2>4
<1>11. OnlyReached(cur, Root)'
  <2> SUFFICES ASSUME NEW S \in SUBSET Names, Root \in S, ClosedIn(cur', S)
               PROVE  DOMAIN cur' \subseteq S
    BY <1>2 DEF OnlyReached, Root, ClosedIn, Follows, CallsOf
  <2>1. ClosedIn(cur, S)
    BY <1>6 DEF ClosedIn
  <2>2. DOMAIN cur \subseteq S
    BY <1>1, <2>1 DEF OnlyReached
  <2>3. NameOf[Top.fn] \in DOMAIN cur /\ cur[NameOf[Top.fn]] = Top.fn
    BY <1>1, <1>4 DEF FramesInGraph
  <2>4. CallsOf(Top.fn) \in Seq(Callees) /\ Top.next \in Nat \ {0}
    BY <1>3, <1>4 DEF CallsOf, Frame
  <2>5. Top.next \in DOMAIN CallsOf(Top.fn)
    BY <1>2, <2>4, LenProperties
  <2>6. c \in Follows(Top.fn)
    BY <1>2, <2>5 DEF Follows
  <2>7. n \in S
    BY <2>1, <2>2, <2>3, <2>6 DEF ClosedIn, n
  <2>8. QED
    BY <1>6, <2>2, <2>7
<1>12. SearchInv'
  BY <1>1, <1>2, <1>6, <1>9, <1>10, <1>11 DEF SearchInv, Root
<1>13. GraphClosed' /\ GraphReached' /\ EntryInGraph'
  BY <1>1, <1>2 DEF EntryInGraph, GraphClosed, GraphReached, ClosedIn, Follows, CallsOf, Roots
<1>14. QED
  BY <1>7, <1>8, <1>12, <1>13 DEF Inv

\* Skipping a call forgets nothing: it leads nowhere or into the graph.
LEMMA SkipStep ==
  ASSUME Inv, NEW c \in Callees, SkipCall(c)
  PROVE  Inv'
<1>1. /\ TypeOK /\ CacheInv /\ GraphClosed /\ GraphReached /\ EntryInGraph
      /\ visited = DOMAIN cur /\ SearchInv
      /\ FramesInGraph /\ NothingForgotten /\ OnlyReached(cur, Root)
  BY DEF Inv, SearchInv, SkipCall, AtCall
<1>2. /\ c \in Functions => NameOf[c] \in DOMAIN cur
      /\ stack # <<>> /\ c = CallsOf(Top.fn)[Top.next] /\ Building
      /\ stack' = Advanced
      /\ UNCHANGED <<program, kept, phase, visited, cur, cache, graph, tried>>
  BY <1>1 DEF SkipCall, AtCall, New
<1>3. stack \in Seq(Frame) /\ program.calls \in [Functions -> Seq(Callees)] /\ IsGraph(cur)
  BY <1>1 DEF TypeOK
<1> DEFINE l == Len(stack)
<1>4. /\ Advanced \in Seq(Frame) /\ DOMAIN Advanced = 1..l /\ DOMAIN stack = 1..l
      /\ l \in Nat \ {0}
      /\ \A k \in 1..l : Advanced[k].fn = stack[k].fn
      /\ \A k \in 1..l : k # l => Advanced[k] = stack[k]
      /\ Advanced[l].next = Top.next + 1
      /\ Top \in Frame /\ Top = stack[l]
  BY <1>2, <1>3, AdvancedFacts, BelowFacts DEF Top
<1> HIDE DEF l
<1>5. TypeOK' /\ CacheInv' /\ GraphClosed' /\ GraphReached' /\ EntryInGraph'
  <2>1. stack' \in Seq(Frame)
    BY <1>2, <1>4
  <2>2. TypeOK'
    BY <1>1, <1>2, <2>1 DEF TypeOK, IsGraph
  <2>3. CacheInv'
    BY <1>1, <1>2 DEF CacheInv, CacheNamed, InCache
  <2>4. GraphClosed' /\ GraphReached' /\ EntryInGraph'
    BY <1>1, <1>2 DEF GraphClosed, GraphReached, ClosedIn, Follows, CallsOf, Roots,
       EntryInGraph
  <2>5. QED
    BY <2>2, <2>3, <2>4
<1>6. FramesInGraph'
  BY <1>1, <1>2, <1>4 DEF FramesInGraph
<1>7. NothingForgotten'
  <2> SUFFICES ASSUME NEW m \in DOMAIN cur, NEW i \in DOMAIN CallsOf(cur[m]),
                      CallsOf(cur[m])[i] \in Functions,
                      NameOf[CallsOf(cur[m])[i]] \notin DOMAIN cur
               PROVE  \E k \in DOMAIN stack' : stack'[k].fn = cur[m] /\ stack'[k].next <= i
    BY <1>2 DEF NothingForgotten, CallsOf
  <2>1. CallsOf(cur[m]) \in Seq(Callees)
    BY <1>3 DEF CallsOf, IsGraph
  <2>2. i \in Nat \ {0}
    BY <2>1, LenProperties
  <2>3. PICK k \in 1..l : stack[k].fn = cur[m] /\ stack[k].next <= i
    BY <1>1, <1>4 DEF NothingForgotten
  <2>4. CASE k # l
    BY <1>2, <1>4, <2>3, <2>4
  <2>5. CASE k = l
    <3>1. Top.next # i
      BY <1>2, <1>4, <2>3, <2>5
    <3>2. Top.next + 1 <= i
      BY <1>4, <2>2, <2>3, <2>5, <3>1 DEF Frame
    <3>3. QED
      BY <1>2, <1>4, <2>3, <2>5, <3>2
  <2>6. QED
    BY <2>4, <2>5
<1>8. OnlyReached(cur, Root)'
  BY <1>1, <1>2 DEF OnlyReached, Root, ClosedIn, Follows, CallsOf
<1>9. SearchInv'
  BY <1>1, <1>2, <1>6, <1>7, <1>8 DEF SearchInv, Root, Building
<1>10. QED
  BY <1>5, <1>9 DEF Inv

\* A visit that returns has no call left to follow.
LEMMA ReturnStep ==
  ASSUME Inv, Return
  PROVE  Inv'
<1>1. /\ TypeOK /\ CacheInv /\ GraphClosed /\ GraphReached /\ EntryInGraph
      /\ visited = DOMAIN cur /\ SearchInv
      /\ FramesInGraph /\ NothingForgotten /\ OnlyReached(cur, Root)
  BY DEF Inv, SearchInv, Return
<1>2. /\ stack # <<>> /\ Building /\ Top.next > Len(CallsOf(Top.fn))
      /\ stack' = Below
      /\ UNCHANGED <<program, kept, phase, visited, cur, cache, graph, tried>>
  BY DEF Return
<1>3. stack \in Seq(Frame) /\ program.calls \in [Functions -> Seq(Callees)] /\ IsGraph(cur)
  BY <1>1 DEF TypeOK
<1> DEFINE l == Len(stack)
<1>4. /\ Below \in Seq(Frame) /\ DOMAIN Below = 1..(l - 1) /\ DOMAIN stack = 1..l
      /\ l \in Nat \ {0}
      /\ \A k \in 1..(l - 1) : Below[k] = stack[k]
      /\ Top \in Frame /\ Top = stack[l]
  BY <1>2, <1>3, BelowFacts DEF Top
<1> HIDE DEF l
<1>5. TypeOK' /\ CacheInv' /\ GraphClosed' /\ GraphReached' /\ EntryInGraph'
  <2>1. stack' \in Seq(Frame)
    BY <1>2, <1>4
  <2>2. TypeOK'
    BY <1>1, <1>2, <2>1 DEF TypeOK, IsGraph
  <2>3. CacheInv'
    BY <1>1, <1>2 DEF CacheInv, CacheNamed, InCache
  <2>4. GraphClosed' /\ GraphReached' /\ EntryInGraph'
    BY <1>1, <1>2 DEF GraphClosed, GraphReached, ClosedIn, Follows, CallsOf, Roots,
       EntryInGraph
  <2>5. QED
    BY <2>2, <2>3, <2>4
<1>6. FramesInGraph'
  BY <1>1, <1>2, <1>4 DEF FramesInGraph
<1>7. NothingForgotten'
  <2> SUFFICES ASSUME NEW m \in DOMAIN cur, NEW i \in DOMAIN CallsOf(cur[m]),
                      CallsOf(cur[m])[i] \in Functions,
                      NameOf[CallsOf(cur[m])[i]] \notin DOMAIN cur
               PROVE  \E k \in DOMAIN stack' : stack'[k].fn = cur[m] /\ stack'[k].next <= i
    BY <1>2 DEF NothingForgotten, CallsOf
  <2>1. CallsOf(cur[m]) \in Seq(Callees)
    BY <1>3 DEF CallsOf, IsGraph
  <2>2. i \in Nat \ {0} /\ i <= Len(CallsOf(cur[m])) /\ Len(CallsOf(cur[m])) \in Nat
    BY <2>1, LenProperties
  <2>3. PICK k \in 1..l : stack[k].fn = cur[m] /\ stack[k].next <= i
    BY <1>1, <1>4 DEF NothingForgotten
  <2>4. k # l
    BY <1>2, <1>4, <2>2, <2>3 DEF Frame
  <2>5. QED
    BY <1>2, <1>4, <2>3, <2>4
<1>8. OnlyReached(cur, Root)'
  BY <1>1, <1>2 DEF OnlyReached, Root, ClosedIn, Follows, CallsOf
<1>9. SearchInv'
  BY <1>1, <1>2, <1>6, <1>7, <1>8 DEF SearchInv, Root, Building
<1>10. QED
  BY <1>5, <1>9 DEF Inv

\* An empty stack means that everything found has been followed: the build is closed.
LEMMA BuiltIsClosed ==
  ASSUME Inv, Building, stack = <<>>
  PROVE  ClosedIn(cur, DOMAIN cur)
<1>1. NothingForgotten /\ DOMAIN stack = {}
  BY DEF Inv, SearchInv
<1>2. QED
  BY <1>1 DEF NothingForgotten, ClosedIn, Follows

\* The main graph is handed over when it is closed.
LEMMA MainDoneStep ==
  ASSUME Inv, MainDone
  PROVE  Inv'
<1>1. /\ TypeOK /\ CacheInv /\ Root \in DOMAIN cur /\ OnlyReached(cur, Root)
      /\ FunctionByEntryName(EntryName) \in Functions /\ kept = {}
      /\ Root = NameOf[FunctionByEntryName(EntryName)]
  BY DEF Inv, SearchInv, EntryInGraph, MainDone, Building, Root
<1>2. /\ graph' = cur /\ phase' \in {"done", "pick"}
      /\ UNCHANGED <<program, kept, stack, visited, cur, cache, tried>>
  BY DEF MainDone
<1>3. GraphClosed'
  <2>1. ClosedIn(cur, DOMAIN cur)
    BY BuiltIsClosed DEF MainDone, Building
  <2>2. QED
    BY <1>2, <2>1 DEF GraphClosed, ClosedIn, Follows, CallsOf
<1>4. GraphReached'
  BY <1>1, <1>2 DEF GraphReached, OnlyReached, Roots, ClosedIn, Follows, CallsOf
<1>5. TypeOK' /\ CacheInv' /\ SearchInv' /\ EntryInGraph'
  BY <1>1, <1>2 DEF TypeOK, Phases, CacheInv, CacheNamed, InCache, SearchInv, Building, EntryInGraph
<1>6. QED
  BY <1>3, <1>4, <1>5 DEF Inv

\* Merging two closed graphs that agree on common names gives a closed graph
\* whose names are those reached from either root.
LEMMA MergeStep ==
  ASSUME Inv, MergeFallback
  PROVE  Inv'
<1>1. /\ TypeOK /\ CacheInv /\ GraphClosed /\ GraphReached /\ EntryInGraph
      /\ tried \in DOMAIN Candidates /\ OnlyReached(cur, Root)
      /\ Root = NameOf[Candidates[tried]] /\ Root \in DOMAIN cur
  BY DEF Inv, SearchInv, MergeFallback, Building, Root
<1>2. /\ graph' = SetDefaults(graph, cur) /\ phase' = "pick"
      /\ kept' = kept \cup {tried}
      /\ UNCHANGED <<program, stack, visited, cur, cache, tried>>
  BY DEF MergeFallback
<1>3. /\ DOMAIN graph' = DOMAIN graph \cup DOMAIN cur
      /\ \A n \in DOMAIN graph : graph'[n] = graph[n]
      /\ \A n \in DOMAIN cur : graph'[n] = cur[n]
  BY <1>1, <1>2 DEF SetDefaults, CacheInv, InCache
<1>4. IsGraph(graph')
  <2>1. IsGraph(graph) /\ IsGraph(cur)
    BY <1>1 DEF TypeOK
  <2>2. \A n \in DOMAIN graph' : graph'[n] \in Functions
    BY <1>3, <2>1 DEF IsGraph
  <2>3. graph' = [n \in DOMAIN graph' |-> graph'[n]]
    BY <1>2 DEF SetDefaults
  <2>4. QED
    BY <1>3, <2>1, <2>2, <2>3 DEF IsGraph
<1>5. GraphClosed'
  <2>1. ClosedIn(cur, DOMAIN cur)
    BY BuiltIsClosed DEF MergeFallback, Building
  <2>2. QED
    BY <1>1, <1>2, <1>3, <2>1 DEF GraphClosed, ClosedIn, Follows, CallsOf
<1>6. GraphReached'
  <2> SUFFICES ASSUME NEW S \in SUBSET Names, Roots' \subseteq S, ClosedIn(graph', S)
               PROVE  DOMAIN graph' \subseteq S
    BY <1>2 DEF GraphReached, ClosedIn, Follows, CallsOf
  <2>1. ClosedIn(graph, S) /\ ClosedIn(cur, S)
    BY <1>3 DEF ClosedIn
  <2>2. Roots \subseteq S
    BY <1>2 DEF Roots
  <2>4. Root \in S
    BY <1>1, <1>2 DEF Roots
  <2>5. DOMAIN graph \subseteq S /\ DOMAIN cur \subseteq S
    BY <1>1, <2>1, <2>2, <2>4 DEF GraphReached, OnlyReached
  <2>6. QED
    BY <1>3, <2>5
<1>7. TypeOK' /\ SearchInv' /\ EntryInGraph'
  BY <1>1, <1>2, <1>3, <1>4 DEF TypeOK, Phases, SearchInv, Building, EntryInGraph, MergeFallback
<1>8. CacheInv'
  BY <1>1, <1>2, <1>3 DEF CacheInv, CacheNamed, InCache
<1>9. QED
  BY <1>5, <1>6, <1>7, <1>8 DEF Inv

\* The steps that build nothing.
LEMMA OtherStep ==
  ASSUME Inv,
         StartFails \/ (\E c \in Callees : Raise(c)) \/ FallbackRaises \/ FallbacksDone
  PROVE  Inv'
<1>1. /\ TypeOK /\ CacheInv /\ GraphClosed /\ GraphReached /\ EntryInGraph
      /\ phase' \in {"failed", "pick", "done"}
      /\ phase' # "failed" => phase \in {"pick", "fallback"}
      /\ tried' \in Nat /\ tried <= tried'
      /\ stack' = stack \/ stack' = <<>>
      /\ UNCHANGED <<program, kept, visited, cur, cache, graph>>
  BY DEF Inv, StartFails, Raise, FallbackRaises, FallbacksDone, AtCall, Building, TypeOK
<1>2. TypeOK'
  BY <1>1, EmptySeq DEF TypeOK, Phases
<1>3. CacheInv' /\ SearchInv' /\ GraphClosed' /\ EntryInGraph'
  BY <1>1 DEF CacheInv, CacheNamed, InCache, SearchInv, Building, GraphClosed, ClosedIn,
     Follows, CallsOf, EntryInGraph
<1>4. GraphReached'
  <2>1. Roots \subseteq Roots'
    BY <1>1 DEF Roots, TypeOK
  <2>2. QED
    BY <1>1, <2>1 DEF GraphReached, ClosedIn, Follows, CallsOf
<1>5. QED
  BY <1>2, <1>3, <1>4 DEF Inv

\* Every step of the analysis preserves the invariant.
LEMMA InvStep == Inv /\ [Next]_vars => Inv'
<1> SUFFICES ASSUME Inv, [Next]_vars PROVE Inv'
  OBVIOUS
<1>1. CASE UNCHANGED vars
  <2>1. UNCHANGED <<program, phase, stack, visited, cur, cache, graph, tried, kept>>
    BY <1>1 DEF vars
  <2>2. TypeOK' /\ CacheInv' /\ EntryInGraph'
    BY <2>1 DEF Inv, TypeOK, CacheInv, CacheNamed, InCache, EntryInGraph
  <2>3. SearchInv'
    BY <2>1 DEF Inv, SearchInv, Building, Root, FramesInGraph, NothingForgotten, OnlyReached,
                ClosedIn, Follows, CallsOf
  <2>4. GraphClosed' /\ GraphReached'
    BY <2>1 DEF Inv, GraphClosed, GraphReached, ClosedIn, Follows, CallsOf, Roots
  <2> QED BY <2>2, <2>3, <2>4 DEF Inv
<1>2. CASE StartMain
  <2> DEFINE f == FunctionByEntryName(EntryName)
  <2>1. f \in Functions
    BY <1>2, EntryIsFunction DEF StartMain
  <2>2. /\ StartBuild(f, "main") /\ UNCHANGED <<program, kept, graph>> /\ tried' = tried
        /\ phase = "start" /\ tried \in Nat /\ phase' = "main"
    BY <1>2 DEF StartMain, StartBuild, Inv, TypeOK
  <2>3. Root' = NameOf[f]
    BY <2>2 DEF Root
  <2> HIDE DEF f
  <2>4. QED
    BY <2>1, <2>2, <2>3, StartStep DEF f
<1>3. CASE StartFallback
  <2> DEFINE f == FunctionByEntryName(NameOf[Candidates[tried + 1]])
  <2>1. /\ tried \in Nat /\ tried' = tried + 1 /\ phase = "pick" /\ phase' = "fallback"
        /\ StartBuild(f, "fallback") /\ UNCHANGED <<program, kept, graph>>
    BY <1>3 DEF StartFallback, StartBuild, Candidate, Inv, TypeOK
  <2>2. tried + 1 \in DOMAIN Candidates
    BY <1>3, <2>1, GraphAssumption, LenProperties DEF StartFallback, More
  <2>3. f \in Functions /\ NameOf[f] = NameOf[Candidates[tried + 1]]
    BY <2>2, CandidateIsNamed
  <2>4. Root' = NameOf[f]
    BY <2>1, <2>3 DEF Root
  <2> HIDE DEF f
  <2>5. tried' \in Nat /\ tried <= tried'
    BY <2>1
  <2>6. QED
    BY <2>1, <2>2, <2>3, <2>4, <2>5, StartStep
<1>4. QED
  BY <1>1, <1>2, <1>3, FollowStep, SkipStep, ReturnStep, MainDoneStep, MergeStep, OtherStep
  DEF Next
-----------------------------------------------------------------------------
(* The theorems.                                                             *)

\* The invariant holds throughout.
LEMMA Invariance == Spec => []Inv
<1>1. Init => Inv
  BY InvInit
<1>2. Inv /\ [Next]_vars => Inv'
  BY InvStep
<1>3. QED
  BY <1>1, <1>2, PTL DEF Spec

\* The search keeps to its types for every program.
THEOREM TypeCorrect == Spec => []TypeOK
<1>1. Inv => TypeOK
  BY DEF Inv
<1>2. QED
  BY <1>1, Invariance, PTL

\* The call graph handed to the passes is closed under the calls it records,
\* whatever fallback builds raised on the way.
THEOREM GraphIsClosed == Spec => []GraphClosed
<1>1. Inv => GraphClosed
  BY DEF Inv
<1>2. QED
  BY <1>1, Invariance, PTL

\* The call graph holds only what is reached from the entry and the fallbacks
\* that were merged, for any program, names, bounds and builds that raise.
THEOREM GraphIsReached == Spec => []GraphReached
<1>1. Inv => GraphReached
  BY DEF Inv
<1>2. QED
  BY <1>1, Invariance, PTL

\* A name never changes its function, from build to build.
THEOREM NamesKeepTheirFunction == Spec => []OneFunctionPerName
<1>1. Inv => OneFunctionPerName
  BY DEF Inv, CacheInv, CacheNamed, InCache, OneFunctionPerName
<1>2. QED
  BY <1>1, Invariance, PTL

\* With unique names a candidate is looked up to itself.
LEMMA UniqueCandidate ==
  ASSUME UniqueNames, NEW i \in DOMAIN Candidates
  PROVE  Candidates[i] \in Functions /\ FunctionByEntryName(NameOf[Candidates[i]]) = Candidates[i]
<1>1. Candidates[i] \in UserFunctions /\ UserOrder \in Seq(Functions)
  BY GraphAssumption
<1>2. Candidates[i] \in Functions
  BY <1>1 DEF UserFunctions
<1>3. QED
  BY <1>2, CandidateIsNamed DEF UniqueNames

\* With unique names the graph holds exactly the functions that the calls,
\* followed by address, reach from the entry and the fallbacks merged.
LEMMA ExactWhenUnique == Inv => ExactForUniqueNames
<1> SUFFICES ASSUME Inv, phase = "done", UniqueNames
             PROVE  InGraph = UNION {ReachedFrom(f) : f \in Entries}
  BY DEF ExactForUniqueNames
<1>1. /\ GraphClosed /\ GraphReached
      /\ \A n \in DOMAIN graph : graph[n] \in Functions /\ NameOf[graph[n]] = n /\ n \in Names
  BY DEF Inv, CacheInv, CacheNamed, InCache, TypeOK, IsGraph
<1>2. /\ \A f \in Entries : f \in Functions /\ NameOf[f] \in DOMAIN graph
      /\ Roots = {NameOf[f] : f \in Entries}
  <2>1. \A i \in kept : i \in DOMAIN Candidates
    BY DEF Inv, TypeOK
  <2> QED BY <2>1, UniqueCandidate DEF Inv, EntryInGraph, Entries, Roots
<1>3. \A g \in Functions : NameOf[g] \in Names
  BY GraphAssumption
<1>4. \A g \in Functions : NameOf[g] \in DOMAIN graph => graph[NameOf[g]] = g
  BY <1>1 DEF UniqueNames
<1>5. ASSUME NEW f \in Entries, NEW g \in ReachedFrom(f)
      PROVE  g \in InGraph
  <2>1. InGraph \in SUBSET Functions /\ f \in InGraph
    BY <1>1, <1>2, <1>4 DEF InGraph
  <2>2. \A h \in InGraph : Follows(h) \subseteq InGraph
    BY <1>1, <1>4 DEF InGraph, GraphClosed, ClosedIn, Follows
  <2>3. QED
    BY <2>1, <2>2 DEF ReachedFrom
<1>6. ASSUME NEW S \in SUBSET Functions, Entries \subseteq S,
             \A h \in S : Follows(h) \subseteq S
      PROVE  InGraph \subseteq S
  <2> DEFINE T == {NameOf[h] : h \in S}
  <2>1. T \in SUBSET Names /\ Roots \subseteq T
    BY <1>2, <1>3, <1>6
  <2>2. \A m \in DOMAIN graph \cap T : graph[m] \in S
    BY <1>4
  <2>3. ClosedIn(graph, T)
    BY <1>6, <2>2 DEF ClosedIn
  <2>4. DOMAIN graph \subseteq T
    <3> HIDE DEF T
    <3>1. QED
      BY <1>1, <2>1, <2>3 DEF GraphReached
  <2>5. QED
    BY <2>2, <2>4 DEF InGraph
<1> DEFINE R == UNION {ReachedFrom(f) : f \in Entries}
<1>7. R \in SUBSET Functions /\ Entries \subseteq R
  BY <1>2 DEF ReachedFrom
<1>8. \A h \in R : Follows(h) \subseteq R
  <2> SUFFICES ASSUME NEW f \in Entries, NEW h \in ReachedFrom(f), NEW g \in Follows(h)
               PROVE  g \in ReachedFrom(f)
    OBVIOUS
  <2> QED BY DEF ReachedFrom, Follows
<1>9. InGraph \subseteq R
  <2> HIDE DEF R
  <2> QED BY <1>6, <1>7, <1>8
<1>10. QED
  BY <1>5, <1>9

\* For any program with unique names, whatever builds raised: the graph is what
\* is reachable from the entry and the fallbacks merged, no less and no more.
THEOREM ExactReachability == Spec => []ExactForUniqueNames
  BY ExactWhenUnique, Invariance, PTL
=============================================================================

--------------------------- MODULE Pipeline_proofs ---------------------------
(***************************************************************************)
(* Proofs about analyze_semantics for every program and every pass that    *)
(* fails: the data that an instruction refers to is in an array that names *)
(* its function. At the end, what PassDriver promises of any passes.       *)
(***************************************************************************)
EXTENDS PipelineProperties, FiniteSetTheorems, SequenceTheorems, WellFoundedInduction, TLAPS

-----------------------------------------------------------------------------
(***************************************************************************)
(* Counting and lists.                                                     *)
(***************************************************************************)

\* A non-empty set of naturals has a least member.
LEMMA LeastExists ==
    ASSUME NEW T \in SUBSET Nat, T # {}
    PROVE  \E i \in T : \A j \in T : i <= j
<1> DEFINE R == OpToRel(<, Nat)
<1>1. IsWellFoundedOn(R, Nat)
  BY NatLessThanWellFounded
<1>2. \A x, y \in Nat : <<y, x>> \in R <=> y < x
  BY DEF OpToRel
<1> HIDE DEF R
<1>3. PICK x \in T : \A y \in T : ~ (<<y, x>> \in R)
  BY <1>1, WFMin
<1>4. \A y \in T : x \in Nat /\ y \in Nat /\ ~ (y < x)
  BY <1>2, <1>3
<1>5. \A y \in T : x <= y
  BY <1>4
<1> QED BY <1>5

\* Counting up from 0 reaches every number to n.
LEMMA CountingUp ==
    ASSUME NEW n \in Nat, NEW T \in SUBSET (0..n), 0 \in T, \A i \in T : i < n => i + 1 \in T
    PROVE  T = 0..n
<1> DEFINE missed == (0..n) \ T
<1> SUFFICES ASSUME missed # {} PROVE FALSE
  OBVIOUS
<1>1. missed \in SUBSET Nat
  OBVIOUS
<1>2. PICK x \in missed : \A y \in missed : x <= y
  <2> HIDE DEF missed
  <2> QED BY <1>1, LeastExists
<1>3. x \in 0..n /\ x \notin T /\ x # 0
  BY <1>2
<1>4. x - 1 \in 0..n /\ ~ (x <= x - 1) /\ x - 1 < n
  BY <1>3
<1>5. x - 1 \in T
  BY <1>2, <1>4
<1> QED BY <1>3, <1>4, <1>5

\* The values of a function on a finite set are finitely many.
LEMMA ImageFinite ==
    ASSUME NEW S, IsFiniteSet(S), NEW f, S \subseteq DOMAIN f
    PROVE  IsFiniteSet({f[x] : x \in S})
<1> DEFINE g == [x \in S |-> f[x]]
           T == {f[x] : x \in S}
<1>1. g \in Surjection(S, T)
  BY DEF Surjection
<1> HIDE DEF g, T
<1>2. IsFiniteSet(T)
  BY <1>1, FS_Surjection
<1> QED BY <1>2 DEF T

\* A finite set in the order that a set of pairs gives.
Listing(S, R) ==
    [k \in 1..Cardinality(S) |-> CHOOSE x \in S : Cardinality({y \in S : <<y, x>> \in R}) = k - 1]

Lists(s, S, R) ==
    /\ Cardinality(S) \in Nat
    /\ s \in [1..Cardinality(S) -> S]
    /\ \A i, j \in 1..Cardinality(S) : i < j => <<s[i], s[j]>> \in R
    /\ \A x \in S : \E k \in 1..Cardinality(S) : s[k] = x

\* A strict total order on a finite set lists every member once, in that order.
LEMMA OrderLists ==
    ASSUME NEW S, IsFiniteSet(S), NEW R,
           \A x \in S : <<x, x>> \notin R,
           \A x, y \in S : x = y \/ <<x, y>> \in R \/ <<y, x>> \in R,
           \A x, y, z \in S : <<x, y>> \in R /\ <<y, z>> \in R => <<x, z>> \in R
    PROVE  Lists(Listing(S, R), S, R)
<1> DEFINE n == Cardinality(S)
           s == Listing(S, R)
           below(x) == {y \in S : <<y, x>> \in R}
           rank == [x \in S |-> Cardinality(below(x))]
<1>1. n \in Nat
  BY FS_CardinalityType
<1>2. \A x \in S : below(x) \in SUBSET S /\ x \notin below(x)
  OBVIOUS
<1>3. ASSUME NEW x \in S PROVE rank[x] \in 0..(n - 1)
  <2> DEFINE T == below(x)
  <2>1. T \in SUBSET S /\ T # S
    BY <1>2
  <2>2. rank[x] = Cardinality(T)
    OBVIOUS
  <2> HIDE DEF T, rank
  <2>3. IsFiniteSet(T) /\ Cardinality(T) <= n /\ n # Cardinality(T)
    BY <2>1, FS_Subset
  <2>4. Cardinality(T) \in Nat
    BY <2>3, FS_CardinalityType
  <2> QED BY <1>1, <2>2, <2>3, <2>4
<1>4. ASSUME NEW x \in S, NEW y \in S, <<x, y>> \in R PROVE rank[x] < rank[y]
  <2> DEFINE T == below(x)
             U == below(y)
  <2>1. T \subseteq U /\ x \in U /\ x \notin T /\ U \subseteq S
    BY <1>4
  <2>2. rank[x] = Cardinality(T) /\ rank[y] = Cardinality(U)
    OBVIOUS
  <2> HIDE DEF T, U, rank
  <2>3. IsFiniteSet(U)
    BY <2>1, FS_Subset
  <2>4. Cardinality(T) <= Cardinality(U) /\ Cardinality(T) # Cardinality(U)
    BY <2>1, <2>3, FS_Subset
  <2>5. Cardinality(T) \in Nat /\ Cardinality(U) \in Nat
    BY <2>1, <2>3, FS_Subset, FS_CardinalityType
  <2> QED BY <2>2, <2>4, <2>5
<1>5. \A x, y \in S : rank[x] = rank[y] => x = y
  <2> HIDE DEF rank
  <2>1. ASSUME NEW x \in S, NEW y \in S, rank[x] = rank[y] PROVE ~ (<<x, y>> \in R) /\ ~ (<<y, x>> \in R)
    BY <1>1, <1>3, <1>4, <2>1
  <2> QED BY <2>1
<1>6. rank \in Injection(S, 0..(n - 1))
  <2>1. rank \in [S -> 0..(n - 1)]
    <3>1. rank = [x \in S |-> rank[x]]
      OBVIOUS
    <3> HIDE DEF rank
    <3> QED BY <1>3, <3>1
  <2> HIDE DEF rank
  <2> QED BY <1>5, <2>1 DEF Injection, IsInjective
<1>7. IsFiniteSet(0..(n - 1)) /\ Cardinality(0..(n - 1)) = n
  <2>1. n - 1 \in Int /\ (0 > n - 1 <=> n = 0) /\ (n - 1) - 0 + 1 = n
    BY <1>1
  <2> HIDE DEF n
  <2> QED BY <2>1, FS_Interval
<1>8. \A k \in 1..n : \E x \in S : rank[x] = k - 1
  <2> HIDE DEF rank
  <2>1. rank \in Surjection(S, 0..(n - 1))
    BY <1>1, <1>6, <1>7, FS_Injection
  <2>2. \A j \in 0..(n - 1) : \E x \in S : rank[x] = j
    BY <2>1 DEF Surjection
  <2>3. \A k \in 1..n : k - 1 \in 0..(n - 1)
    BY <1>1
  <2> QED BY <2>2, <2>3
<1> DEFINE pick(k) == CHOOSE x \in S : Cardinality(below(x)) = k - 1
<1>a. s = [k \in 1..n |-> pick(k)]
  BY Zenon DEF Listing
<1>b. ASSUME NEW k \in 1..n PROVE pick(k) \in S /\ rank[pick(k)] = k - 1
  <2>1. \E x \in S : Cardinality(below(x)) = k - 1
    BY <1>8, <1>b
  <2>2. pick(k) \in S /\ Cardinality(below(pick(k))) = k - 1
    BY Zenon, <2>1
  <2> QED BY <2>2
<1> HIDE DEF rank, pick, n, s
<1>9. ASSUME NEW k \in 1..n PROVE s[k] \in S /\ rank[s[k]] = k - 1
  BY <1>a, <1>b
<1>10. s \in [1..n -> S]
  BY <1>a, <1>b
<1>11. ASSUME NEW i \in 1..n, NEW j \in 1..n, i < j PROVE <<s[i], s[j]>> \in R
  <2>1. s[i] \in S /\ s[j] \in S /\ rank[s[i]] < rank[s[j]] /\ s[i] # s[j]
    BY <1>1, <1>9, <1>11
  <2>2. CASE <<s[j], s[i]>> \in R
    <3>1. rank[s[j]] < rank[s[i]]
      BY <1>4, <2>1, <2>2
    <3> QED BY <1>1, <1>3, <2>1, <3>1
  <2> QED BY <2>1, <2>2
<1>12. ASSUME NEW x \in S PROVE \E k \in 1..n : s[k] = x
  <2>1. rank[x] + 1 \in 1..n /\ (rank[x] + 1) - 1 = rank[x]
    BY <1>1, <1>3
  <2>2. rank[s[rank[x] + 1]] = rank[x] /\ s[rank[x] + 1] \in S
    BY <1>9, <2>1
  <2> QED BY <1>5, <2>1, <2>2
<1> QED BY <1>1, <1>10, <1>11, <1>12 DEF n, s, Lists

\* A function on the first numbers is a list, and joined to nothing it is itself.
LEMMA FunctionIsList ==
    ASSUME NEW n \in Nat, NEW S, NEW s \in [1..n -> S]
    PROVE  /\ s \o <<>> = s /\ s \in Seq(S) /\ Len(s) = n
<1>1. s \in Seq(S)
  OBVIOUS
<1>2. Len(s) \in Nat /\ DOMAIN s = 1..Len(s)
  BY <1>1, LenProperties
<1>3. Len(s) = n
  BY <1>2
<1> QED BY <1>1, <1>3, ConcatEmptySeq

\* The list of a finite set of numbers.
LEMMA NumbersListed ==
    ASSUME NEW S \in SUBSET Nat, IsFiniteSet(S)
    PROVE  /\ InOrder(S, <) \in Seq(S)
           /\ \A x \in S : \E k \in 1..Len(InOrder(S, <)) : InOrder(S, <)[k] = x
<1> DEFINE R == {p \in S \X S : p[1] < p[2]}
           s == [k \in 1..Cardinality(S) |-> CHOOSE x \in S : Cardinality({y \in S : y < x}) = k - 1]
           t == Listing(S, R)
<1>1. InOrder(S, <) = s \o <<>>
  BY DEF InOrder
<1>2. \A x, y \in S : <<x, y>> \in R <=> x < y
  OBVIOUS
<1>3. s = t
  <2> HIDE DEF R
  <2>1. \A x \in S : {y \in S : y < x} = {y \in S : <<y, x>> \in R}
    BY <1>2
  <2> DEFINE left(k) == CHOOSE x \in S : Cardinality({y \in S : y < x}) = k - 1
             right(k) == CHOOSE x \in S : Cardinality({y \in S : <<y, x>> \in R}) = k - 1
  <2>2. \A k : left(k) = right(k)
    <3>1. \A k : \A x \in S : Cardinality({y \in S : y < x}) = k - 1
                         <=> Cardinality({y \in S : <<y, x>> \in R}) = k - 1
      BY <2>1
    <3> QED BY Zenon, <3>1
  <2>3. s = [k \in 1..Cardinality(S) |-> left(k)] /\ t = [k \in 1..Cardinality(S) |-> right(k)]
    BY Zenon DEF Listing
  <2> HIDE DEF left, right, s, t
  <2> QED BY <2>2, <2>3
<1>4. /\ \A x \in S : <<x, x>> \notin R
      /\ \A x, y \in S : x = y \/ <<x, y>> \in R \/ <<y, x>> \in R
      /\ \A x, y, z \in S : <<x, y>> \in R /\ <<y, z>> \in R => <<x, z>> \in R
  <2> HIDE DEF R
  <2>1. \A x \in S : x \in Nat
    OBVIOUS
  <2> QED BY <1>2, <2>1
<1> HIDE DEF R, s
<1>5. Lists(t, S, R)
  BY <1>4, OrderLists
<1> HIDE DEF t
<1> QED BY <1>1, <1>3, <1>5, FunctionIsList DEF Lists

LEMMA ToSetIs ==
    ASSUME NEW S, NEW s \in Seq(S)
    PROVE  /\ ToSet(s) \in SUBSET S /\ IsFiniteSet(ToSet(s))
           /\ Len(s) \in Nat /\ DOMAIN s = 1..Len(s)
           /\ ToSet(s) = {s[i] : i \in 1..Len(s)}
<1>1. Len(s) \in Nat /\ DOMAIN s = 1..Len(s)
  BY LenProperties
<1>2. ToSet(s) = {s[i] : i \in 1..Len(s)}
  BY <1>1 DEF ToSet
<1>3. IsFiniteSet(1..Len(s))
  BY <1>1, FS_Interval
<1>4. IsFiniteSet({s[i] : i \in 1..Len(s)})
  BY <1>1, <1>3, ImageFinite
<1>5. \A i \in 1..Len(s) : s[i] \in S
  BY <1>1, ElementOfSeq
<1> QED BY <1>1, <1>2, <1>4, <1>5

\* The list made of each member of a list.
LEMMA EachIs ==
    ASSUME NEW S, NEW s \in Seq(S), NEW g, g = [i \in 1..Len(s) |-> g[i]]
    PROVE  /\ g \o <<>> = g /\ Len(s) \in Nat /\ Len(g) = Len(s) /\ ToSet(g) = {g[i] : i \in 1..Len(s)}
<1> DEFINE V == {g[i] : i \in 1..Len(s)}
<1>1. Len(s) \in Nat
  BY LenProperties
<1>2. g \in [1..Len(s) -> V]
  OBVIOUS
<1> HIDE DEF V
<1>3. g \o <<>> = g /\ g \in Seq(V) /\ Len(g) = Len(s)
  BY <1>1, <1>2, FunctionIsList
<1>4. ToSet(g) = {g[i] : i \in 1..Len(g)}
  BY <1>3, ToSetIs
<1> QED BY <1>1, <1>3, <1>4

LEMMA SectionsAre ==
    ASSUME NEW ss, AreSections(ss)
    PROVE  /\ DOMAIN ss \in SUBSET Nat /\ IsFiniteSet(DOMAIN ss)
           /\ \A r \in DOMAIN ss : /\ ss[r].lo \in Nat /\ ss[r].hi \in Nat /\ ss[r].excluded \in BOOLEAN
                                   /\ ss[r].cells \in Seq(STRING) /\ Len(ss[r].cells) \in Nat
                                   /\ ss[r].hi = ss[r].lo + Len(ss[r].cells)
<1>1. ss \in Seq(Section) /\ \A r \in DOMAIN ss : ss[r].hi = ss[r].lo + Len(ss[r].cells)
  BY DEF AreSections
<1>2. Len(ss) \in Nat /\ DOMAIN ss = 1..Len(ss)
  BY <1>1, LenProperties
<1>3. IsFiniteSet(1..Len(ss))
  BY <1>2, FS_Interval
<1>4. \A r \in DOMAIN ss : ss[r] \in Section
  BY <1>1, <1>2, ElementOfSeq
<1>5. \A r \in DOMAIN ss : /\ ss[r].lo \in Nat /\ ss[r].hi \in Nat /\ ss[r].excluded \in BOOLEAN
                           /\ ss[r].cells \in Seq(STRING)
  BY <1>4 DEF Section
<1>6. \A r \in DOMAIN ss : Len(ss[r].cells) \in Nat
  BY <1>5, LenProperties
<1> QED BY <1>1, <1>2, <1>3, <1>5, <1>6

LEMMA PlacesForVaAre ==
    ASSUME NEW ss, AreSections(ss), NEW va
    PROVE  /\ places_for_va(ss, va) \in SUBSET DOMAIN ss /\ IsFiniteSet(places_for_va(ss, va))
           /\ \A r \in places_for_va(ss, va) : ss[r].lo <= va /\ va < ss[r].hi
<1>1. /\ places_for_va(ss, va) \in SUBSET DOMAIN ss
      /\ \A r \in places_for_va(ss, va) : ss[r].lo <= va /\ va < ss[r].hi
  BY DEF places_for_va
<1>2. IsFiniteSet(DOMAIN ss)
  BY SectionsAre
<1> QED BY <1>1, <1>2, FS_Subset

-----------------------------------------------------------------------------
(***************************************************************************)
(* Going over a list.                                                      *)
(***************************************************************************)

\* What f makes of b in N steps, each from the one before.
IsStep(g, D, N) == g \in [D \X (1..N) -> D]
MadeInSteps(f, D, b, N, g) ==
    f \in [0..N -> D] /\ f[0] = b /\ \A n \in 1..N : f[n] = g[<<f[n - 1], n>>]

LEMMA Recursion ==
    ASSUME NEW D, NEW b \in D, NEW N \in Nat, NEW g, IsStep(g, D, N)
    PROVE  \E f : MadeInSteps(f, D, b, N, g)
<1> USE DEF IsStep
<1> DEFINE Runs(m, f) == /\ f \in [0..m -> D] /\ f[0] = b
                         /\ \A i \in 1..m : f[i] = g[<<f[i - 1], i>>]
           T == {m \in 0..N : \E f : Runs(m, f)}
<1>1. 0 \in T
  <2>1. Runs(0, [i \in 0..0 |-> b])
    OBVIOUS
  <2>2. \E f : Runs(0, f)
    <3> HIDE DEF Runs
    <3> QED BY <2>1
  <2> HIDE DEF Runs
  <2> QED BY <2>2
<1>2. ASSUME NEW m \in T, m < N PROVE m + 1 \in T
  <2>1. PICK f : Runs(m, f)
    OBVIOUS
  <2>2. m \in Nat /\ m + 1 \in 0..N /\ m + 1 \in 1..N /\ m \in 0..m
    BY <1>2
  <2> DEFINE v == g[<<f[m], m + 1>>]
             h == [i \in 0..(m + 1) |-> IF i = m + 1 THEN v ELSE f[i]]
  <2>3. v \in D
    BY <2>1, <2>2
  <2>4. \A i \in 0..m : f[i] \in D /\ i \in 0..(m + 1) /\ i # m + 1
    BY <2>1, <2>2
  <2> HIDE DEF v
  <2>5. h \in [0..(m + 1) -> D]
    <3>1. \A i \in 0..(m + 1) : i = m + 1 \/ i \in 0..m
      BY <2>2
    <3> QED BY <2>3, <2>4, <3>1
  <2>6. h[0] = b /\ h[m + 1] = v /\ \A i \in 0..m : h[i] = f[i]
    BY <2>1, <2>2, <2>4
  <2> HIDE DEF h
  <2>7. ASSUME NEW i \in 1..(m + 1) PROVE h[i] = g[<<h[i - 1], i>>]
    <3>1. i - 1 \in 0..m
      BY <2>2
    <3>2. CASE i = m + 1
      <4>1. i - 1 = m
        BY <2>2, <3>2
      <4> QED BY <2>6, <3>1, <3>2, <4>1 DEF v
    <3>3. CASE i # m + 1
      <4>1. i \in 1..m /\ i \in 0..m
        BY <2>2, <3>3
      <4> QED BY <2>1, <2>6, <3>1, <4>1
    <3> QED BY <3>2, <3>3
  <2>8. Runs(m + 1, h)
    BY <2>5, <2>6, <2>7
  <2>9. \E f1 : Runs(m + 1, f1)
    <3> HIDE DEF Runs
    <3> QED BY <2>8
  <2> HIDE DEF Runs
  <2> QED BY <2>2, <2>9
<1>3. T \in SUBSET (0..N)
  OBVIOUS
<1> HIDE DEF T
<1>4. N \in T
  BY <1>1, <1>2, <1>3, CountingUp
<1>5. PICK f : Runs(N, f)
  BY <1>4 DEF T
<1> QED BY <1>5 DEF MadeInSteps

\* The members at some places of a list.
LEMMA KeptIs ==
    ASSUME NEW S, NEW s \in Seq(S), NEW N
    PROVE  /\ Kept(s, N) \in Seq(S)
           /\ ToSet(Kept(s, N)) = {s[i] : i \in N \cap (1..Len(s))}
<1> DEFINE L == Len(s)
           D == Seq(S)
           step(t, n) == IF n \in N THEN Append(t, s[n]) ELSE t
           g == [q \in D \X (1..L) |-> step(q[1], q[2])]
           Eq(k) == k = [n \in 0..Len(s) |-> IF n = 0 THEN <<>> ELSE IF n \in N THEN Append(k[n-1], s[n]) ELSE k[n-1]]
<1>1. L \in Nat /\ \A n \in 1..L : s[n] \in S
  BY LenProperties, ElementOfSeq
<1>2. \A t \in D, n \in 1..L : step(t, n) \in D
  BY <1>1
<1>3. g \in [D \X (1..L) -> D] /\ \A t \in D, n \in 1..L : g[<<t, n>>] = step(t, n)
  <2> HIDE DEF D, L, step
  <2> QED BY <1>2
<1>4. <<>> \in D
  OBVIOUS
<1> HIDE DEF g
<1>5. PICK f : MadeInSteps(f, D, <<>>, L, g)
  <2> HIDE DEF D, L
  <2>1. IsStep(g, D, L)
    BY <1>3 DEF IsStep
  <2> QED BY <1>1, <1>4, <2>1, Recursion
<1>6. Eq(f)
  <2> USE DEF MadeInSteps
  <2>1. \A n \in 1..L : n - 1 \in 0..L /\ n # 0 /\ f[n - 1] \in D
    <3> HIDE DEF D
    <3> QED BY <1>1, <1>5
  <2>2. \A n \in 1..L : f[n] = step(f[n - 1], n)
    <3> HIDE DEF D, step
    <3> QED BY <1>3, <1>5, <2>1
  <2>3. \A n \in 0..L : n = 0 \/ n \in 1..L
    BY <1>1
  <2> QED BY <1>5, <2>2, <2>3
<1> DEFINE k == CHOOSE k : Eq(k)
<1>7. Eq(k) /\ Kept(s, N) = k[L]
  <2>1. Kept(s, N) = k[L]
    BY Zenon DEF Kept
  <2> HIDE DEF Eq
  <2> QED BY Zenon, <1>6, <2>1
<1>8. k[0] = <<>> /\ \A n \in 1..L : k[n] = step(k[n - 1], n)
  <2>1. 0 \in 0..L /\ \A n \in 1..L : n \in 0..L /\ n # 0
    BY <1>1
  <2> HIDE DEF k
  <2> QED BY <1>7, <2>1
<1> HIDE DEF k, Eq
<1> DEFINE T == {n \in 0..L : k[n] \in Seq(S) /\ ToSet(k[n]) = {s[i] : i \in N \cap (1..n)}}
<1>9. 0 \in T
  <2>1. ToSet(<<>>) = {} /\ N \cap (1..0) = {} /\ <<>> \in Seq(S)
    BY DEF ToSet
  <2>2. {s[i] : i \in N \cap (1..0)} = {} /\ 0 \in 0..L
    BY <1>1, <2>1
  <2> QED BY <1>8, <2>1, <2>2
<1>10. ASSUME NEW n \in T, n < L PROVE n + 1 \in T
  <2>1. n + 1 \in 0..L /\ n + 1 \in 1..L /\ (n + 1) - 1 = n /\ n \in Nat
    BY <1>1, <1>10
  <2>2. k[n + 1] = step(k[n], n + 1) /\ k[n] \in Seq(S) /\ s[n + 1] \in S
    BY <1>1, <1>8, <2>1
  <2> DEFINE t == k[n]
             x == s[n + 1]
  <2>3. t \in Seq(S) /\ x \in S /\ ToSet(t) = {s[i] : i \in N \cap (1..n)}
    BY <2>2
  <2>4. CASE n + 1 \in N
    <3>1. k[n + 1] = Append(t, x)
      BY <2>2, <2>4
    <3> HIDE DEF t, x
    <3>2. Append(t, x) \in Seq(S) /\ ToSet(Append(t, x)) = ToSet(t) \cup {x}
      <4>1. /\ Append(t, x) \in Seq(S) /\ Len(t) \in Nat /\ Len(Append(t, x)) = Len(t) + 1
            /\ \A i \in 1..Len(t) : Append(t, x)[i] = t[i]
            /\ Append(t, x)[Len(t) + 1] = x
        BY <2>3, AppendProperties, LenProperties
      <4> DEFINE a == Append(t, x)
      <4>2. a \in Seq(S) /\ t \in Seq(S)
        BY <2>3, <4>1
      <4> HIDE DEF a
      <4>3. ToSet(a) = {a[i] : i \in 1..Len(a)} /\ ToSet(t) = {t[i] : i \in 1..Len(t)}
        BY Zenon, <4>2, ToSetIs
      <4>4. \A i : i \in 1..(Len(t) + 1) <=> i \in 1..Len(t) \/ i = Len(t) + 1
        BY <4>1
      <4>5. /\ Len(a) = Len(t) + 1 /\ a[Len(t) + 1] = x
            /\ \A i \in 1..Len(t) : a[i] = t[i]
        BY <4>1 DEF a
      <4>6. ToSet(a) = ToSet(t) \cup {x}
        BY <4>3, <4>4, <4>5
      <4> QED BY <4>1, <4>6 DEF a
    <3>3. N \cap (1..(n + 1)) = (N \cap (1..n)) \cup {n + 1}
      BY <2>1, <2>4
    <3>4. {s[i] : i \in N \cap (1..(n + 1))} = {s[i] : i \in N \cap (1..n)} \cup {x}
      BY <3>3 DEF x
    <3> QED BY <2>1, <2>3, <3>1, <3>2, <3>4
  <2>5. CASE n + 1 \notin N
    <3>1. N \cap (1..(n + 1)) = N \cap (1..n)
      BY <2>1, <2>5
    <3> QED BY <2>1, <2>2, <2>3, <2>5, <3>1
  <2> QED BY <2>4, <2>5
<1>11. T \in SUBSET (0..L)
  OBVIOUS
<1> HIDE DEF T
<1>12. L \in T
  BY <1>1, <1>9, <1>10, <1>11, CountingUp
<1> QED BY <1>7, <1>12 DEF T

LEMMA ConcatIs ==
    ASSUME NEW S, NEW t \in Seq(S), NEW u \in Seq(S)
    PROVE  t \o u \in Seq(S) /\ ToSet(t \o u) = ToSet(t) \cup ToSet(u)
<1> DEFINE a == t \o u
<1>1. /\ a \in Seq(S) /\ Len(t) \in Nat /\ Len(u) \in Nat /\ Len(a) = Len(t) + Len(u)
      /\ \A i \in 1..Len(a) : a[i] = IF i <= Len(t) THEN t[i] ELSE u[i - Len(t)]
  BY ConcatProperties, LenProperties
<1> HIDE DEF a
<1>2. /\ ToSet(a) = {a[i] : i \in 1..Len(a)} /\ ToSet(t) = {t[i] : i \in 1..Len(t)}
      /\ ToSet(u) = {u[i] : i \in 1..Len(u)}
  BY <1>1, ToSetIs
<1>3. ASSUME NEW x \in ToSet(a) PROVE x \in ToSet(t) \cup ToSet(u)
  <2>1. PICK i \in 1..Len(a) : x = a[i]
    BY <1>2
  <2>2. CASE i <= Len(t)
    <3>1. i \in 1..Len(t) /\ x = t[i]
      BY <1>1, <2>1, <2>2
    <3> QED BY <1>2, <3>1
  <2>3. CASE ~ (i <= Len(t))
    <3>1. i - Len(t) \in 1..Len(u) /\ x = u[i - Len(t)]
      BY <1>1, <2>1, <2>3
    <3> QED BY <1>2, <3>1
  <2> QED BY <2>2, <2>3
<1>4. ASSUME NEW x \in ToSet(t) PROVE x \in ToSet(a)
  <2>1. PICK i \in 1..Len(t) : x = t[i]
    BY <1>2
  <2>2. i \in 1..Len(a) /\ a[i] = x
    BY <1>1, <2>1
  <2> QED BY <1>2, <2>2
<1>5. ASSUME NEW x \in ToSet(u) PROVE x \in ToSet(a)
  <2>1. PICK i \in 1..Len(u) : x = u[i]
    BY <1>2
  <2>2. i + Len(t) \in 1..Len(a) /\ ~ (i + Len(t) <= Len(t)) /\ (i + Len(t)) - Len(t) = i
    BY <1>1, <2>1
  <2>3. a[i + Len(t)] = x
    BY <1>1, <2>1, <2>2
  <2> QED BY <1>2, <2>2, <2>3
<1> QED BY <1>1, <1>3, <1>4, <1>5 DEF a

\* The lists of a list, one after another.
LEMMA FlattenIs ==
    ASSUME NEW S, NEW ss \in Seq(Seq(S))
    PROVE  /\ FlattenSeq(ss) \in Seq(S)
           /\ ToSet(FlattenSeq(ss)) = UNION {ToSet(ss[i]) : i \in 1..Len(ss)}
<1> DEFINE L == Len(ss)
           D == Seq(S)
<1>1. L \in Nat /\ \A n \in 1..L : ss[n] \in D
  BY LenProperties, ElementOfSeq
<1>2. CASE L = 0
  <2>1. ss = <<>> /\ FlattenSeq(ss) = ss
    BY <1>2, EmptySeq DEF FlattenSeq
  <2>2. ToSet(<<>>) = {} /\ \A i : i \notin 1..0
    BY DEF ToSet
  <2>3. UNION {ToSet(ss[i]) : i \in 1..0} = {}
    BY <2>2
  <2>4. <<>> \in Seq(S)
    OBVIOUS
  <2> QED BY <1>2, <2>1, <2>2, <2>3, <2>4
<1>3. CASE L # 0
  <2> DEFINE M == L - 1
             g == [q \in D \X (1..M) |-> q[1] \o ss[q[2] + 1]]
             Eq(k) == k = [i \in 1..Len(ss) |-> IF i = 1 THEN ss[i] ELSE k[i - 1] \o ss[i]]
  <2>1. M \in Nat /\ L = M + 1 /\ \A n \in 1..M : n + 1 \in 1..L
    BY <1>1, <1>3
  <2>2. \A t \in D, n \in 1..M : t \o ss[n + 1] \in D
    BY <1>1, <2>1, ConcatProperties
  <2>3. IsStep(g, D, M) /\ \A t \in D, n \in 1..M : g[<<t, n>>] = t \o ss[n + 1]
    <3> HIDE DEF D, M
    <3> QED BY <2>2 DEF IsStep
  <2>4. ss[1] \in D
    BY <1>1, <2>1
  <2> HIDE DEF g
  <2>5. PICK f : MadeInSteps(f, D, ss[1], M, g)
    <3> HIDE DEF D, M
    <3> QED BY <2>1, <2>3, <2>4, Recursion
  <2> DEFINE h == [i \in 1..L |-> f[i - 1]]
  <2>6. Eq(h)
    <3>1. f[0] = ss[1] /\ \A n \in 1..M : f[n] = g[<<f[n - 1], n>>] /\ f[n - 1] \in D
      <4>1. \A n \in 1..M : n - 1 \in 0..M
        BY <2>1
      <4> HIDE DEF D, M
      <4> QED BY <2>5, <4>1 DEF MadeInSteps
    <3>2. \A n \in 1..M : f[n] = f[n - 1] \o ss[n + 1]
      <4> HIDE DEF D, M
      <4> QED BY <2>3, <3>1
    <3>3. \A i \in 1..L : i # 1 => i - 1 \in 1..M /\ i - 1 \in 1..L /\ (i - 1) + 1 = i
      BY <2>1
    <3>4. \A i \in 1..L : i = 1 => i - 1 = 0
      BY <2>1
    <3>5. \A i \in 1..L : i # 1 => h[i] = h[i - 1] \o ss[i]
      BY <3>2, <3>3
    <3>6. \A i \in 1..L : i = 1 => h[i] = ss[i]
      BY <3>1, <3>4
    <3> QED BY <3>5, <3>6
  <2> HIDE DEF h
  <2> DEFINE k == CHOOSE k : Eq(k)
  <2>7. Eq(k) /\ FlattenSeq(ss) = k[L]
    <3>1. FlattenSeq(ss) = k[L]
      BY Zenon, <1>3 DEF FlattenSeq
    <3> HIDE DEF Eq
    <3> QED BY Zenon, <2>6, <3>1
  <2>8. k[1] = ss[1] /\ \A n \in 1..L : n # 1 => k[n] = k[n - 1] \o ss[n]
    <3>1. 1 \in 1..L
      BY <2>1
    <3> HIDE DEF k
    <3> QED BY <2>7, <3>1
  <2> HIDE DEF k, Eq
  <2> DEFINE U(n) == UNION {ToSet(ss[i]) : i \in 1..n}
             T == {n \in 0..M : k[n + 1] \in D /\ ToSet(k[n + 1]) = U(n + 1)}
  <2>9. 0 \in T
    <3>1. U(1) = ToSet(ss[1]) /\ 0 \in 0..M /\ 0 + 1 = 1
      <4>1. 1..1 = {1} /\ 0 \in 0..M /\ 0 + 1 = 1
        BY <2>1
      <4> QED BY <4>1
    <3> HIDE DEF D
    <3> QED BY <2>4, <2>8, <3>1
  <2>10. ASSUME NEW n \in T, n < M PROVE n + 1 \in T
    <3>1. n \in Nat /\ n + 1 \in 0..M /\ (n + 1) + 1 \in 1..L /\ (n + 1) + 1 # 1 /\ ((n + 1) + 1) - 1 = n + 1
      BY <2>1, <2>10
    <3> DEFINE m == n + 1
               t == k[m]
               u == ss[m + 1]
    <3>2. k[m + 1] = t \o u /\ t \in D /\ u \in D /\ ToSet(t) = U(m)
      BY <1>1, <2>8, <3>1
    <3>3. U(m + 1) = U(m) \cup ToSet(u)
      <4>1. 1..(m + 1) = (1..m) \cup {m + 1}
        BY <3>1
      <4> HIDE DEF m
      <4> QED BY <4>1
    <3> HIDE DEF t, u, U
    <3>4. t \o u \in D /\ ToSet(t \o u) = ToSet(t) \cup ToSet(u)
      BY <3>2, ConcatIs
    <3> HIDE DEF D
    <3> QED BY <3>1, <3>2, <3>3, <3>4
  <2>11. T \in SUBSET (0..M)
    OBVIOUS
  <2>12. T = 0..M
    <3> HIDE DEF M, T
    <3> QED BY <2>1, <2>9, <2>10, <2>11, CountingUp
  <2>13. k[L] \in D /\ ToSet(k[L]) = U(L)
    <3>1. M \in T /\ M + 1 = L
      <4> HIDE DEF T, M
      <4> QED BY <2>1, <2>12
    <3> HIDE DEF M, D, U
    <3> QED BY <3>1
  <2> QED BY <2>7, <2>13
<1> QED BY <1>2, <1>3

\* A stable sort: the places in the order of what is there.
ComesBefore(s, R, i, j) == <<s[i], s[j]>> \in R \/ (<<s[j], s[i]>> \notin R /\ i < j)
PlacesBefore(s, R) == {q \in (DOMAIN s) \X (DOMAIN s) : ComesBefore(s, R, q[1], q[2])}
Sorted(s, R) == [k \in 1..Len(s) |-> s[Listing(DOMAIN s, PlacesBefore(s, R))[k]]]

LEMMA PlacesBeforeAre ==
    ASSUME NEW s, NEW R, NEW i \in DOMAIN s, NEW j \in DOMAIN s
    PROVE  <<i, j>> \in PlacesBefore(s, R) <=> ComesBefore(s, R, i, j)
BY DEF PlacesBefore

LEMMA SortedIs ==
    ASSUME NEW S, NEW s \in Seq(S), NEW R,
           \A x \in S : <<x, x>> \notin R,
           \A x, y, z \in S : <<x, y>> \in R /\ <<y, z>> \in R => <<x, z>> \in R,
           \A x, y, z \in S : <<x, y>> \notin R /\ <<y, z>> \notin R => <<x, z>> \notin R
    PROVE  /\ Listing(DOMAIN s, PlacesBefore(s, R)) \o <<>> = Listing(DOMAIN s, PlacesBefore(s, R))
           /\ Len(Listing(DOMAIN s, PlacesBefore(s, R))) = Len(s)
           /\ Sorted(s, R) \o <<>> = Sorted(s, R)
           /\ Sorted(s, R) \in Seq(S)
           /\ Len(Sorted(s, R)) = Len(s) /\ Len(s) \in Nat
           /\ ToSet(Sorted(s, R)) = ToSet(s)
           /\ \A i, j \in 1..Len(s) : i < j => <<Sorted(s, R)[j], Sorted(s, R)[i]>> \notin R
<1> DEFINE D == DOMAIN s
           B == PlacesBefore(s, R)
           list == Listing(D, B)
           n == Len(s)
           u == Sorted(s, R)
<1>1. n \in Nat /\ D = 1..n /\ \A i \in D : s[i] \in S
  BY LenProperties, ElementOfSeq
<1>2. IsFiniteSet(D) /\ Cardinality(D) = n
  <2>1. n = 0 \/ ~ (1 > n)
    BY <1>1
  <2>2. IsFiniteSet(1..n) /\ Cardinality(1..n) = n
    <3> HIDE DEF n, D
    <3> QED BY <1>1, <2>1, FS_Interval
  <2> HIDE DEF n, D
  <2> QED BY <1>1, <2>2
<1>3. \A i, j \in D : <<i, j>> \in B <=> <<s[i], s[j]>> \in R \/ (<<s[j], s[i]>> \notin R /\ i < j)
  <2>1. \A i, j \in D : <<i, j>> \in B <=> ComesBefore(s, R, i, j)
    BY PlacesBeforeAre
  <2> HIDE DEF B, D
  <2> QED BY <2>1 DEF ComesBefore
<1> HIDE DEF B, list, n, D
<1>4. Lists(list, D, B)
  <2>1. ASSUME NEW i \in D PROVE <<i, i>> \notin B
    <3>1. s[i] \in S /\ i \in Nat
      BY <1>1
    <3>2. <<s[i], s[i]>> \notin R
      BY <3>1
    <3> QED BY <1>3, <3>1, <3>2
  <2>2. ASSUME NEW i \in D, NEW j \in D PROVE i = j \/ <<i, j>> \in B \/ <<j, i>> \in B
    <3>1. i \in Nat /\ j \in Nat
      BY <1>1
    <3>2. <<i, j>> \in B <=> <<s[i], s[j]>> \in R \/ (<<s[j], s[i]>> \notin R /\ i < j)
      BY <1>3
    <3>3. <<j, i>> \in B <=> <<s[j], s[i]>> \in R \/ (<<s[i], s[j]>> \notin R /\ j < i)
      BY <1>3
    <3> QED BY <3>1, <3>2, <3>3
  <2>3. ASSUME NEW i \in D, NEW j \in D, NEW k \in D, <<i, j>> \in B, <<j, k>> \in B PROVE <<i, k>> \in B
    <3> DEFINE x == s[i]
               y == s[j]
               z == s[k]
    <3>1. x \in S /\ y \in S /\ z \in S /\ i \in Nat /\ j \in Nat /\ k \in Nat
      BY <1>1
    <3>2. <<x, y>> \in R \/ (<<y, x>> \notin R /\ i < j)
      BY <1>3, <2>3
    <3>3. <<y, z>> \in R \/ (<<z, y>> \notin R /\ j < k)
      BY <1>3, <2>3
    <3>4. <<i, k>> \in B <=> <<x, z>> \in R \/ (<<z, x>> \notin R /\ i < k)
      BY <1>3
    <3> HIDE DEF x, y, z
    <3> QED BY <3>1, <3>2, <3>3, <3>4
  <2> QED BY <1>2, <2>1, <2>2, <2>3, OrderLists DEF list
<1>5. /\ list \in [1..n -> D]
      /\ \A i, j \in 1..n : i < j => <<list[i], list[j]>> \in B
      /\ \A i \in D : \E k \in 1..n : list[k] = i
  BY <1>2, <1>4 DEF Lists
<1>6. list \o <<>> = list /\ Len(list) = n
  BY <1>1, <1>5, FunctionIsList
<1>7. u = [k \in 1..n |-> s[list[k]]]
  BY DEF Sorted, list, B, D, n
<1> HIDE DEF u
<1>8. u \in [1..n -> S]
  BY <1>1, <1>5, <1>7
<1>9. u \o <<>> = u /\ u \in Seq(S) /\ Len(u) = n
  BY <1>1, <1>8, FunctionIsList
<1>10. ToSet(u) = {u[i] : i \in 1..n} /\ ToSet(s) = {s[i] : i \in D}
  BY <1>1, <1>9, ToSetIs DEF n
<1>11. ToSet(u) = ToSet(s)
  BY <1>5, <1>7, <1>10
<1>12. ASSUME NEW i \in 1..n, NEW j \in 1..n, i < j PROVE <<u[j], u[i]>> \notin R
  <2> DEFINE x == s[list[i]]
             y == s[list[j]]
  <2>1. u[i] = x /\ u[j] = y /\ x \in S /\ y \in S
    BY <1>1, <1>5, <1>7
  <2>2. <<x, y>> \in R \/ <<y, x>> \notin R
    BY <1>3, <1>5, <1>12
  <2> HIDE DEF x, y
  <2> QED BY <2>1, <2>2
<1> QED BY <1>1, <1>6, <1>9, <1>11, <1>12 DEF list, n, u, B, D

\* Of the members with one key the first is kept.
LEMMA FirstsAre ==
    ASSUME NEW S, NEW s \in Seq(S), NEW keys
    PROVE  /\ Firsts(s, keys) \in Seq(S) /\ ToSet(Firsts(s, keys)) \in SUBSET ToSet(s)
           /\ \A i \in 1..Len(s) : \E j \in 1..Len(s) : s[j] \in ToSet(Firsts(s, keys)) /\ keys[j] = keys[i]
<1> DEFINE N == {i \in DOMAIN s : \A j \in 1..(i - 1) : keys[j] # keys[i]}
<1>1. Len(s) \in Nat /\ DOMAIN s = 1..Len(s) /\ ToSet(s) = {s[i] : i \in 1..Len(s)}
  BY ToSetIs
<1>2. Firsts(s, keys) = Kept(s, N)
  BY Zenon DEF Firsts
<1>3. Kept(s, N) \in Seq(S) /\ ToSet(Kept(s, N)) = {s[i] : i \in N \cap (1..Len(s))}
  <2> HIDE DEF N
  <2> QED BY KeptIs
<1>4. ASSUME NEW i \in 1..Len(s) PROVE \E j \in N : keys[j] = keys[i]
  <2> DEFINE same == {j \in 1..Len(s) : keys[j] = keys[i]}
  <2>1. same \in SUBSET Nat /\ same # {}
    BY <1>1
  <2>2. PICK j \in same : \A k \in same : j <= k
    <3> HIDE DEF same
    <3> QED BY <2>1, LeastExists
  <2>3. j \in 1..Len(s) /\ keys[j] = keys[i]
    BY <2>2
  <2>4. \A k \in 1..(j - 1) : k \in 1..Len(s) /\ ~ (j <= k)
    BY <1>1, <2>3
  <2>5. \A k \in 1..(j - 1) : keys[k] # keys[j]
    BY <2>2, <2>3, <2>4
  <2> QED BY <1>1, <2>3, <2>5
<1>5. N \in SUBSET (1..Len(s))
  BY <1>1
<1> HIDE DEF N
<1>6. \A j \in N : s[j] \in ToSet(Kept(s, N))
  BY <1>3, <1>5
<1>7. ToSet(Kept(s, N)) \in SUBSET ToSet(s)
  BY <1>1, <1>3
<1> QED BY <1>2, <1>3, <1>4, <1>5, <1>6, <1>7

-----------------------------------------------------------------------------
(***************************************************************************)
(* The static data of a program.                                           *)
(***************************************************************************)

Arrays ==
    [id : {0}, section : Nat, lo : Nat, size : Nat, bytes : Seq(STRING), refs : SUBSET STRING,
     reasons : SUBSET {"large_copy_source", "referenced_global_data"}]
Windows == {a \in Arrays : Len(a.bytes) = a.size /\ a.size <= MAX_ARRAY_WINDOW}

LEMMA PlaceIs ==
    ASSUME NEW ss, AreSections(ss), NEW va, NEW r \in places_for_va(ss, va)
    PROVE  place_for_va(ss, va) = r /\ r \in Nat /\ r \in DOMAIN ss
<1>1. ss \in Seq(Section) /\ \A q, t \in DOMAIN ss : ss[q].header = ss[t].header => q = t
  BY DEF AreSections
<1>2. \A q \in DOMAIN ss : ss[q] \in Section
  BY <1>1, ElementOfSeq, LenProperties
<1>3. \A q \in DOMAIN ss : ss[q].header \in Nat
  BY <1>2 DEF Section
<1>4. ASSUME NEW q \in places_for_va(ss, va) PROVE q = r
  <2>1. q \in DOMAIN ss /\ r \in DOMAIN ss
    BY PlacesForVaAre
  <2>2. ss[q].header <= ss[r].header /\ ss[r].header <= ss[q].header
    BY DEF places_for_va
  <2>3. ss[q].header = ss[r].header
    BY <1>3, <2>1, <2>2
  <2> QED BY <1>1, <2>1, <2>3
<1>5. place_for_va(ss, va) \in places_for_va(ss, va)
  BY DEF place_for_va
<1> QED BY <1>4, <1>5, PlacesForVaAre, SectionsAre

\* The functions the analyzer finds, and their code.
LEMMA ScannedAre ==
    ASSUME NEW p \in Programs
    PROVE  /\ scanned_functions(p) \in Seq(STRING)
           /\ \A f \in ToSet(scanned_functions(p)) : p.code[f] \in Seq(Instruction)
<1> DEFINE order == p.graph.order
           N == {n \in 1..Len(order) : order[n] \notin p.missing}
           list == InOrder(N, <)
           F == {f \in ToSet(order) : f \notin p.missing /\ f \in STRING}
           g == [i \in 1..Len(list) |-> order[list[i]]]
<1>1. order \in Seq(STRING) /\ \A f \in ToSet(order) \ p.missing : p.code[f] \in Seq(Instruction)
  BY ProgramsAssumption
<1>2. scanned_functions(p) = g \o <<>>
  BY Zenon DEF scanned_functions, Each
<1> HIDE DEF order
<1>3. Len(order) \in Nat /\ ToSet(order) = {order[n] : n \in 1..Len(order)} /\ ToSet(order) \in SUBSET STRING
  BY <1>1, ToSetIs
<1>4. N \in SUBSET Nat /\ IsFiniteSet(N) /\ \A n \in N : order[n] \in F
  <2>1. N \in SUBSET (1..Len(order))
    OBVIOUS
  <2>2. \A n \in N : order[n] \in F
    BY <1>3
  <2> HIDE DEF N, F
  <2>3. IsFiniteSet(1..Len(order)) /\ 1..Len(order) \in SUBSET Nat
    BY <1>3, FS_Interval
  <2>4. IsFiniteSet(N)
    BY <2>1, <2>3, FS_Subset
  <2> QED BY <2>1, <2>2, <2>3, <2>4
<1> HIDE DEF N, F
<1>5. list \in Seq(N)
  BY <1>4, NumbersListed
<1> HIDE DEF list
<1>6. Len(list) \in Nat /\ \A i \in 1..Len(list) : list[i] \in N
  BY <1>5, LenProperties, ElementOfSeq
<1>7. g \in [1..Len(list) -> F] /\ g \in [1..Len(list) -> STRING]
  <2>1. \A i \in 1..Len(list) : order[list[i]] \in F /\ order[list[i]] \in STRING
    BY <1>4, <1>6 DEF F
  <2> QED BY <2>1
<1> HIDE DEF g
<1>8. scanned_functions(p) \in Seq(F)
  BY <1>2, <1>6, <1>7, FunctionIsList
<1>9. ToSet(scanned_functions(p)) \in SUBSET F
  BY <1>8, ToSetIs
<1>10. scanned_functions(p) \in Seq(STRING)
  BY <1>2, <1>6, <1>7, FunctionIsList
<1> QED BY <1>1, <1>9, <1>10 DEF F, order

\* An instruction that refers to data has its function among those that refer to it.
LEMMA ReferencesAre ==
    ASSUME NEW p \in Programs, NEW refs, refs = collect_data_references(p)
    PROVE  /\ DOMAIN refs \in SUBSET Nat /\ IsFiniteSet(DOMAIN refs)
           /\ \A va \in DOMAIN refs : refs[va] \in SUBSET STRING /\ places_for_va(p.sections, va) # {}
           /\ \A f \in ToSet(scanned_functions(p)) : \A i \in ToSet(p.code[f]) :
                \A r \in places_for_va(p.sections, i.imm) :
                    (i.src = "imm" \/ i.mem = "global") /\ ~p.sections[r].excluded
                    => i.imm \in DOMAIN refs /\ f \in refs[i.imm]
<1> DEFINE ss == p.sections
           functions == ToSet(scanned_functions(p))
           Refers(x) == /\ x.src = "imm" \/ x.mem = "global"
                        /\ places_for_va(ss, x.imm) # {}
                        /\ ~ss[place_for_va(ss, x.imm)].excluded
           named(f) == {i.imm : i \in {x \in ToSet(p.code[f]) : Refers(x)}}
<1>1. refs = [a \in UNION {named(f) : f \in functions} |-> {f \in functions : a \in named(f)}]
  BY Zenon DEF collect_data_references
<1>2. AreSections(ss)
  BY ProgramsAssumption
<1>3. /\ functions \in SUBSET STRING /\ IsFiniteSet(functions)
      /\ \A f \in functions : p.code[f] \in Seq(Instruction)
  BY ScannedAre, ToSetIs
<1> HIDE DEF functions, ss
<1>4. ASSUME NEW f \in functions
      PROVE  /\ IsFiniteSet(named(f))
             /\ \A a \in named(f) : a \in Nat /\ places_for_va(ss, a) # {}
  <2> DEFINE I == {x \in ToSet(p.code[f]) : Refers(x)}
             imm == [i \in I |-> i.imm]
  <2>1. ToSet(p.code[f]) \in SUBSET Instruction /\ IsFiniteSet(ToSet(p.code[f]))
    BY <1>3, ToSetIs
  <2>2. I \in SUBSET ToSet(p.code[f])
    OBVIOUS
  <2>3. IsFiniteSet(I)
    <3> HIDE DEF I
    <3> QED BY <2>1, <2>2, FS_Subset
  <2>4. IsFiniteSet({imm[i] : i \in I})
    <3> HIDE DEF I
    <3>1. I \subseteq DOMAIN imm
      OBVIOUS
    <3> HIDE DEF imm
    <3> QED BY <2>3, <3>1, ImageFinite
  <2>5. {imm[i] : i \in I} = named(f)
    <3>1. named(f) = {i.imm : i \in I}
      OBVIOUS
    <3> HIDE DEF I, named
    <3> QED BY <3>1
  <2>6. ASSUME NEW a \in named(f) PROVE a \in Nat /\ places_for_va(ss, a) # {}
    <3>1. PICK i \in I : a = i.imm
      OBVIOUS
    <3>2. i \in Instruction /\ places_for_va(ss, a) # {}
      BY <2>1, <3>1
    <3>3. PICK r \in places_for_va(ss, a) : TRUE
      BY <3>2
    <3>4. r \in DOMAIN ss /\ ss[r].lo <= a /\ ss[r].lo \in Nat
      BY <1>2, PlacesForVaAre, SectionsAre
    <3>5. a \in Int
      BY <3>1, <3>2 DEF Instruction
    <3> QED BY <3>2, <3>4, <3>5
  <2> HIDE DEF named
  <2> QED BY <2>4, <2>5, <2>6
<1> HIDE DEF named
<1>5. DOMAIN refs = UNION {named(f) : f \in functions}
  BY <1>1
<1>6. IsFiniteSet(UNION {named(f) : f \in functions})
  <2> DEFINE nm == [f \in functions |-> named(f)]
  <2>1. {nm[f] : f \in functions} = {named(f) : f \in functions} /\ functions \subseteq DOMAIN nm
    OBVIOUS
  <2> HIDE DEF nm
  <2>2. IsFiniteSet({nm[f] : f \in functions})
    BY <1>3, <2>1, ImageFinite
  <2>3. \A T \in {named(f) : f \in functions} : IsFiniteSet(T)
    BY <1>4
  <2> QED BY <2>1, <2>2, <2>3, FS_UNION
<1>7. ASSUME NEW va \in DOMAIN refs
      PROVE  va \in Nat /\ refs[va] \in SUBSET STRING /\ places_for_va(ss, va) # {}
  <2>1. PICK f \in functions : va \in named(f)
    BY <1>5
  <2>2. refs[va] \in SUBSET functions
    BY <1>1
  <2> QED BY <1>3, <1>4, <2>1, <2>2
<1>8. ASSUME NEW f \in functions, NEW i \in ToSet(p.code[f]), NEW r \in places_for_va(ss, i.imm),
             i.src = "imm" \/ i.mem = "global", ~ss[r].excluded
      PROVE  i.imm \in DOMAIN refs /\ f \in refs[i.imm]
  <2>1. place_for_va(ss, i.imm) = r /\ places_for_va(ss, i.imm) # {}
    BY <1>2, PlaceIs
  <2>2. i.imm \in named(f)
    BY <1>8, <2>1 DEF named
  <2> QED BY <1>1, <1>5, <2>2
<1> QED BY <1>5, <1>6, <1>7, <1>8 DEF functions, ss

\* The window around an address covers it.
LEMMA WindowIs ==
    ASSUME NEW ss, AreSections(ss), NEW va \in Nat, NEW r \in places_for_va(ss, va),
           NEW fs \in SUBSET STRING, NEW w, w = window_around(ss, va, fs)
    PROVE  /\ w \in Windows
           /\ w.section = r /\ w.refs = fs /\ w.bytes = window_bytes(ss[r], va)
           /\ w.lo <= va /\ va < w.lo + w.size
<1> DEFINE section == ss[r]
           start == window_start(section, va)
           bytes == window_bytes(section, va)
           end == Least(start + DEFAULT_ARRAY_WINDOW, section.hi)
<1>1. place_for_va(ss, va) = r /\ r \in Nat /\ r \in DOMAIN ss
  BY PlaceIs
<1>2. /\ section.lo \in Nat /\ section.hi \in Nat /\ section.cells \in Seq(STRING)
      /\ section.hi = section.lo + Len(section.cells) /\ Len(section.cells) \in Nat
      /\ section.lo <= va /\ va < section.hi
  BY <1>1, SectionsAre, PlacesForVaAre
<1>3. /\ ALIGNMENT \in Nat \ {0} /\ DEFAULT_ARRAY_WINDOW \in Nat /\ MAX_ARRAY_WINDOW \in Nat
      /\ ALIGNMENT <= DEFAULT_ARRAY_WINDOW /\ DEFAULT_ARRAY_WINDOW <= MAX_ARRAY_WINDOW
  BY WindowsAssumption
<1>4. w = _array(r, start, Len(bytes), bytes, fs, "referenced_global_data")
  BY Zenon, <1>1 DEF window_around
<1>5. bytes = SubSeq(section.cells, start - section.lo + 1, end - section.lo)
  BY Zenon DEF window_bytes, cells
<1> HIDE DEF section
<1>6. start \in Nat /\ start <= va /\ section.lo <= start /\ va < start + DEFAULT_ARRAY_WINDOW
  <2>1. va % ALIGNMENT \in Nat /\ va % ALIGNMENT < ALIGNMENT /\ va % ALIGNMENT <= va
    BY <1>3
  <2> DEFINE d == va % ALIGNMENT
  <2>2. align_down(va) = va - d
    BY DEF align_down
  <2> HIDE DEF d
  <2>3. d \in Nat /\ d < ALIGNMENT /\ d <= va
    BY <2>1 DEF d
  <2> QED BY <1>2, <1>3, <2>2, <2>3 DEF window_start
<1>7. end \in Nat /\ va < end /\ end <= start + DEFAULT_ARRAY_WINDOW /\ end <= section.hi
  <2> HIDE DEF start
  <2> QED BY <1>2, <1>3, <1>6 DEF Least
<1> HIDE DEF start, end, bytes
<1>8. /\ start - section.lo + 1 >= 1 /\ start - section.lo + 1 <= end - section.lo
      /\ start - section.lo + 1 \in Int /\ end - section.lo \in Int
      /\ end - section.lo <= Len(section.cells)
      /\ (end - section.lo) - (start - section.lo + 1) + 1 = end - start
  <2> DEFINE lo == section.lo
             hi == section.hi
             n == Len(section.cells)
  <2>1. lo \in Nat /\ hi = lo + n /\ n \in Nat
    BY <1>2
  <2>2. start \in Nat /\ end \in Nat /\ lo <= start /\ start <= va /\ va < end /\ end <= hi
    BY <1>6, <1>7
  <2> HIDE DEF lo, hi, n
  <2>3. /\ start - lo + 1 >= 1 /\ start - lo + 1 <= end - lo
        /\ start - lo + 1 \in Int /\ end - lo \in Int
        /\ end - lo <= n /\ (end - lo) - (start - lo + 1) + 1 = end - start
    BY <2>1, <2>2
  <2> QED BY <2>3 DEF lo, hi, n
<1>9. bytes \in Seq(STRING) /\ Len(bytes) = end - start
  <2> DEFINE c == section.cells
             m == start - section.lo + 1
             n == end - section.lo
  <2>1. c \in Seq(STRING) /\ Len(c) \in Nat /\ m \in Int /\ n \in Int /\ 1 <= m /\ m <= n /\ n <= Len(c)
    BY <1>2, <1>8
  <2>2. bytes = SubSeq(c, m, n) /\ n - m + 1 = end - start
    BY <1>5, <1>8
  <2> HIDE DEF c, m, n
  <2>3. \A i \in m..n : c[i] \in STRING
    BY <2>1, ElementOfSeq
  <2> QED BY <2>1, <2>2, <2>3, SubSeqProperties
<1>10. Len(bytes) \in Nat /\ Len(bytes) <= MAX_ARRAY_WINDOW /\ va < start + Len(bytes)
  BY <1>3, <1>6, <1>7, <1>9
<1>11. w = [id |-> 0, section |-> r, lo |-> start, size |-> Len(bytes), bytes |-> bytes, refs |-> fs,
            reasons |-> {"referenced_global_data"}]
  BY <1>4 DEF _array
<1>12. w \in Windows
  <2>1. {"referenced_global_data"} \in SUBSET {"large_copy_source", "referenced_global_data"}
    OBVIOUS
  <2>2. w \in Arrays
    BY <1>1, <1>6, <1>9, <1>10, <1>11, <2>1 DEF Arrays
  <2>3. w.bytes = bytes /\ w.size = Len(bytes)
    BY <1>11
  <2> QED BY <1>10, <2>2, <2>3 DEF Windows
<1> QED BY <1>6, <1>10, <1>11, <1>12 DEF bytes, section

-----------------------------------------------------------------------------
(***************************************************************************)
(* Windows that meet are merged.                                           *)
(***************************************************************************)

\* A window is held by one that starts no later, ends no earlier or is as long as a window may be,
\* and names the functions of both; a window begins another that has grown from it.
Holds(a, w) ==
    /\ a.section = w.section /\ a.lo <= w.lo /\ w.refs \in SUBSET a.refs
    /\ w.lo + w.size <= a.lo + a.size \/ a.size = MAX_ARRAY_WINDOW
Begins(w, a) == a.section = w.section /\ a.lo = w.lo /\ w.size <= a.size

LEMMA WindowHas ==
    ASSUME NEW a \in Windows
    PROVE  /\ a \in Arrays /\ a.id = 0 /\ a.section \in Nat /\ a.lo \in Nat /\ a.size \in Nat
           /\ a.bytes \in Seq(STRING) /\ a.refs \in SUBSET STRING
           /\ a.reasons \in SUBSET {"large_copy_source", "referenced_global_data"}
           /\ Len(a.bytes) = a.size /\ a.size <= MAX_ARRAY_WINDOW
<1>1. a \in Arrays /\ Len(a.bytes) = a.size /\ a.size <= MAX_ARRAY_WINDOW
  BY DEF Windows
<1> QED BY <1>1 DEF Arrays

LEMMA MergeIs ==
    ASSUME NEW a \in Windows, NEW w \in Windows, a.section = w.section, w.lo <= a.lo + a.size,
           NEW m, m = merge_windows(a, w)
    PROVE  /\ m \in Windows /\ m.section = a.section /\ m.lo = a.lo /\ a.size <= m.size
           /\ a.refs \in SUBSET m.refs /\ w.refs \in SUBSET m.refs
           /\ w.lo + w.size <= m.lo + m.size \/ m.size = MAX_ARRAY_WINDOW
<1> DEFINE la == a.lo
           sa == a.size
           lw == w.lo
           sw == w.size
           end == la + sa
           reach == IF lw + sw > end THEN lw + sw ELSE end
           new == Least(reach, la + MAX_ARRAY_WINDOW)
           more == SubSeq(w.bytes, end - lw + 1, new - lw)
           all == a.bytes \o more
           bytes == Take(all, new - la)
<1>1. /\ la \in Nat /\ sa \in Nat /\ a.bytes \in Seq(STRING) /\ Len(a.bytes) = sa
      /\ lw \in Nat /\ sw \in Nat /\ w.bytes \in Seq(STRING) /\ Len(w.bytes) = sw
      /\ sa <= MAX_ARRAY_WINDOW /\ MAX_ARRAY_WINDOW \in Nat /\ lw <= la + sa
  BY WindowHas, WindowsAssumption
<1>2. m = [a EXCEPT !.bytes = bytes, !.size = Len(bytes), !.refs = @ \cup w.refs]
  BY DEF merge_windows
<1> HIDE DEF la, sa, lw, sw
<1>3. /\ end \in Nat /\ new \in Nat /\ end <= new /\ lw <= end /\ new <= la + MAX_ARRAY_WINDOW
      /\ new = end \/ new <= lw + sw
      /\ lw + sw <= new \/ new = la + MAX_ARRAY_WINDOW
  <2>1. reach \in Nat /\ end <= reach /\ lw + sw <= reach /\ (reach = end \/ reach = lw + sw)
    BY <1>1
  <2> HIDE DEF reach
  <2>2. new = IF reach < la + MAX_ARRAY_WINDOW THEN reach ELSE la + MAX_ARRAY_WINDOW
    BY DEF Least
  <2> HIDE DEF new
  <2> QED BY <1>1, <2>1, <2>2
<1> HIDE DEF reach, new
<1>4. more \in Seq(STRING) /\ Len(more) = new - end
  <2> DEFINE b == w.bytes
             x == end - lw + 1
             y == new - lw
  <2>1. /\ b \in Seq(STRING) /\ Len(b) = sw /\ x \in Int /\ y \in Int /\ 1 <= x /\ x <= y + 1
        /\ y <= sw \/ y < x
        /\ y - x + 1 = new - end /\ new - end \in Nat
    BY <1>1, <1>3
  <2>2. more = SubSeq(b, x, y)
    OBVIOUS
  <2> HIDE DEF b, x, y, end, more
  <2>3. \A i \in x..y : b[i] \in STRING
    <3>1. \A i \in x..y : i \in 1..Len(b)
      BY <1>1, <2>1
    <3> QED BY <2>1, <3>1, ElementOfSeq
  <2>4. Len(more) = (IF x <= y THEN y - x + 1 ELSE 0) /\ more \in Seq(STRING)
    BY <2>1, <2>2, <2>3, SubSeqProperties
  <2> QED BY <2>1, <2>4
<1>5. all \in Seq(STRING) /\ Len(all) = new - la
  <2> HIDE DEF more
  <2>1. all \in Seq(STRING) /\ Len(all) = sa + Len(more)
    BY <1>1, <1>4, ConcatProperties
  <2>2. sa + (new - end) = new - la
    BY <1>1, <1>3
  <2> HIDE DEF all, end
  <2> QED BY <1>4, <2>1, <2>2
<1> HIDE DEF more
<1>6. bytes \in Seq(STRING) /\ Len(bytes) = new - la
  <2> DEFINE s == all
             n == new - la
  <2>1. s \in Seq(STRING) /\ Len(s) = n /\ n \in Nat
    <3>1. n \in Nat
      BY <1>1, <1>3
    <3> QED BY <1>5, <3>1
  <2>2. Take(s, n) = SubSeq(s, 1, n)
    <3> HIDE DEF s, n
    <3> QED BY <2>1 DEF Take
  <2> HIDE DEF s, n
  <2>3. SubSeq(s, 1, n) \in Seq(STRING) /\ Len(SubSeq(s, 1, n)) = n
    <3>1. \A i \in 1..n : s[i] \in STRING
      BY <2>1, ElementOfSeq
    <3>2. n = 0 \/ 1 <= n
      BY <2>1
    <3> QED BY <2>1, <3>1, <3>2, SubSeqProperties
  <2> QED BY <2>2, <2>3 DEF s, n
<1> HIDE DEF bytes
<1>7. /\ m.section = a.section /\ m.lo = a.lo /\ m.size = Len(bytes) /\ m.bytes = bytes
      /\ m.refs = a.refs \cup w.refs
      /\ m.id = a.id /\ m.reasons = a.reasons
  BY <1>2, WindowHas DEF Arrays
<1>8. new - la \in Nat /\ sa <= new - la /\ new - la <= MAX_ARRAY_WINDOW
  BY <1>1, <1>3
<1>9. m \in Arrays
  <2>1. m.refs \in SUBSET STRING
    BY <1>7, WindowHas
  <2>2. Len(bytes) \in Nat /\ bytes \in Seq(STRING) /\ a.refs \cup w.refs \in SUBSET STRING
    BY <1>6, <1>7, <1>8, <2>1
  <2> QED BY <1>2, <2>2, WindowHas DEF Arrays
<1>10. m \in Windows
  BY <1>6, <1>7, <1>8, <1>9 DEF Windows
<1>11. w.lo + w.size <= m.lo + m.size \/ m.size = MAX_ARRAY_WINDOW
  BY <1>1, <1>3, <1>6, <1>7 DEF la, lw, sw
<1> QED BY <1>6, <1>7, <1>8, <1>10, <1>11 DEF sa

\* What the merged windows are after those of W.
MergedFrom(done, W) ==
    /\ done \in Seq(Windows)
    /\ \A i, j \in 1..Len(done) : i < j => window_before(done[i], done[j])
    /\ \A w \in W : \E i \in 1..Len(done) : Holds(done[i], w)
    /\ \A i \in 1..Len(done) : \E w \in W : Begins(w, done[i])
LastIs(done, section, lo) ==
    done # <<>> => done[Len(done)].section = section /\ done[Len(done)].lo <= lo

LEMMA StepMerges ==
    ASSUME NEW done, NEW W \in SUBSET Windows, MergedFrom(done, W), NEW w \in Windows,
           NEW v \in Windows, LastIs(done, v.section, v.lo), ~window_before(w, v)
    PROVE  /\ MergedFrom(with_window(done, w), W \cup {w})
           /\ LastIs(with_window(done, w), w.section, w.lo)
<1> DEFINE n == Len(done)
           a == done[n]
           m == merge_windows(a, w)
           near == w.section = a.section /\ w.lo <= a.lo + a.size
<1>1. /\ n \in Nat /\ done \in Seq(Windows) /\ DOMAIN done = 1..n
      /\ \A i \in 1..n : done[i] \in Windows
      /\ \A i, j \in 1..n : i < j => window_before(done[i], done[j])
      /\ \A x \in W : \E i \in 1..n : Holds(done[i], x)
      /\ \A i \in 1..n : \E x \in W : Begins(x, done[i])
  BY LenProperties, ElementOfSeq DEF MergedFrom
<1>2. done = <<>> \/ n \in 1..n
  BY <1>1, EmptySeq
<1>3. /\ w.section \in Nat /\ w.lo \in Nat /\ w.size \in Nat /\ v.section \in Nat /\ v.lo \in Nat
      /\ v.section < w.section \/ (v.section = w.section /\ v.lo <= w.lo)
  <2>1. w.section \in Nat /\ w.lo \in Nat /\ w.size \in Nat /\ v.section \in Nat /\ v.lo \in Nat
    BY WindowHas
  <2> QED BY <2>1 DEF window_before
<1>4. Holds(w, w) /\ Begins(w, w)
  BY <1>3 DEF Holds, Begins
<1>5. CASE done # <<>> /\ near
  <2> DEFINE u == [done EXCEPT ![n] = m]
  <2>1. n \in 1..n /\ a \in Windows /\ a.lo \in Nat /\ a.size \in Nat /\ a.section \in Nat /\ a.lo <= w.lo
    <3>1. n \in 1..n /\ a \in Windows
      BY <1>1, <1>2, <1>5
    <3>2. a.lo \in Nat /\ a.size \in Nat /\ a.section \in Nat
      BY <3>1, WindowHas
    <3>3. a.section = v.section /\ a.lo <= v.lo
      BY <1>5 DEF LastIs
    <3> QED BY <1>3, <1>5, <3>1, <3>2, <3>3
  <2>2. with_window(done, w) = u
    BY <1>5 DEF with_window
  <2>3. /\ m \in Windows /\ m.section = a.section /\ m.lo = a.lo /\ a.size <= m.size
        /\ a.refs \in SUBSET m.refs /\ w.refs \in SUBSET m.refs
        /\ w.lo + w.size <= m.lo + m.size \/ m.size = MAX_ARRAY_WINDOW
    <3> HIDE DEF m, a
    <3> QED BY <1>5, <2>1, MergeIs DEF m
  <2>4. u \in Seq(Windows) /\ Len(u) = n /\ u[n] = m /\ \A i \in 1..n : i # n => u[i] = done[i]
    <3> HIDE DEF m, n
    <3>1. u \in Seq(Windows) /\ Len(u) = Len(done)
      BY <1>1, <2>1, <2>3, ExceptSeq DEF n
    <3>2. u[n] = m /\ \A i \in 1..n : i # n => u[i] = done[i]
      BY <1>1, <2>1
    <3> QED BY <3>1, <3>2 DEF n
  <2> HIDE DEF u, m
  <2>5. \A i \in 1..n : u[i].section = done[i].section /\ u[i].lo = done[i].lo
    BY <2>3, <2>4
  <2>6. \A i, j \in 1..n : i < j => window_before(u[i], u[j])
    <3> SUFFICES ASSUME NEW i \in 1..n, NEW j \in 1..n, i < j PROVE window_before(u[i], u[j])
      OBVIOUS
    <3>1. window_before(done[i], done[j])
      BY <1>1
    <3>2. /\ u[i].section = done[i].section /\ u[i].lo = done[i].lo
          /\ u[j].section = done[j].section /\ u[j].lo = done[j].lo
      BY <2>5
    <3> QED BY ONLY <3>1, <3>2 DEF window_before
  <2>7. ASSUME NEW x \in W, NEW i \in 1..n, Holds(done[i], x) PROVE Holds(u[i], x)
    <3>1. CASE i = n
      <4> DEFINE s == a.size
                 t == m.size
                 l == a.lo
                 e == x.lo + x.size
      <4>1. s \in Nat /\ t \in Nat /\ l \in Nat /\ e \in Nat /\ s <= t /\ t <= MAX_ARRAY_WINDOW
            /\ MAX_ARRAY_WINDOW \in Nat
        <5>1. x.lo \in Nat /\ x.size \in Nat /\ m.size \in Nat /\ m.size <= MAX_ARRAY_WINDOW
          BY <2>3, WindowHas
        <5> QED BY <2>1, <2>3, <5>1, WindowsAssumption
      <4>2. e <= l + s \/ s = MAX_ARRAY_WINDOW
        BY <2>7, <3>1 DEF Holds
      <4> HIDE DEF s, t, l, e
      <4>3. e <= l + t \/ t = MAX_ARRAY_WINDOW
        BY <4>1, <4>2
      <4>4. x.refs \in SUBSET m.refs /\ m.section = x.section /\ m.lo <= x.lo /\ u[i] = m
        BY <2>3, <2>4, <2>7, <3>1 DEF Holds
      <4> QED BY <2>3, <4>3, <4>4 DEF Holds, s, t, l, e
    <3>2. CASE i # n
      BY <2>4, <2>7, <3>2
    <3> QED BY <3>1, <3>2
  <2>8. Holds(u[n], w)
    <3>1. m.section = w.section /\ m.lo <= w.lo
      BY <1>5, <2>1, <2>3
    <3> QED BY <2>3, <2>4, <3>1 DEF Holds
  <2>9. ASSUME NEW i \in 1..n, NEW x \in W, Begins(x, done[i]) PROVE Begins(x, u[i])
    <3>1. CASE i = n
      <4>1. x.size \in Nat /\ a.size \in Nat /\ m.size \in Nat
        BY <2>1, <2>3, WindowHas
      <4>2. x.size <= m.size
        BY <2>3, <2>9, <3>1, <4>1 DEF Begins
      <4> QED BY <2>3, <2>4, <2>9, <3>1, <4>2 DEF Begins
    <3>2. CASE i # n
      BY <2>4, <2>9, <3>2
    <3> QED BY <3>1, <3>2
  <2>10. \A x \in W \cup {w} : \E i \in 1..n : Holds(u[i], x)
    BY <1>1, <2>1, <2>7, <2>8
  <2>11. \A i \in 1..n : \E x \in W \cup {w} : Begins(x, u[i])
    BY <1>1, <2>9
  <2>12. MergedFrom(u, W \cup {w})
    BY <2>4, <2>6, <2>10, <2>11 DEF MergedFrom
  <2>13. LastIs(u, w.section, w.lo)
    <3>1. m.section = w.section /\ m.lo <= w.lo
      BY <1>5, <2>1, <2>3
    <3> QED BY <2>4, <3>1 DEF LastIs
  <2> QED BY <2>2, <2>12, <2>13
<1>6. CASE ~ (done # <<>> /\ near)
  <2> DEFINE u == Append(done, w)
  <2>1. with_window(done, w) = u
    BY <1>6 DEF with_window
  <2>2. /\ u \in Seq(Windows) /\ Len(u) = n + 1 /\ u[n + 1] = w
        /\ \A i \in 1..n : u[i] = done[i]
    BY <1>1, AppendProperties
  <2> HIDE DEF u
  <2>3. \A i \in 1..(n + 1) : i \in 1..n \/ i = n + 1
    BY <1>1
  <2>4. ASSUME NEW i \in 1..n PROVE window_before(done[i], w)
    <3>1. n \in 1..n /\ a \in Windows /\ done[i] \in Windows /\ done # <<>> /\ ~near
      BY <1>1, <1>2, <1>6
    <3>2. a.section = v.section /\ a.lo <= v.lo
      BY <3>1 DEF LastIs
    <3>3. window_before(a, w)
      <4>1. a.section \in Nat /\ a.lo \in Nat /\ a.size \in Nat
        BY <3>1, WindowHas
      <4>2. w.section # a.section \/ ~ (w.lo <= a.lo + a.size)
        BY <3>1
      <4> DEFINE l == a.lo
                 s == a.size
                 r == a.section
      <4>3. r \in Nat /\ l \in Nat /\ s \in Nat /\ r = v.section /\ l <= v.lo
            /\ (w.section # r \/ ~ (w.lo <= l + s))
        BY <3>2, <4>1, <4>2
      <4> HIDE DEF l, s, r, a
      <4>4. r < w.section \/ (r = w.section /\ l < w.lo)
        BY <1>3, <4>3
      <4> QED BY <4>4 DEF window_before, l, r
    <3>4. i = n \/ window_before(done[i], a)
      <4> HIDE DEF n
      <4>1. i = n \/ i < n
        <5>1. n \in Nat
          BY <1>1
        <5> QED BY <5>1
      <4> QED BY <1>1, <3>1, <4>1
    <3>5. /\ done[i].section \in Nat /\ done[i].lo \in Nat /\ a.section \in Nat /\ a.lo \in Nat
      BY <3>1, WindowHas
    <3> HIDE DEF n
    <3> QED BY <1>3, <3>3, <3>4, <3>5 DEF window_before
  <2>5. \A i, j \in 1..(n + 1) : i < j => window_before(u[i], u[j])
    <3>1. \A i, j \in 1..(n + 1) : i < j => i \in 1..n /\ (j \in 1..n \/ j = n + 1)
      BY <1>1
    <3> HIDE DEF n
    <3> QED BY <1>1, <2>2, <2>4, <3>1
  <2>6. \A x \in W \cup {w} : \E i \in 1..(n + 1) : Holds(u[i], x)
    <3>1. n + 1 \in 1..(n + 1) /\ \A i \in 1..n : i \in 1..(n + 1)
      BY <1>1
    <3> HIDE DEF n
    <3> QED BY <1>1, <1>4, <2>2, <3>1
  <2>7. \A i \in 1..(n + 1) : \E x \in W \cup {w} : Begins(x, u[i])
    <3> HIDE DEF n
    <3> QED BY <1>1, <1>4, <2>2, <2>3
  <2>8. MergedFrom(u, W \cup {w})
    BY <2>2, <2>5, <2>6, <2>7 DEF MergedFrom
  <2>9. LastIs(u, w.section, w.lo)
    BY <1>3, <2>2 DEF LastIs
  <2> QED BY <2>1, <2>8, <2>9
<1> QED BY <1>5, <1>6

LEMMA WindowOrder ==
    /\ \A x \in Windows : ~window_before(x, x)
    /\ \A x, y, z \in Windows : window_before(x, y) /\ window_before(y, z) => window_before(x, z)
    /\ \A x, y, z \in Windows : ~window_before(x, y) /\ ~window_before(y, z) => ~window_before(x, z)
<1>1. \A x \in Windows : x.section \in Nat /\ x.lo \in Nat
  BY WindowHas
<1>2. \A x \in Windows : ~window_before(x, x)
  BY <1>1 DEF window_before
<1>3. ASSUME NEW x \in Windows, NEW y \in Windows, NEW z \in Windows
      PROVE  /\ window_before(x, y) /\ window_before(y, z) => window_before(x, z)
             /\ ~window_before(x, y) /\ ~window_before(y, z) => ~window_before(x, z)
  <2>1. /\ x.section \in Nat /\ x.lo \in Nat /\ y.section \in Nat /\ y.lo \in Nat
        /\ z.section \in Nat /\ z.lo \in Nat
    BY <1>1
  <2> QED BY <2>1 DEF window_before
<1> QED BY <1>2, <1>3

\* Windows in their order.
LEMMA WindowsSorted ==
    ASSUME NEW s \in Seq(Windows), NEW t, t = SortBy(s, window_before)
    PROVE  /\ t \in Seq(Windows) /\ Len(t) \in Nat /\ ToSet(t) = ToSet(s)
           /\ \A i, j \in 1..Len(t) : i < j => ~window_before(t[j], t[i])
<1> DEFINE R == {q \in Windows \X Windows : window_before(q[1], q[2])}
           D == DOMAIN s
           before(i, j) == window_before(s[i], s[j]) \/ (~window_before(s[j], s[i]) /\ i < j)
           list == [k \in 1..Cardinality(D) |-> CHOOSE x \in D : Cardinality({y \in D : before(y, x)}) = k - 1]
           B == PlacesBefore(s, R)
           sorted == [k \in 1..Len(list \o <<>>) |-> s[(list \o <<>>)[k]]]
<1>1. t = sorted \o <<>>
  BY Zenon DEF SortBy, InOrder, Each
<1>2. \A x, y \in Windows : <<x, y>> \in R <=> window_before(x, y)
  OBVIOUS
<1>3. Len(s) \in Nat /\ D = 1..Len(s) /\ \A i \in D : s[i] \in Windows
  BY LenProperties, ElementOfSeq
<1> HIDE DEF R
<1>4. list = Listing(D, B)
  <2>1. \A x, y \in D : before(y, x) <=> <<y, x>> \in B
    <3> HIDE DEF before, D
    <3>1. \A x, y \in D : <<y, x>> \in B <=> ComesBefore(s, R, y, x)
      BY PlacesBeforeAre DEF D
    <3> QED BY <1>2, <1>3, <3>1 DEF ComesBefore, before
  <2> HIDE DEF before
  <2> DEFINE left(k) == CHOOSE x \in D : Cardinality({y \in D : before(y, x)}) = k - 1
             right(k) == CHOOSE x \in D : Cardinality({y \in D : <<y, x>> \in B}) = k - 1
  <2>2. \A x \in D : {y \in D : before(y, x)} = {y \in D : <<y, x>> \in B}
    BY <2>1
  <2>3. \A k : left(k) = right(k)
    <3>1. \A k : \A x \in D : Cardinality({y \in D : before(y, x)}) = k - 1
                         <=> Cardinality({y \in D : <<y, x>> \in B}) = k - 1
      BY <2>2
    <3> QED BY Zenon, <3>1
  <2>4. list = [k \in 1..Cardinality(D) |-> left(k)]
    BY Zenon
  <2>5. Listing(D, B) = [k \in 1..Cardinality(D) |-> right(k)]
    BY Zenon DEF Listing
  <2> HIDE DEF left, right, list, D
  <2> QED BY <2>3, <2>4, <2>5
<1>5. /\ \A x \in Windows : <<x, x>> \notin R
      /\ \A x, y, z \in Windows : <<x, y>> \in R /\ <<y, z>> \in R => <<x, z>> \in R
      /\ \A x, y, z \in Windows : <<x, y>> \notin R /\ <<y, z>> \notin R => <<x, z>> \notin R
  BY Zenon, <1>2, WindowOrder
<1> HIDE DEF list
<1>6. /\ list \o <<>> = list /\ Len(list) = Len(s)
      /\ Sorted(s, R) \o <<>> = Sorted(s, R) /\ Sorted(s, R) \in Seq(Windows)
      /\ Len(Sorted(s, R)) = Len(s) /\ ToSet(Sorted(s, R)) = ToSet(s)
      /\ \A i, j \in 1..Len(s) : i < j => <<Sorted(s, R)[j], Sorted(s, R)[i]>> \notin R
  BY <1>4, <1>5, SortedIs
<1>7. sorted = Sorted(s, R)
  BY <1>4, <1>6 DEF Sorted
<1> HIDE DEF sorted
<1>8. t = Sorted(s, R)
  BY <1>1, <1>6, <1>7
<1>9. \A i \in 1..Len(t) : t[i] \in Windows
  BY <1>6, <1>8, ElementOfSeq
<1> QED BY <1>2, <1>3, <1>6, <1>8, <1>9

\* Each window is held by a merged one, each merged one begins as a window, and no two of them
\* begin at one place.
LEMMA MergedAre ==
    ASSUME NEW s \in Seq(Windows), NEW m, m = merge_array_windows(s)
    PROVE  MergedFrom(m, ToSet(s))
<1> DEFINE u == SortBy(s, window_before)
           L == Len(u)
           D == Seq(Windows)
           g == [q \in D \X (1..L) |-> with_window(q[1], u[q[2]])]
           Eq(k) == k = [n \in 0..Len(u) |-> IF n = 0 THEN <<>> ELSE with_window(k[n-1], u[n])]
           k == CHOOSE k : Eq(k)
<1>1. m = k[L]
  BY Zenon DEF merge_array_windows
<1>2. /\ u \in D /\ L \in Nat /\ ToSet(u) = ToSet(s)
      /\ \A i, j \in 1..L : i < j => ~window_before(u[j], u[i])
  BY Zenon, WindowsSorted
<1> HIDE DEF u
<1>3. \A n \in 1..L : u[n] \in Windows
  BY <1>2, ElementOfSeq
<1>4. ASSUME NEW t \in D, NEW w \in Windows PROVE with_window(t, w) \in D
  <2>1. Len(t) \in Nat /\ (t = <<>> \/ Len(t) \in 1..Len(t))
    BY LenProperties, EmptySeq
  <2> DEFINE a == t[Len(t)]
             x == merge_windows(a, w)
  <2>2. CASE t # <<>> /\ w.section = a.section /\ w.lo <= a.lo + a.size
    <3>1. with_window(t, w) = [t EXCEPT ![Len(t)] = x]
      BY <2>2 DEF with_window
    <3>2. Len(t) \in 1..Len(t) /\ a \in Windows
      BY <2>1, <2>2, ElementOfSeq
    <3> HIDE DEF a
    <3>3. x \in Windows
      BY <2>2, <3>2, MergeIs
    <3> HIDE DEF x
    <3> QED BY <3>1, <3>2, <3>3, ExceptSeq
  <2>3. CASE ~ (t # <<>> /\ w.section = a.section /\ w.lo <= a.lo + a.size)
    <3>1. with_window(t, w) = Append(t, w)
      BY <2>3 DEF with_window
    <3> QED BY <3>1, AppendProperties
  <2> QED BY <2>2, <2>3
<1>5. IsStep(g, D, L) /\ \A t \in D, n \in 1..L : g[<<t, n>>] = with_window(t, u[n])
  <2>1. \A t \in D, n \in 1..L : with_window(t, u[n]) \in D
    BY <1>3, <1>4
  <2> HIDE DEF D, L
  <2> QED BY <2>1 DEF IsStep
<1>6. <<>> \in D
  OBVIOUS
<1> HIDE DEF g
<1>7. PICK f : MadeInSteps(f, D, <<>>, L, g)
  <2> HIDE DEF D, L
  <2> QED BY <1>2, <1>5, <1>6, Recursion
<1>8. Eq(f)
  <2> USE DEF MadeInSteps
  <2>1. \A n \in 1..L : n - 1 \in 0..L /\ n # 0
    BY <1>2
  <2>2. \A n \in 1..L : f[n] = with_window(f[n - 1], u[n])
    <3> HIDE DEF D, L
    <3> QED BY <1>5, <1>7, <2>1
  <2>3. \A n \in 0..L : n = 0 \/ n \in 1..L
    BY <1>2
  <2> HIDE DEF D
  <2> QED BY <1>7, <2>2, <2>3
<1>9. Eq(k)
  <2> HIDE DEF Eq
  <2> QED BY Zenon, <1>8
<1> HIDE DEF k
<1>10. k[0] = <<>> /\ \A n \in 1..L : k[n] = with_window(k[n - 1], u[n])
  <2>1. 0 \in 0..L /\ \A n \in 1..L : n \in 0..L /\ n # 0
    BY <1>2
  <2> QED BY <1>9, <2>1
<1> HIDE DEF Eq, D
<1> DEFINE W(n) == {u[i] : i \in 1..n}
           Done(n) == /\ MergedFrom(k[n], W(n))
                      /\ n = 0 => k[n] = <<>>
                      /\ n # 0 => LastIs(k[n], u[n].section, u[n].lo)
           T == {n \in 0..L : Done(n)}
<1>11. 0 \in T
  <2>1. W(0) = {} /\ 0 \in 0..L
    BY <1>2
  <2>2. MergedFrom(<<>>, {})
    <3>1. <<>> \in Seq(Windows) /\ Len(<<>>) = 0 /\ \A i : i \notin 1..0
      OBVIOUS
    <3> QED BY <3>1 DEF MergedFrom
  <2> HIDE DEF W
  <2> QED BY <1>10, <2>1, <2>2
<1>12. ASSUME NEW n \in T, n < L PROVE n + 1 \in T
  <2>1. n \in Nat /\ n + 1 \in 0..L /\ n + 1 \in 1..L /\ (n + 1) - 1 = n /\ n + 1 # 0
    BY <1>2, <1>12
  <2>2. Done(n)
    OBVIOUS
  <2> DEFINE w == u[n + 1]
  <2>3. w \in Windows /\ k[n + 1] = with_window(k[n], w)
    BY <1>3, <1>10, <2>1
  <2>4. W(n) \in SUBSET Windows /\ W(n + 1) = W(n) \cup {w}
    <3>1. \A i \in 1..n : i \in 1..L
      BY <2>1
    <3>2. \A i : i \in 1..(n + 1) <=> i \in 1..n \/ i = n + 1
      BY <2>1
    <3> QED BY <1>3, <3>1, <3>2
  <2>5. \E v \in Windows : LastIs(k[n], v.section, v.lo) /\ ~window_before(w, v)
    <3>1. CASE n = 0
      <4>1. LastIs(k[n], w.section, w.lo)
        BY <2>2, <3>1 DEF LastIs
      <4> HIDE DEF w
      <4> QED BY <2>3, <4>1, WindowOrder
    <3>2. CASE n # 0
      <4>1. n \in 1..L /\ n < n + 1
        BY <2>1, <3>2
      <4>2. u[n] \in Windows /\ ~window_before(w, u[n]) /\ LastIs(k[n], u[n].section, u[n].lo)
        BY <1>2, <1>3, <2>1, <2>2, <3>2, <4>1
      <4> QED BY <4>2
    <3> QED BY <3>1, <3>2
  <2>6. /\ MergedFrom(with_window(k[n], w), W(n) \cup {w})
        /\ LastIs(with_window(k[n], w), w.section, w.lo)
    <3> HIDE DEF w, W
    <3> QED BY <2>2, <2>3, <2>4, <2>5, StepMerges
  <2>7. Done(n + 1)
    <3> HIDE DEF W
    <3> QED BY <2>1, <2>3, <2>4, <2>6
  <2> HIDE DEF Done
  <2> QED BY <2>1, <2>7
<1>13. T \in SUBSET (0..L)
  OBVIOUS
<1>14. T = 0..L
  <2> HIDE DEF T, L
  <2> QED BY <1>2, <1>11, <1>12, <1>13, CountingUp
<1>15. MergedFrom(k[L], W(L))
  <2>1. L \in 0..L
    BY <1>2
  <2> HIDE DEF W
  <2> QED BY <1>14, <2>1
<1>16. W(L) = ToSet(s)
  BY <1>2, ToSetIs DEF D
<1> QED BY <1>1, <1>15, <1>16

LEMMA ArrayOrder ==
    /\ \A x \in Arrays : ~array_before(x, x)
    /\ \A x, y, z \in Arrays : array_before(x, y) /\ array_before(y, z) => array_before(x, z)
    /\ \A x, y, z \in Arrays : ~array_before(x, y) /\ ~array_before(y, z) => ~array_before(x, z)
<1>1. \A x \in Arrays : x.section \in Nat /\ x.lo \in Nat /\ x.size \in Nat
  BY DEF Arrays
<1>2. \A x \in Arrays : ~array_before(x, x)
  BY <1>1 DEF array_before, window_before
<1>3. ASSUME NEW x \in Arrays, NEW y \in Arrays, NEW z \in Arrays
      PROVE  /\ array_before(x, y) /\ array_before(y, z) => array_before(x, z)
             /\ ~array_before(x, y) /\ ~array_before(y, z) => ~array_before(x, z)
  <2>1. /\ x.section \in Nat /\ x.lo \in Nat /\ y.section \in Nat /\ y.lo \in Nat
        /\ z.section \in Nat /\ z.lo \in Nat
        /\ x.size \in Nat /\ y.size \in Nat /\ z.size \in Nat
    BY <1>1
  <2> QED BY <2>1 DEF array_before, window_before
<1> QED BY <1>2, <1>3

\* Arrays in their order.
LEMMA ArraysSorted ==
    ASSUME NEW s \in Seq(Arrays), NEW t, t = SortBy(s, array_before)
    PROVE  t \in Seq(Arrays) /\ Len(t) \in Nat /\ ToSet(t) = ToSet(s)
<1> DEFINE R == {q \in Arrays \X Arrays : array_before(q[1], q[2])}
           D == DOMAIN s
           before(i, j) == array_before(s[i], s[j]) \/ (~array_before(s[j], s[i]) /\ i < j)
           list == [k \in 1..Cardinality(D) |-> CHOOSE x \in D : Cardinality({y \in D : before(y, x)}) = k - 1]
           B == PlacesBefore(s, R)
           sorted == [k \in 1..Len(list \o <<>>) |-> s[(list \o <<>>)[k]]]
<1>1. t = sorted \o <<>>
  BY Zenon DEF SortBy, InOrder, Each
<1>2. \A x, y \in Arrays : <<x, y>> \in R <=> array_before(x, y)
  OBVIOUS
<1>3. Len(s) \in Nat /\ D = 1..Len(s) /\ \A i \in D : s[i] \in Arrays
  BY LenProperties, ElementOfSeq
<1> HIDE DEF R
<1>4. list = Listing(D, B)
  <2>1. \A x, y \in D : before(y, x) <=> <<y, x>> \in B
    <3> HIDE DEF before, D
    <3>1. \A x, y \in D : <<y, x>> \in B <=> ComesBefore(s, R, y, x)
      BY PlacesBeforeAre DEF D
    <3> QED BY <1>2, <1>3, <3>1 DEF ComesBefore, before
  <2> HIDE DEF before
  <2> DEFINE left(k) == CHOOSE x \in D : Cardinality({y \in D : before(y, x)}) = k - 1
             right(k) == CHOOSE x \in D : Cardinality({y \in D : <<y, x>> \in B}) = k - 1
  <2>2. \A x \in D : {y \in D : before(y, x)} = {y \in D : <<y, x>> \in B}
    BY <2>1
  <2>3. \A k : left(k) = right(k)
    <3>1. \A k : \A x \in D : Cardinality({y \in D : before(y, x)}) = k - 1
                         <=> Cardinality({y \in D : <<y, x>> \in B}) = k - 1
      BY <2>2
    <3> QED BY Zenon, <3>1
  <2>4. list = [k \in 1..Cardinality(D) |-> left(k)]
    BY Zenon
  <2>5. Listing(D, B) = [k \in 1..Cardinality(D) |-> right(k)]
    BY Zenon DEF Listing
  <2> HIDE DEF left, right, list, D
  <2> QED BY <2>3, <2>4, <2>5
<1>5. /\ \A x \in Arrays : <<x, x>> \notin R
      /\ \A x, y, z \in Arrays : <<x, y>> \in R /\ <<y, z>> \in R => <<x, z>> \in R
      /\ \A x, y, z \in Arrays : <<x, y>> \notin R /\ <<y, z>> \notin R => <<x, z>> \notin R
  BY Zenon, <1>2, ArrayOrder
<1> HIDE DEF list
<1>6. /\ list \o <<>> = list /\ Len(list) = Len(s)
      /\ Sorted(s, R) \o <<>> = Sorted(s, R) /\ Sorted(s, R) \in Seq(Arrays)
      /\ Len(Sorted(s, R)) = Len(s) /\ ToSet(Sorted(s, R)) = ToSet(s)
  BY <1>4, <1>5, SortedIs
<1>7. sorted = Sorted(s, R)
  BY <1>4, <1>6 DEF Sorted
<1> HIDE DEF sorted
<1>8. t = Sorted(s, R)
  BY <1>1, <1>6, <1>7
<1> QED BY <1>3, <1>6, <1>8

\* The arrays that are kept, with their ids: one for each place, size and content.
Numbered ==
    [id : Nat, section : Nat, lo : Nat, size : Nat, bytes : Seq(STRING), refs : SUBSET STRING,
     reasons : SUBSET {"large_copy_source", "referenced_global_data"}]
SameArray(a, b) ==
    a.section = b.section /\ a.lo = b.lo /\ a.size = b.size /\ a.refs = b.refs /\ a.reasons = b.reasons

LEMMA IdsAre ==
    ASSUME NEW s \in Seq(Arrays), NEW r, r = assign_array_ids(s)
    PROVE  /\ \A a \in ToSet(s) : \E b \in ToSet(s) :
                array_key(b) = array_key(a) /\ \E c \in ToSet(r) : SameArray(c, b)
           /\ r \in Seq(Numbered)
<1> DEFINE t == SortBy(s, array_before)
           keys == Each(t, array_key)
           kept == Firsts(t, keys)
           g == [i \in 1..Len(kept) |-> [kept[i] EXCEPT !.id = 100 + i]]
<1>1. r = g \o <<>>
  BY Zenon DEF assign_array_ids, First
<1>2. t \in Seq(Arrays) /\ ToSet(t) = ToSet(s)
  BY Zenon, ArraysSorted
<1> HIDE DEF t
<1>3. \A i \in 1..Len(t) : keys[i] = array_key(t[i])
  <2> DEFINE h == [i \in 1..Len(t) |-> array_key(t[i])]
  <2>1. keys = h \o <<>>
    BY Zenon DEF Each
  <2>2. h \o <<>> = h
    <3>1. h = [i \in 1..Len(t) |-> h[i]]
      OBVIOUS
    <3> HIDE DEF h
    <3> QED BY <1>2, <3>1, EachIs
  <2> HIDE DEF keys
  <2> QED BY <2>1, <2>2
<1> HIDE DEF keys
<1>4. /\ kept \in Seq(Arrays)
      /\ \A i \in 1..Len(t) : \E j \in 1..Len(t) : t[j] \in ToSet(kept) /\ keys[j] = keys[i]
      /\ ToSet(kept) \in SUBSET ToSet(t)
  BY <1>2, FirstsAre
<1> HIDE DEF kept
<1>5. ToSet(t) = {t[i] : i \in 1..Len(t)} /\ ToSet(kept) = {kept[i] : i \in 1..Len(kept)}
  BY <1>2, <1>4, ToSetIs
<1>6. ToSet(r) = {g[i] : i \in 1..Len(kept)}
  <2>1. g = [i \in 1..Len(kept) |-> g[i]]
    OBVIOUS
  <2> HIDE DEF g
  <2> QED BY <1>1, <1>4, <2>1, EachIs
<1>7. ASSUME NEW i \in 1..Len(kept) PROVE SameArray(g[i], kept[i])
  <2>1. kept[i] \in Arrays
    BY <1>4, ElementOfSeq
  <2> QED BY <2>1 DEF SameArray, Arrays
<1>9. r \in Seq(Numbered)
  <2>1. ASSUME NEW i \in 1..Len(kept) PROVE g[i] \in Numbered
    <3>1. kept[i] \in Arrays /\ 100 + i \in Nat
      BY <1>4, ElementOfSeq
    <3> DEFINE n == 100 + i
    <3>2. g[i] = [kept[i] EXCEPT !.id = n]
      OBVIOUS
    <3> HIDE DEF n, g
    <3> QED BY <3>1, <3>2 DEF Arrays, Numbered, n
  <2>2. g \in [1..Len(kept) -> Numbered]
    BY <2>1
  <2>3. Len(kept) \in Nat
    BY <1>4, LenProperties
  <2> HIDE DEF g
  <2> QED BY <1>1, <2>2, <2>3, FunctionIsList
<1> HIDE DEF g
<1>8. ASSUME NEW a \in ToSet(s)
      PROVE  \E b \in ToSet(s) : array_key(b) = array_key(a) /\ \E c \in ToSet(r) : SameArray(c, b)
  <2>1. PICK i \in 1..Len(t) : a = t[i]
    BY <1>2, <1>5
  <2>2. PICK j \in 1..Len(t) : t[j] \in ToSet(kept) /\ keys[j] = keys[i]
    BY <1>4
  <2>3. array_key(t[j]) = array_key(a) /\ t[j] \in ToSet(s)
    BY <1>2, <1>3, <1>5, <2>1, <2>2
  <2>4. PICK k \in 1..Len(kept) : kept[k] = t[j]
    BY <1>5, <2>2
  <2>5. g[k] \in ToSet(r) /\ SameArray(g[k], t[j])
    BY <1>6, <1>7, <2>4
  <2> QED BY <2>3, <2>5
<1> QED BY <1>8, <1>9

-----------------------------------------------------------------------------
(***************************************************************************)
(* The sources of large copies.                                            *)
(***************************************************************************)

Copies == {a \in Arrays : a.reasons = {"large_copy_source"}}
Ints == UNION {[X -> Int] : X \in SUBSET STRING}
Known == [ints : Ints, source : Seq(Int), arrays : Seq(Copies)]

LEMMA CellsAre ==
    ASSUME NEW ss, AreSections(ss), NEW r \in DOMAIN ss, NEW lo \in Int, ss[r].lo <= lo, NEW hi \in Int
    PROVE  cells(ss[r], lo, hi) \in Seq(STRING)
<1> DEFINE c == ss[r].cells
           m == lo - ss[r].lo + 1
           n == Least(hi, ss[r].hi) - ss[r].lo
<1>1. /\ ss[r].lo \in Nat /\ ss[r].hi \in Nat /\ c \in Seq(STRING) /\ Len(c) \in Nat
      /\ ss[r].hi = ss[r].lo + Len(c)
  BY SectionsAre
<1>2. m \in Int /\ n \in Int /\ 1 <= m /\ n <= Len(c)
  <2> DEFINE l == ss[r].lo
             h == ss[r].hi
             e == Least(hi, h)
  <2>1. l \in Nat /\ h \in Nat /\ h = l + Len(c) /\ Len(c) \in Nat /\ l <= lo
    BY <1>1
  <2> HIDE DEF l, h
  <2>2. e \in Int /\ e <= h
    BY <2>1 DEF Least
  <2> HIDE DEF e, c
  <2>3. lo - l + 1 \in Int /\ e - l \in Int /\ 1 <= lo - l + 1 /\ e - l <= Len(c)
    BY <2>1, <2>2
  <2> QED BY <2>3 DEF l, h, e
<1>3. cells(ss[r], lo, hi) = SubSeq(c, m, n)
  BY DEF cells
<1> HIDE DEF c, m, n
<1>4. \A i \in m..n : c[i] \in STRING
  BY <1>1, <1>2, ElementOfSeq
<1> QED BY <1>2, <1>3, <1>4, SubSeqProperties

LEMMA NotesCopy ==
    ASSUME NEW p \in Programs, NEW f \in STRING, NEW s \in Known, NEW i \in Instruction
    PROVE  note_copy(p, f, s, i) \in Known
<1> DEFINE ss == p.sections
           size == copy_size_from_instruction(s.ints, i)
           lo == s.source[1]
           r == place_for_va(ss, lo)
           bytes == cells(ss[r], lo, lo + Least(size, MAX_LARGE_COPY_ARRAY_BYTES))
           source == IF \/ i.op = "lea" /\ i.mem = "global"
                        \/ i.op = "mov" /\ i.src = "imm" /\ places_for_va(ss, i.imm) # {}
                     THEN <<i.imm>> ELSE s.source
           copied == /\ i.op = "movs" /\ s.source # <<>> /\ size >= MIN_ARRAY_SIZE
                     /\ places_for_va(ss, lo) # {} /\ ~ss[r].excluded
                     /\ Len(bytes) >= MIN_ARRAY_SIZE
           a == _array(r, lo, size, bytes, {f}, "large_copy_source")
           more == Guarded(copied, <<a>>)
<1>1. note_copy(p, f, s, i) = [ints |-> next_ints(s.ints, i), source |-> source, arrays |-> s.arrays \o more]
  BY Zenon DEF note_copy
<1>2. AreSections(ss)
  BY ProgramsAssumption
<1>3. i.imm \in Int /\ i.reg \in STRING /\ i.width \in Nat
  BY DEF Instruction
<1>4. s.ints \in Ints /\ s.source \in Seq(Int) /\ s.arrays \in Seq(Copies)
  BY DEF Known
<1>5. PICK X \in SUBSET STRING : s.ints \in [X -> Int]
  BY <1>4 DEF Ints
<1>6. next_ints(s.ints, i) \in Ints
  <2> DEFINE h == s.ints
  <2>1. Put(h, i.reg, i.imm) \in [X \cup {i.reg} -> Int]
    BY <1>3, <1>5 DEF Put
  <2>2. Drop(h, i.reg) \in [X \ {i.reg} -> Int]
    BY <1>5 DEF Drop
  <2>3. X \cup {i.reg} \in SUBSET STRING /\ X \ {i.reg} \in SUBSET STRING
    BY <1>3
  <2>4. Put(h, i.reg, i.imm) \in Ints /\ Drop(h, i.reg) \in Ints
    BY Zenon, <2>1, <2>2, <2>3 DEF Ints
  <2> QED BY Zenon, <1>4, <2>4 DEF next_ints
<1>7. source \in Seq(Int)
  BY <1>3, <1>4
<1>8. size \in Int
  <2>1. "RCX" \in DOMAIN s.ints => s.ints["RCX"] \in Int
    BY <1>5
  <2> QED BY <1>3, <2>1 DEF copy_size_from_instruction
<1>9. CASE copied
  <2>1. lo \in Int
    <3>1. Len(s.source) \in Nat /\ Len(s.source) # 0
      BY <1>4, <1>9, EmptySeq, LenProperties
    <3>2. 1 \in 1..Len(s.source)
      BY <3>1
    <3> QED BY <1>4, <3>2, ElementOfSeq
  <2>2. r \in places_for_va(ss, lo)
    BY <1>9 DEF place_for_va
  <2> HIDE DEF lo, r, size, ss
  <2>3. r \in Nat /\ r \in DOMAIN ss /\ ss[r].lo <= lo /\ ss[r].lo \in Nat
    BY <1>2, <2>2, PlaceIs, PlacesForVaAre, SectionsAre
  <2>4. lo \in Nat
    BY <2>1, <2>3
  <2>5. size \in Nat
    <3>1. size >= MIN_ARRAY_SIZE /\ MIN_ARRAY_SIZE \in Nat
      BY <1>9, WindowsAssumption
    <3> QED BY <1>8, <3>1
  <2>6. bytes \in Seq(STRING)
    <3>1. lo + Least(size, MAX_LARGE_COPY_ARRAY_BYTES) \in Int
      BY <2>4, <2>5, WindowsAssumption DEF Least
    <3> QED BY <1>2, <2>1, <2>3, <3>1, CellsAre
  <2> HIDE DEF bytes
  <2>7. a = [id |-> 0, section |-> r, lo |-> lo, size |-> size, bytes |-> bytes, refs |-> {f},
             reasons |-> {"large_copy_source"}]
    BY DEF _array
  <2>8. {f} \in SUBSET STRING
    OBVIOUS
  <2>9. {"large_copy_source"} \in SUBSET {"large_copy_source", "referenced_global_data"}
    OBVIOUS
  <2> DEFINE fs == {f}
             reasons == {"large_copy_source"}
  <2> HIDE DEF a, fs, reasons
  <2>10. a \in Arrays /\ a.reasons = reasons
    BY <2>3, <2>4, <2>5, <2>6, <2>7, <2>8, <2>9 DEF Arrays, fs, reasons
  <2>11. a \in Copies
    BY <2>10 DEF Copies, reasons
  <2>12. more = <<a>>
    BY <1>9 DEF Guarded
  <2> HIDE DEF more
  <2>13. more \in Seq(Copies)
    BY <2>11, <2>12
  <2>14. s.arrays \o more \in Seq(Copies)
    BY <1>4, <2>13, ConcatIs
  <2> HIDE DEF source
  <2> QED BY <1>1, <1>6, <1>7, <2>14 DEF Known
<1>10. CASE ~copied
  <2>1. more = <<>>
    BY <1>10 DEF Guarded
  <2>2. s.arrays \o more = s.arrays
    BY <1>4, <2>1, ConcatEmptySeq
  <2> HIDE DEF more, source
  <2> QED BY <1>1, <1>4, <1>6, <1>7, <2>2 DEF Known
<1> QED BY <1>9, <1>10

LEMMA CopiesOfAre ==
    ASSUME NEW p \in Programs, NEW f \in STRING, p.code[f] \in Seq(Instruction)
    PROVE  copies_of(p, f) \in Seq(Copies)
<1> DEFINE code == p.code[f]
           L == Len(code)
           g == [q \in Known \X (1..L) |-> note_copy(p, f, q[1], code[q[2]])]
           Eq(k) == k = [n \in 0..Len(p.code[f]) |-> IF n = 0 THEN NothingCopied
                                                     ELSE note_copy(p, f, k[n-1], p.code[f][n])]
           k == CHOOSE k : Eq(k)
<1>1. copies_of(p, f) = k[L].arrays
  BY Zenon DEF copies_of
<1>2. L \in Nat /\ \A n \in 1..L : code[n] \in Instruction
  BY LenProperties, ElementOfSeq
<1>3. NothingCopied \in Known
  <2>1. <<>> \in [{} -> Int]
    OBVIOUS
  <2>2. <<>> \in Ints
    BY <2>1 DEF Ints
  <2>3. <<>> \in Seq(Int) /\ <<>> \in Seq(Copies)
    OBVIOUS
  <2> QED BY <2>2, <2>3 DEF NothingCopied, Known
<1>4. IsStep(g, Known, L) /\ \A t \in Known, n \in 1..L : g[<<t, n>>] = note_copy(p, f, t, code[n])
  <2>1. \A t \in Known, n \in 1..L : note_copy(p, f, t, code[n]) \in Known
    BY <1>2, NotesCopy
  <2> HIDE DEF L, code
  <2> QED BY <2>1 DEF IsStep
<1> HIDE DEF g
<1>5. PICK h : MadeInSteps(h, Known, NothingCopied, L, g)
  <2> HIDE DEF L
  <2> QED BY <1>2, <1>3, <1>4, Recursion
<1>6. Eq(h)
  <2> USE DEF MadeInSteps
  <2>1. \A n \in 1..L : n - 1 \in 0..L /\ n # 0
    BY <1>2
  <2>2. \A n \in 1..L : h[n] = note_copy(p, f, h[n - 1], code[n])
    <3> HIDE DEF L, code
    <3> QED BY <1>4, <1>5, <2>1
  <2>3. \A n \in 0..L : n = 0 \/ n \in 1..L
    BY <1>2
  <2> QED BY <1>5, <2>2, <2>3
<1>7. Eq(k)
  <2> HIDE DEF Eq
  <2> QED BY Zenon, <1>6
<1> HIDE DEF k
<1>8. k[0] = NothingCopied /\ \A n \in 1..L : k[n] = note_copy(p, f, k[n - 1], code[n])
  <2>1. 0 \in 0..L /\ \A n \in 1..L : n \in 0..L /\ n # 0
    BY <1>2
  <2> QED BY <1>7, <2>1
<1> HIDE DEF Eq
<1> DEFINE T == {n \in 0..L : k[n] \in Known}
<1>9. 0 \in T
  BY <1>2, <1>3, <1>8
<1>10. ASSUME NEW n \in T, n < L PROVE n + 1 \in T
  <2>1. n \in Nat /\ n + 1 \in 0..L /\ n + 1 \in 1..L /\ (n + 1) - 1 = n /\ k[n] \in Known
    BY <1>2, <1>10
  <2>2. k[n + 1] = note_copy(p, f, k[n], code[n + 1]) /\ code[n + 1] \in Instruction
    BY <1>2, <1>8, <2>1
  <2>3. k[n + 1] \in Known
    <3> HIDE DEF code
    <3> QED BY <2>1, <2>2, NotesCopy
  <2> QED BY <2>1, <2>3
<1>11. T \in SUBSET (0..L)
  OBVIOUS
<1>12. T = 0..L
  <2> HIDE DEF T, L
  <2> QED BY <1>2, <1>9, <1>10, <1>11, CountingUp
<1>13. k[L] \in Known
  <2>1. L \in 0..L
    BY <1>2
  <2> QED BY <1>12, <2>1
<1> QED BY <1>1, <1>13 DEF Known

LEMMA CopiesAre ==
    ASSUME NEW p \in Programs
    PROVE  collect_large_copy_arrays(p) \in Seq(Copies)
<1> DEFINE fs == scanned_functions(p)
           g == [i \in 1..Len(fs) |-> copies_of(p, fs[i])]
<1>1. collect_large_copy_arrays(p) = FlattenSeq(g \o <<>>)
  BY Zenon DEF collect_large_copy_arrays, Concat, Each
<1>2. fs \in Seq(STRING) /\ \A f \in ToSet(fs) : p.code[f] \in Seq(Instruction)
  BY ScannedAre
<1> HIDE DEF fs
<1>3. Len(fs) \in Nat /\ ToSet(fs) = {fs[i] : i \in 1..Len(fs)} /\ ToSet(fs) \in SUBSET STRING
  BY <1>2, ToSetIs
<1>4. \A i \in 1..Len(fs) : copies_of(p, fs[i]) \in Seq(Copies)
  BY <1>2, <1>3, CopiesOfAre
<1>5. g \in [1..Len(fs) -> Seq(Copies)]
  BY <1>4
<1> HIDE DEF g
<1>6. g \o <<>> = g /\ g \in Seq(Seq(Copies))
  BY <1>3, <1>5, FunctionIsList
<1> QED BY <1>1, <1>6, FlattenIs

-----------------------------------------------------------------------------
(***************************************************************************)
(* The arrays.                                                             *)
(***************************************************************************)

\* The windows are those of the data referred to outside the sources of copies.
LEMMA CollectedAre ==
    ASSUME NEW p \in Programs, NEW refs, refs = collect_data_references(p),
           NEW copies, NEW m, m = collect_referenced_array_windows(p, refs, copies)
    PROVE  LET around(va) == window_around(p.sections, va, refs[va])
               wanted == {va \in DOMAIN refs :
                            /\ ~ \E a \in ToSet(copies) : a.lo <= va /\ va < a.lo + a.size
                            /\ Len(around(va).bytes) >= MIN_ARRAY_SIZE
                            /\ ~is_mostly_zero(around(va).bytes)}
           IN  /\ \A va \in wanted : around(va) \in Windows
               /\ MergedFrom(m, {around(va) : va \in wanted})
<1> DEFINE around(va) == window_around(p.sections, va, refs[va])
           wanted == {va \in DOMAIN refs :
                        /\ ~ \E a \in ToSet(copies) : a.lo <= va /\ va < a.lo + a.size
                        /\ Len(around(va).bytes) >= MIN_ARRAY_SIZE
                        /\ ~is_mostly_zero(around(va).bytes)}
           list == InOrder(wanted, <)
           g == [i \in 1..Len(list) |-> around(list[i])]
<1>1. m = merge_array_windows(g \o <<>>)
  BY Zenon DEF collect_referenced_array_windows, Each
<1>2. /\ DOMAIN refs \in SUBSET Nat /\ IsFiniteSet(DOMAIN refs)
      /\ \A va \in DOMAIN refs : refs[va] \in SUBSET STRING /\ places_for_va(p.sections, va) # {}
  BY ReferencesAre
<1>3. \A va \in DOMAIN refs : around(va) \in Windows
  <2>1. AreSections(p.sections)
    BY ProgramsAssumption
  <2> QED BY <1>2, <2>1, WindowIs
<1>4. wanted \in SUBSET DOMAIN refs
  OBVIOUS
<1> HIDE DEF wanted, around
<1>5. wanted \in SUBSET Nat /\ IsFiniteSet(wanted)
  BY <1>2, <1>4, FS_Subset
<1>6. list \in Seq(wanted) /\ \A x \in wanted : \E k \in 1..Len(list) : list[k] = x
  BY <1>5, NumbersListed
<1> HIDE DEF list
<1>7. Len(list) \in Nat /\ \A i \in 1..Len(list) : list[i] \in wanted
  BY <1>6, LenProperties, ElementOfSeq
<1>8. g \in [1..Len(list) -> Windows] /\ {g[i] : i \in 1..Len(list)} = {around(va) : va \in wanted}
  BY <1>3, <1>4, <1>6, <1>7
<1> HIDE DEF g
<1>9. g \o <<>> = g /\ g \in Seq(Windows) /\ Len(g) = Len(list)
  BY <1>7, <1>8, FunctionIsList
<1>10. ToSet(g) = {around(va) : va \in wanted}
  BY Zenon, <1>8, <1>9, ToSetIs
<1>11. MergedFrom(m, {around(va) : va \in wanted})
  BY <1>1, <1>9, <1>10, MergedAre
<1>12. \A va \in wanted : around(va) \in Windows
  BY <1>3, <1>4
<1> QED BY <1>11, <1>12 DEF wanted, around

LEMMA ListOfMore ==
    ASSUME NEW T, NEW S \in SUBSET T, NEW s \in Seq(S)
    PROVE  s \in Seq(T)
<1>1. Len(s) \in Nat /\ s \in [1..Len(s) -> S]
  BY LenProperties, ElementOfSeq
<1>2. s \in [1..Len(s) -> T]
  BY <1>1
<1> QED BY <1>1, <1>2, FunctionIsList

\* What the report says of the data that an instruction refers to.
DataHeld(p, arrays) ==
    \A f \in ToSet(scanned_functions(p)) : \A i \in ToSet(p.code[f]) :
        \A r \in places_for_va(p.sections, i.imm) :
            /\ i.src = "imm" \/ i.mem = "global"
            /\ ~p.sections[r].excluded
            /\ Len(window_bytes(p.sections[r], i.imm)) >= MIN_ARRAY_SIZE
            /\ ~is_mostly_zero(window_bytes(p.sections[r], i.imm))
            => \E a \in ToSet(arrays) :
                  /\ a.lo <= i.imm
                  /\ \/ /\ a.section = r
                        /\ \/ i.imm < a.lo + a.size /\ f \in a.refs
                           \/ a.size >= MAX_ARRAY_WINDOW
                     \/ i.imm < a.lo + a.size /\ "large_copy_source" \in a.reasons
LEMMA AnalyzedData ==
    ASSUME NEW p \in Programs, NEW arrays, arrays = analyze_constants(p).arrays
    PROVE  DataHeld(p, arrays) /\ arrays \in Seq(Numbered)
<1> DEFINE ss == p.sections
           refs == collect_data_references(p)
           copies == collect_large_copy_arrays(p)
           m == collect_referenced_array_windows(p, refs, copies)
           around(va) == window_around(p.sections, va, refs[va])
           Copied(va) == \E a \in ToSet(copies) : a.lo <= va /\ va < a.lo + a.size
           wanted == {va \in DOMAIN refs : /\ ~Copied(va)
                                           /\ Len(around(va).bytes) >= MIN_ARRAY_SIZE
                                           /\ ~is_mostly_zero(around(va).bytes)}
           all == copies \o m
<1>1. arrays = assign_array_ids(all)
  BY Zenon DEF analyze_constants
<1>2. copies \in Seq(Copies)
  BY CopiesAre
<1>3. (\A va \in wanted : around(va) \in Windows) /\ MergedFrom(m, {around(va) : va \in wanted})
  BY Zenon, CollectedAre
<1>4. AreSections(ss)
  BY ProgramsAssumption
<1>5. DOMAIN refs \in SUBSET Nat /\ \A va \in DOMAIN refs :
            refs[va] \in SUBSET STRING /\ places_for_va(ss, va) # {}
  BY ReferencesAre
<1>6. \A f \in ToSet(scanned_functions(p)) : \A i \in ToSet(p.code[f]) :
        \A r \in places_for_va(ss, i.imm) :
            (i.src = "imm" \/ i.mem = "global") /\ ~ss[r].excluded
            => i.imm \in DOMAIN refs /\ f \in refs[i.imm]
  BY ReferencesAre
<1>7. ASSUME NEW va \in DOMAIN refs, NEW r \in places_for_va(ss, va)
      PROVE  /\ around(va) \in Windows /\ around(va).section = r /\ around(va).refs = refs[va]
             /\ around(va).bytes = window_bytes(ss[r], va)
             /\ around(va).lo <= va /\ va < around(va).lo + around(va).size
  BY <1>4, <1>5, WindowIs
<1>8. /\ m \in Seq(Windows)
      /\ \A i, j \in 1..Len(m) : i < j => window_before(m[i], m[j])
      /\ \A va \in wanted : \E i \in 1..Len(m) : Holds(m[i], around(va))
      /\ \A i \in 1..Len(m) : \E va \in wanted : Begins(around(va), m[i])
  <2> HIDE DEF m, around, wanted
  <2> QED BY <1>3 DEF MergedFrom
<1> HIDE DEF m, copies, refs
<1>9. /\ Len(m) \in Nat /\ ToSet(m) = {m[i] : i \in 1..Len(m)}
      /\ \A i \in 1..Len(m) : m[i] \in Windows /\ m[i].section \in Nat /\ m[i].lo \in Nat /\ m[i].size \in Nat
  <2>1. Len(m) \in Nat /\ ToSet(m) = {m[i] : i \in 1..Len(m)}
    BY <1>8, ToSetIs
  <2>2. \A i \in 1..Len(m) : m[i] \in Windows
    BY <1>8, ElementOfSeq
  <2> QED BY <2>1, <2>2, WindowHas
<1>10. all \in Seq(Arrays) /\ ToSet(all) = ToSet(copies) \cup ToSet(m)
  <2>1. Copies \in SUBSET Arrays /\ Windows \in SUBSET Arrays
    BY DEF Copies, Windows
  <2>2. copies \in Seq(Arrays) /\ m \in Seq(Arrays)
    BY <1>2, <1>8, <2>1, ListOfMore
  <2> QED BY <2>2, ConcatIs
<1>11. \A a \in ToSet(copies) : a \in Arrays /\ a.reasons = {"large_copy_source"}
  BY <1>2, ToSetIs DEF Copies
<1> HIDE DEF all
<1>12. /\ \A a \in ToSet(all) : \E b \in ToSet(all) :
            array_key(b) = array_key(a) /\ \E c \in ToSet(arrays) : SameArray(c, b)
       /\ arrays \in Seq(Numbered)
  BY <1>1, <1>10, IdsAre
\* No window covers what a copy covers from the same place and of the same size.
<1>13. ASSUME NEW i \in 1..Len(m), NEW a \in ToSet(copies), a.lo = m[i].lo, a.size = m[i].size
       PROVE  FALSE
  <2>1. PICK va \in wanted : Begins(around(va), m[i])
    BY <1>8
  <2>2. va \in DOMAIN refs /\ ~Copied(va) /\ va \in Nat
    BY <1>5, <2>1
  <2>3. PICK r \in places_for_va(ss, va) : TRUE
    BY <1>5, <2>2
  <2> DEFINE w == around(va)
  <2>4. /\ w.lo \in Nat /\ w.size \in Nat /\ w.lo <= va /\ va < w.lo + w.size
        /\ w.lo = m[i].lo /\ w.size <= m[i].size /\ m[i].size \in Nat
    BY <1>7, <1>9, <2>1, <2>2, <2>3, WindowHas DEF Begins
  <2> DEFINE wl == w.lo
             ws == w.size
             al == a.lo
             an == a.size
  <2>5. wl \in Nat /\ ws \in Nat /\ wl <= va /\ va < wl + ws /\ al = wl /\ ws <= an /\ an \in Nat
    BY <1>13, <2>4
  <2> HIDE DEF wl, ws, al, an, w
  <2>6. al <= va /\ va < al + an
    <3>1. va \in Nat
      BY <2>2
    <3> QED BY <2>5, <3>1
  <2> QED BY <2>2, <2>6 DEF al, an
<1>14. \A i, j \in 1..Len(m) : m[i].section = m[j].section /\ m[i].lo = m[j].lo => i = j
  <2>1. ASSUME NEW i \in 1..Len(m), NEW j \in 1..Len(m), i < j
        PROVE  ~ (m[i].section = m[j].section /\ m[i].lo = m[j].lo)
    <3>1. window_before(m[i], m[j]) /\ m[i].section \in Nat /\ m[i].lo \in Nat
      BY <1>8, <1>9, <2>1
    <3> QED BY <3>1 DEF window_before
  <2>2. \A i, j \in 1..Len(m) : i < j \/ j < i \/ i = j
    BY <1>9
  <2> QED BY <2>1, <2>2
<1> HIDE DEF around, Copied
<1>15. ASSUME NEW f \in ToSet(scanned_functions(p)), NEW i \in ToSet(p.code[f]),
              NEW r \in places_for_va(ss, i.imm),
              i.src = "imm" \/ i.mem = "global", ~ss[r].excluded,
              Len(window_bytes(ss[r], i.imm)) >= MIN_ARRAY_SIZE,
              ~is_mostly_zero(window_bytes(ss[r], i.imm))
       PROVE  \E a \in ToSet(arrays) :
                  /\ a.lo <= i.imm
                  /\ \/ /\ a.section = r
                        /\ \/ i.imm < a.lo + a.size /\ f \in a.refs
                           \/ a.size >= MAX_ARRAY_WINDOW
                     \/ i.imm < a.lo + a.size /\ "large_copy_source" \in a.reasons
  <2> DEFINE va == i.imm
             w == around(va)
  <2>1. va \in DOMAIN refs /\ f \in refs[va] /\ va \in Nat
    BY <1>5, <1>6, <1>15
  <2>2. /\ w \in Windows /\ w.section = r /\ w.refs = refs[va]
        /\ w.bytes = window_bytes(ss[r], va)
        /\ w.lo <= va /\ va < w.lo + w.size
    BY <1>7, <2>1
  <2>3. CASE Copied(va)
    <3>1. PICK a \in ToSet(copies) : a.lo <= va /\ va < a.lo + a.size
      BY <2>3 DEF Copied
    <3>2. PICK b \in ToSet(all) : array_key(b) = array_key(a) /\ \E c \in ToSet(arrays) : SameArray(c, b)
      BY <1>10, <1>12
    <3>3. PICK c \in ToSet(arrays) : SameArray(c, b)
      BY <3>2
    <3>4. b.section = a.section /\ b.lo = a.lo /\ b.size = a.size
      BY <3>2 DEF array_key
    <3>5. b \in ToSet(copies)
      <4>1. CASE b \in ToSet(m)
        <5>1. PICK k \in 1..Len(m) : b = m[k]
          BY <1>9, <4>1
        <5> QED BY <1>13, <3>4, <5>1
      <4> QED BY <1>10, <4>1
    <3>6. c.lo = a.lo /\ c.size = a.size /\ "large_copy_source" \in c.reasons
      BY <1>11, <3>3, <3>4, <3>5 DEF SameArray
    <3> QED BY <3>1, <3>6
  <2>4. CASE ~Copied(va)
    <3>1. va \in wanted
      BY <1>15, <2>1, <2>2, <2>4
    <3>2. PICK k \in 1..Len(m) : Holds(m[k], w)
      BY <1>8, <3>1
    <3> DEFINE a == m[k]
    <3>3. a \in ToSet(all) /\ a \in ToSet(m)
      BY <1>9, <1>10
    <3>4. PICK b \in ToSet(all) : array_key(b) = array_key(a) /\ \E c \in ToSet(arrays) : SameArray(c, b)
      BY <1>12, <3>3
    <3>5. PICK c \in ToSet(arrays) : SameArray(c, b)
      BY <3>4
    <3>6. b.section = a.section /\ b.lo = a.lo /\ b.size = a.size
      BY <3>4 DEF array_key
    <3>7. b = a
      <4>1. CASE b \in ToSet(copies)
        BY <1>13, <3>6, <4>1
      <4>2. CASE b \in ToSet(m)
        <5>1. PICK j \in 1..Len(m) : b = m[j]
          BY <1>9, <4>2
        <5> QED BY <1>14, <3>6, <5>1
      <4> QED BY <1>10, <4>1, <4>2
    <3>8. c.section = a.section /\ c.lo = a.lo /\ c.size = a.size /\ c.refs = a.refs
      BY <3>5, <3>7 DEF SameArray
    <3>9. /\ a.section = r /\ a.lo <= w.lo /\ f \in a.refs
          /\ w.lo + w.size <= a.lo + a.size \/ a.size = MAX_ARRAY_WINDOW
      <4> HIDE DEF a, w
      <4> QED BY <2>1, <2>2, <3>2 DEF Holds, a
    <3>10. a.lo \in Nat /\ a.size \in Nat /\ w.lo \in Nat /\ w.size \in Nat
      BY <1>9, <2>2, WindowHas
    <3> DEFINE al == a.lo
               an == a.size
               wl == w.lo
               ws == w.size
    <3>11. /\ al \in Nat /\ an \in Nat /\ wl \in Nat /\ ws \in Nat /\ al <= wl /\ wl <= va /\ va < wl + ws
           /\ wl + ws <= al + an \/ an = MAX_ARRAY_WINDOW
      BY <2>2, <3>9, <3>10
    <3> HIDE DEF al, an, wl, ws, va, w, wanted, a
    <3>12. al <= va /\ (va < al + an \/ an >= MAX_ARRAY_WINDOW)
      <4>1. va \in Nat /\ MAX_ARRAY_WINDOW \in Nat
        BY <2>1, WindowsAssumption
      <4>2. al <= va
        BY <3>11, <4>1
      <4>3. CASE an = MAX_ARRAY_WINDOW
        BY <4>1, <4>2, <4>3
      <4>4. CASE wl + ws <= al + an
        <5>1. al + an \in Nat /\ wl + ws \in Nat
          BY <3>11
        <5> QED BY <3>11, <4>1, <4>2, <4>4, <5>1
      <4> QED BY <3>11, <4>3, <4>4
    <3> QED BY <3>8, <3>9, <3>12 DEF al, an, va
  <2> QED BY <2>3, <2>4
<1>16. DataHeld(p, arrays)
  BY <1>15 DEF DataHeld
<1> QED BY <1>12, <1>16

-----------------------------------------------------------------------------
(***************************************************************************)
(* The dictionary.                                                         *)
(***************************************************************************)

\* The new entries, beside those of the old that are not written over.
LEMMA OverIs ==
    ASSUME NEW f, NEW g
    PROVE  Over(f, g) = [x \in DOMAIN g \cup DOMAIN f |-> IF x \in DOMAIN f THEN f[x] ELSE g[x]]
<1> DEFINE h == [x \in DOMAIN g \cup DOMAIN f |-> IF x \in DOMAIN f THEN f[x] ELSE g[x]]
<1> HIDE DEF h
<1>1. (CHOOSE e \in {h} : e = h) = h
  BY Zenon
<1>2. Over(f, g) = h
  BY Zenon, <1>1 DEF Over, Whole, h
<1> QED BY <1>2 DEF h

LEMMA OverKeeps ==
    ASSUME NEW f, NEW g, NEW e \in DOMAIN g, e \notin DOMAIN f
    PROVE  e \in DOMAIN Over(f, g) /\ Over(f, g)[e] = g[e]
<1>1. Over(f, g) = [x \in DOMAIN g \cup DOMAIN f |-> IF x \in DOMAIN f THEN f[x] ELSE g[x]]
  BY Zenon, OverIs
<1> QED BY <1>1

\* An array told what it is remains where it was, with who refers to it.
LEMMA SourceOfArray ==
    ASSUME NEW p, NEW a \in Numbered
    PROVE  SameArray(source_of_array(p, a), a)
<1> DEFINE stop == [hi |-> a.lo + a.size]
           x == Over(stop, a)
           bytes == bytes_of(p, x)
           read == [texts |-> SelectSeq(bytes, LAMBDA c : c \notin not_text), data |-> whole(bytes),
                    readable |-> bytes # <<>>]
           y == Over(read, x)
           known == [preview |-> TRUE, high |-> is_high_entropy(a.bytes),
                     magic |-> {SIGNATURES[c] : c \in ToSet(a.bytes) \cap DOMAIN SIGNATURES},
                     go_metadata |-> /\ "referenced_global_data" \in a.reasons
                                     /\ "gotable" \in ToSet(bytes_of(p, x))
                                     /\ ToSet(bytes_of(p, x)) \cap DOMAIN SIGNATURES = {}]
           Fields5 == {"section", "lo", "size", "refs", "reasons"}
<1>1. source_of_array(p, a) = Over(known, y)
  BY Zenon DEF source_of_array, read_source_bytes
<1>2. DOMAIN known = {"preview", "high", "magic", "go_metadata"} /\ DOMAIN read = {"texts", "data", "readable"}
  BY Zenon
<1>a. DOMAIN stop = {"hi"}
  OBVIOUS
<1> HIDE DEF known, read, y, x, stop
<1>3. Fields5 \in SUBSET DOMAIN a
  BY DEF Numbered
<1>4. \A e \in Fields5 : e \in DOMAIN x /\ x[e] = a[e]
  <2>1. \A e \in Fields5 : e \notin DOMAIN stop
    BY <1>a
  <2> HIDE DEF Fields5
  <2>2. x = [e \in DOMAIN a \cup DOMAIN stop |-> IF e \in DOMAIN stop THEN stop[e] ELSE a[e]]
    BY Zenon, OverIs DEF x
  <2> QED BY <1>3, <2>1, <2>2
<1>5. \A e \in Fields5 : e \in DOMAIN y /\ y[e] = a[e]
  <2>1. \A e \in Fields5 : e \notin DOMAIN read
    BY <1>2
  <2> HIDE DEF Fields5
  <2>2. y = [e \in DOMAIN x \cup DOMAIN read |-> IF e \in DOMAIN read THEN read[e] ELSE x[e]]
    BY Zenon, OverIs DEF y
  <2> QED BY <1>4, <2>1, <2>2
<1>6. \A e \in Fields5 : Over(known, y)[e] = a[e]
  <2>1. \A e \in Fields5 : e \notin DOMAIN known
    BY <1>2
  <2> HIDE DEF Fields5
  <2>2. Over(known, y) = [e \in DOMAIN y \cup DOMAIN known |-> IF e \in DOMAIN known THEN known[e] ELSE y[e]]
    BY Zenon, OverIs
  <2> QED BY <1>5, <2>1, <2>2
<1> QED BY <1>1, <1>6 DEF SameArray

LEMMA ConstantData ==
    ASSUME NEW p \in Programs
    PROVE  /\ DataHeld(p, constant_entries(p).arrays)
           /\ DOMAIN constant_entries(p) = {"arrays", "strings"}
<1> DEFINE made_of == analyze_constants(p)
           s == made_of.arrays
           g == [i \in 1..Len(s) |-> source_of_array(p, s[i])]
<1>1. DataHeld(p, s) /\ s \in Seq(Numbered)
  BY AnalyzedData
<1>2. DOMAIN made_of = {"arrays", "strings"}
  BY Zenon DEF analyze_constants
<1>3. constant_entries(p) = [made_of EXCEPT !.arrays = g \o <<>>]
  BY Zenon DEF constant_entries, Each
<1> HIDE DEF made_of
<1>4. DOMAIN constant_entries(p) = {"arrays", "strings"} /\ constant_entries(p).arrays = g \o <<>>
  <2> HIDE DEF g
  <2> QED BY <1>2, <1>3
<1> HIDE DEF s
<1>5. g = [i \in 1..Len(s) |-> g[i]]
  OBVIOUS
<1>6. \A i \in 1..Len(s) : SameArray(g[i], s[i])
  <2>1. \A i \in 1..Len(s) : s[i] \in Numbered
    BY <1>1, ElementOfSeq
  <2> QED BY <2>1, SourceOfArray
<1> HIDE DEF g
<1>7. /\ g \o <<>> = g /\ ToSet(g) = {g[i] : i \in 1..Len(s)}
      /\ ToSet(s) = {s[i] : i \in 1..Len(s)}
  BY <1>1, <1>5, EachIs, ToSetIs
<1>8. \A a \in ToSet(s) : \E b \in ToSet(g) : SameArray(b, a)
  BY <1>6, <1>7
<1>9. DataHeld(p, g)
  BY <1>1, <1>8 DEF DataHeld, SameArray
<1> QED BY <1>4, <1>7, <1>9

\* The entries of each pass.
WRITES ==
    [semantic_scanner |-> {"blobs", "transformers", "loaders", "embedded", "indirect", "mid", "hints"},
     constants |-> {"arrays", "strings"}, dataflow |-> {"dataflow"}, cfg |-> {"cfg"},
     go_types |-> {"go_types"}, interesting_functions |-> {"interesting"},
     behavior_graph |-> {"behavior_graph"}, behavior_ir |-> {"behavior_ir"},
     semantic_chains |-> {"semantic_chains"}, runtime_decoding |-> {"decoding"},
     decryption_recovery |-> {"decryption"}, artifact_classification |-> {"classified"},
     indicator_consumers |-> {"decoding"}, behavior_story |-> {"story"}, sink_args |-> {"sinks"}]

LEMMA PassesAre ==
    /\ Len(PASSES) = 15 /\ PASSES[1] = "semantic_scanner" /\ PASSES[2] = "constants"
    /\ \A i \in 1..15 : PASSES[i] \in DOMAIN WRITES
    /\ \A i \in 1..15 : PASSES[i] = "constants" => i = 2
<1>1. /\ Len(PASSES) = 15 /\ PASSES[1] = "semantic_scanner" /\ PASSES[2] = "constants"
      /\ PASSES[3] = "dataflow" /\ PASSES[4] = "cfg" /\ PASSES[5] = "go_types"
      /\ PASSES[6] = "interesting_functions" /\ PASSES[7] = "behavior_graph" /\ PASSES[8] = "behavior_ir"
      /\ PASSES[9] = "semantic_chains" /\ PASSES[10] = "runtime_decoding"
      /\ PASSES[11] = "decryption_recovery" /\ PASSES[12] = "artifact_classification"
      /\ PASSES[13] = "indicator_consumers" /\ PASSES[14] = "behavior_story" /\ PASSES[15] = "sink_args"
  BY DEF PASSES
<1>2. DOMAIN WRITES = {"semantic_scanner", "constants", "dataflow", "cfg", "go_types",
                       "interesting_functions", "behavior_graph", "behavior_ir", "semantic_chains",
                       "runtime_decoding", "decryption_recovery", "artifact_classification",
                       "indicator_consumers", "behavior_story", "sink_args"}
  BY DEF WRITES
<1>3. \A i \in 1..15 : \/ i = 1 \/ i = 2 \/ i = 3 \/ i = 4 \/ i = 5 \/ i = 6 \/ i = 7 \/ i = 8 \/ i = 9
                       \/ i = 10 \/ i = 11 \/ i = 12 \/ i = 13 \/ i = 14 \/ i = 15
  OBVIOUS
<1> QED BY <1>1, <1>2, <1>3

\* A pass that returns writes its entries and no other, and one that raises no more.
LEMMA PassWrites ==
    ASSUME NEW p, NEW sem, NEW name \in DOMAIN WRITES
    PROVE  DOMAIN callback(p, name, sem) = WRITES[name] /\ DOMAIN default(name) \in SUBSET WRITES[name]
<1>1. CASE name = "semantic_scanner"
  <2>1. callback(p, name, sem) = scanned_entries(p)
    BY Zenon, <1>1 DEF callback
  <2>2. DOMAIN scanned_entries(p) = DOMAIN analyze(p)
    BY DEF scanned_entries
  <2>3. \A found : DOMAIN conclude(p, found) = {"indirect", "mid", "blobs", "transformers", "loaders",
                                                "embedded", "hints"}
    BY Zenon DEF conclude
  <2>4. DOMAIN analyze(p) = {"indirect", "mid", "blobs", "transformers", "loaders", "embedded", "hints"}
    BY Zenon, <2>3 DEF analyze
  <2>5. WRITES[name] = {"blobs", "transformers", "loaders", "embedded", "indirect", "mid", "hints"}
    BY <1>1 DEF WRITES
  <2>6. DOMAIN default(name) = {"blobs", "transformers", "loaders", "embedded", "indirect", "mid", "hints"}
    BY <1>1 DEF default, DEFAULTS
  <2> QED BY <2>1, <2>2, <2>4, <2>5, <2>6
<1>2. CASE name = "constants"
  <2>1. callback(p, name, sem) = constant_entries(p)
    BY Zenon, <1>2 DEF callback
  <2>2. DOMAIN constant_entries(p) = DOMAIN analyze_constants(p)
    BY DEF constant_entries
  <2>3. DOMAIN analyze_constants(p) = {"arrays", "strings"}
    BY Zenon DEF analyze_constants
  <2>4. WRITES[name] = {"arrays", "strings"} /\ DOMAIN default(name) = {"arrays", "strings"}
    BY <1>2 DEF WRITES, default, DEFAULTS
  <2> QED BY <2>1, <2>2, <2>3, <2>4
<1>3. CASE name = "dataflow"
  <2>1. DOMAIN callback(p, name, sem) = {"dataflow"}
    BY Zenon, <1>3 DEF callback
  <2>2. WRITES[name] = {"dataflow"} /\ DOMAIN default(name) = {"dataflow"}
    BY <1>3 DEF WRITES, default, DEFAULTS
  <2> QED BY <2>1, <2>2
<1>4. CASE name = "cfg"
  <2>1. DOMAIN callback(p, name, sem) = {"cfg"}
    BY Zenon, <1>4 DEF callback
  <2>2. WRITES[name] = {"cfg"} /\ DOMAIN default(name) = {"cfg"}
    BY <1>4 DEF WRITES, default, DEFAULTS
  <2> QED BY <2>1, <2>2
<1>5. CASE name = "go_types"
  <2>1. DOMAIN callback(p, name, sem) = {"go_types"}
    BY Zenon, <1>5 DEF callback
  <2>2. WRITES[name] = {"go_types"} /\ DOMAIN default(name) = {"go_types"}
    BY <1>5 DEF WRITES, default, DEFAULTS
  <2> QED BY <2>1, <2>2
<1>6. CASE name = "interesting_functions"
  <2>1. DOMAIN callback(p, name, sem) = {"interesting"}
    BY Zenon, <1>6 DEF callback
  <2>2. WRITES[name] = {"interesting"} /\ DOMAIN default(name) = {"interesting"}
    BY <1>6 DEF WRITES, default, DEFAULTS
  <2> QED BY <2>1, <2>2
<1>7. CASE name = "behavior_graph"
  <2>1. DOMAIN callback(p, name, sem) = {"behavior_graph"}
    BY Zenon, <1>7 DEF callback
  <2>2. WRITES[name] = {"behavior_graph"} /\ DOMAIN default(name) = {"behavior_graph"}
    BY <1>7 DEF WRITES, default, DEFAULTS
  <2> QED BY <2>1, <2>2
<1>8. CASE name = "behavior_ir"
  <2>1. DOMAIN callback(p, name, sem) = {"behavior_ir"}
    BY Zenon, <1>8 DEF callback
  <2>2. WRITES[name] = {"behavior_ir"} /\ DOMAIN default(name) = {"behavior_ir"}
    BY <1>8 DEF WRITES, default, DEFAULTS
  <2> QED BY <2>1, <2>2
<1>9. CASE name = "semantic_chains"
  <2>1. DOMAIN callback(p, name, sem) = {"semantic_chains"}
    BY Zenon, <1>9 DEF callback
  <2>2. WRITES[name] = {"semantic_chains"} /\ DOMAIN default(name) = {"semantic_chains"}
    BY <1>9 DEF WRITES, default, DEFAULTS
  <2> QED BY <2>1, <2>2
<1>10. CASE name = "runtime_decoding"
  <2>1. DOMAIN callback(p, name, sem) = {"decoding"}
    BY Zenon, <1>10 DEF callback
  <2>2. WRITES[name] = {"decoding"} /\ DOMAIN default(name) = {"decoding"}
    BY <1>10 DEF WRITES, default, DEFAULTS
  <2> QED BY <2>1, <2>2
<1>11. CASE name = "decryption_recovery"
  <2>1. DOMAIN callback(p, name, sem) = {"decryption"}
    BY Zenon, <1>11 DEF callback
  <2>2. WRITES[name] = {"decryption"} /\ DOMAIN default(name) = {"decryption"}
    BY <1>11 DEF WRITES, default, DEFAULTS
  <2> QED BY <2>1, <2>2
<1>12. CASE name = "artifact_classification"
  <2>1. DOMAIN callback(p, name, sem) = {"classified"}
    BY Zenon, <1>12 DEF callback
  <2>2. WRITES[name] = {"classified"} /\ DOMAIN default(name) = {"classified"}
    BY <1>12 DEF WRITES, default, DEFAULTS
  <2> QED BY <2>1, <2>2
<1>13. CASE name = "indicator_consumers"
  <2>1. DOMAIN callback(p, name, sem) = {"decoding"}
    BY Zenon, <1>13 DEF callback
  <2>2. WRITES[name] = {"decoding"} /\ DOMAIN default(name) = {}
    BY <1>13 DEF WRITES, default, DEFAULTS, Nothing
  <2> QED BY <2>1, <2>2
<1>14. CASE name = "behavior_story"
  <2>1. DOMAIN callback(p, name, sem) = {"story"}
    BY Zenon, <1>14 DEF callback
  <2>2. WRITES[name] = {"story"} /\ DOMAIN default(name) = {"story"}
    BY <1>14 DEF WRITES, default, DEFAULTS
  <2> QED BY <2>1, <2>2
<1>15. CASE name = "sink_args"
  <2>1. DOMAIN callback(p, name, sem) = {"sinks"}
    BY Zenon, <1>15 DEF callback
  <2>2. WRITES[name] = {"sinks"} /\ DOMAIN default(name) = {"sinks"}
    BY <1>15 DEF WRITES, default, DEFAULTS
  <2> QED BY <2>1, <2>2
<1>16. name \in {"semantic_scanner", "constants", "dataflow", "cfg", "go_types", "interesting_functions",
                 "behavior_graph", "behavior_ir", "semantic_chains", "runtime_decoding",
                 "decryption_recovery", "artifact_classification", "indicator_consumers",
                 "behavior_story", "sink_args"}
  BY DEF WRITES
<1> QED
  BY Zenon, <1>1, <1>2, <1>3, <1>4, <1>5, <1>6, <1>7, <1>8, <1>9,
     <1>10, <1>11, <1>12, <1>13, <1>14, <1>15, <1>16

LEMMA AfterIs ==
    ASSUME NEW p, NEW sem, NEW name \in DOMAIN WRITES
    PROVE  /\ \A e \in WRITES[name] : e \in DOMAIN after(p, name, sem)
                                      /\ after(p, name, sem)[e] = callback(p, name, sem)[e]
           /\ \A e \in DOMAIN sem \ WRITES[name] :
                e # "dataflow" => e \in DOMAIN after(p, name, sem) /\ after(p, name, sem)[e] = sem[e]
<1> DEFINE made_of == callback(p, name, sem)
           old == IF name = "behavior_graph" THEN Over(rewritten(sem), sem) ELSE sem
           new == Over(made_of, old)
<1>1. after(p, name, sem) = new
  BY Zenon DEF after
<1>2. DOMAIN made_of = WRITES[name]
  BY PassWrites
<1>3. \A e \in DOMAIN sem : e # "dataflow" => e \in DOMAIN old /\ old[e] = sem[e]
  <2> DEFINE r == rewritten(sem)
  <2>1. DOMAIN r = {"dataflow"}
    BY Zenon DEF rewritten
  <2> HIDE DEF r
  <2>2. Over(r, sem) = [e \in DOMAIN sem \cup DOMAIN r |-> IF e \in DOMAIN r THEN r[e] ELSE sem[e]]
    BY Zenon, OverIs
  <2>3. \A e \in DOMAIN sem : e # "dataflow" => e \in DOMAIN Over(r, sem) /\ Over(r, sem)[e] = sem[e]
    BY <2>1, <2>2
  <2> QED BY <2>3 DEF r
<1> HIDE DEF made_of, old
<1>4. new = [e \in DOMAIN old \cup DOMAIN made_of |-> IF e \in DOMAIN made_of THEN made_of[e] ELSE old[e]]
  BY Zenon, OverIs
<1> HIDE DEF new
<1> QED BY <1>1, <1>2, <1>3, <1>4 DEF made_of

\* The arrays are those that the constants pass made, unless it failed.
PassesInOrder ==
    /\ program \in Programs
    /\ next \in Nat \ {0}
    /\ errors \in Seq(DOMAIN WRITES)
ArraysStay ==
    next > 2 /\ "constants" \notin ToSet(errors) =>
        "arrays" \in DOMAIN semantics /\ semantics["arrays"] = constant_entries(program).arrays
ArraysInvariant == PassesInOrder /\ ArraysStay

LEMMA Failed ==
    ASSUME errors \in Seq(DOMAIN WRITES), NEW name \in DOMAIN WRITES
    PROVE  /\ Append(errors, name) \in Seq(DOMAIN WRITES)
           /\ ToSet(Append(errors, name)) = ToSet(errors) \cup {name}
<1> DEFINE one_more == <<name>>
<1>1. one_more \in Seq(DOMAIN WRITES) /\ ToSet(one_more) = {name}
  BY DEF ToSet
<1>2. Append(errors, name) = errors \o one_more
  BY AppendIsConcat
<1> HIDE DEF one_more
<1> QED BY <1>1, <1>2, ConcatIs

LEMMA PassRuns ==
    ASSUME PassesInOrder, Advance
    PROVE  /\ next \in 1..15 /\ next' = next + 1 /\ program' = program
           /\ pass \in DOMAIN WRITES /\ (pass = "constants" <=> next = 2)
<1>1. next \in 1..15 /\ next' = next + 1 /\ program' = program
  BY PassesAre DEF Advance, PassesInOrder
<1> QED BY <1>1, PassesAre DEF pass

\* What became of the arrays in a step that ran a pass.
LEMMA ArraysStep ==
    ASSUME ArraysInvariant, Advance,
           errors' = errors \/ errors' = Append(errors, pass),
           pass # "constants" /\ "arrays" \in DOMAIN semantics =>
                "arrays" \in DOMAIN semantics' /\ semantics'["arrays"] = semantics["arrays"],
           pass = "constants" => \/ errors' = Append(errors, pass)
                                 \/ /\ "arrays" \in DOMAIN semantics'
                                    /\ semantics'["arrays"] = constant_entries(program).arrays
    PROVE  ArraysInvariant'
<1>1. /\ next \in 1..15 /\ next' = next + 1 /\ program' = program
      /\ pass \in DOMAIN WRITES /\ (pass = "constants" <=> next = 2)
      /\ program \in Programs /\ errors \in Seq(DOMAIN WRITES)
  BY PassRuns DEF ArraysInvariant, PassesInOrder
<1>2. /\ errors' \in Seq(DOMAIN WRITES)
      /\ errors' = errors \/ ToSet(errors') = ToSet(errors) \cup {pass}
      /\ errors' = Append(errors, pass) => ToSet(errors') = ToSet(errors) \cup {pass}
  BY <1>1, Failed
<1>3. PassesInOrder'
  BY <1>1, <1>2 DEF PassesInOrder
<1>4. ASSUME next' > 2, "constants" \notin ToSet(errors')
      PROVE  "arrays" \in DOMAIN semantics' /\ semantics'["arrays"] = constant_entries(program).arrays
  <2>1. CASE pass = "constants"
    <3>1. errors' # Append(errors, pass)
      BY <1>2, <1>4, <2>1
    <3> QED BY <2>1, <3>1
  <2>2. CASE pass # "constants"
    <3>1. next > 2 /\ "constants" \notin ToSet(errors)
      BY <1>1, <1>2, <1>4, <2>2
    <3>2. "arrays" \in DOMAIN semantics /\ semantics["arrays"] = constant_entries(program).arrays
      BY <3>1 DEF ArraysInvariant, ArraysStay
    <3> QED BY <2>2, <3>2
  <2> QED BY <2>1, <2>2
<1>5. ArraysStay'
  BY <1>1, <1>4 DEF ArraysStay
<1> QED BY <1>3, <1>5 DEF ArraysInvariant

THEOREM ArraysKept == Spec => []ArraysInvariant
<1>1. Init => ArraysInvariant
  <2> SUFFICES ASSUME Init PROVE ArraysInvariant
    OBVIOUS
  <2>1. program \in Programs /\ next = 1 /\ errors = <<>>
    BY DEF Init
  <2> QED BY <2>1 DEF ArraysInvariant, ArraysStay, PassesInOrder
<1>2. ArraysInvariant /\ [Next]_vars => ArraysInvariant'
  <2> SUFFICES ASSUME ArraysInvariant, [Next]_vars PROVE ArraysInvariant'
    OBVIOUS
  <2>a. PassesInOrder
    BY DEF ArraysInvariant
  <2>b. ASSUME Advance PROVE pass \in DOMAIN WRITES /\ (pass = "constants" <=> next = 2)
    BY <2>a, <2>b, PassRuns
  <2>c. ASSUME NEW name \in DOMAIN WRITES, name # "constants" PROVE "arrays" \notin WRITES[name]
    BY <2>c DEF WRITES
  <2>1. CASE Completes
    <3>1. Advance /\ errors' = errors /\ semantics' = after(program, pass, semantics)
      BY <2>1 DEF Completes
    <3>2. /\ \A e \in WRITES[pass] : e \in DOMAIN semantics' /\ semantics'[e] = callback(program, pass, semantics)[e]
          /\ \A e \in DOMAIN semantics \ WRITES[pass] :
                e # "dataflow" => e \in DOMAIN semantics' /\ semantics'[e] = semantics[e]
      <4>1. pass \in DOMAIN WRITES
        BY <2>b, <3>1
      <4> DEFINE new == after(program, pass, semantics)
      <4>2. /\ \A e \in WRITES[pass] : e \in DOMAIN new /\ new[e] = callback(program, pass, semantics)[e]
            /\ \A e \in DOMAIN semantics \ WRITES[pass] :
                  e # "dataflow" => e \in DOMAIN new /\ new[e] = semantics[e]
        BY <4>1, AfterIs
      <4>3. semantics' = new
        BY <3>1
      <4> HIDE DEF new
      <4> QED BY <4>2, <4>3
    <3>3. pass = "constants" => "arrays" \in WRITES[pass] /\ callback(program, pass, semantics) = constant_entries(program)
      <4>1. pass = "constants" => callback(program, pass, semantics) = constant_entries(program)
        BY Zenon DEF callback
      <4> QED BY <4>1 DEF WRITES
    <3>4. pass = "constants" => "arrays" \in DOMAIN semantics' /\ semantics'["arrays"] = constant_entries(program).arrays
      BY <3>2, <3>3
    <3>5. pass # "constants" /\ "arrays" \in DOMAIN semantics =>
                "arrays" \in DOMAIN semantics' /\ semantics'["arrays"] = semantics["arrays"]
      BY <2>b, <2>c, <3>1, <3>2
    <3> QED BY <3>1, <3>4, <3>5, ArraysStep
  <2>2. CASE RaisesAtOnce
    <3>1. Advance /\ errors' = Append(errors, pass) /\ semantics' = Over(default(pass), semantics)
      BY <2>2 DEF RaisesAtOnce, Raises
    <3>2. pass # "constants" => "arrays" \notin DOMAIN default(pass)
      BY <2>b, <2>c, <3>1, PassWrites
    <3>3. pass # "constants" /\ "arrays" \in DOMAIN semantics =>
                "arrays" \in DOMAIN semantics' /\ semantics'["arrays"] = semantics["arrays"]
      BY Zenon, <3>1, <3>2, OverKeeps
    <3> QED BY <3>1, <3>3, ArraysStep
  <2>3. CASE RaisesWithGraphBuilt
    <3> DEFINE graph_built == rewritten(semantics)
               old == Over(graph_built, semantics)
    <3>1. /\ Advance /\ errors' = Append(errors, pass) /\ pass = "behavior_graph"
          /\ semantics' = Over(default(pass), old)
      BY <2>3 DEF RaisesWithGraphBuilt, Raises
    <3>2. DOMAIN graph_built = {"dataflow"}
      BY Zenon DEF rewritten
    <3> HIDE DEF graph_built
    <3>3. "arrays" \in DOMAIN semantics => "arrays" \in DOMAIN old /\ old["arrays"] = semantics["arrays"]
      BY Zenon, <3>2, OverKeeps
    <3> HIDE DEF old
    <3>4. "arrays" \notin DOMAIN default(pass)
      BY <2>b, <2>c, <3>1, PassWrites
    <3>5. "arrays" \in DOMAIN semantics =>
                "arrays" \in DOMAIN semantics' /\ semantics'["arrays"] = semantics["arrays"]
      <4> DEFINE new == Over(default(pass), old)
      <4>1. "arrays" \in DOMAIN old => "arrays" \in DOMAIN new /\ new["arrays"] = old["arrays"]
        BY Zenon, <3>4, OverKeeps
      <4>2. semantics' = new
        BY <3>1
      <4> HIDE DEF new
      <4> QED BY <3>3, <4>1, <4>2
    <3> QED BY <3>1, <3>5, ArraysStep
  <2>4. CASE RaisesBetweenIndicators
    <3>1. /\ Advance /\ errors' = Append(errors, pass) /\ pass = "indicator_consumers"
          /\ \E d : semantics' = Over([decoding |-> d], semantics)
      BY <2>4 DEF RaisesBetweenIndicators, Raises
    <3>2. PICK d : semantics' = Over([decoding |-> d], semantics)
      BY <3>1
    <3> DEFINE new == [decoding |-> d]
    <3>3. "arrays" \notin DOMAIN new /\ semantics' = Over(new, semantics)
      BY <3>2
    <3> HIDE DEF new
    <3>4. "arrays" \in DOMAIN semantics =>
                "arrays" \in DOMAIN semantics' /\ semantics'["arrays"] = semantics["arrays"]
      BY Zenon, <3>3, OverKeeps
    <3> QED BY <3>1, <3>4, ArraysStep
  <2>5. CASE Finish
    <3>1. /\ next' = next + 1 /\ next = 16 /\ UNCHANGED <<program, errors>>
          /\ \E n : semantics' = Over(n, semantics) /\ DOMAIN n = {"analysis_errors", "hints"}
      <4> DEFINE n == [analysis_errors |-> errors,
                       hints |-> semantics.hints
                         \cup (IF errors # <<>> THEN {"passes_failed"} ELSE {})
                         \cup (IF \E d \in ToSet(semantics.decoding.functions) : d.labels # {}
                               THEN {"decodes_strings"} ELSE {})]
      <4>1. semantics' = Over(n, semantics)
        BY <2>5 DEF Finish
      <4>2. DOMAIN n = {"analysis_errors", "hints"}
        BY Zenon
      <4>3. next' = next + 1 /\ next = 16 /\ UNCHANGED <<program, errors>>
        BY <2>5, PassesAre DEF Finish
      <4> HIDE DEF n
      <4> QED BY <4>1, <4>2, <4>3
    <3>2. PICK n : semantics' = Over(n, semantics) /\ DOMAIN n = {"analysis_errors", "hints"}
      BY <3>1
    <3>3. "arrays" \in DOMAIN semantics =>
                "arrays" \in DOMAIN semantics' /\ semantics'["arrays"] = semantics["arrays"]
      BY Zenon, <3>2, OverKeeps
    <3> QED BY <3>1, <3>3 DEF ArraysInvariant, ArraysStay, PassesInOrder
  <2>6. CASE UNCHANGED vars
    BY <2>6 DEF ArraysInvariant, ArraysStay, PassesInOrder, vars
  <2> QED BY <2>1, <2>2, <2>3, <2>4, <2>5, <2>6 DEF Next
<1> QED BY <1>1, <1>2, PTL DEF Spec

\* Data that an instruction refers to is in an array that names the function, as constants.py
\* promises with its windows, whatever the program and whichever other passes failed.
THEOREM DataIsKept == Spec => []ReferencesKept
<1>1. ArraysInvariant => ReferencesKept
  <2> SUFFICES ASSUME ArraysInvariant, returned("constants") PROVE ReferencesKept
    BY DEF ReferencesKept
  <2>1. next > 15 /\ "constants" \notin ToSet(errors) /\ program \in Programs /\ next \in Nat
    BY PassesAre DEF returned, finished, ArraysInvariant, PassesInOrder
  <2>2. semantics.arrays = constant_entries(program).arrays
    BY <2>1 DEF ArraysInvariant, ArraysStay
  <2>3. DataHeld(program, semantics.arrays)
    BY <2>1, <2>2, ConstantData
  <2> QED BY <2>3 DEF DataHeld, ReferencesKept
<1> QED BY <1>1, ArraysKept, PTL

-----------------------------------------------------------------------------
(***************************************************************************)
(* The abstract driver, for any number of passes, any order of reading and *)
(* any failures.                                                           *)
(***************************************************************************)

CONSTANTS N, Reads, Compute(_, _, _)
VARIABLES results, failed, tainted

Passes == INSTANCE PassDriver

DriverInvariant == Passes!TypeOK /\ Passes!FailuresIsolated /\ Passes!TaintHasCause

\* The numbers of the passes done, before and after one more.
LEMMA OneMorePass ==
    ASSUME Passes!Wellordered, Passes!TypeOK, next \in 1..N
    PROVE  /\ next + 1 \in 1..(N+1)
           /\ (next + 1) - 1 = next
           /\ next \in 1..next
           /\ 1..(next-1) \subseteq 1..next
           /\ \A i \in 1..next : i # next => i \in 1..(next-1)
<1>1. N \in Nat /\ next \in Nat BY DEF Passes!Wellordered
<1> QED BY <1>1

\* A pass that reads only what no failure has reached computes what it would have computed.
LEMMA SameInputs ==
    ASSUME Passes!Wellordered, DriverInvariant, next \in 1..N, Reads[next] \cap tainted = {}
    PROVE  Passes!read(next, results) = Passes!read(next, shadow)
<1>1. \A j \in Reads[next] : j \in 1..(next-1) /\ j \notin tainted
    BY SMT DEF Passes!Wellordered, DriverInvariant, Passes!TypeOK
<1>2. \A j \in Reads[next] : results[j] = shadow[j]
    BY <1>1 DEF DriverInvariant, Passes!FailuresIsolated
<1> QED BY <1>2 DEF Passes!read

\* At the start nothing has been computed and nothing failed.
LEMMA DriverStarts == Passes!Wellordered /\ Passes!Init => DriverInvariant
<1> SUFFICES ASSUME Passes!Wellordered, Passes!Init PROVE DriverInvariant OBVIOUS
<1>1. Passes!TypeOK BY SMT DEF Passes!Wellordered, Passes!Init, Passes!TypeOK
<1>2. Passes!FailuresIsolated /\ Passes!TaintHasCause
    BY SMT DEF Passes!Init, Passes!FailuresIsolated, Passes!TaintHasCause
<1> QED BY <1>1, <1>2 DEF DriverInvariant

\* Every step of the driver keeps the invariant.
LEMMA DriverSteps == Passes!Wellordered /\ DriverInvariant /\ [Passes!Next]_(Passes!vars) => DriverInvariant'
<1> SUFFICES ASSUME Passes!Wellordered, DriverInvariant, [Passes!Next]_(Passes!vars)
             PROVE  DriverInvariant'
    OBVIOUS
<1>1. CASE Passes!Succeed
    <2>0. next \in 1..N /\ next' = next + 1 /\ program' = program
        BY <1>1 DEF Passes!Succeed, Passes!Advance
    <2>1. DOMAIN results' = 1..next /\ DOMAIN shadow' = 1..next
        BY <1>1 DEF Passes!Succeed, Passes!Advance, Passes!Leaves
    <2>2. \A i \in 1..(next-1) : results'[i] = results[i] /\ shadow'[i] = shadow[i]
        <3> TAKE i \in 1..(next-1)
        <3>1. i \in 1..next /\ i # next BY <2>0, SMT
        <3> QED BY <3>1, <1>1 DEF Passes!Succeed, Passes!Advance, Passes!Leaves
    <2>3. /\ next \in 1..next
          /\ results'[next] = Compute(program, next, Passes!read(next, results))
          /\ shadow'[next] = Compute(program, next, Passes!read(next, shadow))
        <3>1. next \in 1..next BY <2>0, SMT
        <3> QED BY <3>1, <1>1 DEF Passes!Succeed, Passes!Advance, Passes!Leaves
    <2>4. /\ failed' = failed
          /\ tainted' = IF Reads[next] \cap tainted = {} THEN tainted ELSE tainted \cup {next}
        BY <1>1 DEF Passes!Succeed
    <2>5. Passes!TypeOK' BY <2>0, <2>1, <2>4, OneMorePass DEF DriverInvariant, Passes!TypeOK
    <2>6. Passes!FailuresIsolated'
        <3> SUFFICES ASSUME NEW i \in 1..(next'-1), i \notin tainted'
                     PROVE  results'[i] = shadow'[i]
            BY DEF Passes!FailuresIsolated
        <3>1. CASE i = next
            <4>1. Reads[next] \cap tainted = {} BY <2>4, <3>1
            <4>2. Passes!read(next, results) = Passes!read(next, shadow) BY <4>1, <2>0, SameInputs
            <4> QED BY <4>2, <2>3, <3>1
        <3>2. CASE i # next
            <4>1. i \in 1..(next-1) BY <2>0, <3>2, SMT
            <4>2. i \notin tainted BY <2>4
            <4> QED BY <4>1, <4>2, <2>2 DEF DriverInvariant, Passes!FailuresIsolated
        <3> QED BY <3>1, <3>2
    <2>7. Passes!TaintHasCause' BY <2>4 DEF DriverInvariant, Passes!TaintHasCause
    <2> QED BY <2>5, <2>6, <2>7 DEF DriverInvariant
<1>2. CASE Passes!Fail
    <2>0. next \in 1..N /\ next' = next + 1 /\ program' = program
        BY <1>2 DEF Passes!Fail, Passes!Advance
    <2>1. DOMAIN results' = 1..next /\ DOMAIN shadow' = 1..next
        BY <1>2 DEF Passes!Fail, Passes!Advance, Passes!Leaves
    <2>2. \A i \in 1..(next-1) : results'[i] = results[i] /\ shadow'[i] = shadow[i]
        <3> TAKE i \in 1..(next-1)
        <3>1. i \in 1..next /\ i # next BY <2>0, SMT
        <3> QED BY <3>1, <1>2 DEF Passes!Fail, Passes!Advance, Passes!Leaves
    <2>3. failed' = failed \cup {next} /\ tainted' = tainted \cup {next} BY <1>2 DEF Passes!Fail
    <2>4. Passes!TypeOK' BY <2>0, <2>1, <2>3, OneMorePass DEF DriverInvariant, Passes!TypeOK
    <2>5. Passes!FailuresIsolated'
        <3> SUFFICES ASSUME NEW i \in 1..(next'-1), i \notin tainted'
                     PROVE  results'[i] = shadow'[i]
            BY DEF Passes!FailuresIsolated
        <3>1. i \in 1..(next-1) /\ i \notin tainted BY <2>0, <2>3, SMT
        <3> QED BY <3>1, <2>2 DEF DriverInvariant, Passes!FailuresIsolated
    <2>6. Passes!TaintHasCause' BY <2>3 DEF DriverInvariant, Passes!TaintHasCause
    <2> QED BY <2>4, <2>5, <2>6 DEF DriverInvariant
<1>3. CASE UNCHANGED Passes!vars
    BY <1>3 DEF Passes!vars, DriverInvariant, Passes!TypeOK, Passes!FailuresIsolated, Passes!TaintHasCause
<1> QED BY <1>1, <1>2, <1>3 DEF Passes!Next

\* A pass whose inputs no failure has reached has the result of a run without failures, for any
\* passes, any failures and any results of the failed ones: analyze_semantics keeps what it can.
THEOREM Isolation == ASSUME Passes!Wellordered PROVE Passes!Spec => []Passes!FailuresIsolated
<1>1. Passes!Init => DriverInvariant BY DriverStarts
<1>2. DriverInvariant /\ [Passes!Next]_(Passes!vars) => DriverInvariant' BY DriverSteps
<1>3. DriverInvariant => Passes!FailuresIsolated BY DEF DriverInvariant
<1> QED BY <1>1, <1>2, <1>3, PTL DEF Passes!Spec

\* Nothing is lost without a failure to blame for it: a tainted result is that of a failed pass
\* or of one that read a tainted result.
THEOREM Blame == ASSUME Passes!Wellordered PROVE Passes!Spec => []Passes!TaintHasCause
<1>1. Passes!Init => DriverInvariant BY DriverStarts
<1>2. DriverInvariant /\ [Passes!Next]_(Passes!vars) => DriverInvariant' BY DriverSteps
<1>3. DriverInvariant => Passes!TaintHasCause BY DEF DriverInvariant
<1> QED BY <1>1, <1>2, <1>3, PTL DEF Passes!Spec
==============================================================================

----------------------- MODULE SemanticScanner_proofs -----------------------
(***************************************************************************)
(* The invariants of SemanticScanner for every program, every size of the  *)
(* chunks and every order in which copies, references and calls are met.   *)
(***************************************************************************)
EXTENDS SemanticScanner, FiniteSetTheorems, SequenceTheorems, WellFoundedInduction, TLAPS

-----------------------------------------------------------------------------
(***************************************************************************)
(* Sorting.                                                                *)
(***************************************************************************)

\* A finite set in the order that a set of pairs gives.
Listing(S, R) ==
    [k \in 1..Cardinality(S) |-> CHOOSE x \in S : Cardinality({y \in S : <<y, x>> \in R}) = k - 1]

Lists(s, S, R) ==
    /\ Cardinality(S) \in Nat
    /\ s \in [1..Cardinality(S) -> S]
    /\ \A i, j \in 1..Cardinality(S) : i < j => <<s[i], s[j]>> \in R
    /\ \A x \in S : \E k \in 1..Cardinality(S) : s[k] = x

\* A strict total order on a finite set lists every member once, in that order.
LEMMA OrderLists ==
    ASSUME NEW S, IsFiniteSet(S), NEW R,
           \A x \in S : <<x, x>> \notin R,
           \A x, y \in S : x = y \/ <<x, y>> \in R \/ <<y, x>> \in R,
           \A x, y, z \in S : <<x, y>> \in R /\ <<y, z>> \in R => <<x, z>> \in R
    PROVE  Lists(Listing(S, R), S, R)
<1> DEFINE n == Cardinality(S)
           s == Listing(S, R)
           below(x) == {y \in S : <<y, x>> \in R}
           rank == [x \in S |-> Cardinality(below(x))]
<1>1. n \in Nat
  BY FS_CardinalityType
<1>2. \A x \in S : below(x) \in SUBSET S /\ x \notin below(x)
  OBVIOUS
<1>3. ASSUME NEW x \in S PROVE rank[x] \in 0..(n - 1)
  <2> DEFINE T == below(x)
  <2>1. T \in SUBSET S /\ T # S
    BY <1>2
  <2>2. rank[x] = Cardinality(T)
    OBVIOUS
  <2> HIDE DEF T, rank
  <2>3. IsFiniteSet(T) /\ Cardinality(T) <= n /\ n # Cardinality(T)
    BY <2>1, FS_Subset
  <2>4. Cardinality(T) \in Nat
    BY <2>3, FS_CardinalityType
  <2> QED BY <1>1, <2>2, <2>3, <2>4
<1>4. ASSUME NEW x \in S, NEW y \in S, <<x, y>> \in R PROVE rank[x] < rank[y]
  <2> DEFINE T == below(x)
             U == below(y)
  <2>1. T \subseteq U /\ x \in U /\ x \notin T /\ U \subseteq S
    BY <1>4
  <2>2. rank[x] = Cardinality(T) /\ rank[y] = Cardinality(U)
    OBVIOUS
  <2> HIDE DEF T, U, rank
  <2>3. IsFiniteSet(U)
    BY <2>1, FS_Subset
  <2>4. Cardinality(T) <= Cardinality(U) /\ Cardinality(T) # Cardinality(U)
    BY <2>1, <2>3, FS_Subset
  <2>5. Cardinality(T) \in Nat /\ Cardinality(U) \in Nat
    BY <2>1, <2>3, FS_Subset, FS_CardinalityType
  <2> QED BY <2>2, <2>4, <2>5
<1>5. \A x, y \in S : rank[x] = rank[y] => x = y
  <2> HIDE DEF rank
  <2>1. ASSUME NEW x \in S, NEW y \in S, rank[x] = rank[y] PROVE ~ (<<x, y>> \in R) /\ ~ (<<y, x>> \in R)
    BY <1>1, <1>3, <1>4, <2>1
  <2> QED BY <2>1
<1>6. rank \in Injection(S, 0..(n - 1))
  <2>1. rank \in [S -> 0..(n - 1)]
    <3>1. rank = [x \in S |-> rank[x]]
      OBVIOUS
    <3> HIDE DEF rank
    <3> QED BY <1>3, <3>1
  <2> HIDE DEF rank
  <2> QED BY <1>5, <2>1 DEF Injection, IsInjective
<1>7. IsFiniteSet(0..(n - 1)) /\ Cardinality(0..(n - 1)) = n
  <2>1. n - 1 \in Int /\ (0 > n - 1 <=> n = 0) /\ (n - 1) - 0 + 1 = n
    BY <1>1
  <2> HIDE DEF n
  <2> QED BY <2>1, FS_Interval
<1>8. \A k \in 1..n : \E x \in S : rank[x] = k - 1
  <2> HIDE DEF rank
  <2>1. rank \in Surjection(S, 0..(n - 1))
    BY <1>1, <1>6, <1>7, FS_Injection
  <2>2. \A j \in 0..(n - 1) : \E x \in S : rank[x] = j
    BY <2>1 DEF Surjection
  <2>3. \A k \in 1..n : k - 1 \in 0..(n - 1)
    BY <1>1
  <2> QED BY <2>2, <2>3
<1> DEFINE pick(k) == CHOOSE x \in S : Cardinality(below(x)) = k - 1
<1>a. s = [k \in 1..n |-> pick(k)]
  BY Zenon DEF Listing
<1>b. ASSUME NEW k \in 1..n PROVE pick(k) \in S /\ rank[pick(k)] = k - 1
  <2>1. \E x \in S : Cardinality(below(x)) = k - 1
    BY <1>8, <1>b
  <2>2. pick(k) \in S /\ Cardinality(below(pick(k))) = k - 1
    BY Zenon, <2>1
  <2> QED BY <2>2
<1> HIDE DEF rank, pick, n, s
<1>9. ASSUME NEW k \in 1..n PROVE s[k] \in S /\ rank[s[k]] = k - 1
  BY <1>a, <1>b
<1>10. s \in [1..n -> S]
  BY <1>a, <1>b
<1>11. ASSUME NEW i \in 1..n, NEW j \in 1..n, i < j PROVE <<s[i], s[j]>> \in R
  <2>1. s[i] \in S /\ s[j] \in S /\ rank[s[i]] < rank[s[j]] /\ s[i] # s[j]
    BY <1>1, <1>9, <1>11
  <2>2. CASE <<s[j], s[i]>> \in R
    <3>1. rank[s[j]] < rank[s[i]]
      BY <1>4, <2>1, <2>2
    <3> QED BY <1>1, <1>3, <2>1, <3>1
  <2> QED BY <2>1, <2>2
<1>12. ASSUME NEW x \in S PROVE \E k \in 1..n : s[k] = x
  <2>1. rank[x] + 1 \in 1..n /\ (rank[x] + 1) - 1 = rank[x]
    BY <1>1, <1>3
  <2>2. rank[s[rank[x] + 1]] = rank[x] /\ s[rank[x] + 1] \in S
    BY <1>9, <2>1
  <2> QED BY <1>5, <2>1, <2>2
<1> QED BY <1>1, <1>10, <1>11, <1>12 DEF n, s, Lists

\* A function on the first numbers is a list, and joined to nothing it is itself.
LEMMA FunctionIsList ==
    ASSUME NEW n \in Nat, NEW S, NEW s \in [1..n -> S]
    PROVE  /\ s \o <<>> = s /\ s \in Seq(S) /\ Len(s) = n
<1>1. s \in Seq(S)
  OBVIOUS
<1>2. Len(s) \in Nat /\ DOMAIN s = 1..Len(s)
  BY <1>1, LenProperties
<1>3. Len(s) = n
  BY <1>2
<1> QED BY <1>1, <1>3, ConcatEmptySeq

\* The list of a finite set of numbers.
LEMMA NumbersListed ==
    ASSUME NEW S \in SUBSET Nat, IsFiniteSet(S)
    PROVE  /\ InOrder(S, <) \in Seq(S)
           /\ \A x \in S : \E k \in 1..Len(InOrder(S, <)) : InOrder(S, <)[k] = x
<1> DEFINE R == {p \in S \X S : p[1] < p[2]}
           s == [k \in 1..Cardinality(S) |-> CHOOSE x \in S : Cardinality({y \in S : y < x}) = k - 1]
           t == Listing(S, R)
<1>1. InOrder(S, <) = s \o <<>>
  BY DEF InOrder
<1>2. \A x, y \in S : <<x, y>> \in R <=> x < y
  OBVIOUS
<1>3. s = t
  <2> HIDE DEF R
  <2>1. \A x \in S : {y \in S : y < x} = {y \in S : <<y, x>> \in R}
    BY <1>2
  <2> DEFINE left(k) == CHOOSE x \in S : Cardinality({y \in S : y < x}) = k - 1
             right(k) == CHOOSE x \in S : Cardinality({y \in S : <<y, x>> \in R}) = k - 1
  <2>2. \A k : left(k) = right(k)
    <3>1. \A k : \A x \in S : Cardinality({y \in S : y < x}) = k - 1
                         <=> Cardinality({y \in S : <<y, x>> \in R}) = k - 1
      BY <2>1
    <3> QED BY Zenon, <3>1
  <2>3. s = [k \in 1..Cardinality(S) |-> left(k)] /\ t = [k \in 1..Cardinality(S) |-> right(k)]
    BY Zenon DEF Listing
  <2> HIDE DEF left, right, s, t
  <2> QED BY <2>2, <2>3
<1>4. /\ \A x \in S : <<x, x>> \notin R
      /\ \A x, y \in S : x = y \/ <<x, y>> \in R \/ <<y, x>> \in R
      /\ \A x, y, z \in S : <<x, y>> \in R /\ <<y, z>> \in R => <<x, z>> \in R
  <2> HIDE DEF R
  <2>1. \A x \in S : x \in Nat
    OBVIOUS
  <2> QED BY <1>2, <2>1
<1> HIDE DEF R, s
<1>5. Lists(t, S, R)
  BY <1>4, OrderLists
<1> HIDE DEF t
<1> QED BY <1>1, <1>3, <1>5, FunctionIsList DEF Lists

\* Places of whole numbers, no two of them the same.
ArePlaces(S) ==
    /\ IsFiniteSet(S)
    /\ \A x \in S : x.section \in Int /\ x.lo \in Int /\ x.hi \in Int
    /\ \A x, y \in S : x.section = y.section /\ x.lo = y.lo /\ x.hi = y.hi => x = y

\* The list of a set of places.
LEMMA PlacesListed ==
    ASSUME NEW S, ArePlaces(S)
    PROVE  /\ InOrder(S, _place_before) \in Seq(S)
           /\ \A x \in S : \E k \in 1..Len(InOrder(S, _place_before)) : InOrder(S, _place_before)[k] = x
           /\ \A i, j \in 1..Len(InOrder(S, _place_before)) :
                 i < j => _place_before(InOrder(S, _place_before)[i], InOrder(S, _place_before)[j])
<1> DEFINE R == {p \in S \X S : _place_before(p[1], p[2])}
           s == [k \in 1..Cardinality(S) |->
                    CHOOSE x \in S : Cardinality({y \in S : _place_before(y, x)}) = k - 1]
           t == Listing(S, R)
<1>1. InOrder(S, _place_before) = s \o <<>>
  BY DEF InOrder
<1>2. \A x, y \in S : <<x, y>> \in R <=> _place_before(x, y)
  OBVIOUS
<1>3. s = t
  <2> HIDE DEF R
  <2>1. \A x \in S : {y \in S : _place_before(y, x)} = {y \in S : <<y, x>> \in R}
    BY <1>2
  <2> DEFINE left(k) == CHOOSE x \in S : Cardinality({y \in S : _place_before(y, x)}) = k - 1
             right(k) == CHOOSE x \in S : Cardinality({y \in S : <<y, x>> \in R}) = k - 1
  <2>2. \A k : left(k) = right(k)
    <3>1. \A k : \A x \in S : Cardinality({y \in S : _place_before(y, x)}) = k - 1
                         <=> Cardinality({y \in S : <<y, x>> \in R}) = k - 1
      BY <2>1
    <3> QED BY Zenon, <3>1
  <2>3. s = [k \in 1..Cardinality(S) |-> left(k)] /\ t = [k \in 1..Cardinality(S) |-> right(k)]
    BY Zenon DEF Listing
  <2> HIDE DEF left, right, s, t
  <2> QED BY <2>2, <2>3
<1>4. /\ \A x \in S : <<x, x>> \notin R
      /\ \A x, y \in S : x = y \/ <<x, y>> \in R \/ <<y, x>> \in R
      /\ \A x, y, z \in S : <<x, y>> \in R /\ <<y, z>> \in R => <<x, z>> \in R
  <2> HIDE DEF R
  <2>1. \A x \in S : x.section \in Int /\ x.lo \in Int /\ x.hi \in Int
    BY DEF ArePlaces
  <2>2. \A x \in S : ~ _place_before(x, x)
    BY <2>1 DEF _place_before
  <2>3. \A x, y \in S : x = y \/ _place_before(x, y) \/ _place_before(y, x)
    BY <2>1 DEF _place_before, ArePlaces
  <2>4. \A x, y, z \in S : _place_before(x, y) /\ _place_before(y, z) => _place_before(x, z)
    BY <2>1 DEF _place_before
  <2> QED BY <1>2, <2>2, <2>3, <2>4
<1> HIDE DEF R, s
<1>5. Lists(t, S, R)
  BY <1>4, OrderLists DEF ArePlaces
<1> HIDE DEF t
<1>6. s \o <<>> = t /\ t \in Seq(S) /\ Len(t) = Cardinality(S)
  BY <1>3, <1>5, FunctionIsList DEF Lists
<1>7. \A i \in 1..Cardinality(S) : t[i] \in S
  BY <1>5 DEF Lists
<1>8. \A i, j \in 1..Cardinality(S) : i < j => _place_before(t[i], t[j])
  BY <1>2, <1>5, <1>7 DEF Lists
<1>9. \A x \in S : \E k \in 1..Cardinality(S) : t[k] = x
  BY <1>5 DEF Lists
<1> DEFINE u == InOrder(S, _place_before)
<1>10. u = t
  BY <1>1, <1>6
<1> HIDE DEF u
<1>11. /\ u \in Seq(S) /\ \A x \in S : \E k \in 1..Len(u) : u[k] = x
       /\ \A i, j \in 1..Len(u) : i < j => _place_before(u[i], u[j])
  BY <1>6, <1>8, <1>9, <1>10
<1> QED BY <1>11 DEF u

\* The values of a function on a finite set are finitely many.
LEMMA ImageFinite ==
    ASSUME NEW S, IsFiniteSet(S), NEW f, S \subseteq DOMAIN f
    PROVE  IsFiniteSet({f[x] : x \in S})
<1> DEFINE g == [x \in S |-> f[x]]
           T == {f[x] : x \in S}
<1>1. g \in Surjection(S, T)
  BY DEF Surjection
<1> HIDE DEF g, T
<1>2. IsFiniteSet(T)
  BY <1>1, FS_Surjection
<1> QED BY <1>2 DEF T

-----------------------------------------------------------------------------
(***************************************************************************)
(* The places that large copies read.                                      *)
(***************************************************************************)

Copy == [function : STRING, at : Int, source : Int, size : Int]
Reference == [function : STRING, target : Int]

\* x lies in a data section and is large enough.
IsPlace(ss, x) ==
    /\ ~ss[x.section].excluded
    /\ ss[x.section].lo <= x.lo /\ x.lo < x.hi /\ x.hi <= ss[x.section].hi
    /\ x.hi - x.lo >= MIN_BLOB_SIZE
Places(ss) == {x \in [section : DOMAIN ss, lo : Nat, hi : Nat] : IsPlace(ss, x)}
Spans(ss)  == {x \in [section : DOMAIN ss, lo : Nat, hi : Nat, refs : SUBSET STRING] : IsPlace(ss, x)}
Signatures == {"MZ", "PE", "ELF", "PK", "gzip", "zlib"}
Reasons    == {"large_copy_source", "contains_magic_bytes", "high_entropy", "referenced_by_reachable_code"}
Blobs(ss)  == {x \in [id : Nat, section : DOMAIN ss, lo : Nat, hi : Nat, refs : SUBSET STRING,
                      magic : SUBSET Signatures, high : BOOLEAN, reasons : SUBSET Reasons] : IsPlace(ss, x)}

LEMMA SectionsAre ==
    ASSUME NEW ss, AreSections(ss)
    PROVE  /\ DOMAIN ss \in SUBSET Nat /\ IsFiniteSet(DOMAIN ss)
           /\ \A r \in DOMAIN ss : /\ ss[r].lo \in Nat /\ ss[r].hi \in Nat /\ ss[r].excluded \in BOOLEAN
                                   /\ ss[r].cells \in Seq(STRING) /\ Len(ss[r].cells) \in Nat
                                   /\ ss[r].hi = ss[r].lo + Len(ss[r].cells)
<1>1. ss \in Seq(Section) /\ \A r \in DOMAIN ss : ss[r].hi = ss[r].lo + Len(ss[r].cells)
  BY DEF AreSections
<1>2. Len(ss) \in Nat /\ DOMAIN ss = 1..Len(ss)
  BY <1>1, LenProperties
<1>3. IsFiniteSet(1..Len(ss))
  BY <1>2, FS_Interval
<1>4. \A r \in DOMAIN ss : ss[r] \in Section
  BY <1>1, <1>2, ElementOfSeq
<1>5. \A r \in DOMAIN ss : /\ ss[r].lo \in Nat /\ ss[r].hi \in Nat /\ ss[r].excluded \in BOOLEAN
                           /\ ss[r].cells \in Seq(STRING)
  BY <1>4 DEF Section
<1>6. \A r \in DOMAIN ss : Len(ss[r].cells) \in Nat
  BY <1>5, LenProperties
<1> QED BY <1>1, <1>2, <1>3, <1>5, <1>6

LEMMA PlacesForVaAre ==
    ASSUME NEW ss, AreSections(ss), NEW va
    PROVE  /\ places_for_va(ss, va) \in SUBSET DOMAIN ss /\ IsFiniteSet(places_for_va(ss, va))
           /\ \A r \in places_for_va(ss, va) : ss[r].lo <= va /\ va < ss[r].hi
<1>1. /\ places_for_va(ss, va) \in SUBSET DOMAIN ss
      /\ \A r \in places_for_va(ss, va) : ss[r].lo <= va /\ va < ss[r].hi
  BY DEF places_for_va
<1>2. IsFiniteSet(DOMAIN ss)
  BY SectionsAre
<1> QED BY <1>1, <1>2, FS_Subset

LEMMA ReadsAre ==
    ASSUME NEW ss, AreSections(ss), NEW c \in Copy
    PROVE  /\ places_read(ss, c) \in SUBSET Places(ss) /\ IsFiniteSet(places_read(ss, c))
           /\ \A x \in places_read(ss, c) :
                 /\ c.source # NoAddress /\ x.section \in places_for_va(ss, c.source)
                 /\ x.lo = c.source /\ x.hi <= c.source + c.size
<1> DEFINE P == {q \in places_for_va(ss, c.source) :
                    /\ c.source # NoAddress /\ ~ss[q].excluded
                    /\ Least(c.source + c.size, ss[q].hi) - c.source >= MIN_BLOB_SIZE}
           f == [r \in P |-> [section |-> r, lo |-> c.source, hi |-> Least(c.source + c.size, ss[r].hi)]]
<1>1. places_read(ss, c) = {f[r] : r \in P}
  BY DEF places_read
<1>2. P \in SUBSET places_for_va(ss, c.source)
  OBVIOUS
<1>3. IsFiniteSet(P)
  <2> HIDE DEF P
  <2> QED BY <1>2, PlacesForVaAre, FS_Subset
<1>4. IsFiniteSet({f[r] : r \in P})
  <2>1. P \subseteq DOMAIN f
    OBVIOUS
  <2> HIDE DEF f, P
  <2> QED BY <1>3, <2>1, ImageFinite
<1>5. ASSUME NEW r \in P
      PROVE  /\ f[r] \in Places(ss) /\ c.source # NoAddress
             /\ f[r].section \in places_for_va(ss, c.source)
             /\ f[r].lo = c.source /\ f[r].hi <= c.source + c.size
  <2>1. /\ r \in places_for_va(ss, c.source) /\ c.source # NoAddress /\ ~ss[r].excluded
        /\ Least(c.source + c.size, ss[r].hi) - c.source >= MIN_BLOB_SIZE
    OBVIOUS
  <2>2. f[r] = [section |-> r, lo |-> c.source, hi |-> Least(c.source + c.size, ss[r].hi)]
    OBVIOUS
  <2> HIDE DEF f, P
  <2>3. /\ r \in DOMAIN ss /\ ss[r].lo <= c.source /\ c.source < ss[r].hi
        /\ ss[r].lo \in Nat /\ ss[r].hi \in Nat /\ c.source \in Int /\ c.size \in Int
    BY <2>1, PlacesForVaAre, SectionsAre DEF Copy
  <2>4. MIN_BLOB_SIZE \in Nat \ {0}
    BY ConstantsAssumption
  <2> DEFINE h == Least(c.source + c.size, ss[r].hi)
  <2>5. h \in Int /\ h <= ss[r].hi /\ h <= c.source + c.size
    BY <2>3 DEF Least
  <2> HIDE DEF h
  <2>6. h - c.source >= MIN_BLOB_SIZE /\ f[r] = [section |-> r, lo |-> c.source, hi |-> h]
    BY <2>1, <2>2 DEF h
  <2>7. c.source < h /\ h \in Nat /\ c.source \in Nat
    BY <2>3, <2>4, <2>5, <2>6
  <2> QED BY <2>1, <2>3, <2>5, <2>6, <2>7 DEF Places, IsPlace
<1> HIDE DEF f, P
<1> QED BY <1>1, <1>4, <1>5

LEMMA ToSetIs ==
    ASSUME NEW S, NEW s \in Seq(S)
    PROVE  /\ ToSet(s) \in SUBSET S /\ IsFiniteSet(ToSet(s))
           /\ Len(s) \in Nat /\ DOMAIN s = 1..Len(s)
           /\ ToSet(s) = {s[i] : i \in 1..Len(s)}
<1>1. Len(s) \in Nat /\ DOMAIN s = 1..Len(s)
  BY LenProperties
<1>2. ToSet(s) = {s[i] : i \in 1..Len(s)}
  BY <1>1 DEF ToSet
<1>3. IsFiniteSet(1..Len(s))
  BY <1>1, FS_Interval
<1>4. IsFiniteSet({s[i] : i \in 1..Len(s)})
  BY <1>1, <1>3, ImageFinite
<1>5. \A i \in 1..Len(s) : s[i] \in S
  BY <1>1, ElementOfSeq
<1> QED BY <1>1, <1>2, <1>4, <1>5

LEMMA SpansAre ==
    ASSUME NEW ss, AreSections(ss), NEW cs \in Seq(Copy)
    PROVE  /\ copied_spans(ss, cs) \in SUBSET Spans(ss) /\ ArePlaces(copied_spans(ss, cs))
           /\ \A x \in copied_spans(ss, cs) : \E c \in ToSet(cs) :
                 /\ c.source # NoAddress /\ x.section \in places_for_va(ss, c.source)
                 /\ x.lo = c.source /\ x.hi <= c.source + c.size
           /\ \A c \in ToSet(cs) : \A p \in places_read(ss, c) : \E x \in copied_spans(ss, cs) :
                 /\ x.section = p.section /\ x.lo = p.lo /\ x.hi = p.hi /\ c.function \in x.refs
<1> DEFINE C == ToSet(cs)
           R(x) == {d.function : d \in {e \in C : x \in places_read(ss, e)}}
           span(x) == [section |-> x.section, lo |-> x.lo, hi |-> x.hi, refs |-> R(x)]
           read == UNION {places_read(ss, c) : c \in C}
           f == [x \in read |-> span(x)]
           g == [c \in C |-> places_read(ss, c)]
<1>1. C \in SUBSET Copy /\ IsFiniteSet(C)
  BY ToSetIs
<1>2. copied_spans(ss, cs) = {f[x] : x \in read}
  <2>1. copied_spans(ss, cs) = UNION {{span(x) : x \in places_read(ss, c)} : c \in C}
    BY DEF copied_spans
  <2>2. \A x \in read : f[x] = span(x)
    OBVIOUS
  <2>3. \A c \in C : \A x \in places_read(ss, c) : x \in read
    OBVIOUS
  <2>4. \A x \in read : \E c \in C : x \in places_read(ss, c)
    OBVIOUS
  <2> HIDE DEF f, span, read, C
  <2> QED BY <2>1, <2>2, <2>3, <2>4
<1> HIDE DEF C
<1>3. read \in SUBSET Places(ss) /\ IsFiniteSet(read)
  <2>1. \A c \in C : c \in Copy
    BY <1>1
  <2>2. read \in SUBSET Places(ss)
    BY <2>1, ReadsAre
  <2>3. IsFiniteSet({g[c] : c \in C})
    <3>1. C \subseteq DOMAIN g
      OBVIOUS
    <3> HIDE DEF g
    <3> QED BY <1>1, <3>1, ImageFinite
  <2>4. \A T \in {g[c] : c \in C} : IsFiniteSet(T)
    BY <2>1, ReadsAre
  <2>5. read = UNION {g[c] : c \in C}
    OBVIOUS
  <2> HIDE DEF read, g
  <2> QED BY <2>2, <2>3, <2>4, <2>5, FS_UNION
<1>4. ASSUME NEW x \in read
      PROVE  /\ f[x] \in Spans(ss)
             /\ f[x].section = x.section /\ f[x].lo = x.lo /\ f[x].hi = x.hi /\ f[x].refs = R(x)
  <2>1. x \in [section : DOMAIN ss, lo : Nat, hi : Nat] /\ IsPlace(ss, x)
    BY <1>3 DEF Places
  <2>2. R(x) \in SUBSET STRING
    BY <1>1 DEF Copy
  <2>3. f[x] = span(x)
    OBVIOUS
  <2> HIDE DEF R, f, read
  <2>4. span(x) \in [section : DOMAIN ss, lo : Nat, hi : Nat, refs : SUBSET STRING]
    BY <2>1, <2>2
  <2>5. IsPlace(ss, span(x))
    BY <2>1 DEF IsPlace
  <2> QED BY <2>3, <2>4, <2>5 DEF Spans
<1>5. copied_spans(ss, cs) \in SUBSET Spans(ss)
  BY <1>2, <1>4
<1>6. ArePlaces(copied_spans(ss, cs))
  <2>1. IsFiniteSet({f[x] : x \in read})
    <3>1. read \subseteq DOMAIN f
      OBVIOUS
    <3> HIDE DEF f, read
    <3> QED BY <1>3, <3>1, ImageFinite
  <2>2. \A x \in Spans(ss) : x.section \in Int /\ x.lo \in Int /\ x.hi \in Int
    BY SectionsAre DEF Spans
  <2>3. \A x, y \in read : x.section = y.section /\ x.lo = y.lo /\ x.hi = y.hi => x = y
    <3> HIDE DEF read
    <3> QED BY <1>3 DEF Places
  <2> HIDE DEF f, read, R
  <2>4. \A x, y \in read : f[x].section = f[y].section /\ f[x].lo = f[y].lo /\ f[x].hi = f[y].hi => f[x] = f[y]
    BY <1>4, <2>3
  <2>5. \A x, y \in copied_spans(ss, cs) : x.section = y.section /\ x.lo = y.lo /\ x.hi = y.hi => x = y
    BY <1>2, <2>4
  <2> QED BY <1>2, <1>5, <2>1, <2>2, <2>5 DEF ArePlaces
<1>7. ASSUME NEW x \in copied_spans(ss, cs)
      PROVE  \E c \in C : /\ c.source # NoAddress /\ x.section \in places_for_va(ss, c.source)
                          /\ x.lo = c.source /\ x.hi <= c.source + c.size
  <2>1. PICK y \in read : x = f[y]
    BY <1>2
  <2>2. PICK c \in C : y \in places_read(ss, c)
    BY <2>1
  <2> HIDE DEF f, read, R
  <2>3. c \in Copy
    BY <1>1
  <2> QED BY <1>4, <2>1, <2>2, <2>3, ReadsAre
<1>8. ASSUME NEW c \in C, NEW p \in places_read(ss, c)
      PROVE  \E x \in copied_spans(ss, cs) :
                x.section = p.section /\ x.lo = p.lo /\ x.hi = p.hi /\ c.function \in x.refs
  <2>1. p \in read
    OBVIOUS
  <2>2. c.function \in R(p)
    OBVIOUS
  <2> HIDE DEF f, read, R
  <2>3. f[p] \in copied_spans(ss, cs)
    BY <1>2, <2>1
  <2> QED BY <1>4, <2>1, <2>2, <2>3
<1> QED BY <1>5, <1>6, <1>7, <1>8 DEF C

-----------------------------------------------------------------------------
(***************************************************************************)
(* Counting, and the recursive functions that go over a list.              *)
(***************************************************************************)

\* A non-empty set of naturals has a least member.
LEMMA LeastExists ==
    ASSUME NEW T \in SUBSET Nat, T # {}
    PROVE  \E i \in T : \A j \in T : i <= j
<1> DEFINE R == OpToRel(<, Nat)
<1>1. IsWellFoundedOn(R, Nat)
  BY NatLessThanWellFounded
<1>2. \A x, y \in Nat : <<y, x>> \in R <=> y < x
  BY DEF OpToRel
<1> HIDE DEF R
<1>3. PICK x \in T : \A y \in T : ~ (<<y, x>> \in R)
  BY <1>1, WFMin
<1>4. \A y \in T : x \in Nat /\ y \in Nat /\ ~ (y < x)
  BY <1>2, <1>3
<1>5. \A y \in T : x <= y
  BY <1>4
<1> QED BY <1>5

\* Counting up from 0 reaches every number to n.
LEMMA CountingUp ==
    ASSUME NEW n \in Nat, NEW T \in SUBSET (0..n), 0 \in T, \A i \in T : i < n => i + 1 \in T
    PROVE  T = 0..n
<1> DEFINE missed == (0..n) \ T
<1> SUFFICES ASSUME missed # {} PROVE FALSE
  OBVIOUS
<1>1. missed \in SUBSET Nat
  OBVIOUS
<1>2. PICK x \in missed : \A y \in missed : x <= y
  <2> HIDE DEF missed
  <2> QED BY <1>1, LeastExists
<1>3. x \in 0..n /\ x \notin T /\ x # 0
  BY <1>2
<1>4. x - 1 \in 0..n /\ ~ (x <= x - 1) /\ x - 1 < n
  BY <1>3
<1>5. x - 1 \in T
  BY <1>2, <1>4
<1> QED BY <1>3, <1>4, <1>5
\* The spans after the first n places read.
LEMMA MergingExists ==
    ASSUME NEW sp, Len(sp) \in Nat
    PROVE  \E f : f = [n \in 0..Len(sp) |-> IF n = 0 THEN <<>> ELSE with_span(f[n - 1], sp[n])]
<1> DEFINE N == Len(sp)
           Runs(m, f) == /\ f = [i \in 0..m |-> f[i]] /\ f[0] = <<>>
                         /\ \A i \in 1..m : f[i] = with_span(f[i - 1], sp[i])
           T == {m \in 0..N : \E f : Runs(m, f)}
<1>1. 0 \in T
  <2>1. Runs(0, [i \in 0..0 |-> <<>>])
    OBVIOUS
  <2>2. \E f : Runs(0, f)
    <3> HIDE DEF Runs
    <3> QED BY <2>1
  <2> HIDE DEF Runs, N
  <2> QED BY <2>2 DEF N
<1> HIDE DEF N
<1>2. N \in Nat
  BY DEF N
<1>3. ASSUME NEW m \in T, m < N PROVE m + 1 \in T
  <2>1. PICK f : Runs(m, f)
    OBVIOUS
  <2> DEFINE g == [i \in 0..(m + 1) |-> IF i = m + 1 THEN with_span(f[m], sp[m + 1]) ELSE f[i]]
  <2>2. m \in Nat /\ m + 1 \in 0..N
    BY <1>2, <1>3
  <2>3. g = [i \in 0..(m + 1) |-> g[i]] /\ g[0] = <<>>
    BY <2>1, <2>2
  <2>4. ASSUME NEW i \in 1..(m + 1) PROVE g[i] = with_span(g[i - 1], sp[i])
    <3>1. i - 1 \in 0..m /\ i - 1 # m + 1 /\ i - 1 \in 0..(m + 1) /\ i \in 0..(m + 1)
      BY <2>2
    <3>2. g[i - 1] = f[i - 1]
      BY <3>1
    <3>3. CASE i = m + 1
      <4>1. g[i] = with_span(f[m], sp[i]) /\ i - 1 = m
        BY <2>2, <3>1, <3>3
      <4> QED BY <3>2, <4>1
    <3>4. CASE i # m + 1
      <4>1. i \in 1..m /\ g[i] = f[i]
        BY <2>2, <3>1, <3>4
      <4> QED BY <2>1, <3>2, <4>1
    <3> QED BY <3>3, <3>4
  <2> HIDE DEF g
  <2>5. Runs(m + 1, g)
    BY <2>3, <2>4
  <2> QED BY <2>2, <2>5
<1>4. T = 0..N
  <2>1. T \in SUBSET (0..N)
    OBVIOUS
  <2> HIDE DEF T
  <2> QED BY <1>1, <1>2, <1>3, <2>1, CountingUp
<1>5. PICK f : Runs(N, f)
  BY <1>2, <1>4
<1>6. \A i \in 0..N : f[i] = IF i = 0 THEN <<>> ELSE with_span(f[i - 1], sp[i])
  <2>1. \A i \in 0..N : i = 0 \/ i \in 1..N
    BY <1>2
  <2> QED BY <1>5, <2>1
<1>7. f = [i \in 0..N |-> IF i = 0 THEN <<>> ELSE with_span(f[i - 1], sp[i])]
  BY <1>5, <1>6
<1> QED BY <1>7 DEF N

\* The runs after the first n blobs.
LEMMA CoalescingExists ==
    ASSUME NEW bs, Len(bs) \in Nat
    PROVE  \E f : f = [n \in 0..Len(bs) |-> IF n = 0 THEN <<>> ELSE with_blob(f[n - 1], bs[n])]
<1> DEFINE N == Len(bs)
           Runs(m, f) == /\ f = [i \in 0..m |-> f[i]] /\ f[0] = <<>>
                         /\ \A i \in 1..m : f[i] = with_blob(f[i - 1], bs[i])
           T == {m \in 0..N : \E f : Runs(m, f)}
<1>1. 0 \in T
  <2>1. Runs(0, [i \in 0..0 |-> <<>>])
    OBVIOUS
  <2>2. \E f : Runs(0, f)
    <3> HIDE DEF Runs
    <3> QED BY <2>1
  <2> HIDE DEF Runs, N
  <2> QED BY <2>2 DEF N
<1> HIDE DEF N
<1>2. N \in Nat
  BY DEF N
<1>3. ASSUME NEW m \in T, m < N PROVE m + 1 \in T
  <2>1. PICK f : Runs(m, f)
    OBVIOUS
  <2> DEFINE g == [i \in 0..(m + 1) |-> IF i = m + 1 THEN with_blob(f[m], bs[m + 1]) ELSE f[i]]
  <2>2. m \in Nat /\ m + 1 \in 0..N
    BY <1>2, <1>3
  <2>3. g = [i \in 0..(m + 1) |-> g[i]] /\ g[0] = <<>>
    BY <2>1, <2>2
  <2>4. ASSUME NEW i \in 1..(m + 1) PROVE g[i] = with_blob(g[i - 1], bs[i])
    <3>1. i - 1 \in 0..m /\ i - 1 # m + 1 /\ i - 1 \in 0..(m + 1) /\ i \in 0..(m + 1)
      BY <2>2
    <3>2. g[i - 1] = f[i - 1]
      BY <3>1
    <3>3. CASE i = m + 1
      <4>1. g[i] = with_blob(f[m], bs[i]) /\ i - 1 = m
        BY <2>2, <3>1, <3>3
      <4> QED BY <3>2, <4>1
    <3>4. CASE i # m + 1
      <4>1. i \in 1..m /\ g[i] = f[i]
        BY <2>2, <3>1, <3>4
      <4> QED BY <2>1, <3>2, <4>1
    <3> QED BY <3>3, <3>4
  <2> HIDE DEF g
  <2>5. Runs(m + 1, g)
    BY <2>3, <2>4
  <2> QED BY <2>2, <2>5
<1>4. T = 0..N
  <2>1. T \in SUBSET (0..N)
    OBVIOUS
  <2> HIDE DEF T
  <2> QED BY <1>1, <1>2, <1>3, <2>1, CountingUp
<1>5. PICK f : Runs(N, f)
  BY <1>2, <1>4
<1>6. \A i \in 0..N : f[i] = IF i = 0 THEN <<>> ELSE with_blob(f[i - 1], bs[i])
  <2>1. \A i \in 0..N : i = 0 \/ i \in 1..N
    BY <1>2
  <2> QED BY <1>5, <2>1
<1>7. f = [i \in 0..N |-> IF i = 0 THEN <<>> ELSE with_blob(f[i - 1], bs[i])]
  BY <1>5, <1>6
<1> QED BY <1>7 DEF N

\* The sources after the calls of the first n functions.
HandsOn(graph, given, f) ==
    f = [n \in 0..Len(graph.order) |-> IF n = 0 THEN given ELSE handed_on(graph, f[n - 1], graph.order[n])]

LEMMA HandingOnExists ==
    ASSUME NEW given, NEW graph, Len(graph.order) \in Nat
    PROVE  \E f : HandsOn(graph, given, f)
<1> DEFINE N == Len(graph.order)
           Runs(m, f) == /\ f = [i \in 0..m |-> f[i]] /\ f[0] = given
                         /\ \A i \in 1..m : f[i] = handed_on(graph, f[i - 1], graph.order[i])
           T == {m \in 0..N : \E f : Runs(m, f)}
<1>1. 0 \in T
  <2>1. Runs(0, [i \in 0..0 |-> given])
    OBVIOUS
  <2>2. \E f : Runs(0, f)
    <3> HIDE DEF Runs
    <3> QED BY <2>1
  <2> HIDE DEF Runs, N
  <2> QED BY <2>2 DEF N
<1> HIDE DEF N
<1>2. N \in Nat
  BY DEF N
<1>3. ASSUME NEW m \in T, m < N PROVE m + 1 \in T
  <2>1. PICK f : Runs(m, f)
    OBVIOUS
  <2> DEFINE g == [i \in 0..(m + 1) |-> IF i = m + 1 THEN handed_on(graph, f[m], graph.order[m + 1]) ELSE f[i]]
  <2>2. m \in Nat /\ m + 1 \in 0..N
    BY <1>2, <1>3
  <2>3. g = [i \in 0..(m + 1) |-> g[i]] /\ g[0] = given
    BY <2>1, <2>2
  <2>4. ASSUME NEW i \in 1..(m + 1) PROVE g[i] = handed_on(graph, g[i - 1], graph.order[i])
    <3>1. i - 1 \in 0..m /\ i - 1 # m + 1 /\ i - 1 \in 0..(m + 1) /\ i \in 0..(m + 1)
      BY <2>2
    <3>2. g[i - 1] = f[i - 1]
      BY <3>1
    <3>3. CASE i = m + 1
      <4>1. g[i] = handed_on(graph, f[m], graph.order[i]) /\ i - 1 = m
        BY <2>2, <3>1, <3>3
      <4> QED BY <3>2, <4>1
    <3>4. CASE i # m + 1
      <4>1. i \in 1..m /\ g[i] = f[i]
        BY <2>2, <3>1, <3>4
      <4> QED BY <2>1, <3>2, <4>1
    <3> QED BY <3>3, <3>4
  <2> HIDE DEF g
  <2>5. Runs(m + 1, g)
    BY <2>3, <2>4
  <2> QED BY <2>2, <2>5
<1>4. T = 0..N
  <2>1. T \in SUBSET (0..N)
    OBVIOUS
  <2> HIDE DEF T
  <2> QED BY <1>1, <1>2, <1>3, <2>1, CountingUp
<1>5. PICK f : Runs(N, f)
  BY <1>2, <1>4
<1>6. \A i \in 0..N : f[i] = IF i = 0 THEN given ELSE handed_on(graph, f[i - 1], graph.order[i])
  <2>1. \A i \in 0..N : i = 0 \/ i \in 1..N
    BY <1>2
  <2> QED BY <1>5, <2>1
<1>7. f = [i \in 0..N |-> IF i = 0 THEN given ELSE handed_on(graph, f[i - 1], graph.order[i])]
  BY <1>5, <1>6
<1> QED BY <1>7 DEF N, HandsOn

\* What is known after the first n instructions.
Scans(ss, ranges, f0, code, f) ==
    f = [n \in 0..Len(code) |-> IF n = 0 THEN NothingSeen ELSE note_instruction(ss, ranges, f0, f[n - 1], code[n])]

LEMMA ScanExists ==
    ASSUME NEW ss, NEW ranges, NEW f0, NEW code, Len(code) \in Nat
    PROVE  \E f : Scans(ss, ranges, f0, code, f)
<1> DEFINE N == Len(code)
           Runs(m, f) == /\ f = [i \in 0..m |-> f[i]] /\ f[0] = NothingSeen
                         /\ \A i \in 1..m : f[i] = note_instruction(ss, ranges, f0, f[i - 1], code[i])
           T == {m \in 0..N : \E f : Runs(m, f)}
<1>1. 0 \in T
  <2>1. Runs(0, [i \in 0..0 |-> NothingSeen])
    OBVIOUS
  <2>2. \E f : Runs(0, f)
    <3> HIDE DEF Runs
    <3> QED BY <2>1
  <2> HIDE DEF Runs, N
  <2> QED BY <2>2 DEF N
<1> HIDE DEF N
<1>2. N \in Nat
  BY DEF N
<1>3. ASSUME NEW m \in T, m < N PROVE m + 1 \in T
  <2>1. PICK f : Runs(m, f)
    OBVIOUS
  <2> DEFINE g == [i \in 0..(m + 1) |-> IF i = m + 1 THEN note_instruction(ss, ranges, f0, f[m], code[m + 1]) ELSE f[i]]
  <2>2. m \in Nat /\ m + 1 \in 0..N
    BY <1>2, <1>3
  <2>3. g = [i \in 0..(m + 1) |-> g[i]] /\ g[0] = NothingSeen
    BY <2>1, <2>2
  <2>4. ASSUME NEW i \in 1..(m + 1) PROVE g[i] = note_instruction(ss, ranges, f0, g[i - 1], code[i])
    <3>1. i - 1 \in 0..m /\ i - 1 # m + 1 /\ i - 1 \in 0..(m + 1) /\ i \in 0..(m + 1)
      BY <2>2
    <3>2. g[i - 1] = f[i - 1]
      BY <3>1
    <3>3. CASE i = m + 1
      <4>1. g[i] = note_instruction(ss, ranges, f0, f[m], code[i]) /\ i - 1 = m
        BY <2>2, <3>1, <3>3
      <4> QED BY <3>2, <4>1
    <3>4. CASE i # m + 1
      <4>1. i \in 1..m /\ g[i] = f[i]
        BY <2>2, <3>1, <3>4
      <4> QED BY <2>1, <3>2, <4>1
    <3> QED BY <3>3, <3>4
  <2> HIDE DEF g
  <2>5. Runs(m + 1, g)
    BY <2>3, <2>4
  <2> QED BY <2>2, <2>5
<1>4. T = 0..N
  <2>1. T \in SUBSET (0..N)
    OBVIOUS
  <2> HIDE DEF T
  <2> QED BY <1>1, <1>2, <1>3, <2>1, CountingUp
<1>5. PICK f : Runs(N, f)
  BY <1>2, <1>4
<1>6. \A i \in 0..N : f[i] = IF i = 0 THEN NothingSeen ELSE note_instruction(ss, ranges, f0, f[i - 1], code[i])
  <2>1. \A i \in 0..N : i = 0 \/ i \in 1..N
    BY <1>2
  <2> QED BY <1>5, <2>1
<1>7. f = [i \in 0..N |-> IF i = 0 THEN NothingSeen ELSE note_instruction(ss, ranges, f0, f[i - 1], code[i])]
  BY <1>5, <1>6
<1> QED BY <1>7 DEF N, Scans

-----------------------------------------------------------------------------
(***************************************************************************)
(* The large copies' spans, merged.                                        *)
(***************************************************************************)

\* A list with another last member.
LEMMA LastReplaced ==
    ASSUME NEW S, NEW s \in Seq(S), s # <<>>, NEW x \in S
    PROVE  LET t == [s EXCEPT ![Len(s)] = x]
           IN  /\ t \in Seq(S) /\ Len(t) = Len(s) /\ t[Len(s)] = x
               /\ \A i \in 1..Len(s) : i # Len(s) => t[i] = s[i]
<1> DEFINE t == [s EXCEPT ![Len(s)] = x]
<1>1. Len(s) \in Nat \ {0} /\ DOMAIN s = 1..Len(s) /\ Len(s) \in 1..Len(s)
  BY EmptySeq, LenProperties
<1>2. t \in [1..Len(s) -> S]
  <2>1. \A i \in 1..Len(s) : s[i] \in S
    BY <1>1, ElementOfSeq
  <2> QED BY <1>1, <2>1
<1>3. t \in Seq(S) /\ Len(t) = Len(s)
  BY <1>1, <1>2, FunctionIsList
<1>4. t[Len(s)] = x /\ \A i \in 1..Len(s) : i # Len(s) => t[i] = s[i]
  BY <1>1
<1> QED BY <1>3, <1>4

Clear(x, y) == x.section < y.section \/ (x.section = y.section /\ x.hi < y.lo)
Within(x, y) == x.section = y.section /\ y.lo <= x.lo /\ x.hi <= y.hi /\ x.refs \subseteq y.refs

\* What the spans are after the first n places read.
Merged(ss, sp, n, made) ==
    /\ made \in Seq(Spans(ss))
    /\ n > 0 => made # <<>> /\ made[Len(made)].section = sp[n].section /\ made[Len(made)].lo <= sp[n].lo
    /\ \A i, j \in 1..Len(made) : i < j => Clear(made[i], made[j])
    /\ \A k \in 1..n : \E i \in 1..Len(made) : Within(sp[k], made[i])
    /\ \A i \in 1..Len(made) : \A a \in Int : made[i].lo <= a /\ a < made[i].hi =>
          \E k \in 1..n : sp[k].section = made[i].section /\ sp[k].lo <= a /\ a < sp[k].hi

\* Two spans that meet become a span, which has in it both and no more.
LEMMA MergeIs ==
    ASSUME NEW ss, AreSections(ss), NEW x \in Spans(ss), NEW y \in Spans(ss),
           x.section = y.section, x.lo <= y.lo, y.lo <= x.hi
    PROVE  /\ _merge(x, y) \in Spans(ss)
           /\ _merge(x, y).section = x.section /\ _merge(x, y).lo = x.lo
           /\ Within(x, _merge(x, y)) /\ Within(y, _merge(x, y))
           /\ \A a \in Int : x.lo <= a /\ a < _merge(x, y).hi => a < x.hi \/ (y.lo <= a /\ a < y.hi)
<1> DEFINE R == [section : DOMAIN ss, lo : Nat, hi : Nat, refs : SUBSET STRING]
           h == IF y.hi > x.hi THEN y.hi ELSE x.hi
           v == x.refs \cup y.refs
           m == [x EXCEPT !.hi = h, !.refs = v]
<1>1. x \in R /\ y \in R /\ IsPlace(ss, x) /\ IsPlace(ss, y)
  BY DEF Spans
<1>2. x.hi \in Nat /\ y.hi \in Nat /\ x.lo \in Nat /\ y.lo \in Nat /\ x.section \in DOMAIN ss
  BY <1>1
<1>3. ss[x.section].lo \in Nat /\ ss[x.section].hi \in Nat /\ MIN_BLOB_SIZE \in Nat
  BY <1>2, SectionsAre, ConstantsAssumption
<1>4. _merge(x, y) = m
  BY Zenon DEF _merge
<1>5. h \in Nat /\ x.hi <= h /\ y.hi <= h /\ h <= ss[x.section].hi
  BY <1>1, <1>2, <1>3 DEF IsPlace
<1>6. \A a \in Int : x.lo <= a /\ a < h => a < x.hi \/ (y.lo <= a /\ a < y.hi)
  BY <1>2
<1>7. v \in SUBSET STRING /\ x.refs \subseteq v /\ y.refs \subseteq v
  BY <1>1
<1> HIDE DEF h, v
<1>8. m \in R /\ m.section = x.section /\ m.lo = x.lo /\ m.hi = h /\ m.refs = v
  BY <1>1, <1>5, <1>7
<1> HIDE DEF m
<1>9. IsPlace(ss, m)
  BY <1>1, <1>2, <1>3, <1>5, <1>8 DEF IsPlace
<1>10. Within(x, m) /\ Within(y, m)
  BY <1>2, <1>5, <1>7, <1>8 DEF Within
<1> QED BY <1>4, <1>6, <1>8, <1>9, <1>10 DEF Spans

LEMMA MergingStep ==
    ASSUME NEW ss, AreSections(ss), NEW sp \in Seq(Spans(ss)), NEW n \in Nat, n < Len(sp),
           n > 0 => _place_before(sp[n], sp[n + 1]), NEW made, Merged(ss, sp, n, made)
    PROVE  Merged(ss, sp, n + 1, with_span(made, sp[n + 1]))
<1> DEFINE s == sp[n + 1]
           L == Len(made)
           last == made[L]
           next == with_span(made, s)
<1>1. Len(sp) \in Nat /\ n + 1 \in 1..Len(sp) /\ L \in Nat
  BY LenProperties DEF Merged
<1>2. s \in Spans(ss) /\ made \in Seq(Spans(ss)) /\ \A i \in 1..L : made[i] \in Spans(ss)
  BY <1>1, ElementOfSeq DEF Merged
<1>3. \A x \in Spans(ss) : x.section \in Int /\ x.lo \in Int /\ x.hi \in Int /\ x.lo < x.hi
  BY SectionsAre DEF Spans, IsPlace
<1>4. \A k : k \in 1..(n + 1) => k \in 1..n \/ k = n + 1
  OBVIOUS
<1>5. \A k : k \in 1..n => k \in 1..(n + 1) /\ sp[k] \in Spans(ss)
  BY <1>1, ElementOfSeq
<1>6. n + 1 \in 1..(n + 1)
  OBVIOUS
<1>7. L = 0 <=> made = <<>>
  BY <1>2, EmptySeq
<1>8. CASE made # <<>> /\ s.section = last.section /\ s.lo <= last.hi
  <2> DEFINE m == _merge(last, s)
  <2>1. L \in 1..L /\ last \in Spans(ss)
    BY <1>1, <1>2, <1>7, <1>8
  <2>2. n > 0
    <3>1. n = 0 => FALSE
      <4> SUFFICES ASSUME n = 0 PROVE FALSE
        OBVIOUS
      <4>1. \E k \in 1..0 : TRUE
        BY <1>2, <1>3, <2>1 DEF Merged
      <4> QED BY <4>1
    <3> QED BY <3>1
  <2>3. last.section = sp[n].section /\ last.lo <= sp[n].lo /\ sp[n] \in Spans(ss)
    BY <1>5, <2>2 DEF Merged
  <2>4. last.lo <= s.lo
    <3>1. sp[n].lo <= s.lo
      BY <1>2, <1>3, <1>8, <2>2, <2>3 DEF _place_before
    <3> QED BY <1>2, <1>3, <2>1, <2>3, <3>1
  <2>5. /\ m \in Spans(ss) /\ m.section = last.section /\ m.lo = last.lo
        /\ Within(last, m) /\ Within(s, m)
        /\ \A a \in Int : last.lo <= a /\ a < m.hi => a < last.hi \/ (s.lo <= a /\ a < s.hi)
    BY <1>2, <1>8, <2>1, <2>4, MergeIs
  <2>6. next = [made EXCEPT ![L] = m]
    BY <1>8 DEF with_span
  <2> HIDE DEF m, s, last, L, next
  <2>7. /\ next \in Seq(Spans(ss)) /\ Len(next) = L /\ next[L] = m
        /\ \A i \in 1..L : i # L => next[i] = made[i]
    BY <1>2, <1>8, <2>5, <2>6, LastReplaced DEF L
  <2>8. next # <<>>
    BY <2>1, <2>7, EmptySeq, <1>1
  <2>9. \A i, j \in 1..L : i < j => Clear(made[i], made[j])
    BY DEF Merged, L
  <2>10. ASSUME NEW i \in 1..L, NEW j \in 1..L, i < j PROVE Clear(next[i], next[j])
    <3>1. i # L /\ next[i] = made[i] /\ Clear(made[i], made[j])
      BY <1>1, <2>7, <2>9, <2>10
    <3>2. CASE j = L
      BY <2>5, <2>7, <3>1, <3>2 DEF Clear, last
    <3>3. CASE j # L
      BY <2>7, <3>1, <3>3
    <3> QED BY <3>2, <3>3
  <2>11. ASSUME NEW x \in Spans(ss), NEW i \in 1..L, Within(x, made[i]) PROVE Within(x, next[i])
    <3>1. CASE i = L
      <4>1. Within(x, last)
        BY <2>11, <3>1 DEF last
      <4>2. Within(x, m)
        BY <1>3, <2>1, <2>5, <4>1 DEF Within
      <4> QED BY <2>7, <3>1, <4>2
    <3> QED BY <2>7, <2>11, <3>1
  <2>12. ASSUME NEW k \in 1..(n + 1) PROVE \E i \in 1..L : Within(sp[k], next[i])
    <3>1. CASE k \in 1..n
      BY <1>5, <2>11, <3>1 DEF Merged, L
    <3>2. CASE k = n + 1
      BY <2>1, <2>5, <2>7, <3>2 DEF s
    <3> QED BY <1>4, <3>1, <3>2
  <2>13. ASSUME NEW i \in 1..L, NEW a \in Int, next[i].lo <= a, a < next[i].hi
         PROVE  \E k \in 1..(n + 1) : sp[k].section = next[i].section /\ sp[k].lo <= a /\ a < sp[k].hi
    <3>1. CASE i # L
      <4>1. \E k \in 1..n : sp[k].section = made[i].section /\ sp[k].lo <= a /\ a < sp[k].hi
        BY <2>7, <2>13, <3>1 DEF Merged, L
      <4> QED BY <1>5, <2>7, <3>1, <4>1
    <3>2. CASE i = L
      <4>1. a < last.hi \/ (s.lo <= a /\ a < s.hi)
        BY <2>5, <2>7, <2>13, <3>2
      <4>2. CASE a < last.hi
        <5>1. last.lo <= a
          BY <2>5, <2>7, <2>13, <3>2
        <5>2. \E k \in 1..n : sp[k].section = last.section /\ sp[k].lo <= a /\ a < sp[k].hi
          BY <2>1, <4>2, <5>1 DEF Merged, L, last
        <5> QED BY <1>5, <2>5, <2>7, <3>2, <5>2
      <4>3. CASE s.lo <= a /\ a < s.hi
        BY <1>6, <1>8, <2>5, <2>7, <3>2, <4>3 DEF s
      <4> QED BY <4>1, <4>2, <4>3
    <3> QED BY <3>1, <3>2
  <2>14. next[L].section = s.section /\ next[L].lo <= s.lo
    BY <1>8, <2>4, <2>5, <2>7
  <2> QED BY <2>7, <2>8, <2>10, <2>12, <2>13, <2>14 DEF Merged, next, s
<1>9. CASE ~(made # <<>> /\ s.section = last.section /\ s.lo <= last.hi)
  <2>1. next = Append(made, s)
    BY <1>9 DEF with_span
  <2>2. CASE L = 0
    <3>1. n = 0
      BY <1>7, <2>2 DEF Merged
    <3>2. next = <<s>> /\ Len(next) = 1 /\ next[1] = s
      BY <1>7, <2>1, <2>2
    <3>3. next \in Seq(Spans(ss)) /\ next # <<>>
      BY <1>2, <3>2
    <3>4. Within(s, s)
      BY <1>2, <1>3 DEF Within
    <3> HIDE DEF next
    <3>5. \A i \in 1..Len(next) : i = 1
      BY <3>2
    <3>6. \A i, j \in 1..Len(next) : i < j => Clear(next[i], next[j])
      BY <3>5
    <3>7. \A k \in 1..(n + 1) : k = 1
      BY <3>1
    <3>8. \A k \in 1..(n + 1) : \E i \in 1..Len(next) : Within(sp[k], next[i])
      BY <3>1, <3>2, <3>4, <3>7
    <3>9. 1 \in 1..(n + 1) /\ s = sp[1]
      BY <3>1
    <3>10. next[1].section = s.section /\ next[1].lo <= s.lo
      BY <1>2, <1>3, <3>2
    <3>11. \A i \in 1..Len(next) : \A a \in Int : next[i].lo <= a /\ a < next[i].hi =>
              \E k \in 1..(n + 1) : sp[k].section = next[i].section /\ sp[k].lo <= a /\ a < sp[k].hi
      BY <3>2, <3>5, <3>9
    <3> QED BY <3>2, <3>3, <3>6, <3>8, <3>10, <3>11 DEF Merged, next
  <2>3. CASE L # 0
    <3>1. L \in 1..L /\ last \in Spans(ss) /\ L \in Nat \ {0}
      BY <1>1, <1>2, <2>3
    <3>2. /\ next \in Seq(Spans(ss)) /\ next # <<>> /\ Len(next) = L + 1
          /\ \A i \in 1..L : next[i] = made[i]
          /\ next[L + 1] = s
      BY <1>2, <2>1, AppendProperties
    <3>3. n > 0
      <4>1. n = 0 => FALSE
        <5> SUFFICES ASSUME n = 0 PROVE FALSE
          OBVIOUS
        <5>1. \E k \in 1..0 : TRUE
          BY <1>2, <1>3, <3>1 DEF Merged
        <5> QED BY <5>1
      <4> QED BY <4>1
    <3>4. last.section = sp[n].section /\ last.lo <= sp[n].lo /\ sp[n] \in Spans(ss)
      BY <1>5, <3>3 DEF Merged
    <3>5. Clear(last, s)
      <4>1. sp[n].section <= s.section
        BY <1>2, <1>3, <3>3, <3>4 DEF _place_before
      <4> HIDE DEF s, last
      <4> QED BY <1>2, <1>3, <1>7, <1>9, <2>3, <3>1, <3>4, <4>1 DEF Clear
    <3>6. \A i, j \in 1..L : i < j => Clear(made[i], made[j])
      BY DEF Merged
    <3> HIDE DEF next, s
    <3>7. ASSUME NEW i \in 1..L PROVE Clear(made[i], s)
      <4>1. CASE i = L
        BY <3>5, <4>1
      <4>2. CASE i # L
        <5>1. Clear(made[i], last) /\ made[i] \in Spans(ss)
          BY <1>1, <1>2, <3>1, <3>6, <4>2
        <5> HIDE DEF last
        <5> QED BY <1>2, <1>3, <3>1, <3>5, <5>1 DEF Clear
      <4> QED BY <4>1, <4>2
    <3> HIDE DEF last, L
    <3>8. \A i \in 1..(L + 1) : i \in 1..L \/ i = L + 1
      BY <3>1
    <3>9. ASSUME NEW i \in 1..(L + 1), NEW j \in 1..(L + 1), i < j PROVE Clear(next[i], next[j])
      <4>1. i \in 1..L
        BY <3>1, <3>8, <3>9
      <4>2. CASE j = L + 1
        BY <3>2, <3>7, <4>1, <4>2
      <4>3. CASE j \in 1..L
        BY <3>2, <3>6, <3>9, <4>1, <4>3
      <4> QED BY <3>8, <4>2, <4>3
    <3>10. \A i \in 1..L : i \in 1..(L + 1)
      BY <3>1
    <3>11. L + 1 \in 1..(L + 1)
      BY <3>1
    <3>12. ASSUME NEW k \in 1..(n + 1) PROVE \E i \in 1..(L + 1) : Within(sp[k], next[i])
      <4>1. CASE k \in 1..n
        <5>1. PICK i \in 1..L : Within(sp[k], made[i])
          BY <4>1 DEF Merged, L
        <5> QED BY <3>2, <3>10, <5>1
      <4>2. CASE k = n + 1
        <5>1. Within(s, s)
          BY <1>2, <1>3 DEF Within
        <5> QED BY <3>2, <3>11, <4>2, <5>1 DEF s
      <4> QED BY <1>4, <4>1, <4>2
    <3>13. ASSUME NEW i \in 1..(L + 1), NEW a \in Int, next[i].lo <= a, a < next[i].hi
           PROVE  \E k \in 1..(n + 1) : sp[k].section = next[i].section /\ sp[k].lo <= a /\ a < sp[k].hi
      <4>1. CASE i \in 1..L
        <5>1. \E k \in 1..n : sp[k].section = made[i].section /\ sp[k].lo <= a /\ a < sp[k].hi
          BY <3>2, <3>13, <4>1 DEF Merged, L
        <5> QED BY <1>5, <3>2, <4>1, <5>1
      <4>2. CASE i = L + 1
        BY <1>6, <3>2, <3>13, <4>2 DEF s
      <4> QED BY <3>8, <4>1, <4>2
    <3>14. next[L + 1].section = s.section /\ next[L + 1].lo <= s.lo
      BY <1>2, <1>3, <3>2
    <3> QED BY <3>2, <3>9, <3>12, <3>13, <3>14 DEF Merged, next, s, L
  <2> QED BY <2>2, <2>3
<1> QED BY <1>8, <1>9

\* The merged spans are apart, take in every place read, and have nothing in them that is not read.
LEMMA MergedAre ==
    ASSUME NEW ss, AreSections(ss), NEW cs \in Seq(Copy)
    PROVE  LET m == _merged_large_copy_spans(ss, cs)
           IN  /\ m \in Seq(Spans(ss))
               /\ \A i, j \in 1..Len(m) : i < j => Clear(m[i], m[j])
               /\ \A x \in copied_spans(ss, cs) : \E i \in 1..Len(m) : Within(x, m[i])
               /\ \A i \in 1..Len(m) : \A a \in Int : m[i].lo <= a /\ a < m[i].hi =>
                     \E x \in copied_spans(ss, cs) : x.section = m[i].section /\ x.lo <= a /\ a < x.hi
<1> DEFINE X == copied_spans(ss, cs)
           sp == InOrder(X, _place_before)
           p == CHOOSE f : f = [n \in 0..Len(sp) |-> IF n = 0 THEN <<>> ELSE with_span(f[n - 1], sp[n])]
           T == {n \in 0..Len(sp) : Merged(ss, sp, n, p[n])}
<1>1. _merged_large_copy_spans(ss, cs) = p[Len(sp)]
  BY Zenon DEF _merged_large_copy_spans
<1>2. X \in SUBSET Spans(ss) /\ ArePlaces(X)
  BY SpansAre
<1> HIDE DEF X
<1>3. /\ sp \in Seq(X) /\ \A x \in X : \E k \in 1..Len(sp) : sp[k] = x
      /\ \A i, j \in 1..Len(sp) : i < j => _place_before(sp[i], sp[j])
  BY <1>2, PlacesListed
<1> HIDE DEF sp
<1>4. Len(sp) \in Nat /\ (\A k \in 1..Len(sp) : sp[k] \in X) /\ sp \in Seq(Spans(ss))
  <2>1. Len(sp) \in Nat /\ \A k \in 1..Len(sp) : sp[k] \in X
    BY <1>3, LenProperties, ElementOfSeq
  <2> QED BY <1>2, <1>3, <2>1
<1>5. p = [n \in 0..Len(sp) |-> IF n = 0 THEN <<>> ELSE with_span(p[n - 1], sp[n])]
  <2>1. \E f : f = [n \in 0..Len(sp) |-> IF n = 0 THEN <<>> ELSE with_span(f[n - 1], sp[n])]
    BY <1>4, MergingExists
  <2> QED BY Zenon, <2>1
<1> HIDE DEF p
<1>6. 0 \in T
  <2>1. p[0] = <<>>
    BY <1>4, <1>5
  <2>2. <<>> \in Seq(Spans(ss)) /\ Len(<<>>) = 0 /\ \A i : ~ (i \in 1..0)
    OBVIOUS
  <2>3. Merged(ss, sp, 0, <<>>)
    BY <2>2 DEF Merged
  <2> QED BY <1>4, <2>1, <2>3
<1>7. ASSUME NEW n \in T, n < Len(sp) PROVE n + 1 \in T
  <2>1. n \in Nat /\ n + 1 \in 0..Len(sp) /\ n + 1 # 0 /\ (n + 1) - 1 = n
    BY <1>4, <1>7
  <2>2. p[n + 1] = with_span(p[n], sp[n + 1])
    BY <1>5, <2>1
  <2>3. n > 0 => _place_before(sp[n], sp[n + 1])
    <3>1. n > 0 => n \in 1..Len(sp) /\ n + 1 \in 1..Len(sp) /\ n < n + 1
      BY <1>4, <1>7, <2>1
    <3> QED BY <1>3, <3>1
  <2>4. Merged(ss, sp, n, p[n])
    BY <1>7
  <2>5. Merged(ss, sp, n + 1, with_span(p[n], sp[n + 1]))
    BY <1>4, <1>7, <2>1, <2>3, <2>4, MergingStep
  <2> QED BY <2>1, <2>2, <2>5
<1>8. T = 0..Len(sp)
  <2>1. T \in SUBSET (0..Len(sp))
    OBVIOUS
  <2> HIDE DEF T
  <2> QED BY <1>4, <1>6, <1>7, <2>1, CountingUp
<1>9. Merged(ss, sp, Len(sp), p[Len(sp)])
  <2>1. Len(sp) \in T
    BY <1>4, <1>8
  <2> QED BY <2>1
<1> DEFINE m == p[Len(sp)]
<1> HIDE DEF m
<1>10. /\ m \in Seq(Spans(ss))
       /\ \A i, j \in 1..Len(m) : i < j => Clear(m[i], m[j])
       /\ \A k \in 1..Len(sp) : \E i \in 1..Len(m) : Within(sp[k], m[i])
       /\ \A i \in 1..Len(m) : \A a \in Int : m[i].lo <= a /\ a < m[i].hi =>
             \E k \in 1..Len(sp) : sp[k].section = m[i].section /\ sp[k].lo <= a /\ a < sp[k].hi
  BY <1>9 DEF Merged, m
<1>11. \A x \in X : \E i \in 1..Len(m) : Within(x, m[i])
  BY <1>3, <1>10
<1>12. \A i \in 1..Len(m) : \A a \in Int : m[i].lo <= a /\ a < m[i].hi =>
             \E x \in X : x.section = m[i].section /\ x.lo <= a /\ a < x.hi
  BY <1>4, <1>10
<1> QED BY <1>1, <1>10, <1>11, <1>12 DEF m, X

\* What a large copy reads is in one span, with the function that copies.
LEMMA CopyMerged ==
    ASSUME NEW ss, AreSections(ss), NEW cs \in Seq(Copy), NEW c \in ToSet(cs),
           NEW r \in places_for_va(ss, c.source), c.source # NoAddress, ~ss[r].excluded,
           Least(c.source + c.size, ss[r].hi) - c.source >= MIN_BLOB_SIZE
    PROVE  LET m == _merged_large_copy_spans(ss, cs)
           IN  \E i \in 1..Len(m) :
                  /\ m[i].section = r /\ m[i].lo <= c.source /\ c.function \in m[i].refs
                  /\ Least(c.source + c.size, ss[r].hi) <= m[i].hi
<1> DEFINE p == [section |-> r, lo |-> c.source, hi |-> Least(c.source + c.size, ss[r].hi)]
           m == _merged_large_copy_spans(ss, cs)
<1>1. p \in places_read(ss, c)
  BY DEF places_read
<1>2. PICK x \in copied_spans(ss, cs) :
         x.section = p.section /\ x.lo = p.lo /\ x.hi = p.hi /\ c.function \in x.refs
  <2> HIDE DEF p
  <2> QED BY <1>1, SpansAre
<1> HIDE DEF m
<1>3. PICK i \in 1..Len(m) : Within(x, m[i])
  BY MergedAre DEF m
<1> QED BY <1>2, <1>3 DEF Within, m

\* An address of a span is one that a large copy reads.
LEMMA SpanRead ==
    ASSUME NEW ss, AreSections(ss), NEW cs \in Seq(Copy),
           NEW s \in ToSet(_merged_large_copy_spans(ss, cs)), NEW a \in Int, s.lo <= a, a < s.hi
    PROVE  \E c \in ToSet(cs) : /\ c.source # NoAddress /\ s.section \in places_for_va(ss, c.source)
                                /\ c.source <= a /\ a < c.source + c.size
<1> DEFINE m == _merged_large_copy_spans(ss, cs)
           X == copied_spans(ss, cs)
<1>1. m \in Seq(Spans(ss))
  BY MergedAre
<1>2. PICK i \in 1..Len(m) : s = m[i]
  <2> HIDE DEF m
  <2>1. ToSet(m) = {m[i] : i \in 1..Len(m)}
    BY <1>1, ToSetIs
  <2> QED BY <2>1 DEF m
<1>3. PICK x \in X : x.section = s.section /\ x.lo <= a /\ a < x.hi
  <2> HIDE DEF m, X
  <2> QED BY <1>2, MergedAre DEF m, X
<1>4. PICK c \in ToSet(cs) : /\ c.source # NoAddress /\ x.section \in places_for_va(ss, c.source)
                             /\ x.lo = c.source /\ x.hi <= c.source + c.size
  BY SpansAre
<1>5. x \in Spans(ss)
  BY SpansAre
<1>6. x.lo \in Int /\ x.hi \in Int
  BY <1>5 DEF Spans
<1>7. c \in Copy
  BY ToSetIs
<1>8. c.source + c.size \in Int
  BY <1>7 DEF Copy
<1> QED BY <1>3, <1>4, <1>6, <1>8

-----------------------------------------------------------------------------
(***************************************************************************)
(* Blobs.                                                                  *)
(***************************************************************************)

\* Of the signatures of programs that are among the bytes, one is told.
LEMMA SignatureTold ==
    ASSUME NEW bytes \in Seq(STRING), ToSet(bytes) \cap {"MZ", "PE", "ELF"} # {}
    PROVE  ToSet(bytes) \cap {"MZ", "PE", "ELF"} \cap chunk_magic(bytes) # {}
<1> DEFINE needles == [MZ |-> 1, PE |-> 2, ELF |-> 3, PK |-> 4, gzip |-> 5, zlib |-> 6]
           hits(kinds) == {i \in 1..Len(bytes) : bytes[i] \in kinds}
           sooner(m)   == {k \in DOMAIN needles : needles[k] < needles[m]}
<1>1. DOMAIN needles = {"MZ", "PE", "ELF", "PK", "gzip", "zlib"}
  OBVIOUS
<1>2. chunk_magic(bytes) = {m \in DOMAIN needles : hits({m}) # {} /\ Cardinality(hits(sooner(m))) < MAGIC_HITS}
  BY DEF chunk_magic
<1>3. sooner("MZ") = {} /\ sooner("PE") = {"MZ"} /\ sooner("ELF") = {"MZ", "PE"}
  BY <1>1
<1>4. ToSet(bytes) = {bytes[i] : i \in 1..Len(bytes)}
  BY ToSetIs
<1> HIDE DEF needles, sooner
<1>5. ASSUME NEW m \in {"MZ", "PE", "ELF"}, m \in ToSet(bytes), sooner(m) \cap ToSet(bytes) = {}
      PROVE  m \in chunk_magic(bytes)
  <2>1. hits({m}) # {} /\ hits(sooner(m)) = {}
    BY <1>4, <1>5
  <2>2. Cardinality(hits(sooner(m))) = 0 /\ MAGIC_HITS \in Nat \ {0}
    <3> HIDE DEF hits
    <3> QED BY <2>1, FS_EmptySet, ConstantsAssumption
  <2>3. Cardinality(hits(sooner(m))) < MAGIC_HITS
    <3> HIDE DEF hits
    <3> QED BY <2>2
  <2>4. m \in DOMAIN needles
    BY <1>1
  <2> HIDE DEF hits
  <2> QED BY <1>2, <2>1, <2>3, <2>4
<1>6. \E m \in {"MZ", "PE", "ELF"} : m \in ToSet(bytes) /\ sooner(m) \cap ToSet(bytes) = {}
  <2>1. CASE "MZ" \in ToSet(bytes)
    BY <1>3, <2>1
  <2>2. CASE "MZ" \notin ToSet(bytes) /\ "PE" \in ToSet(bytes)
    BY <1>3, <2>2
  <2>3. CASE "MZ" \notin ToSet(bytes) /\ "PE" \notin ToSet(bytes)
    BY <1>3, <2>3
  <2> QED BY <2>1, <2>2, <2>3
<1> QED BY <1>5, <1>6

\* A blob of a place is that place, and what is known of it.
LEMMA BlobIs ==
    ASSUME NEW ss, NEW x, x.section \in DOMAIN ss, x.lo \in Nat, x.hi \in Nat, IsPlace(ss, x),
           NEW refs \in SUBSET STRING, NEW reasons \in SUBSET Reasons
    PROVE  LET b == _blob(ss, x, refs, reasons)
           IN  /\ b \in Blobs(ss)
               /\ b.section = x.section /\ b.lo = x.lo /\ b.hi = x.hi /\ b.refs = refs /\ b.reasons = reasons
               /\ b.magic = chunk_magic(cells(ss[x.section], x.lo, Least(x.hi, x.lo + ENTROPY_SAMPLE_LIMIT)))
<1> DEFINE bytes == cells(ss[x.section], x.lo, Least(x.hi, x.lo + ENTROPY_SAMPLE_LIMIT))
           b == [id |-> 0, section |-> x.section, lo |-> x.lo, hi |-> x.hi, refs |-> refs,
                 magic |-> chunk_magic(bytes), high |-> is_high_entropy(bytes), reasons |-> reasons]
<1>1. _blob(ss, x, refs, reasons) = b
  BY DEF _blob
<1> HIDE DEF bytes
<1>2. chunk_magic(bytes) \in SUBSET Signatures
  <2>1. chunk_magic(bytes) \subseteq DOMAIN [MZ |-> 1, PE |-> 2, ELF |-> 3, PK |-> 4, gzip |-> 5, zlib |-> 6]
    BY Zenon DEF chunk_magic
  <2> QED BY <2>1 DEF Signatures
<1>3. is_high_entropy(bytes) \in BOOLEAN
  BY DEF is_high_entropy
<1>4. b \in [id : Nat, section : DOMAIN ss, lo : Nat, hi : Nat, refs : SUBSET STRING,
             magic : SUBSET Signatures, high : BOOLEAN, reasons : SUBSET Reasons]
  BY <1>2, <1>3
<1>5. IsPlace(ss, b)
  BY DEF IsPlace
<1> QED BY <1>1, <1>4, <1>5 DEF Blobs, bytes

Disjoint(x, y) == x.section # y.section \/ x.hi <= y.lo \/ y.hi <= x.lo

\* The chunks of a section do not overlap, and lie in it.
LEMMA ChunksAre ==
    ASSUME NEW ss, AreSections(ss)
    PROVE  /\ IsFiniteSet(chunks(ss))
           /\ \A c \in chunks(ss) : /\ c.section \in DOMAIN ss /\ c.lo \in Nat /\ c.hi \in Nat
                                    /\ ~ss[c.section].excluded
                                    /\ ss[c.section].lo <= c.lo /\ c.lo < c.hi /\ c.hi <= ss[c.section].hi
                                    /\ c.hi <= c.lo + CHUNK_SIZE
           /\ \A c, d \in chunks(ss) : c = d \/ Disjoint(c, d)
<1> DEFINE R == {q \in DOMAIN ss : ~ss[q].excluded}
           K(r) == {j \in 0..Len(ss[r].cells) : j * CHUNK_SIZE < Len(ss[r].cells)}
           chunk(r, k) == [section |-> r, lo |-> ss[r].lo + k * CHUNK_SIZE,
                           hi |-> Least(ss[r].lo + (k + 1) * CHUNK_SIZE, ss[r].hi)]
           of(r) == {chunk(r, k) : k \in K(r)}
           f == [r \in R |-> of(r)]
<1>1. chunks(ss) = UNION {of(r) : r \in R}
  BY DEF chunks
<1>2. CHUNK_SIZE \in Nat \ {0}
  BY ConstantsAssumption
<1>3. \A r \in R : r \in DOMAIN ss /\ ~ss[r].excluded /\ ss[r].lo \in Nat /\ ss[r].hi \in Nat
                   /\ Len(ss[r].cells) \in Nat /\ ss[r].hi = ss[r].lo + Len(ss[r].cells)
  BY SectionsAre
<1>4. ASSUME NEW r \in R PROVE IsFiniteSet(of(r))
  <2> DEFINE g == [k \in K(r) |-> chunk(r, k)]
             N == Len(ss[r].cells)
  <2>1. N \in Nat
    BY <1>3
  <2>2. IsFiniteSet(0..N)
    <3> HIDE DEF N
    <3> QED BY <2>1, FS_Interval
  <2>3. K(r) \subseteq 0..N
    OBVIOUS
  <2>4. IsFiniteSet(K(r)) /\ K(r) \subseteq DOMAIN g
    <3>1. K(r) \subseteq DOMAIN g
      OBVIOUS
    <3> HIDE DEF K, N, g
    <3> QED BY <2>2, <2>3, <3>1, FS_Subset
  <2>5. IsFiniteSet({g[k] : k \in K(r)})
    <3> HIDE DEF K, g
    <3> QED BY <2>4, ImageFinite
  <2>6. of(r) = {g[k] : k \in K(r)}
    <3> HIDE DEF K, chunk
    <3> QED OBVIOUS
  <2> HIDE DEF of, g, K
  <2> QED BY <2>5, <2>6
<1>5. IsFiniteSet(chunks(ss))
  <2>1. R \subseteq DOMAIN ss /\ R \subseteq DOMAIN f
    OBVIOUS
  <2>2. \A r \in R : f[r] = of(r)
    OBVIOUS
  <2> HIDE DEF R, f, of
  <2>3. IsFiniteSet(R)
    BY <2>1, SectionsAre, FS_Subset
  <2>4. IsFiniteSet({f[r] : r \in R})
    BY <2>1, <2>3, ImageFinite
  <2>5. {f[r] : r \in R} = {of(r) : r \in R}
    BY <2>2
  <2>6. \A S \in {of(r) : r \in R} : IsFiniteSet(S)
    BY <1>4
  <2> QED BY <1>1, <2>4, <2>5, <2>6, FS_UNION
<1>6. ASSUME NEW r \in R, NEW k \in K(r)
      PROVE  /\ chunk(r, k).section = r /\ chunk(r, k).lo = ss[r].lo + k * CHUNK_SIZE
             /\ k \in Nat /\ k * CHUNK_SIZE \in Nat /\ k * CHUNK_SIZE < Len(ss[r].cells)
             /\ chunk(r, k).lo \in Nat /\ chunk(r, k).hi \in Nat /\ chunk(r, k).lo < chunk(r, k).hi
             /\ chunk(r, k).hi <= ss[r].hi /\ chunk(r, k).hi <= chunk(r, k).lo + CHUNK_SIZE
  <2>1. k \in Nat /\ k * CHUNK_SIZE < Len(ss[r].cells)
    BY <1>3
  <2> DEFINE a == k * CHUNK_SIZE
  <2>2. a \in Nat /\ (k + 1) * CHUNK_SIZE = a + CHUNK_SIZE
    BY <1>2, <2>1
  <2> HIDE DEF a, K, R
  <2>3. a < Len(ss[r].cells)
    BY <2>1 DEF a
  <2>4. chunk(r, k).lo = ss[r].lo + a /\ chunk(r, k).hi = Least(ss[r].lo + (a + CHUNK_SIZE), ss[r].hi)
        /\ chunk(r, k).section = r
    BY <2>2 DEF a
  <2> HIDE DEF chunk
  <2>5. chunk(r, k).hi \in Nat /\ chunk(r, k).hi <= ss[r].hi /\ chunk(r, k).hi <= chunk(r, k).lo + CHUNK_SIZE
    BY <1>2, <1>3, <2>2, <2>4 DEF Least
  <2>6. chunk(r, k).lo < chunk(r, k).hi
    BY <1>2, <1>3, <2>2, <2>3, <2>4 DEF Least
  <2> QED BY <1>3, <2>1, <2>2, <2>3, <2>4, <2>5, <2>6 DEF a
<1>7. ASSUME NEW c \in chunks(ss) PROVE \E r \in R : \E k \in K(r) : c = chunk(r, k)
  BY <1>1
<1> HIDE DEF chunk, of, f
<1>8. ASSUME NEW c \in chunks(ss)
      PROVE  /\ c.section \in DOMAIN ss /\ c.lo \in Nat /\ c.hi \in Nat
             /\ ~ss[c.section].excluded
             /\ ss[c.section].lo <= c.lo /\ c.lo < c.hi /\ c.hi <= ss[c.section].hi
             /\ c.hi <= c.lo + CHUNK_SIZE
  <2>1. PICK r \in R : \E k \in K(r) : c = chunk(r, k)
    BY <1>7
  <2>2. PICK k \in K(r) : c = chunk(r, k)
    BY <2>1
  <2> HIDE DEF K, R
  <2>3. ss[r].lo <= ss[r].lo + k * CHUNK_SIZE
    BY <1>3, <1>6
  <2> QED BY <1>3, <1>6, <2>2, <2>3
<1>9. ASSUME NEW c \in chunks(ss), NEW d \in chunks(ss), c # d PROVE Disjoint(c, d)
  <2>1. PICK r \in R : \E k \in K(r) : c = chunk(r, k)
    BY <1>7
  <2>2. PICK k \in K(r) : c = chunk(r, k)
    BY <2>1
  <2>3. PICK q \in R : \E l \in K(q) : d = chunk(q, l)
    BY <1>7
  <2>4. PICK l \in K(q) : d = chunk(q, l)
    BY <2>3
  <2> HIDE DEF K, R
  <2>5. CASE r # q
    BY <1>6, <2>2, <2>4, <2>5 DEF Disjoint
  <2>6. CASE r = q
    <3>1. k # l /\ k \in Nat /\ l \in Nat
      BY <1>6, <1>9, <2>2, <2>4, <2>6
    <3>2. ASSUME NEW i \in Nat, NEW j \in Nat, i < j PROVE i * CHUNK_SIZE + CHUNK_SIZE <= j * CHUNK_SIZE
      <4>1. j = i + 1 + (j - i - 1) /\ j - i - 1 \in Nat
        BY <3>2
      <4>2. \A e \in Nat : (i + 1 + e) * CHUNK_SIZE = i * CHUNK_SIZE + CHUNK_SIZE + e * CHUNK_SIZE
        BY <1>2
      <4>3. \A e \in Nat : e * CHUNK_SIZE \in Nat
        BY <1>2
      <4> DEFINE e == j - i - 1
      <4>4. e \in Nat /\ j * CHUNK_SIZE = i * CHUNK_SIZE + CHUNK_SIZE + e * CHUNK_SIZE
        BY <4>1, <4>2
      <4> DEFINE u == e * CHUNK_SIZE
                 v == i * CHUNK_SIZE
                 w == j * CHUNK_SIZE
      <4>5. u \in Nat /\ v \in Nat /\ w = v + CHUNK_SIZE + u
        BY <4>3, <4>4
      <4> HIDE DEF u, v, w
      <4>6. v + CHUNK_SIZE <= w
        BY <1>2, <4>5
      <4> QED BY <4>6 DEF v, w
    <3>3. k * CHUNK_SIZE + CHUNK_SIZE <= l * CHUNK_SIZE \/ l * CHUNK_SIZE + CHUNK_SIZE <= k * CHUNK_SIZE
      BY <3>1, <3>2
    <3> DEFINE u == k * CHUNK_SIZE
               v == l * CHUNK_SIZE
    <3>4. /\ c.lo = ss[r].lo + u /\ d.lo = ss[r].lo + v /\ u \in Nat /\ v \in Nat
          /\ c.hi <= c.lo + CHUNK_SIZE /\ d.hi <= d.lo + CHUNK_SIZE
          /\ c.lo \in Nat /\ c.hi \in Nat /\ d.lo \in Nat /\ d.hi \in Nat
      BY <1>6, <2>2, <2>4, <2>6
    <3>5. u + CHUNK_SIZE <= v \/ v + CHUNK_SIZE <= u
      BY <3>3
    <3> HIDE DEF u, v
    <3>6. c.hi <= d.lo \/ d.hi <= c.lo
      <4>1. ss[r].lo \in Nat
        BY <1>3
      <4> DEFINE e == ss[r].lo
      <4>2. e \in Nat /\ c.lo = e + u /\ d.lo = e + v
        BY <3>4, <4>1
      <4> HIDE DEF e
      <4> QED BY <1>2, <3>4, <3>5, <4>2
    <3> QED BY <3>6 DEF Disjoint
  <2> QED BY <2>5, <2>6
<1> QED BY <1>5, <1>8, <1>9

\* The blobs that are merged into those of a report, and where they come from.
BlobsFound(ss, rs, cs) ==
    _large_copy_blob_spans(ss, cs) \cup _chunk_blobs(ss, _large_copy_blob_spans(ss, cs), rs, cs)

LEMMA CopyBlobsAre ==
    ASSUME NEW ss, AreSections(ss), NEW cs \in Seq(Copy)
    PROVE  LET B == _large_copy_blob_spans(ss, cs)
               m == _merged_large_copy_spans(ss, cs)
           IN  /\ IsFiniteSet(B) /\ B \in SUBSET Blobs(ss)
               /\ \A x, y \in B : x = y \/ Disjoint(x, y)
               /\ \A s \in ToSet(m) : \E b \in B :
                     /\ b.section = s.section /\ b.lo = s.lo /\ b.hi = s.hi /\ b.refs = s.refs
                     /\ "large_copy_source" \in b.reasons
               /\ \A b \in B : \E s \in ToSet(m) : s.section = b.section /\ s.lo = b.lo /\ s.hi = b.hi
<1> DEFINE m == _merged_large_copy_spans(ss, cs)
           M == ToSet(m)
           B == _large_copy_blob_spans(ss, cs)
           f == [s \in M |-> _blob(ss, s, s.refs, {"large_copy_source"})]
<1>1. B = {f[s] : s \in M}
  BY DEF _large_copy_blob_spans
<1>2. m \in Seq(Spans(ss)) /\ \A i, j \in 1..Len(m) : i < j => Clear(m[i], m[j])
  BY MergedAre
<1> HIDE DEF m
<1>3. M \in SUBSET Spans(ss) /\ IsFiniteSet(M) /\ Len(m) \in Nat /\ M = {m[i] : i \in 1..Len(m)}
  BY <1>2, ToSetIs
<1> HIDE DEF M
<1>4. ASSUME NEW s \in M
      PROVE  /\ f[s] \in Blobs(ss)
             /\ f[s].section = s.section /\ f[s].lo = s.lo /\ f[s].hi = s.hi /\ f[s].refs = s.refs
             /\ f[s].reasons = {"large_copy_source"}
  <2>1. s \in Spans(ss)
    BY <1>3
  <2>2. s.section \in DOMAIN ss /\ s.lo \in Nat /\ s.hi \in Nat /\ s.refs \in SUBSET STRING /\ IsPlace(ss, s)
    BY <2>1 DEF Spans
  <2>3. {"large_copy_source"} \in SUBSET Reasons
    BY DEF Reasons
  <2>4. f[s] = _blob(ss, s, s.refs, {"large_copy_source"})
    OBVIOUS
  <2> HIDE DEF f
  <2> DEFINE r == {"large_copy_source"}
             u == s.refs
  <2> HIDE DEF r, u
  <2>5. LET b == _blob(ss, s, u, r)
        IN  b \in Blobs(ss) /\ b.section = s.section /\ b.lo = s.lo /\ b.hi = s.hi /\ b.refs = u /\ b.reasons = r
    BY <2>2, <2>3, BlobIs DEF r, u
  <2> QED BY <2>4, <2>5 DEF r, u
<1>5. IsFiniteSet(B)
  <2>1. M \subseteq DOMAIN f
    OBVIOUS
  <2> HIDE DEF f
  <2> QED BY <1>1, <1>3, <2>1, ImageFinite
<1> HIDE DEF f, B
<1>6. B \in SUBSET Blobs(ss)
  BY <1>1, <1>4
<1>7. ASSUME NEW x \in B, NEW y \in B, x # y PROVE Disjoint(x, y)
  <2>1. PICK i \in 1..Len(m) : x = f[m[i]]
    BY <1>1, <1>3
  <2>2. PICK j \in 1..Len(m) : y = f[m[j]]
    BY <1>1, <1>3
  <2>3. i # j /\ m[i] \in M /\ m[j] \in M
    BY <1>3, <1>7, <2>1, <2>2
  <2>4. i < j \/ j < i
    BY <1>3, <2>3
  <2>5. Clear(m[i], m[j]) \/ Clear(m[j], m[i])
    BY <1>2, <2>4
  <2>6. \A s \in M : s.section \in Int /\ s.lo \in Int /\ s.hi \in Int
    BY <1>3, SectionsAre DEF Spans
  <2> QED BY <1>4, <2>1, <2>2, <2>3, <2>5, <2>6 DEF Clear, Disjoint
<1>8. \A s \in M : \E b \in B : /\ b.section = s.section /\ b.lo = s.lo /\ b.hi = s.hi /\ b.refs = s.refs
                                /\ "large_copy_source" \in b.reasons
  BY <1>1, <1>4
<1>9. \A b \in B : \E s \in M : s.section = b.section /\ s.lo = b.lo /\ s.hi = b.hi
  BY <1>1, <1>4
<1> QED BY <1>5, <1>6, <1>7, <1>8, <1>9 DEF B, M, m

\* The blob of a chunk is the chunk, with the signatures that are in it.
LEMMA ChunkBlobIs ==
    ASSUME NEW ss, AreSections(ss), NEW rs \in Seq(Reference), NEW cs, NEW c \in chunks(ss),
           c.hi - c.lo >= MIN_BLOB_SIZE
    PROVE  LET b == _chunk_blob(ss, rs, cs, c)
           IN  /\ b \in Blobs(ss) /\ b.section = c.section /\ b.lo = c.lo /\ b.hi = c.hi
               /\ b.magic = chunk_magic(cells(ss[c.section], c.lo, c.hi))
               /\ b.magic # {} => "contains_magic_bytes" \in b.reasons
<1> DEFINE by == {r.function : r \in {x \in ToSet(rs) : /\ c.section \in places_for_va(ss, x.target)
                                                        /\ c.lo <= x.target /\ x.target < c.hi}}
           copied == \E x \in ToSet(cs) : x.source # NoAddress /\ c.lo <= x.source /\ x.source < c.hi
           b == _blob(ss, c, by, {})
           why == (IF b.high THEN {"high_entropy"} ELSE {})
                  \cup (IF by # {} THEN {"referenced_by_reachable_code"} ELSE {})
                  \cup (IF copied THEN {"large_copy_source"} ELSE {})
                  \cup (IF b.magic # {} THEN {"contains_magic_bytes"} ELSE {})
           R == [id : Nat, section : DOMAIN ss, lo : Nat, hi : Nat, refs : SUBSET STRING,
                 magic : SUBSET Signatures, high : BOOLEAN, reasons : SUBSET Reasons]
<1>1. _chunk_blob(ss, rs, cs, c) = [b EXCEPT !.reasons = why]
  BY Zenon DEF _chunk_blob
<1>2. /\ c.section \in DOMAIN ss /\ c.lo \in Nat /\ c.hi \in Nat /\ ~ss[c.section].excluded
      /\ ss[c.section].lo <= c.lo /\ c.lo < c.hi /\ c.hi <= ss[c.section].hi
      /\ c.hi <= c.lo + CHUNK_SIZE
  BY ChunksAre
<1>3. IsPlace(ss, c)
  BY <1>2 DEF IsPlace
<1>4. by \in SUBSET STRING
  <2>1. ToSet(rs) \in SUBSET Reference
    BY ToSetIs
  <2> QED BY <2>1 DEF Reference
<1>5. why \in SUBSET Reasons /\ (b.magic # {} => "contains_magic_bytes" \in why)
  BY DEF Reasons
<1> HIDE DEF by, why
<1>6. /\ b \in Blobs(ss) /\ b.section = c.section /\ b.lo = c.lo /\ b.hi = c.hi
      /\ b.magic = chunk_magic(cells(ss[c.section], c.lo, Least(c.hi, c.lo + ENTROPY_SAMPLE_LIMIT)))
  <2> DEFINE none == {}
  <2>1. none \in SUBSET Reasons
    OBVIOUS
  <2>2. b = _blob(ss, c, by, none)
    OBVIOUS
  <2> HIDE DEF none, b
  <2> QED BY <1>2, <1>3, <1>4, <2>1, <2>2, BlobIs
<1> HIDE DEF b
<1>7. Least(c.hi, c.lo + ENTROPY_SAMPLE_LIMIT) = c.hi
  BY <1>2, ConstantsAssumption DEF Least
<1>8. b \in R /\ IsPlace(ss, b)
  BY <1>6 DEF Blobs
<1> DEFINE e == [b EXCEPT !.reasons = why]
<1>9. /\ e \in R /\ e.section = b.section /\ e.lo = b.lo /\ e.hi = b.hi /\ e.magic = b.magic /\ e.reasons = why
  BY <1>5, <1>8
<1> HIDE DEF e
<1>10. IsPlace(ss, e)
  BY <1>8, <1>9 DEF IsPlace
<1> QED BY <1>1, <1>5, <1>6, <1>7, <1>9, <1>10 DEF e, Blobs

\* Every chunk with a signature that no span of spans touches is a blob of B.
ChunksTold(ss, spans, B) ==
    \A c \in chunks(ss) :
        /\ c.hi - c.lo >= MIN_BLOB_SIZE /\ _is_free(spans, c)
        /\ chunk_magic(cells(ss[c.section], c.lo, c.hi)) # {}
        => \E b \in B : /\ b.section = c.section /\ b.lo = c.lo /\ b.hi = c.hi
                        /\ b.magic = chunk_magic(cells(ss[c.section], c.lo, c.hi))

LEMMA ChunkBlobsAre ==
    ASSUME NEW ss, AreSections(ss), NEW rs \in Seq(Reference), NEW cs, NEW spans
    PROVE  LET B == _chunk_blobs(ss, spans, rs, cs)
           IN  /\ IsFiniteSet(B) /\ B \in SUBSET Blobs(ss)
               /\ \A x, y \in B : x = y \/ Disjoint(x, y)
               /\ \A x \in B : _is_free(spans, x)
               /\ ChunksTold(ss, spans, B)
<1> DEFINE F == {c \in chunks(ss) : c.hi - c.lo >= MIN_BLOB_SIZE /\ _is_free(spans, c)}
           f == [c \in F |-> _chunk_blob(ss, rs, cs, c)]
           worth(b) == \/ {"large_copy_source", "contains_magic_bytes"} \cap b.reasons # {}
                       \/ {"high_entropy", "referenced_by_reachable_code"} \subseteq b.reasons
           A == {f[c] : c \in F}
           B == _chunk_blobs(ss, spans, rs, cs)
<1>1. B = {b \in A : worth(b)}
  BY DEF _chunk_blobs
<1>2. \A b : "contains_magic_bytes" \in b.reasons => worth(b)
  OBVIOUS
<1>3. IsFiniteSet(F) /\ F \subseteq DOMAIN f /\ F \subseteq chunks(ss)
  <2>1. F \subseteq chunks(ss) /\ F \subseteq DOMAIN f
    OBVIOUS
  <2> HIDE DEF F, f
  <2> QED BY <2>1, ChunksAre, FS_Subset
<1>4. ASSUME NEW c \in F
      PROVE  /\ f[c] \in Blobs(ss) /\ f[c].section = c.section /\ f[c].lo = c.lo /\ f[c].hi = c.hi
             /\ f[c].magic = chunk_magic(cells(ss[c.section], c.lo, c.hi))
             /\ f[c].magic # {} => "contains_magic_bytes" \in f[c].reasons
             /\ _is_free(spans, c) /\ c \in chunks(ss)
  <2>1. f[c] = _chunk_blob(ss, rs, cs, c)
    OBVIOUS
  <2>2. c \in chunks(ss) /\ c.hi - c.lo >= MIN_BLOB_SIZE /\ _is_free(spans, c)
    OBVIOUS
  <2> HIDE DEF f, F
  <2> QED BY <2>1, <2>2, ChunkBlobIs
<1> HIDE DEF worth, B
<1>5. IsFiniteSet(B)
  <2> HIDE DEF f, F
  <2>1. IsFiniteSet(A)
    BY <1>3, ImageFinite
  <2>2. B \subseteq A
    BY <1>1
  <2> HIDE DEF A
  <2> QED BY <2>1, <2>2, FS_Subset
<1>6. ASSUME NEW x \in B
      PROVE  \E c \in F : x = f[c]
  BY <1>1
<1>7. ASSUME NEW c \in chunks(ss), c.hi - c.lo >= MIN_BLOB_SIZE, _is_free(spans, c)
      PROVE  c \in F /\ f[c] \in A
  BY <1>7
<1> HIDE DEF f, F
<1>8. B \in SUBSET Blobs(ss)
  BY <1>4, <1>6
<1>9. ASSUME NEW x \in B, NEW y \in B, x # y PROVE Disjoint(x, y)
  <2>1. PICK c \in F : x = f[c]
    BY <1>6
  <2>2. PICK d \in F : y = f[d]
    BY <1>6
  <2>3. c # d /\ c \in chunks(ss) /\ d \in chunks(ss)
    BY <1>3, <1>9, <2>1, <2>2
  <2>4. Disjoint(c, d)
    BY <2>3, ChunksAre
  <2> QED BY <1>4, <2>1, <2>2, <2>4 DEF Disjoint
<1>10. ASSUME NEW x \in B PROVE _is_free(spans, x)
  <2>1. PICK c \in F : x = f[c]
    BY <1>6
  <2>2. _is_free(spans, c) /\ x.section = c.section /\ x.lo = c.lo /\ x.hi = c.hi
    BY <1>4, <2>1
  <2> QED BY <2>2 DEF _is_free
<1>11. ASSUME NEW c \in chunks(ss), c.hi - c.lo >= MIN_BLOB_SIZE, _is_free(spans, c),
              chunk_magic(cells(ss[c.section], c.lo, c.hi)) # {}
       PROVE  \E b \in B : /\ b.section = c.section /\ b.lo = c.lo /\ b.hi = c.hi
                           /\ b.magic = chunk_magic(cells(ss[c.section], c.lo, c.hi))
  <2>1. c \in F /\ f[c] \in A
    BY <1>7, <1>11
  <2>2. f[c] \in B
    BY <1>1, <1>2, <1>4, <1>11, <2>1
  <2> QED BY <1>4, <2>1, <2>2
<1>12. ChunksTold(ss, spans, B)
  BY <1>11 DEF ChunksTold
<1> QED BY <1>5, <1>8, <1>9, <1>10, <1>12 DEF B

\* What is found is places apart; every merged span is among it, and every free chunk with a signature.
LEMMA FoundAre ==
    ASSUME NEW ss, AreSections(ss), NEW rs \in Seq(Reference), NEW cs \in Seq(Copy)
    PROVE  LET B == BlobsFound(ss, rs, cs)
           IN  /\ B \in SUBSET Blobs(ss) /\ ArePlaces(B)
               /\ \A x, y \in B : x = y \/ Disjoint(x, y)
<1> DEFINE P == _large_copy_blob_spans(ss, cs)
           Q == _chunk_blobs(ss, P, rs, cs)
           B == BlobsFound(ss, rs, cs)
<1>1. B = P \cup Q
  BY DEF BlobsFound
<1>2. /\ IsFiniteSet(P) /\ P \in SUBSET Blobs(ss)
      /\ \A x, y \in P : x = y \/ Disjoint(x, y)
  BY CopyBlobsAre
<1> HIDE DEF P, B
<1>3. /\ IsFiniteSet(Q) /\ Q \in SUBSET Blobs(ss)
      /\ \A x, y \in Q : x = y \/ Disjoint(x, y)
      /\ \A x \in Q : _is_free(P, x)
  BY ChunkBlobsAre
<1> HIDE DEF Q
<1>4. IsFiniteSet(B) /\ B \in SUBSET Blobs(ss)
  BY <1>1, <1>2, <1>3, FS_Union
<1>5. \A x \in Blobs(ss) : x.section \in Int /\ x.lo \in Int /\ x.hi \in Int /\ x.lo < x.hi
  BY SectionsAre DEF Blobs, IsPlace
<1>6. ASSUME NEW x \in P, NEW y \in Q PROVE Disjoint(x, y) /\ Disjoint(y, x)
  <2>1. x.section # y.section \/ ~ (y.lo < x.hi /\ x.lo < y.hi)
    BY <1>3 DEF _is_free, Overlap
  <2>2. x \in Blobs(ss) /\ y \in Blobs(ss)
    BY <1>2, <1>3
  <2> QED BY <1>5, <2>1, <2>2 DEF Disjoint
<1>7. \A x, y \in B : x = y \/ Disjoint(x, y)
  BY <1>1, <1>2, <1>3, <1>6
<1>8. ASSUME NEW x \in B, NEW y \in B, x.section = y.section, x.lo = y.lo, x.hi = y.hi PROVE x = y
  <2>1. x \in Blobs(ss) /\ y \in Blobs(ss)
    BY <1>4
  <2> QED BY <1>5, <1>7, <1>8, <2>1 DEF Disjoint
<1> QED BY <1>4, <1>5, <1>7, <1>8 DEF ArePlaces, B

-----------------------------------------------------------------------------
(***************************************************************************)
(* Runs of blobs.                                                          *)
(***************************************************************************)

Held(x, y) == /\ x.section = y.section /\ y.lo <= x.lo /\ x.hi <= y.hi
              /\ x.refs \subseteq y.refs /\ x.magic \subseteq y.magic /\ x.reasons \subseteq y.reasons

\* What the runs are after the first n blobs.
Coalesced(ss, bs, n, made) ==
    /\ made \in Seq(Blobs(ss))
    /\ n > 0 => made # <<>> /\ made[Len(made)].section = bs[n].section /\ made[Len(made)].hi = bs[n].hi
    /\ \A i, j \in 1..Len(made) : i < j => Clear(made[i], made[j])
    /\ \A k \in 1..n : \E i \in 1..Len(made) : Held(bs[k], made[i])
    /\ n = 0 => made = <<>>

\* Two blobs that adjoin become one, with all that was known of each.
LEMMA ExtendedIs ==
    ASSUME NEW ss, AreSections(ss), NEW x \in Blobs(ss), NEW y \in Blobs(ss),
           x.section = y.section, x.hi = y.lo
    PROVE  /\ _extended(x, y) \in Blobs(ss)
           /\ _extended(x, y).section = x.section /\ _extended(x, y).lo = x.lo /\ _extended(x, y).hi = y.hi
           /\ Held(x, _extended(x, y)) /\ Held(y, _extended(x, y))
<1> DEFINE R == [id : Nat, section : DOMAIN ss, lo : Nat, hi : Nat, refs : SUBSET STRING,
                 magic : SUBSET Signatures, high : BOOLEAN, reasons : SUBSET Reasons]
           high == x.high \/ y.high
           refs == x.refs \cup y.refs
           magic == x.magic \cup y.magic
           reasons == x.reasons \cup y.reasons
           hi == y.hi
           m == [x EXCEPT !.hi = hi, !.high = high, !.refs = refs, !.magic = magic, !.reasons = reasons]
<1>1. x \in R /\ y \in R /\ IsPlace(ss, x) /\ IsPlace(ss, y)
  BY DEF Blobs
<1>2. x.hi \in Nat /\ y.hi \in Nat /\ x.lo \in Nat /\ y.lo \in Nat /\ x.section \in DOMAIN ss
  BY <1>1
<1>3. ss[x.section].lo \in Nat /\ ss[x.section].hi \in Nat /\ MIN_BLOB_SIZE \in Nat
  BY <1>2, SectionsAre, ConstantsAssumption
<1>4. _extended(x, y) = m
  BY Zenon DEF _extended
<1>5. hi \in Nat /\ x.hi <= hi /\ hi <= ss[x.section].hi
  BY <1>1, <1>2, <1>3 DEF IsPlace
<1>6. /\ high \in BOOLEAN /\ refs \in SUBSET STRING /\ magic \in SUBSET Signatures /\ reasons \in SUBSET Reasons
      /\ x.refs \subseteq refs /\ y.refs \subseteq refs /\ x.magic \subseteq magic /\ y.magic \subseteq magic
      /\ x.reasons \subseteq reasons /\ y.reasons \subseteq reasons
  BY <1>1
<1>7. hi = y.hi
  OBVIOUS
<1> HIDE DEF hi, high, refs, magic, reasons
<1>8. /\ m \in R /\ m.section = x.section /\ m.lo = x.lo /\ m.hi = hi /\ m.refs = refs
      /\ m.magic = magic /\ m.reasons = reasons
  BY <1>1, <1>5, <1>6
<1> HIDE DEF m
<1>9. IsPlace(ss, m)
  BY <1>1, <1>2, <1>3, <1>5, <1>8 DEF IsPlace
<1>10. Held(x, m) /\ Held(y, m)
  <2>1. x.lo <= y.lo
    BY <1>1, <1>2, <1>3 DEF IsPlace
  <2> QED BY <1>2, <1>5, <1>6, <1>7, <1>8, <2>1 DEF Held
<1> QED BY <1>4, <1>7, <1>8, <1>9, <1>10 DEF Blobs

LEMMA CoalescingStep ==
    ASSUME NEW ss, AreSections(ss), NEW bs \in Seq(Blobs(ss)), NEW n \in Nat, n < Len(bs),
           n > 0 => _place_before(bs[n], bs[n + 1]) /\ Disjoint(bs[n], bs[n + 1]),
           NEW made, Coalesced(ss, bs, n, made)
    PROVE  Coalesced(ss, bs, n + 1, with_blob(made, bs[n + 1]))
<1> DEFINE s == bs[n + 1]
           L == Len(made)
           last == made[L]
           next == with_blob(made, s)
<1>1. Len(bs) \in Nat /\ n + 1 \in 1..Len(bs) /\ L \in Nat
  BY LenProperties DEF Coalesced
<1>2. s \in Blobs(ss) /\ made \in Seq(Blobs(ss)) /\ \A i \in 1..L : made[i] \in Blobs(ss)
  BY <1>1, ElementOfSeq DEF Coalesced
<1>3. \A x \in Blobs(ss) : x.section \in Int /\ x.lo \in Int /\ x.hi \in Int /\ x.lo < x.hi
  BY SectionsAre DEF Blobs, IsPlace
<1>4. \A k : k \in 1..(n + 1) => k \in 1..n \/ k = n + 1
  OBVIOUS
<1>5. \A k : k \in 1..n => k \in 1..(n + 1) /\ bs[k] \in Blobs(ss)
  BY <1>1, ElementOfSeq
<1>6. n + 1 \in 1..(n + 1) /\ n + 1 # 0
  OBVIOUS
<1>7. L = 0 <=> made = <<>>
  BY <1>2, EmptySeq
<1>8. CASE made # <<>> /\ s.section = last.section /\ s.lo = last.hi
  <2> DEFINE m == _extended(last, s)
  <2>1. L \in 1..L /\ last \in Blobs(ss)
    BY <1>1, <1>2, <1>7, <1>8
  <2>2. m \in Blobs(ss) /\ m.section = last.section /\ m.lo = last.lo /\ m.hi = s.hi
        /\ Held(last, m) /\ Held(s, m)
    BY <1>2, <1>8, <2>1, ExtendedIs
  <2>3. next = [made EXCEPT ![L] = m]
    BY <1>8 DEF with_blob
  <2> HIDE DEF m, s, last, L, next
  <2>4. /\ next \in Seq(Blobs(ss)) /\ Len(next) = L /\ next[L] = m
        /\ \A i \in 1..L : i # L => next[i] = made[i]
    BY <1>2, <1>8, <2>2, <2>3, LastReplaced DEF L
  <2>5. next # <<>>
    BY <1>1, <2>1, <2>4, EmptySeq
  <2>6. \A i, j \in 1..L : i < j => Clear(made[i], made[j])
    BY DEF Coalesced, L
  <2>7. ASSUME NEW i \in 1..L, NEW j \in 1..L, i < j PROVE Clear(next[i], next[j])
    <3>1. i # L /\ next[i] = made[i] /\ Clear(made[i], made[j])
      BY <1>1, <2>4, <2>6, <2>7
    <3>2. CASE j = L
      BY <2>2, <2>4, <3>1, <3>2 DEF Clear, last
    <3>3. CASE j # L
      BY <2>4, <3>1, <3>3
    <3> QED BY <3>2, <3>3
  <2>8. ASSUME NEW x \in Blobs(ss), NEW i \in 1..L, Held(x, made[i]) PROVE Held(x, next[i])
    <3>1. CASE i = L
      <4>1. Held(x, last)
        BY <2>8, <3>1 DEF last
      <4>2. Held(x, m)
        BY <1>3, <2>1, <2>2, <4>1 DEF Held
      <4> QED BY <2>4, <3>1, <4>2
    <3> QED BY <2>4, <2>8, <3>1
  <2>9. ASSUME NEW k \in 1..(n + 1) PROVE \E i \in 1..L : Held(bs[k], next[i])
    <3>1. CASE k \in 1..n
      BY <1>5, <2>8, <3>1 DEF Coalesced, L
    <3>2. CASE k = n + 1
      BY <2>1, <2>2, <2>4, <3>2 DEF s
    <3> QED BY <1>4, <3>1, <3>2
  <2>10. next[L].section = s.section /\ next[L].hi = s.hi
    BY <1>8, <2>2, <2>4
  <2> QED BY <1>6, <2>4, <2>5, <2>7, <2>9, <2>10 DEF Coalesced, next, s
<1>9. CASE ~(made # <<>> /\ s.section = last.section /\ s.lo = last.hi)
  <2>1. next = Append(made, s)
    BY <1>9 DEF with_blob
  <2>2. CASE L = 0
    <3>1. n = 0
      BY <1>7, <2>2 DEF Coalesced
    <3>2. next = <<s>> /\ Len(next) = 1 /\ next[1] = s
      BY <1>7, <2>1, <2>2
    <3>3. next \in Seq(Blobs(ss)) /\ next # <<>>
      BY <1>2, <3>2
    <3>4. Held(s, s)
      BY <1>2, <1>3 DEF Held
    <3> HIDE DEF next
    <3>5. \A i \in 1..Len(next) : i = 1
      BY <3>2
    <3>6. \A i, j \in 1..Len(next) : i < j => Clear(next[i], next[j])
      BY <3>5
    <3>7. \A k \in 1..(n + 1) : k = 1
      BY <3>1
    <3>8. \A k \in 1..(n + 1) : \E i \in 1..Len(next) : Held(bs[k], next[i])
      BY <3>1, <3>2, <3>4, <3>7
    <3> QED BY <1>6, <3>2, <3>3, <3>6, <3>8 DEF Coalesced, next
  <2>3. CASE L # 0
    <3>1. L \in 1..L /\ last \in Blobs(ss) /\ L \in Nat \ {0}
      BY <1>1, <1>2, <2>3
    <3>2. /\ next \in Seq(Blobs(ss)) /\ next # <<>> /\ Len(next) = L + 1
          /\ \A i \in 1..L : next[i] = made[i]
          /\ next[L + 1] = s
      BY <1>2, <2>1, AppendProperties
    <3>3. n > 0
      BY <1>7, <2>3 DEF Coalesced
    <3>4. last.section = bs[n].section /\ last.hi = bs[n].hi /\ bs[n] \in Blobs(ss)
      BY <1>5, <3>3 DEF Coalesced
    <3>5. Clear(last, s)
      <4>1. _place_before(bs[n], s) /\ Disjoint(bs[n], s)
        BY <3>3
      <4>2. bs[n].section <= s.section
        BY <1>2, <1>3, <3>4, <4>1 DEF _place_before
      <4>3. bs[n].section = s.section => bs[n].hi <= s.lo
        BY <1>2, <1>3, <3>4, <4>1 DEF _place_before, Disjoint
      <4>4. s.section # last.section \/ s.lo # last.hi
        BY <1>7, <1>9, <2>3
      <4> HIDE DEF s, last
      <4> QED BY <1>2, <1>3, <3>1, <3>4, <4>2, <4>3, <4>4 DEF Clear
    <3>6. \A i, j \in 1..L : i < j => Clear(made[i], made[j])
      BY DEF Coalesced
    <3> HIDE DEF next, s
    <3>7. ASSUME NEW i \in 1..L PROVE Clear(made[i], s)
      <4>1. CASE i = L
        BY <3>5, <4>1
      <4>2. CASE i # L
        <5>1. Clear(made[i], last) /\ made[i] \in Blobs(ss)
          BY <1>1, <1>2, <3>1, <3>6, <4>2
        <5> HIDE DEF last
        <5> QED BY <1>2, <1>3, <3>1, <3>5, <5>1 DEF Clear
      <4> QED BY <4>1, <4>2
    <3> HIDE DEF last, L
    <3>8. \A i \in 1..(L + 1) : i \in 1..L \/ i = L + 1
      BY <3>1
    <3>9. ASSUME NEW i \in 1..(L + 1), NEW j \in 1..(L + 1), i < j PROVE Clear(next[i], next[j])
      <4>1. i \in 1..L
        BY <3>1, <3>8, <3>9
      <4>2. CASE j = L + 1
        BY <3>2, <3>7, <4>1, <4>2
      <4>3. CASE j \in 1..L
        BY <3>2, <3>6, <3>9, <4>1, <4>3
      <4> QED BY <3>8, <4>2, <4>3
    <3>10. (\A i \in 1..L : i \in 1..(L + 1)) /\ L + 1 \in 1..(L + 1)
      BY <3>1
    <3>11. ASSUME NEW k \in 1..(n + 1) PROVE \E i \in 1..(L + 1) : Held(bs[k], next[i])
      <4>1. CASE k \in 1..n
        <5>1. PICK i \in 1..L : Held(bs[k], made[i])
          BY <4>1 DEF Coalesced, L
        <5> QED BY <3>2, <3>10, <5>1
      <4>2. CASE k = n + 1
        <5>1. Held(s, s)
          BY <1>2, <1>3 DEF Held
        <5> QED BY <3>2, <3>10, <4>2, <5>1 DEF s
      <4> QED BY <1>4, <4>1, <4>2
    <3>12. next[L + 1].section = s.section /\ next[L + 1].hi = s.hi
      BY <1>2, <3>2
    <3> QED BY <1>6, <3>2, <3>9, <3>11, <3>12 DEF Coalesced, next, s, L
  <2> QED BY <2>2, <2>3
<1> QED BY <1>8, <1>9

\* The runs are apart and numbered, and every blob found is in one with all that is known of it.
LEMMA NotableBlobsAre ==
    ASSUME NEW ss, AreSections(ss), NEW rs \in Seq(Reference), NEW cs \in Seq(Copy)
    PROVE  LET r == _notable_data_blobs(ss, rs, cs)
           IN  /\ r \in Seq(Blobs(ss))
               /\ \A i \in 1..Len(r) : r[i].id = i
               /\ \A i, j \in 1..Len(r) : i < j => Clear(r[i], r[j])
               /\ \A b \in BlobsFound(ss, rs, cs) : \E i \in 1..Len(r) : Held(b, r[i])
<1> DEFINE X == BlobsFound(ss, rs, cs)
           bs == InOrder(X, _place_before)
           p == CHOOSE f : f = [n \in 0..Len(bs) |-> IF n = 0 THEN <<>> ELSE with_blob(f[n - 1], bs[n])]
           all == p[Len(bs)]
           r == [i \in 1..Len(all) |-> [all[i] EXCEPT !.id = i]]
           T == {n \in 0..Len(bs) : Coalesced(ss, bs, n, p[n])}
<1>1. _notable_data_blobs(ss, rs, cs) = r \o <<>>
  BY Zenon DEF _notable_data_blobs, coalesce_blob_runs, BlobsFound
<1>2. /\ X \in SUBSET Blobs(ss) /\ ArePlaces(X)
      /\ \A x, y \in X : x = y \/ Disjoint(x, y)
  BY FoundAre
<1> HIDE DEF X
<1>3. /\ bs \in Seq(X) /\ \A x \in X : \E k \in 1..Len(bs) : bs[k] = x
      /\ \A i, j \in 1..Len(bs) : i < j => _place_before(bs[i], bs[j])
  BY <1>2, PlacesListed
<1> HIDE DEF bs
<1>4. Len(bs) \in Nat /\ (\A k \in 1..Len(bs) : bs[k] \in X) /\ bs \in Seq(Blobs(ss))
  <2>1. Len(bs) \in Nat /\ \A k \in 1..Len(bs) : bs[k] \in X
    BY <1>3, LenProperties, ElementOfSeq
  <2> QED BY <1>2, <1>3, <2>1
<1>5. p = [n \in 0..Len(bs) |-> IF n = 0 THEN <<>> ELSE with_blob(p[n - 1], bs[n])]
  <2>1. \E f : f = [n \in 0..Len(bs) |-> IF n = 0 THEN <<>> ELSE with_blob(f[n - 1], bs[n])]
    BY <1>4, CoalescingExists
  <2> QED BY Zenon, <2>1
<1> HIDE DEF p
<1>6. 0 \in T
  <2>1. p[0] = <<>>
    BY <1>4, <1>5
  <2>2. <<>> \in Seq(Blobs(ss)) /\ Len(<<>>) = 0 /\ \A i : ~ (i \in 1..0)
    OBVIOUS
  <2>3. Coalesced(ss, bs, 0, <<>>)
    BY <2>2 DEF Coalesced
  <2> QED BY <1>4, <2>1, <2>3
<1>7. ASSUME NEW n \in T, n < Len(bs) PROVE n + 1 \in T
  <2>1. n \in Nat /\ n + 1 \in 0..Len(bs) /\ n + 1 # 0 /\ (n + 1) - 1 = n
    BY <1>4, <1>7
  <2>2. p[n + 1] = with_blob(p[n], bs[n + 1])
    BY <1>5, <2>1
  <2>3. n > 0 => _place_before(bs[n], bs[n + 1]) /\ Disjoint(bs[n], bs[n + 1])
    <3> SUFFICES ASSUME n > 0 PROVE _place_before(bs[n], bs[n + 1]) /\ Disjoint(bs[n], bs[n + 1])
      OBVIOUS
    <3>1. n \in 1..Len(bs) /\ n + 1 \in 1..Len(bs) /\ n < n + 1
      BY <1>4, <1>7, <2>1
    <3>2. _place_before(bs[n], bs[n + 1]) /\ bs[n] \in X /\ bs[n + 1] \in X
      BY <1>3, <1>4, <3>1
    <3>3. bs[n].section \in Int /\ bs[n].lo \in Int /\ bs[n].hi \in Int
      BY <1>2, <3>2 DEF ArePlaces
    <3>4. bs[n] # bs[n + 1]
      BY <3>2, <3>3 DEF _place_before
    <3> QED BY <1>2, <3>2, <3>4
  <2>4. Coalesced(ss, bs, n, p[n])
    BY <1>7
  <2>5. Coalesced(ss, bs, n + 1, with_blob(p[n], bs[n + 1]))
    BY <1>4, <1>7, <2>1, <2>3, <2>4, CoalescingStep
  <2> QED BY <2>1, <2>2, <2>5
<1>8. T = 0..Len(bs)
  <2>1. T \in SUBSET (0..Len(bs))
    OBVIOUS
  <2> HIDE DEF T
  <2> QED BY <1>4, <1>6, <1>7, <2>1, CountingUp
<1>9. Coalesced(ss, bs, Len(bs), p[Len(bs)])
  <2>1. Len(bs) \in T
    BY <1>4, <1>8
  <2> QED BY <2>1
<1>10. /\ all \in Seq(Blobs(ss))
       /\ \A i, j \in 1..Len(all) : i < j => Clear(all[i], all[j])
       /\ \A k \in 1..Len(bs) : \E i \in 1..Len(all) : Held(bs[k], all[i])
  BY <1>9 DEF Coalesced
<1> HIDE DEF all
<1>11. Len(all) \in Nat /\ \A i \in 1..Len(all) : all[i] \in Blobs(ss)
  BY <1>10, LenProperties, ElementOfSeq
<1>12. ASSUME NEW i \in 1..Len(all)
       PROVE  /\ r[i] \in Blobs(ss) /\ r[i].id = i
              /\ r[i].section = all[i].section /\ r[i].lo = all[i].lo /\ r[i].hi = all[i].hi
              /\ r[i].refs = all[i].refs /\ r[i].magic = all[i].magic /\ r[i].reasons = all[i].reasons
  <2> DEFINE R == [id : Nat, section : DOMAIN ss, lo : Nat, hi : Nat, refs : SUBSET STRING,
                   magic : SUBSET Signatures, high : BOOLEAN, reasons : SUBSET Reasons]
             a == all[i]
             e == [a EXCEPT !.id = i]
  <2>1. r[i] = e
    OBVIOUS
  <2>2. a \in R /\ IsPlace(ss, a)
    BY <1>11 DEF Blobs
  <2>3. i \in Nat
    BY <1>11
  <2> HIDE DEF a, r
  <2>4. /\ e \in R /\ e.id = i /\ e.section = a.section /\ e.lo = a.lo /\ e.hi = a.hi
        /\ e.refs = a.refs /\ e.magic = a.magic /\ e.reasons = a.reasons
    BY <2>2, <2>3
  <2> HIDE DEF e
  <2>5. IsPlace(ss, e)
    BY <2>2, <2>4 DEF IsPlace
  <2> QED BY <2>1, <2>4, <2>5 DEF Blobs, a
<1>13. r \in [1..Len(all) -> Blobs(ss)]
  <2>1. r = [i \in 1..Len(all) |-> r[i]]
    OBVIOUS
  <2> HIDE DEF r
  <2> QED BY <1>12, <2>1
<1> HIDE DEF r
<1>14. r \o <<>> = r /\ r \in Seq(Blobs(ss)) /\ Len(r) = Len(all)
  BY <1>11, <1>13, FunctionIsList
<1>15. \A i, j \in 1..Len(r) : i < j => Clear(r[i], r[j])
  BY <1>10, <1>12, <1>14 DEF Clear
<1>16. \A b \in X : \E i \in 1..Len(r) : Held(b, r[i])
  <2>1. \A b \in X : \E i \in 1..Len(all) : Held(b, all[i])
    BY <1>3, <1>10
  <2> QED BY <1>12, <1>14, <2>1 DEF Held
<1> QED BY <1>1, <1>12, <1>14, <1>15, <1>16 DEF r, X

-----------------------------------------------------------------------------
(***************************************************************************)
(* The three properties of the blobs, of any sections, references and      *)
(* copies.                                                                 *)
(***************************************************************************)

LEMMA BlobsAreApart ==
    ASSUME NEW ss, AreSections(ss), NEW rs \in Seq(Reference), NEW cs \in Seq(Copy)
    PROVE  LET r == _notable_data_blobs(ss, rs, cs)
           IN  /\ \A i \in 1..Len(r) : r[i].id = i
               /\ \A a, b \in ToSet(r) : a = b \/ a.section # b.section \/ a.hi < b.lo \/ b.hi < a.lo
<1> DEFINE r == _notable_data_blobs(ss, rs, cs)
<1>1. /\ r \in Seq(Blobs(ss)) /\ \A i \in 1..Len(r) : r[i].id = i
      /\ \A i, j \in 1..Len(r) : i < j => Clear(r[i], r[j])
  BY NotableBlobsAre
<1> HIDE DEF r
<1>2. Len(r) \in Nat /\ ToSet(r) = {r[i] : i \in 1..Len(r)} /\ ToSet(r) \in SUBSET Blobs(ss)
  BY <1>1, ToSetIs
<1>3. ASSUME NEW a \in ToSet(r), NEW b \in ToSet(r), a # b
      PROVE  a.section # b.section \/ a.hi < b.lo \/ b.hi < a.lo
  <2>1. PICK i \in 1..Len(r) : a = r[i]
    BY <1>2
  <2>2. PICK j \in 1..Len(r) : b = r[j]
    BY <1>2
  <2>3. i < j \/ j < i
    BY <1>2, <1>3, <2>1, <2>2
  <2>4. Clear(a, b) \/ Clear(b, a)
    BY <1>1, <2>1, <2>2, <2>3
  <2>5. \A x \in Blobs(ss) : x.section \in Int
    BY SectionsAre DEF Blobs
  <2>6. a.section \in Int /\ b.section \in Int
    BY <1>2, <2>5
  <2> QED BY <2>4, <2>6 DEF Clear
<1> QED BY <1>1, <1>3 DEF r

\* A span of large copies, with its functions, is in a blob.
LEMMA SpanHeld ==
    ASSUME NEW ss, AreSections(ss), NEW rs \in Seq(Reference), NEW cs \in Seq(Copy),
           NEW s \in ToSet(_merged_large_copy_spans(ss, cs))
    PROVE  \E b \in ToSet(_notable_data_blobs(ss, rs, cs)) :
              /\ b.section = s.section /\ b.lo <= s.lo /\ s.hi <= b.hi /\ s.refs \subseteq b.refs
              /\ "large_copy_source" \in b.reasons
<1> DEFINE r == _notable_data_blobs(ss, rs, cs)
<1>1. PICK x \in _large_copy_blob_spans(ss, cs) :
         /\ x.section = s.section /\ x.lo = s.lo /\ x.hi = s.hi /\ x.refs = s.refs
         /\ "large_copy_source" \in x.reasons
  BY CopyBlobsAre
<1>2. x \in BlobsFound(ss, rs, cs)
  BY DEF BlobsFound
<1>3. r \in Seq(Blobs(ss)) /\ \E i \in 1..Len(r) : Held(x, r[i])
  BY <1>2, NotableBlobsAre
<1> HIDE DEF r
<1>4. ToSet(r) = {r[i] : i \in 1..Len(r)}
  BY <1>3, ToSetIs
<1>5. \E b \in ToSet(r) : Held(x, b)
  BY <1>3, <1>4
<1> QED BY <1>1, <1>5 DEF Held, r

LEMMA CopiesAreCovered ==
    ASSUME NEW ss, AreSections(ss), NEW rs \in Seq(Reference), NEW cs \in Seq(Copy), NEW c \in ToSet(cs),
           NEW r \in places_for_va(ss, c.source), c.source # NoAddress, ~ss[r].excluded,
           Least(c.source + c.size, ss[r].hi) - c.source >= MIN_BLOB_SIZE
    PROVE  \E b \in ToSet(_notable_data_blobs(ss, rs, cs)) :
              /\ inside(b, r, c.source, Least(c.source + c.size, ss[r].hi))
              /\ c.function \in b.refs /\ "large_copy_source" \in b.reasons
<1> DEFINE m == _merged_large_copy_spans(ss, cs)
           hi == Least(c.source + c.size, ss[r].hi)
<1>1. m \in Seq(Spans(ss))
  BY MergedAre
<1>2. \E i \in 1..Len(m) : m[i].section = r /\ m[i].lo <= c.source /\ c.function \in m[i].refs /\ hi <= m[i].hi
  BY CopyMerged
<1>3. c \in Copy /\ r \in DOMAIN ss
  BY ToSetIs, PlacesForVaAre
<1>4. c.source \in Int /\ hi \in Int
  BY <1>3, SectionsAre DEF Least, Copy
<1> HIDE DEF m, hi
<1>5. ToSet(m) = {m[i] : i \in 1..Len(m)} /\ ToSet(m) \in SUBSET Spans(ss)
  BY <1>1, ToSetIs
<1>6. PICK s \in ToSet(m) : s.section = r /\ s.lo <= c.source /\ c.function \in s.refs /\ hi <= s.hi
  BY <1>2, <1>5
<1>7. PICK b \in ToSet(_notable_data_blobs(ss, rs, cs)) :
         /\ b.section = s.section /\ b.lo <= s.lo /\ s.hi <= b.hi /\ s.refs \subseteq b.refs
         /\ "large_copy_source" \in b.reasons
  BY SpanHeld DEF m
<1>8. s.lo \in Int /\ s.hi \in Int
  BY <1>5 DEF Spans
<1>9. b \in Blobs(ss)
  <2>1. _notable_data_blobs(ss, rs, cs) \in Seq(Blobs(ss))
    BY NotableBlobsAre
  <2> QED BY <2>1, ToSetIs
<1>10. b.lo \in Int /\ b.hi \in Int
  BY <1>9 DEF Blobs
<1>11. inside(b, r, c.source, hi)
  BY <1>4, <1>6, <1>7, <1>8, <1>10 DEF inside
<1> QED BY <1>6, <1>7, <1>11 DEF hi

LEMMA ChunkBounds ==
    ASSUME NEW a \in Nat, NEW e \in Nat, NEW n \in Nat, NEW size \in Nat \ {0}, NEW least \in Nat \ {0},
           NEW lo, NEW hi, lo = e + a, hi = Least(lo + size, e + n), hi - lo >= least
    PROVE  /\ lo \in Nat /\ hi \in Nat /\ lo < hi /\ hi <= e + n /\ e <= lo
           /\ a < n /\ hi = Least(e + (a + size), e + n)
           /\ lo - e + 1 \in 1..(n + 1) /\ Least(hi, e + n) - e \in 0..n
<1>1. lo \in Nat /\ hi \in Nat /\ hi <= e + n /\ hi <= lo + size
  BY DEF Least
<1>2. lo < hi
  BY <1>1
<1>3. Least(hi, e + n) = hi
  BY <1>1 DEF Least
<1>4. a < n /\ lo - e + 1 \in 1..(n + 1) /\ hi - e \in 0..n
  BY <1>1, <1>2
<1>5. lo + size = e + (a + size)
  OBVIOUS
<1> QED BY <1>1, <1>2, <1>3, <1>4, <1>5

LEMMA CellsAre ==
    ASSUME NEW s, s.cells \in Seq(STRING), NEW lo, NEW hi,
           lo - s.lo + 1 \in 1..(Len(s.cells) + 1), Least(hi, s.hi) - s.lo \in 0..Len(s.cells)
    PROVE  cells(s, lo, hi) \in Seq(STRING)
<1> DEFINE a == lo - s.lo + 1
           e == Least(hi, s.hi) - s.lo
           c == s.cells
<1>1. cells(s, lo, hi) = SubSeq(c, a, e)
  BY DEF cells
<1>2. c \in Seq(STRING) /\ a \in 1..(Len(c) + 1) /\ e \in 0..Len(c)
  OBVIOUS
<1> HIDE DEF a, e, c
<1> QED BY <1>1, <1>2, SubSeqProperties

\* A chunk with a signature is in a blob that tells one, or a large copy reads some of it.
LEMMA ChunkReported ==
    ASSUME NEW ss, AreSections(ss), NEW rs \in Seq(Reference), NEW cs \in Seq(Copy),
           NEW x \in chunks(ss), x.hi - x.lo >= MIN_BLOB_SIZE, NEW bytes \in Seq(STRING),
           bytes = cells(ss[x.section], x.lo, x.hi), NEW held,
           held = ToSet(bytes) \cap {"MZ", "PE", "ELF"}, held # {}
    PROVE  \/ \E b \in ToSet(_notable_data_blobs(ss, rs, cs)) :
                 inside(b, x.section, x.lo, x.hi) /\ held \cap b.magic # {}
           \/ \E c \in ToSet(cs) : /\ c.source # NoAddress /\ x.section \in places_for_va(ss, c.source)
                                   /\ Overlap(x.lo, x.hi, c.source, c.source + c.size)
<1> DEFINE spans == _large_copy_blob_spans(ss, cs)
           B == _chunk_blobs(ss, spans, rs, cs)
           R == _notable_data_blobs(ss, rs, cs)
           M == ToSet(_merged_large_copy_spans(ss, cs))
<1>1. x.lo \in Nat /\ x.hi \in Nat /\ x.lo < x.hi
  BY ChunksAre
<1>2. held \cap chunk_magic(bytes) # {}
  BY SignatureTold
<1> HIDE DEF spans
<1>3. CASE _is_free(spans, x)
  <2>1. ChunksTold(ss, spans, B)
    BY ChunkBlobsAre
  <2> HIDE DEF B
  <2>2. chunk_magic(cells(ss[x.section], x.lo, x.hi)) # {}
    BY <1>2
  <2>3. PICK y \in B : /\ y.section = x.section /\ y.lo = x.lo /\ y.hi = x.hi
                       /\ y.magic = chunk_magic(cells(ss[x.section], x.lo, x.hi))
    BY <1>3, <2>1, <2>2 DEF ChunksTold
  <2>4. y \in BlobsFound(ss, rs, cs)
    BY <2>3 DEF BlobsFound, B, spans
  <2>5. R \in Seq(Blobs(ss)) /\ \E i \in 1..Len(R) : Held(y, R[i])
    BY <2>4, NotableBlobsAre
  <2> HIDE DEF R
  <2>6. ToSet(R) = {R[i] : i \in 1..Len(R)}
    BY <2>5, ToSetIs
  <2>7. PICK b \in ToSet(R) : Held(y, b)
    BY <2>5, <2>6
  <2>8. inside(b, x.section, x.lo, x.hi)
    BY <2>3, <2>7 DEF Held, inside
  <2>9. held \cap b.magic # {}
    BY <1>2, <2>3, <2>7 DEF Held
  <2> QED BY <2>7, <2>8, <2>9 DEF R
<1>4. CASE ~_is_free(spans, x)
  <2>1. PICK b \in spans : b.section = x.section /\ x.lo < b.hi /\ b.lo < x.hi
    BY <1>4 DEF _is_free, Overlap
  <2>2. PICK s \in M : s.section = b.section /\ s.lo = b.lo /\ s.hi = b.hi
    BY <2>1, CopyBlobsAre DEF spans
  <2>3. s.section = x.section /\ x.lo < s.hi /\ s.lo < x.hi
    BY <2>1, <2>2
  <2>4. s \in Spans(ss)
    <3>1. _merged_large_copy_spans(ss, cs) \in Seq(Spans(ss))
      BY MergedAre
    <3> QED BY <3>1, ToSetIs
  <2>5. s.lo \in Nat /\ s.hi \in Nat /\ s.lo < s.hi
    <3>1. s.lo \in Nat /\ s.hi \in Nat /\ s.section \in DOMAIN ss /\ IsPlace(ss, s)
      BY <2>4 DEF Spans
    <3> QED BY <3>1 DEF IsPlace
  <2> DEFINE lo == x.lo
             hi == x.hi
  <2>6. lo \in Nat /\ hi \in Nat /\ lo < hi /\ lo < s.hi /\ s.lo < hi
    BY <1>1, <2>3
  <2> HIDE DEF lo, hi
  <2>7. \E a \in Int : s.lo <= a /\ a < s.hi /\ lo <= a /\ a < hi
    <3>1. CASE lo <= s.lo
      BY <2>5, <2>6, <3>1
    <3>2. CASE s.lo < lo
      BY <2>5, <2>6, <3>2
    <3> QED BY <2>5, <2>6, <3>1, <3>2
  <2>8. PICK a \in Int : s.lo <= a /\ a < s.hi /\ lo <= a /\ a < hi
    BY <2>7
  <2>9. PICK c \in ToSet(cs) : /\ c.source # NoAddress /\ s.section \in places_for_va(ss, c.source)
                               /\ c.source <= a /\ a < c.source + c.size
    BY <2>8, SpanRead
  <2>10. c \in Copy
    BY ToSetIs
  <2>11. c.source \in Int /\ c.source + c.size \in Int
    BY <2>10 DEF Copy
  <2>12. Overlap(lo, hi, c.source, c.source + c.size)
    BY <2>6, <2>8, <2>9, <2>11 DEF Overlap
  <2> QED BY <2>3, <2>9, <2>12 DEF lo, hi
<1> QED BY <1>3, <1>4

LEMMA SignaturesAreReported ==
    ASSUME NEW ss, AreSections(ss), NEW rs \in Seq(Reference), NEW cs \in Seq(Copy),
           NEW r \in DOMAIN ss, NEW k \in 0..Len(ss[r].cells), NEW lo, NEW hi, NEW held,
           lo = ss[r].lo + k * CHUNK_SIZE, hi = Least(lo + CHUNK_SIZE, ss[r].hi),
           held = ToSet(cells(ss[r], lo, hi)) \cap {"MZ", "PE", "ELF"},
           ~ss[r].excluded, hi - lo >= MIN_BLOB_SIZE, held # {}
    PROVE  \/ \E b \in ToSet(_notable_data_blobs(ss, rs, cs)) : inside(b, r, lo, hi) /\ held \cap b.magic # {}
           \/ \E c \in ToSet(cs) : /\ c.source # NoAddress /\ r \in places_for_va(ss, c.source)
                                   /\ Overlap(lo, hi, c.source, c.source + c.size)
<1> DEFINE bytes == cells(ss[r], lo, hi)
           x == [section |-> r, lo |-> lo, hi |-> hi]
<1>1. /\ CHUNK_SIZE \in Nat \ {0} /\ MIN_BLOB_SIZE \in Nat \ {0}
      /\ ss[r].lo \in Nat /\ ss[r].hi \in Nat /\ ss[r].cells \in Seq(STRING)
      /\ Len(ss[r].cells) \in Nat /\ ss[r].hi = ss[r].lo + Len(ss[r].cells)
  BY ConstantsAssumption, SectionsAre
<1>2. k \in Nat /\ k * CHUNK_SIZE \in Nat /\ (k + 1) * CHUNK_SIZE = k * CHUNK_SIZE + CHUNK_SIZE
  BY <1>1
<1>3. /\ lo \in Nat /\ hi \in Nat /\ lo < hi /\ hi <= ss[r].hi /\ ss[r].lo <= lo
      /\ k * CHUNK_SIZE < Len(ss[r].cells)
      /\ hi = Least(ss[r].lo + (k + 1) * CHUNK_SIZE, ss[r].hi)
      /\ lo - ss[r].lo + 1 \in 1..(Len(ss[r].cells) + 1)
      /\ Least(hi, ss[r].hi) - ss[r].lo \in 0..Len(ss[r].cells)
  <2> DEFINE a == k * CHUNK_SIZE
             e == ss[r].lo
             n == Len(ss[r].cells)
  <2>1. a \in Nat /\ e \in Nat /\ n \in Nat /\ lo = e + a /\ hi = Least(lo + CHUNK_SIZE, e + n) /\ ss[r].hi = e + n
    BY <1>1, <1>2
  <2> HIDE DEF a, e, n
  <2>2. /\ lo \in Nat /\ hi \in Nat /\ lo < hi /\ hi <= e + n /\ e <= lo
        /\ a < n /\ hi = Least(e + (a + CHUNK_SIZE), e + n)
        /\ lo - e + 1 \in 1..(n + 1) /\ Least(hi, e + n) - e \in 0..n
    BY <1>1, <2>1, ChunkBounds
  <2> QED BY <1>2, <2>1, <2>2 DEF a, e, n
<1>4. x \in chunks(ss)
  <2> DEFINE ch(q, j) == [section |-> q, lo |-> ss[q].lo + j * CHUNK_SIZE,
                          hi |-> Least(ss[q].lo + (j + 1) * CHUNK_SIZE, ss[q].hi)]
             K(q) == {j \in 0..Len(ss[q].cells) : j * CHUNK_SIZE < Len(ss[q].cells)}
  <2>1. chunks(ss) = UNION {{ch(q, j) : j \in K(q)} : q \in {y \in DOMAIN ss : ~ss[y].excluded}}
    BY DEF chunks
  <2>2. x = ch(r, k) /\ k \in K(r)
    BY <1>3
  <2> HIDE DEF ch, K, x
  <2> QED BY <2>1, <2>2
<1>5. bytes \in Seq(STRING)
  <2> DEFINE s == ss[r]
  <2>1. /\ s.cells \in Seq(STRING) /\ lo - s.lo + 1 \in 1..(Len(s.cells) + 1)
        /\ Least(hi, s.hi) - s.lo \in 0..Len(s.cells)
    BY <1>1, <1>3
  <2> HIDE DEF s
  <2>2. cells(s, lo, hi) \in Seq(STRING)
    BY <2>1, CellsAre
  <2> QED BY <2>2 DEF s
<1>6. /\ x.section = r /\ x.lo = lo /\ x.hi = hi
      /\ bytes = cells(ss[x.section], x.lo, x.hi) /\ held = ToSet(bytes) \cap {"MZ", "PE", "ELF"}
      /\ x.hi - x.lo >= MIN_BLOB_SIZE
  OBVIOUS
<1> HIDE DEF x, bytes
<1>7. \/ \E b \in ToSet(_notable_data_blobs(ss, rs, cs)) :
            inside(b, x.section, x.lo, x.hi) /\ held \cap b.magic # {}
      \/ \E c \in ToSet(cs) : /\ c.source # NoAddress /\ x.section \in places_for_va(ss, c.source)
                              /\ Overlap(x.lo, x.hi, c.source, c.source + c.size)
  BY <1>4, <1>5, <1>6, ChunkReported
<1> QED BY <1>6, <1>7

-----------------------------------------------------------------------------
(***************************************************************************)
(* Sources of transformers.                                                *)
(***************************************************************************)

Callees(graph, f) == {c.to : c \in ToSet(graph.calls[f])}
ClosedUnder(graph, known, S) == \A f \in known : Callees(graph, f) \cap S # {} => f \in S

\* A source of a function comes from one of every set that has the function and the callers of its members.
Traced(graph, known, from, src) ==
    /\ DOMAIN src = known
    /\ \A f \in known : \A id \in src[f] : \A S \in SUBSET known :
          f \in S /\ ClosedUnder(graph, known, S) => \E g \in S : id \in from[g]

LEMMA HandedOnTraced ==
    ASSUME NEW graph, NEW known, NEW from, NEW src, NEW f, Traced(graph, known, from, src)
    PROVE  Traced(graph, known, from, handed_on(graph, src, f))
<1> DEFINE next == handed_on(graph, src, f)
           given(g) == f \in known /\ src[g] = {} /\ g \in Callees(graph, f)
<1>1. next = [g \in known |-> IF given(g) THEN src[f] ELSE src[g]]
  BY DEF handed_on, Traced, Callees
<1> HIDE DEF next
<1>2. ASSUME NEW g \in known, NEW id \in next[g], NEW S \in SUBSET known, g \in S, ClosedUnder(graph, known, S)
      PROVE  \E h \in S : id \in from[h]
  <2>1. CASE given(g)
    <3>1. id \in src[f] /\ f \in known
      BY <1>1, <1>2, <2>1
    <3>2. f \in S
      BY <1>2, <2>1 DEF ClosedUnder
    <3> QED BY <1>2, <3>1, <3>2 DEF Traced
  <2>2. CASE ~given(g)
    <3>1. id \in src[g]
      BY <1>1, <1>2, <2>2
    <3> QED BY <1>2, <3>1 DEF Traced
  <2> QED BY <2>1, <2>2
<1>3. DOMAIN next = known
  BY <1>1
<1> QED BY <1>2, <1>3 DEF Traced, next

LEMMA PropagatedTraced ==
    ASSUME NEW graph, Len(graph.order) \in Nat, NEW known, NEW from, NEW given, Traced(graph, known, from, given)
    PROVE  Traced(graph, known, from, propagate_transformer_sources(given, graph))
<1> DEFINE N == Len(graph.order)
           p == CHOOSE f : f = [n \in 0..N |-> IF n = 0 THEN given ELSE handed_on(graph, f[n - 1], graph.order[n])]
           T == {n \in 0..N : Traced(graph, known, from, p[n])}
<1>1. propagate_transformer_sources(given, graph) = p[N]
  BY Zenon DEF propagate_transformer_sources
<1>2. p = [n \in 0..N |-> IF n = 0 THEN given ELSE handed_on(graph, p[n - 1], graph.order[n])]
  <2>1. \E f : HandsOn(graph, given, f)
    BY HandingOnExists
  <2> QED BY Zenon, <2>1 DEF HandsOn
<1> HIDE DEF p
<1>3. N \in Nat
  OBVIOUS
<1> HIDE DEF N
<1>4. 0 \in T
  <2>1. p[0] = given
    BY <1>2, <1>3
  <2> QED BY <1>3, <2>1
<1>5. ASSUME NEW n \in T, n < N PROVE n + 1 \in T
  <2>1. n + 1 \in 0..N /\ n + 1 # 0 /\ (n + 1) - 1 = n
    BY <1>3, <1>5
  <2>2. p[n + 1] = handed_on(graph, p[n], graph.order[n + 1])
    BY <1>2, <2>1
  <2>3. Traced(graph, known, from, p[n])
    BY <1>5
  <2>4. Traced(graph, known, from, handed_on(graph, p[n], graph.order[n + 1]))
    BY <2>3, HandedOnTraced
  <2> QED BY <2>1, <2>2, <2>4
<1>6. T = 0..N
  <2>1. T \in SUBSET (0..N)
    OBVIOUS
  <2> HIDE DEF T
  <2> QED BY <1>3, <1>4, <1>5, <2>1, CountingUp
<1>7. N \in T
  BY <1>3, <1>6
<1> QED BY <1>1, <1>7

\* The list made of each member of a list.
LEMMA EachIs ==
    ASSUME NEW S, NEW s \in Seq(S), NEW g, g = [i \in 1..Len(s) |-> g[i]]
    PROVE  /\ g \o <<>> = g /\ Len(s) \in Nat /\ Len(g) = Len(s) /\ ToSet(g) = {g[i] : i \in 1..Len(s)}
<1> DEFINE V == {g[i] : i \in 1..Len(s)}
<1>1. Len(s) \in Nat
  BY LenProperties
<1>2. g \in [1..Len(s) -> V]
  OBVIOUS
<1> HIDE DEF V
<1>3. g \o <<>> = g /\ g \in Seq(V) /\ Len(g) = Len(s)
  BY <1>1, <1>2, FunctionIsList
<1>4. ToSet(g) = {g[i] : i \in 1..Len(g)}
  BY <1>3, ToSetIs
<1> QED BY <1>1, <1>3, <1>4

LEMMA TransformersAre ==
    ASSUME NEW ns \in Seq(STRING), NEW features, NEW bl, NEW cs, NEW graph, Len(graph.order) \in Nat
    PROVE  LET r == _data_transformers(ns, features, bl, cs, graph)
               known == {x.function : x \in ToSet(r)}
           IN  \A t \in ToSet(r) : \A id \in t.sources : \A S \in SUBSET known :
                  t.function \in S /\ ClosedUnder(graph, known, S)
                  => \E g \in S : id \in sources_for_function(g, bl, cs)
<1> DEFINE fs    == ToSet(ns)
           ops   == [f \in fs |-> features[f].ops \cup hints_of(TRANSFORM_CALL_HINTS, graph, f)]
           own   == [f \in fs |-> {i \in 1..Len(cs) : cs[i].function = f}]
           from  == [f \in fs |-> sources_for_function(f, bl, cs)]
           known == {f \in fs : is_transformer(f, features[f], ops[f], own[f], from[f])}
           src   == propagate_transformer_sources([f \in known |-> from[f]], graph)
           rec(n) == [function |-> ns[n], operations |-> ops[ns[n]], sources |-> src[ns[n]],
                      copies |-> Each(InOrder(own[ns[n]], <), LAMBDA i : cs[i]),
                      confidence |-> confidence(transform_score(features[ns[n]], ops[ns[n]], own[ns[n]]))]
           N     == {n \in 1..Len(ns) : ns[n] \in known}
           I     == InOrder(N, <)
           g     == [i \in 1..Len(I) |-> rec(I[i])]
           r     == _data_transformers(ns, features, bl, cs, graph)
<1>1. r = g \o <<>>
  BY Zenon DEF _data_transformers, Each
<1> HIDE DEF r
<1>2. \A n : rec(n).function = ns[n] /\ rec(n).sources = src[ns[n]]
  <2> DEFINE a(n) == ops[ns[n]]
             b(n) == Each(InOrder(own[ns[n]], <), LAMBDA i : cs[i])
             c(n) == confidence(transform_score(features[ns[n]], ops[ns[n]], own[ns[n]]))
             e(n) == src[ns[n]]
  <2>1. \A n : rec(n) = [function |-> ns[n], operations |-> a(n), sources |-> e(n), copies |-> b(n), confidence |-> c(n)]
    BY Zenon
  <2>2. \A n : e(n) = src[ns[n]]
    BY Zenon
  <2> HIDE DEF a, b, c, e, rec, src
  <2> QED BY <2>1, <2>2
<1>3. g = [i \in 1..Len(I) |-> g[i]] /\ \A i \in 1..Len(I) : g[i] = rec(I[i])
  <2> HIDE DEF rec, I
  <2> QED OBVIOUS
<1> HIDE DEF rec, g
<1>4. Traced(graph, known, from, src)
  <2> DEFINE given == [f \in known |-> from[f]]
  <2> HIDE DEF from, known
  <2>1. Traced(graph, known, from, given)
    BY DEF Traced
  <2> HIDE DEF given
  <2>2. Traced(graph, known, from, propagate_transformer_sources(given, graph))
    BY <2>1, PropagatedTraced
  <2> QED BY <2>2 DEF given
<1>5. known \subseteq fs /\ \A f \in known : from[f] = sources_for_function(f, bl, cs)
  BY Zenon
<1>6. N \in SUBSET Nat /\ IsFiniteSet(N) /\ \A n \in N : ns[n] \in known
  <2> HIDE DEF known
  <2>1. Len(ns) \in Nat
    BY LenProperties
  <2>2. IsFiniteSet(1..Len(ns))
    <3> DEFINE L == Len(ns)
    <3>1. L \in Nat
      BY <2>1
    <3> HIDE DEF L
    <3>2. IsFiniteSet(1..L)
      BY <3>1, FS_Interval
    <3> QED BY <3>2 DEF L
  <2>3. (\A n \in N : ns[n] \in known) /\ N \subseteq 1..Len(ns)
    OBVIOUS
  <2>4. 1..Len(ns) \subseteq Nat
    BY <2>1
  <2> HIDE DEF N
  <2> QED BY <2>2, <2>3, <2>4, FS_Subset
<1>7. \A f \in known : \E n \in N : ns[n] = f
  <2> DEFINE L == Len(ns)
  <2>1. ToSet(ns) = {ns[n] : n \in 1..L}
    BY ToSetIs
  <2>2. \A f \in known : \E n \in 1..L : ns[n] = f
    <3> HIDE DEF known, L
    <3> QED BY <1>5, <2>1
  <2> HIDE DEF known
  <2> QED BY <2>2
<1> HIDE DEF N, known, src, from
<1>8. I \in Seq(N) /\ \A n \in N : \E k \in 1..Len(I) : I[k] = n
  BY <1>6, NumbersListed
<1> HIDE DEF I
<1>9. r = g /\ ToSet(r) = {g[i] : i \in 1..Len(I)} /\ Len(I) \in Nat /\ \A i \in 1..Len(I) : I[i] \in N
  <2>1. \A i \in 1..Len(I) : I[i] \in N
    BY <1>8, ElementOfSeq
  <2>2. g \o <<>> = g /\ Len(I) \in Nat /\ ToSet(g) = {g[i] : i \in 1..Len(I)}
    BY <1>3, <1>8, EachIs
  <2> QED BY <1>1, <2>1, <2>2
<1>10. {x.function : x \in ToSet(r)} = known
  <2>1. ASSUME NEW x \in ToSet(r) PROVE x.function \in known
    <3>1. PICK i \in 1..Len(I) : x = g[i]
      BY <1>9
    <3>2. x = rec(I[i]) /\ I[i] \in N
      BY <1>3, <1>9, <3>1
    <3> QED BY <1>2, <1>6, <3>2
  <2>2. ASSUME NEW f \in known PROVE \E x \in ToSet(r) : x.function = f
    <3>1. PICK n \in N : ns[n] = f
      BY <1>7
    <3>2. PICK k \in 1..Len(I) : I[k] = n
      BY <1>8
    <3>3. g[k] \in ToSet(r) /\ g[k].function = f
      BY <1>2, <1>3, <1>9, <3>1, <3>2
    <3> QED BY <3>3
  <2> QED BY <2>1, <2>2
<1>11. ASSUME NEW t \in ToSet(r), NEW id \in t.sources, NEW S \in SUBSET known, t.function \in S,
              ClosedUnder(graph, known, S)
       PROVE  \E f \in S : id \in sources_for_function(f, bl, cs)
  <2>1. PICK i \in 1..Len(I) : t = g[i]
    BY <1>9
  <2>2. t.function = ns[I[i]] /\ t.sources = src[t.function] /\ t.function \in known
    BY <1>2, <1>3, <1>6, <1>9, <2>1
  <2>3. \E f \in S : id \in from[f]
    BY <1>4, <1>11, <2>2 DEF Traced
  <2> QED BY <1>5, <2>3
<1> QED BY <1>10, <1>11 DEF r

-----------------------------------------------------------------------------
(***************************************************************************)
(* What is noted of a function.                                            *)
(***************************************************************************)

Seen(s) ==
    /\ s.refs \in Seq(Reference) /\ s.copies \in Seq(Copy) /\ s.source \in Int
    /\ \A x \in DOMAIN s.ints : s.ints[x] \in Int

\* A list of one, if at all.
LEMMA GuardedIs ==
    ASSUME NEW S, NEW s \in Seq(S), NEW test, NEW x, test => x \in S
    PROVE  s \o Guarded(test, <<x>>) \in Seq(S)
<1>1. CASE test
  <2>1. Guarded(test, <<x>>) = <<x>> /\ <<x>> \in Seq(S)
    BY <1>1 DEF Guarded
  <2> QED BY <2>1, ConcatProperties
<1>2. CASE ~test
  <2>1. Guarded(test, <<x>>) = <<>>
    BY <1>2 DEF Guarded
  <2> QED BY <2>1, ConcatEmptySeq
<1> QED BY <1>1, <1>2

LEMMA NextIntsAre ==
    ASSUME NEW ints, NEW i \in Instruction, \A x \in DOMAIN ints : ints[x] \in Int
    PROVE  \A x \in DOMAIN next_ints(ints, i) : next_ints(ints, i)[x] \in Int
<1>1. i.imm \in Int
  BY DEF Instruction
<1>2. CASE i.op = "mov" /\ i.src = "imm"
  <2> DEFINE reg == i.reg
             imm == i.imm
             D == DOMAIN ints \cup {reg}
             e == [y \in D |-> IF y = reg THEN imm ELSE ints[y]]
  <2>1. next_ints(ints, i) = e
    <3>1. next_ints(ints, i) = Put(ints, i.reg, i.imm)
      BY <1>2 DEF next_ints
    <3> QED BY Zenon, <3>1 DEF Put
  <2>2. imm \in Int
    BY <1>1
  <2> HIDE DEF reg, imm
  <2>3. \A x \in D : e[x] \in Int
    BY <2>2
  <2> QED BY <2>1, <2>3
<1>3. CASE i.op = "mov" /\ i.src # "imm"
  BY <1>3 DEF next_ints, Drop
<1>4. CASE i.op # "mov"
  BY <1>4 DEF next_ints
<1> QED BY <1>2, <1>3, <1>4

LEMMA NoteIs ==
    ASSUME NEW ss, NEW ranges, NEW f \in STRING, NEW s, Seen(s), NEW i \in Instruction
    PROVE  Seen(note_instruction(ss, ranges, f, s, i))
<1> DEFINE t == note_instruction(ss, ranges, f, s, i)
           size == copy_size_from_instruction(next_ints(s.ints, i), i)
           referred == (i.mem = "global" \/ i.src = "imm") /\ places_for_va(ss, i.imm) # {}
           copied == i.op = "movs" /\ size >= LARGE_COPY_THRESHOLD
           a == [function |-> f, target |-> i.imm]
           b == [function |-> f, at |-> i.at, source |-> s.source, size |-> size]
<1>1. /\ t.ints = next_ints(s.ints, i)
      /\ t.source = IF i.op = "lea" /\ i.mem = "global" THEN i.imm ELSE s.source
      /\ t.refs = s.refs \o Guarded(referred, <<a>>)
      /\ t.copies = s.copies \o Guarded(copied, <<b>>)
  <2> DEFINE prov == CASE i.op \in {"mov", "lea"} -> update_register_provenance(s.prov, i)
                        [] i.op = "call" /\ i.src = "imm" ->
                              Put(s.prov, "RAX", [kind |-> "call_return", of |-> i.to])
                        [] OTHER -> s.prov
             features == _record_features(s.features, i)
             indirect == s.indirect \o Guarded(i.op = "call" /\ i.src # "imm",
                         <<[function |-> f, at |-> i.at, class |->
                               classify_indirect_call(indirect_call_provenance(s.prov, i))]>>)
             mid == s.mid \o _record_mid_function_transfer(ranges, f, i)
             source == IF i.op = "lea" /\ i.mem = "global" THEN i.imm ELSE s.source
             ints == next_ints(s.ints, i)
             refs == s.refs \o Guarded(referred, <<a>>)
             cs == s.copies \o Guarded(copied, <<b>>)
  <2>1. t = [ints |-> ints, prov |-> prov, source |-> source, features |-> features,
             refs |-> refs, copies |-> cs, indirect |-> indirect, mid |-> mid]
    BY Zenon DEF note_instruction
  <2> HIDE DEF t, ints, prov, source, features, refs, cs, indirect, mid
  <2>2. t.ints = ints /\ t.source = source /\ t.refs = refs /\ t.copies = cs
    BY <2>1
  <2> QED BY Zenon, <2>2 DEF ints, source, refs, cs
<1> HIDE DEF t
<1>2. i.imm \in Int /\ i.at \in Int /\ i.width \in Nat
  BY DEF Instruction
<1>3. \A x \in DOMAIN t.ints : t.ints[x] \in Int
  BY <1>1, NextIntsAre DEF Seen
<1>4. size \in Int
  <2>1. CASE "RCX" \in DOMAIN t.ints
    <3>1. size = t.ints["RCX"] * i.width /\ t.ints["RCX"] \in Int
      BY <1>1, <1>3, <2>1 DEF copy_size_from_instruction
    <3> QED BY <1>2, <3>1
  <2>2. CASE "RCX" \notin DOMAIN t.ints
    BY <1>1, <2>2 DEF copy_size_from_instruction
  <2> QED BY <2>1, <2>2
<1> HIDE DEF size, referred, copied
<1>5. a \in Reference /\ b \in Copy
  BY <1>2, <1>4 DEF Reference, Copy, Seen
<1> HIDE DEF a, b
<1>6. t.refs \in Seq(Reference) /\ t.copies \in Seq(Copy)
  BY <1>1, <1>5, GuardedIs DEF Seen
<1>7. t.source \in Int
  BY <1>1, <1>2 DEF Seen
<1> QED BY <1>3, <1>6, <1>7 DEF Seen, t

LEMMA ScanIs ==
    ASSUME NEW ss, NEW ranges, NEW f \in STRING, NEW code \in Seq(Instruction)
    PROVE  Seen(_scan_function(ss, ranges, f, code))
<1> DEFINE N == Len(code)
           p == CHOOSE g : g = [n \in 0..N |-> IF n = 0 THEN NothingSeen
                                               ELSE note_instruction(ss, ranges, f, g[n - 1], code[n])]
           T == {n \in 0..N : Seen(p[n])}
<1>1. _scan_function(ss, ranges, f, code) = p[N]
  BY Zenon DEF _scan_function
<1>2. N \in Nat /\ \A n \in 1..N : code[n] \in Instruction
  BY LenProperties, ElementOfSeq
<1>3. p = [n \in 0..N |-> IF n = 0 THEN NothingSeen ELSE note_instruction(ss, ranges, f, p[n - 1], code[n])]
  <2>1. \E g : Scans(ss, ranges, f, code, g)
    BY <1>2, ScanExists
  <2> QED BY Zenon, <2>1 DEF Scans
<1> HIDE DEF p, N
<1>4. 0 \in T
  <2>1. p[0] = NothingSeen
    BY <1>2, <1>3
  <2>2. Seen(NothingSeen)
    <3>1. NothingSeen.refs = <<>> /\ NothingSeen.copies = <<>> /\ NothingSeen.source = 0 /\ NothingSeen.ints = <<>>
      BY DEF NothingSeen, NoAddress
    <3>2. <<>> \in Seq(Reference) /\ <<>> \in Seq(Copy) /\ \A x : x \notin DOMAIN <<>>
      OBVIOUS
    <3> QED BY <3>1, <3>2 DEF Seen
  <2> QED BY <1>2, <2>1, <2>2
<1>5. ASSUME NEW n \in T, n < N PROVE n + 1 \in T
  <2>1. n + 1 \in 1..N /\ n + 1 \in 0..N /\ n + 1 # 0 /\ (n + 1) - 1 = n
    BY <1>2, <1>5
  <2>2. p[n + 1] = note_instruction(ss, ranges, f, p[n], code[n + 1])
    BY <1>3, <2>1
  <2>3. Seen(p[n])
    BY <1>5
  <2>4. Seen(note_instruction(ss, ranges, f, p[n], code[n + 1]))
    BY <1>2, <2>1, <2>3, NoteIs
  <2> QED BY <2>1, <2>2, <2>4
<1>6. T = 0..N
  <2>1. T \in SUBSET (0..N)
    OBVIOUS
  <2> HIDE DEF T
  <2> QED BY <1>2, <1>4, <1>5, <2>1, CountingUp
<1>7. N \in T
  BY <1>2, <1>6
<1> QED BY <1>1, <1>7

LEMMA NotedIs ==
    ASSUME NEW p, NEW f \in STRING, p.code[f] \in Seq(Instruction), NEW fd,
           fd.refs \in Seq(Reference), fd.copies \in Seq(Copy)
    PROVE  noted(fd, p, f).refs \in Seq(Reference) /\ noted(fd, p, f).copies \in Seq(Copy)
<1> DEFINE s == _scan_function(p.sections, p.ranges, f, p.code[f])
           features == Put(fd.features, f, s.features)
           refs == fd.refs \o s.refs
           cs == fd.copies \o s.copies
           indirect == fd.indirect \o s.indirect
           mid == fd.mid \o s.mid
<1>1. noted(fd, p, f) = [features |-> features, refs |-> refs, copies |-> cs, indirect |-> indirect, mid |-> mid]
  BY Zenon DEF noted
<1>2. Seen(s)
  BY ScanIs
<1> HIDE DEF s
<1>3. refs \in Seq(Reference) /\ cs \in Seq(Copy)
  BY <1>2, ConcatProperties DEF Seen
<1> HIDE DEF features, refs, cs, indirect, mid
<1> QED BY <1>1, <1>3

-----------------------------------------------------------------------------
(***************************************************************************)
(* The invariant: the scanner's lists hold copies and references, and what *)
(* is returned is made of the lists as they are once every function has    *)
(* been scanned.                                                           *)
(***************************************************************************)

ScanInv ==
    /\ program \in Programs
    /\ found.refs \in Seq(Reference) /\ found.copies \in Seq(Copy)
    /\ scanned \in 0..Len(program.graph.order)
    /\ done => scanned = Len(program.graph.order) /\ result = conclude(program, found)

LEMMA ProgramIs ==
    ASSUME NEW p \in Programs
    PROVE  /\ AreSections(p.sections) /\ p.graph.order \in Seq(STRING) /\ Len(p.graph.order) \in Nat
           /\ \A n \in 1..Len(p.graph.order) : /\ p.graph.order[n] \in STRING
                                               /\ p.graph.order[n] \notin p.missing
                                                  => p.code[p.graph.order[n]] \in Seq(Instruction)
<1>1. /\ AreSections(p.sections) /\ p.graph.order \in Seq(STRING)
      /\ \A f \in ToSet(p.graph.order) \ p.missing : p.code[f] \in Seq(Instruction)
  BY ProgramsAssumption
<1> DEFINE o == p.graph.order
<1>2. o \in Seq(STRING)
  BY <1>1
<1> HIDE DEF o
<1>3. Len(o) \in Nat /\ ToSet(o) = {o[i] : i \in 1..Len(o)} /\ ToSet(o) \in SUBSET STRING
  BY <1>2, ToSetIs
<1>4. \A n \in 1..Len(o) : o[n] \in ToSet(o) /\ o[n] \in STRING
  BY <1>3
<1>5. \A f \in ToSet(o) \ p.missing : p.code[f] \in Seq(Instruction)
  BY <1>1 DEF o
<1>6. \A n \in 1..Len(o) : o[n] \in STRING /\ (o[n] \notin p.missing => p.code[o[n]] \in Seq(Instruction))
  BY <1>4, <1>5
<1> QED BY <1>1, <1>3, <1>6 DEF o

LEMMA ScanInvInit == Init => ScanInv
<1> SUFFICES ASSUME Init PROVE ScanInv
  OBVIOUS
<1>1. NothingNoted.refs = <<>> /\ NothingNoted.copies = <<>>
  BY DEF NothingNoted
<1>2. <<>> \in Seq(Reference) /\ <<>> \in Seq(Copy)
  OBVIOUS
<1>3. Len(program.graph.order) \in Nat
  BY ProgramIs DEF Init
<1> QED BY <1>1, <1>2, <1>3 DEF Init, ScanInv, done, NoResult

LEMMA ScanInvNext == ScanInv /\ [Next]_vars => ScanInv'
<1> SUFFICES ASSUME ScanInv, [Next]_vars PROVE ScanInv'
  OBVIOUS
<1> DEFINE order == program.graph.order
<1>1. Len(order) \in Nat /\ scanned \in 0..Len(order)
  BY ProgramIs DEF ScanInv
<1>2. CASE ScanFunction
  <2> DEFINE f == order[scanned + 1]
  <2>1. /\ scanned < Len(order) /\ scanned' = scanned + 1 /\ program' = program /\ result' = result
        /\ found' = IF f \in program.missing THEN found ELSE noted(found, program, f)
    BY <1>2 DEF ScanFunction
  <2>2. scanned + 1 \in 1..Len(order) /\ scanned # Len(order) /\ scanned' \in 0..Len(order)
    BY <1>1, <2>1
  <2>3. ~done /\ ~done'
    BY <2>1, <2>2 DEF ScanInv, done, NoResult
  <2>4. f \in STRING /\ (f \notin program.missing => program.code[f] \in Seq(Instruction))
    BY <2>2, ProgramIs DEF ScanInv
  <2> HIDE DEF f
  <2>5. found'.refs \in Seq(Reference) /\ found'.copies \in Seq(Copy)
    <3>1. CASE f \in program.missing
      BY <2>1, <3>1 DEF ScanInv
    <3>2. CASE f \notin program.missing
      <4>1. noted(found, program, f).refs \in Seq(Reference) /\ noted(found, program, f).copies \in Seq(Copy)
        BY <2>4, <3>2, NotedIs DEF ScanInv
      <4> QED BY <2>1, <3>2, <4>1
    <3> QED BY <3>1, <3>2
  <2> QED BY <2>1, <2>2, <2>3, <2>5 DEF ScanInv
<1>3. CASE Conclude
  <2>1. /\ scanned = Len(order) /\ result' = conclude(program, found)
        /\ program' = program /\ found' = found /\ scanned' = scanned
    BY <1>3 DEF Conclude
  <2>2. result' = conclude(program', found')
    BY <2>1
  <2> QED BY <1>1, <2>1, <2>2 DEF ScanInv
<1>4. CASE UNCHANGED vars
  BY <1>4 DEF ScanInv, vars, done, NoResult
<1> QED BY <1>2, <1>3, <1>4 DEF Next

THEOREM ScanInvariant == Spec => []ScanInv
<1>1. Init => ScanInv
  BY ScanInvInit
<1>2. ScanInv /\ [Next]_vars => ScanInv'
  BY ScanInvNext
<1> QED BY <1>1, <1>2, PTL DEF Spec

\* What a report holds when there is one.
LEMMA ResultIs ==
    ASSUME ScanInv, done
    PROVE  /\ AreSections(sections) /\ Len(program.graph.order) \in Nat
           /\ found.refs \in Seq(Reference) /\ found.copies \in Seq(Copy)
           /\ result.blobs = _notable_data_blobs(sections, found.refs, found.copies)
           /\ result.transformers = _data_transformers(scanned_functions(program), found.features, result.blobs,
                                                       found.copies, program.graph)
<1> DEFINE ns           == scanned_functions(program)
           indirect     == SortBy(found.indirect, by_place)
           mid          == SortBy(found.mid, by_place)
           bl           == _notable_data_blobs(program.sections, found.refs, found.copies)
           transformers == _data_transformers(ns, found.features, bl, found.copies, program.graph)
           loaders      == _loader_behaviors(ns, found.features, transformers, found.copies, program.graph)
           embedded     == _embedded_artifacts(bl, transformers, loaders)
           hints        == assessment_hints(bl, transformers, loaders, embedded, mid, indirect)
<1>1. conclude(program, found) =
         [indirect |-> indirect, mid |-> mid, blobs |-> bl, transformers |-> transformers,
          loaders |-> loaders, embedded |-> embedded, hints |-> hints]
  BY Zenon DEF conclude
<1>2. result = conclude(program, found)
  BY DEF ScanInv
<1> HIDE DEF hints, embedded, loaders, mid, indirect
<1>3. result.blobs = bl /\ result.transformers = transformers
  <2> HIDE DEF bl, transformers
  <2> QED BY <1>1, <1>2
<1>4. AreSections(program.sections) /\ Len(program.graph.order) \in Nat
  BY ProgramIs DEF ScanInv
<1>5. result.transformers = _data_transformers(ns, found.features, result.blobs, found.copies, program.graph)
  BY Zenon, <1>3
<1>6. found.refs \in Seq(Reference) /\ found.copies \in Seq(Copy)
  BY DEF ScanInv
<1> QED BY Zenon, <1>3, <1>4, <1>5, <1>6 DEF sections

LEMMA ScannedIs ==
    ASSUME ScanInv
    PROVE  scanned_functions(program) \in Seq(STRING)
<1> DEFINE order == program.graph.order
           N == {n \in 1..Len(order) : order[n] \notin program.missing}
           I == InOrder(N, <)
           g == [i \in 1..Len(I) |-> order[I[i]]]
<1>1. scanned_functions(program) = g \o <<>>
  BY Zenon DEF scanned_functions, Each
<1>2. Len(order) \in Nat /\ \A n \in 1..Len(order) : order[n] \in STRING
  BY ProgramIs DEF ScanInv
<1> HIDE DEF order
<1>3. N \in SUBSET Nat /\ IsFiniteSet(N) /\ \A n \in N : order[n] \in STRING
  <2> DEFINE L == Len(order)
  <2>1. L \in Nat
    BY <1>2
  <2>2. (\A n \in N : order[n] \in STRING) /\ N \subseteq 1..L
    BY <1>2
  <2> HIDE DEF L, N
  <2>3. IsFiniteSet(1..L) /\ 1..L \subseteq Nat
    BY <2>1, FS_Interval
  <2> QED BY <2>2, <2>3, FS_Subset
<1> HIDE DEF N
<1>4. I \in Seq(N)
  BY <1>3, NumbersListed
<1> HIDE DEF I
<1>5. Len(I) \in Nat /\ \A i \in 1..Len(I) : order[I[i]] \in STRING
  <2>1. Len(I) \in Nat /\ \A i \in 1..Len(I) : I[i] \in N
    BY <1>4, LenProperties, ElementOfSeq
  <2> QED BY <1>3, <2>1
<1>6. g \in [1..Len(I) -> STRING]
  BY <1>5
<1> HIDE DEF g
<1> QED BY <1>1, <1>5, <1>6, FunctionIsList

-----------------------------------------------------------------------------
(***************************************************************************)
(* The properties.                                                         *)
(***************************************************************************)

\* The blobs of a report do not overlap or touch, and each is known by its place: coalesce_blob_runs
\* leaves no two that could be one.
THEOREM BlobsApartHolds == Spec => []BlobsApart
<1>1. ScanInv => BlobsApart
  <2> SUFFICES ASSUME ScanInv, done PROVE
        /\ \A i \in 1..Len(result.blobs) : result.blobs[i].id = i
        /\ \A a, b \in blobs : a = b \/ a.section # b.section \/ a.hi < b.lo \/ b.hi < a.lo
    BY DEF BlobsApart
  <2> DEFINE r == _notable_data_blobs(sections, found.refs, found.copies)
  <2>1. result.blobs = r
    BY ResultIs
  <2>2. /\ \A i \in 1..Len(r) : r[i].id = i
        /\ \A a, b \in ToSet(r) : a = b \/ a.section # b.section \/ a.hi < b.lo \/ b.hi < a.lo
    BY ResultIs, BlobsAreApart
  <2> HIDE DEF r
  <2> QED BY <2>1, <2>2 DEF blobs
<1> QED BY <1>1, ScanInvariant, PTL

\* What a large copy reads, as far as its section goes, is within one blob that names the function.
THEOREM CopiesCoveredHolds == Spec => []CopiesCovered
<1>1. ScanInv => CopiesCovered
  <2> SUFFICES ASSUME ScanInv, done, NEW c \in copies, NEW r \in places_for_va(sections, c.source),
                      c.source # NoAddress, ~sections[r].excluded,
                      Least(c.source + c.size, sections[r].hi) - c.source >= MIN_BLOB_SIZE
               PROVE  \E b \in blobs : /\ inside(b, r, c.source, Least(c.source + c.size, sections[r].hi))
                                       /\ c.function \in b.refs /\ "large_copy_source" \in b.reasons
    BY DEF CopiesCovered
  <2>1. c \in ToSet(found.copies)
    BY DEF copies
  <2>2. \E b \in ToSet(_notable_data_blobs(sections, found.refs, found.copies)) :
           /\ inside(b, r, c.source, Least(c.source + c.size, sections[r].hi))
           /\ c.function \in b.refs /\ "large_copy_source" \in b.reasons
    BY <2>1, ResultIs, CopiesAreCovered
  <2> QED BY <2>2, ResultIs DEF blobs
<1> QED BY <1>1, ScanInvariant, PTL

\* A chunk with the signature of a program is within a blob that tells of one, unless a large copy
\* reads some of the chunk.
THEOREM SignaturesReportedHolds == Spec => []SignaturesReported
<1>1. ScanInv => SignaturesReported
  <2> SUFFICES ASSUME ScanInv, done, NEW r \in DOMAIN sections, NEW k \in 0..Len(sections[r].cells)
               PROVE  LET lo == sections[r].lo + k * CHUNK_SIZE
                          hi == Least(lo + CHUNK_SIZE, sections[r].hi)
                          held == ToSet(cells(sections[r], lo, hi)) \cap {"MZ", "PE", "ELF"}
                      IN  /\ ~sections[r].excluded /\ hi - lo >= MIN_BLOB_SIZE /\ held # {}
                          => \/ \E b \in blobs : inside(b, r, lo, hi) /\ held \cap b.magic # {}
                             \/ \E c \in copies : /\ c.source # NoAddress /\ r \in places_for_va(sections, c.source)
                                                  /\ Overlap(lo, hi, c.source, c.source + c.size)
    BY DEF SignaturesReported
  <2> DEFINE lo == sections[r].lo + k * CHUNK_SIZE
             hi == Least(lo + CHUNK_SIZE, sections[r].hi)
             held == ToSet(cells(sections[r], lo, hi)) \cap {"MZ", "PE", "ELF"}
  <2> SUFFICES ASSUME ~sections[r].excluded, hi - lo >= MIN_BLOB_SIZE, held # {}
               PROVE  \/ \E b \in blobs : inside(b, r, lo, hi) /\ held \cap b.magic # {}
                      \/ \E c \in copies : /\ c.source # NoAddress /\ r \in places_for_va(sections, c.source)
                                           /\ Overlap(lo, hi, c.source, c.source + c.size)
    OBVIOUS
  <2>1. /\ lo = sections[r].lo + k * CHUNK_SIZE /\ hi = Least(lo + CHUNK_SIZE, sections[r].hi)
        /\ held = ToSet(cells(sections[r], lo, hi)) \cap {"MZ", "PE", "ELF"}
    OBVIOUS
  <2> HIDE DEF lo, hi, held
  <2>2. \/ \E b \in ToSet(_notable_data_blobs(sections, found.refs, found.copies)) :
              inside(b, r, lo, hi) /\ held \cap b.magic # {}
        \/ \E c \in ToSet(found.copies) : /\ c.source # NoAddress /\ r \in places_for_va(sections, c.source)
                                          /\ Overlap(lo, hi, c.source, c.source + c.size)
    BY <2>1, ResultIs, SignaturesAreReported
  <2> QED BY <2>2, ResultIs DEF blobs, copies
<1> QED BY <1>1, ScanInvariant, PTL

\* Every source of a transformer is that of a transformer which calls it, directly or through others,
\* or is its own.
THEOREM SourcesTraceableHolds == Spec => []SourcesTraceable
<1> DEFINE owns(f, id) == \/ f \in result.blobs[id].refs
                          \/ \E c \in copies : /\ c.function = f /\ c.source # NoAddress
                                               /\ result.blobs[id].lo <= c.source /\ c.source < result.blobs[id].hi
           known == {x.function : x \in ToSet(result.transformers)}
           calls(f) == {c.to : c \in ToSet(program.graph.calls[f])}
           closed(S) == \A f \in known : calls(f) \cap S # {} => f \in S
<1>1. ScanInv => SourcesTraceable
  <2> SUFFICES ASSUME ScanInv, done, NEW t \in ToSet(result.transformers), NEW id \in t.sources
               PROVE  /\ id \in DOMAIN result.blobs
                      /\ \A S \in SUBSET known : t.function \in S /\ closed(S) => \E f \in S : owns(f, id)
    BY Zenon DEF SourcesTraceable
  <2> DEFINE r == _data_transformers(scanned_functions(program), found.features, result.blobs,
                                     found.copies, program.graph)
             bl == result.blobs
             src(f) == sources_for_function(f, bl, found.copies)
  <2>1. result.transformers = r
    BY ResultIs
  <2>2. \A S \in SUBSET known : t.function \in S /\ closed(S) => \E f \in S : id \in src(f)
    <3>1. \A x \in ToSet(r) : \A y \in x.sources : \A S \in SUBSET {z.function : z \in ToSet(r)} :
             x.function \in S /\ ClosedUnder(program.graph, {z.function : z \in ToSet(r)}, S)
             => \E f \in S : y \in src(f)
      BY ResultIs, ScannedIs, TransformersAre
    <3>2. known = {z.function : z \in ToSet(r)} /\ t \in ToSet(r)
      BY <2>1
    <3> HIDE DEF r, src
    <3>3. \A S : closed(S) <=> ClosedUnder(program.graph, known, S)
      BY DEF ClosedUnder, Callees
    <3> HIDE DEF known, closed
    <3> QED BY <3>1, <3>2, <3>3
  <2>3. bl \in Seq(Blobs(sections)) /\ \A i \in 1..Len(bl) : bl[i].id = i
    BY ResultIs, NotableBlobsAre
  <2>4. Len(bl) \in Nat /\ DOMAIN bl = 1..Len(bl) /\ ToSet(bl) = {bl[i] : i \in 1..Len(bl)}
    BY <2>3, ToSetIs
  <2>5. ASSUME NEW f, id \in src(f) PROVE id \in DOMAIN bl /\ owns(f, id)
    <3>1. PICK b \in ToSet(bl) : /\ b.id = id
                                 /\ \/ f \in b.refs
                                    \/ \E c \in ToSet(found.copies) :
                                          c.function = f /\ c.source # NoAddress /\ b.lo <= c.source /\ c.source < b.hi
      BY <2>5 DEF sources_for_function
    <3>2. id \in 1..Len(bl) /\ b = bl[id]
      BY <2>3, <2>4, <3>1
    <3> QED BY <2>4, <3>1, <3>2 DEF copies
  <2>6. t.function \in known /\ closed(known)
    OBVIOUS
  <2>7. \E f \in known : id \in src(f)
    <3> HIDE DEF known, closed, src
    <3> QED BY <2>2, <2>6
  <2> HIDE DEF known, closed, src, owns
  <2> QED BY <2>2, <2>5, <2>7
<1> QED BY <1>1, ScanInvariant, PTL
=============================================================================

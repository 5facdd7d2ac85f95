------------------------------ MODULE Cfg_proofs ------------------------------
(***************************************************************************)
(* Proofs about analyze_function_cfg, for functions of any length, any     *)
(* instruction set and any limits.                                         *)
(***************************************************************************)
EXTENDS Cfg, FiniteSetTheorems, SequenceTheorems, WellFoundedInduction, TLAPS

Facts ==
    [addr : 0..(End - 1), size : Nat \ {0}, target : Nat \cup {NoTarget},
     cond : {s.cond : s \in Shapes}, op : {s.op : s \in Shapes},
     reads : {0, 1}, writes : {0, 1}, bytes : {0, 1}]

\* What the disassembler hands over: instructions one after the other.
Consecutive(c) ==
    /\ c \in Seq(Facts)
    /\ \A i, j \in DOMAIN c : i < j => c[i].addr + c[i].size <= c[j].addr
    /\ \A i \in DOMAIN c : i < Len(c) => c[i + 1].addr = c[i].addr + c[i].size
    /\ \A i \in DOMAIN c : c[i].addr + c[i].size <= End

\* The inductive invariant: instructions are consecutive, and a result is that
\* of analyze_function_cfg for them.
CfgInv == Consecutive(code) /\ (cfg = Undecided \/ cfg = AnalyzeFunctionCfg(code))
-----------------------------------------------------------------------------
(***************************************************************************)
(* Sorting.                                                                *)
(***************************************************************************)

\* How many members of S lie below x.
Rank(S, x) == Cardinality({y \in S : y < x})

\* Ranks are distinct numbers below the size of the set, and grow with the member.
LEMMA RankGrows ==
    ASSUME NEW S, S \subseteq Int, IsFiniteSet(S)
    PROVE  /\ Cardinality(S) \in Nat
           /\ \A x \in S : Rank(S, x) \in 0..(Cardinality(S) - 1)
           /\ \A x, y \in S : x < y => Rank(S, x) < Rank(S, y)
<1>1. Cardinality(S) \in Nat
  BY FS_CardinalityType
<1>2. ASSUME NEW x \in S, NEW T \in SUBSET S, x \notin T
      PROVE  IsFiniteSet(T) /\ Cardinality(T) \in Nat /\ Cardinality(T) < Cardinality(S)
  <2>1. IsFiniteSet(T) /\ Cardinality(T) <= Cardinality(S) /\ (Cardinality(S) = Cardinality(T) => S = T)
    BY FS_Subset
  <2>2. Cardinality(T) \in Nat
    BY <2>1, FS_CardinalityType
  <2> QED BY <1>1, <1>2, <2>1, <2>2
<1>3. ASSUME NEW x \in S PROVE Rank(S, x) \in 0..(Cardinality(S) - 1)
  <2> DEFINE T == {z \in S : z < x}
  <2>1. x \notin T /\ T \in SUBSET S
    OBVIOUS
  <2>2. Cardinality(T) \in Nat /\ Cardinality(T) < Cardinality(S)
    <3> HIDE DEF T
    <3> QED BY <2>1, <1>2
  <2> QED BY <1>1, <2>2 DEF Rank
<1>4. ASSUME NEW x \in S, NEW y \in S, x < y PROVE Rank(S, x) < Rank(S, y)
  <2> DEFINE T == {z \in S : z < x}
             U == {z \in S : z < y}
  <2>0. x \in Int /\ y \in Int /\ \A z \in S : z \in Int
    OBVIOUS
  <2>1. T \subseteq U /\ x \in U /\ x \notin T /\ U \subseteq S
    <3>1. ASSUME NEW z \in T PROVE z \in U
      <4>1. z \in S /\ z \in Int /\ z < x
        BY <2>0
      <4>2. z < y
        BY <1>4, <2>0, <4>1
      <4> QED BY <4>1, <4>2
    <3>2. x \in U /\ x \notin T
      BY <1>4, <2>0
    <3> QED BY <3>1, <3>2
  <2>2. Cardinality(T) < Cardinality(U)
    <3> HIDE DEF T, U
    <3>1. IsFiniteSet(U)
      BY <2>1, FS_Subset
    <3>2. Cardinality(T) <= Cardinality(U) /\ Cardinality(T) # Cardinality(U)
      BY <2>1, <3>1, FS_Subset
    <3>3. Cardinality(T) \in Nat /\ Cardinality(U) \in Nat
      BY <2>1, <3>1, FS_Subset, FS_CardinalityType
    <3> QED BY <3>2, <3>3
  <2> QED BY <2>2 DEF Rank
<1> QED BY <1>1, <1>3, <1>4

\* sorted() returns every member once, in ascending order.
LEMMA AscendingSorts ==
    ASSUME NEW S, S \subseteq Int, IsFiniteSet(S)
    PROVE  /\ Cardinality(S) \in Nat
           /\ Ascending(S) \in [1..Cardinality(S) -> S]
           /\ \A i, j \in 1..Cardinality(S) : i < j => Ascending(S)[i] < Ascending(S)[j]
           /\ \A x \in S : \E k \in 1..Cardinality(S) : Ascending(S)[k] = x
<1> DEFINE n == Cardinality(S)
           rank == [x \in S |-> Rank(S, x)]
<1>1. /\ n \in Nat
      /\ \A x \in S : Rank(S, x) \in 0..(n - 1)
      /\ \A x, y \in S : x < y => Rank(S, x) < Rank(S, y)
  BY RankGrows
<1>2. \A x, y \in S : Rank(S, x) = Rank(S, y) => x = y
  BY <1>1
<1>3. rank \in Injection(S, 0..(n - 1))
  BY <1>1, <1>2 DEF Injection, IsInjective
<1>4. IsFiniteSet(0..(n - 1)) /\ Cardinality(0..(n - 1)) = n
  <2>1. n - 1 \in Int /\ (0 > n - 1 <=> n = 0) /\ (n - 1) - 0 + 1 = n
    BY <1>1
  <2> HIDE DEF n
  <2> QED BY <2>1, FS_Interval
<1>5. rank \in Surjection(S, 0..(n - 1))
  <2> HIDE DEF rank
  <2> QED BY <1>1, <1>3, <1>4, FS_Injection
<1>6. \A k \in 1..n : \E x \in S : Rank(S, x) = k - 1
  <2> HIDE DEF rank
  <2>1. \A j \in 0..(n - 1) : \E x \in S : rank[x] = j
    BY <1>5 DEF Surjection
  <2>2. \A x \in S : rank[x] = Rank(S, x)
    BY DEF rank
  <2>3. \A k \in 1..n : k - 1 \in 0..(n - 1)
    BY <1>1
  <2> QED BY <2>1, <2>2, <2>3
<1>7. ASSUME NEW k \in 1..n PROVE Ascending(S)[k] \in S /\ Rank(S, Ascending(S)[k]) = k - 1
  <2>1. Ascending(S)[k] = CHOOSE x \in S : Rank(S, x) = k - 1
    BY DEF Ascending, Rank
  <2> QED BY <1>6, <2>1
<1>8. Ascending(S) \in [1..n -> S]
  BY <1>7 DEF Ascending
<1>9. ASSUME NEW i \in 1..n, NEW j \in 1..n, i < j PROVE Ascending(S)[i] < Ascending(S)[j]
  <2> DEFINE x == Ascending(S)[i]
             y == Ascending(S)[j]
  <2>1. x \in S /\ y \in S /\ Rank(S, x) < Rank(S, y)
    BY <1>7, <1>9
  <2>2. ~ (y < x) /\ x # y
    <3> HIDE DEF x, y
    <3> QED BY <1>1, <2>1
  <2> HIDE DEF x, y
  <2>3. x < y
    BY <2>1, <2>2
  <2> QED BY <2>3 DEF x, y
<1>10. ASSUME NEW x \in S PROVE \E k \in 1..n : Ascending(S)[k] = x
  <2>1. Rank(S, x) + 1 \in 1..n
    BY <1>1
  <2>2. Rank(S, Ascending(S)[Rank(S, x) + 1]) = Rank(S, x) /\ Ascending(S)[Rank(S, x) + 1] \in S
    BY <1>1, <1>7, <2>1
  <2> QED BY <1>2, <2>1, <2>2
<1> QED BY <1>1, <1>8, <1>9, <1>10
-----------------------------------------------------------------------------
(***************************************************************************)
(* The invariant.                                                          *)
(***************************************************************************)

\* One instruction's facts.
LEMMA FactTyped ==
    ASSUME NEW s \in Shapes, NEW a \in 0..(End - 1)
    PROVE  InstructionFact(s, a) \in Facts
<1>1. s.size \in Nat \ {0} /\ s.target \in Nat \cup {NoTarget}
  BY CfgAssumption
<1>2. \A b \in BOOLEAN : Flag(b) \in {0, 1}
  BY DEF Flag
<1> QED BY <1>1, <1>2 DEF InstructionFact, Facts

\* Another instruction is decoded after the last one.
LEMMA DecodeConsecutive == ASSUME Consecutive(code), Decode PROVE Consecutive(code')
<1>1. PICK s \in Shapes : /\ NextAddress + s.size <= End
                          /\ code' = Append(code, InstructionFact(s, NextAddress))
  BY DEF Decode
<1> DEFINE f == InstructionFact(s, NextAddress)
           n == Len(code)
<1>2. /\ code \in Seq(Facts) /\ n \in Nat /\ DOMAIN code = 1..n
      /\ \A i \in 1..n : code[i] \in Facts
  BY DEF Consecutive
<1>3. s.size \in Nat \ {0} /\ End \in Nat
  BY CfgAssumption
<1>4. /\ \A i \in 1..n : code[i].addr + code[i].size <= NextAddress
      /\ n > 0 => NextAddress = code[n].addr + code[n].size
      /\ NextAddress \in Nat
  <2>1. CASE n = 0
    <3>1. code = <<>>
      BY <1>2, <2>1
    <3> QED BY <1>2, <2>1, <3>1 DEF NextAddress
  <2>2. CASE n > 0
    <3>1. code # <<>>
      BY <2>2
    <3>2. NextAddress = code[n].addr + code[n].size
      BY <3>1 DEF NextAddress
    <3>3. \A i \in 1..n : code[i].addr \in Nat /\ code[i].size \in Nat
      BY <1>2 DEF Facts
    <3>4. \A i \in 1..n : i < n => code[i].addr + code[i].size <= code[n].addr
      BY <1>2, <2>2 DEF Consecutive
    <3>5. n \in 1..n
      BY <1>2, <2>2
    <3>6. ASSUME NEW i \in 1..n PROVE code[i].addr + code[i].size <= NextAddress
      <4>1. CASE i = n
        BY <3>2, <3>3, <4>1
      <4>2. CASE i < n
        <5>1. code[i].addr + code[i].size <= code[n].addr
          BY <3>4, <4>2
        <5>2. code[n].addr \in Nat /\ code[n].size \in Nat /\ code[i].addr \in Nat /\ code[i].size \in Nat
          BY <3>3, <3>5
        <5> QED BY <3>2, <5>1, <5>2
      <4>3. i = n \/ i < n
        <5> HIDE DEF n
        <5> QED BY <1>2
      <4> QED BY <4>1, <4>2, <4>3
    <3> QED BY <3>2, <3>3, <3>5, <3>6
  <2> QED BY <1>2, <2>1, <2>2
<1>5. NextAddress \in 0..(End - 1)
  BY <1>1, <1>3, <1>4
<1>6. f \in Facts /\ f.addr = NextAddress /\ f.size = s.size
  BY <1>5, FactTyped DEF InstructionFact
<1> HIDE DEF f
<1>7. /\ code' \in Seq(Facts) /\ Len(code') = n + 1 /\ DOMAIN code' = 1..(n + 1)
      /\ \A i \in 1..n : code'[i] = code[i]
      /\ code'[n + 1] = f
  BY <1>1, <1>2, <1>6, AppendProperties DEF f
<1> HIDE DEF n
<1>8. \A i \in 1..(n + 1) : i \in 1..n \/ i = n + 1
  BY <1>2
<1>9. \A i, j \in 1..(n + 1) : i < j => code'[i].addr + code'[i].size <= code'[j].addr
  <2> SUFFICES ASSUME NEW i \in 1..(n + 1), NEW j \in 1..(n + 1), i < j
               PROVE  code'[i].addr + code'[i].size <= code'[j].addr
    OBVIOUS
  <2>1. i \in 1..n
    BY <1>2
  <2>2. CASE j \in 1..n
    BY <1>2, <1>7, <2>1, <2>2 DEF Consecutive
  <2>3. CASE j = n + 1
    BY <1>4, <1>6, <1>7, <2>1, <2>3
  <2> QED BY <1>8, <2>2, <2>3
<1>10. \A i \in 1..(n + 1) : i < n + 1 => code'[i + 1].addr = code'[i].addr + code'[i].size
  <2> SUFFICES ASSUME NEW i \in 1..n PROVE code'[i + 1].addr = code'[i].addr + code'[i].size
    BY <1>2
  <2>1. CASE i < n
    <3>1. i + 1 \in 1..n
      BY <1>2, <2>1
    <3> QED BY <1>2, <1>7, <2>1, <3>1 DEF Consecutive, n
  <2>2. CASE i = n
    BY <1>2, <1>4, <1>6, <1>7, <2>2
  <2> QED BY <1>2, <2>1, <2>2
<1>11. \A i \in 1..(n + 1) : code'[i].addr + code'[i].size <= End
  BY <1>1, <1>2, <1>6, <1>7, <1>8 DEF Consecutive
<1> QED BY <1>7, <1>9, <1>10, <1>11 DEF Consecutive

\* The invariant holds throughout.
LEMMA CfgInvariance == Spec => []CfgInv
<1>1. Init => CfgInv
  <2>1. <<>> \in Seq(Facts) /\ DOMAIN <<>> = {}
    BY EmptySeq
  <2> QED BY <2>1 DEF Init, CfgInv, Consecutive
<1>2. CfgInv /\ [Next]_vars => CfgInv'
  <2> SUFFICES ASSUME CfgInv, [Next]_vars PROVE CfgInv'
    OBVIOUS
  <2>1. CASE Decode
    BY <2>1, DecodeConsecutive DEF CfgInv, Decode
  <2>2. CASE Analyze
    BY <2>2 DEF CfgInv, Analyze
  <2>3. CASE UNCHANGED vars
    BY <2>3 DEF CfgInv, vars
  <2> QED BY <2>1, <2>2, <2>3 DEF Next
<1> QED BY <1>1, <1>2, PTL DEF Spec
-----------------------------------------------------------------------------
(***************************************************************************)
(* Blocks.                                                                 *)
(***************************************************************************)

\* What the facts of a function that is not empty say, by their indices.
Listing(c) ==
    /\ Len(c) \in Nat \ {0} /\ DOMAIN c = 1..Len(c)
    /\ \A i \in 1..Len(c) : /\ c[i].addr \in 0..(End - 1) /\ c[i].size \in Nat \ {0}
                            /\ c[i].target \in Nat \cup {NoTarget}
    /\ \A i, j \in 1..Len(c) : i < j => c[i].addr + c[i].size <= c[j].addr
    /\ \A i \in 1..Len(c) : i < Len(c) => c[i + 1].addr = c[i].addr + c[i].size

LEMMA ListingIs == ASSUME NEW c, Consecutive(c), c # <<>> PROVE Listing(c)
<1>1. c \in Seq(Facts) /\ Len(c) \in Nat /\ DOMAIN c = 1..Len(c)
  BY DEF Consecutive
<1>2. Len(c) # 0
  BY <1>1
<1>3. \A i \in 1..Len(c) : c[i] \in Facts
  BY <1>1
<1> QED BY <1>1, <1>2, <1>3 DEF Listing, Consecutive, Facts

\* Addresses grow with the index, so that an address has one index.
LEMMA IndexIs ==
    ASSUME NEW c, Listing(c)
    PROVE  /\ \A i \in 1..Len(c) : c[i].addr \in Addresses(c) /\ Index(c, c[i].addr) = i
           /\ \A a \in Addresses(c) : Index(c, a) \in 1..Len(c) /\ c[Index(c, a)].addr = a
           /\ \A i, j \in 1..Len(c) : c[i].addr < c[j].addr <=> i < j
           /\ Addresses(c) \in SUBSET (0..(End - 1))
<1> USE DEF Listing
<1>0. End \in Nat
  BY CfgAssumption
<1>1. \A i \in 1..Len(c) : c[i].addr \in Nat /\ c[i].size \in Nat \ {0}
  BY <1>0
<1>2. ASSUME NEW i \in 1..Len(c), NEW j \in 1..Len(c), i < j PROVE c[i].addr < c[j].addr
  <2>1. c[i].addr + c[i].size <= c[j].addr
    BY <1>2
  <2>2. c[i].addr \in Nat /\ c[j].addr \in Nat /\ c[i].size \in Nat \ {0}
    BY <1>1
  <2> QED BY <2>1, <2>2
<1>3. \A i, j \in 1..Len(c) : i < j \/ i = j \/ j < i
  OBVIOUS
<1>4. ASSUME NEW i \in 1..Len(c), NEW j \in 1..Len(c) PROVE c[i].addr < c[j].addr <=> i < j
  <2>1. c[i].addr \in Nat /\ c[j].addr \in Nat
    BY <1>1
  <2>2. j < i => c[j].addr < c[i].addr
    BY <1>2
  <2> QED BY <1>2, <1>3, <2>1, <2>2
<1>5. \A i, j \in 1..Len(c) : c[i].addr = c[j].addr => i = j
  BY <1>1, <1>2, <1>3
<1>6. \A a \in Addresses(c) : \E i \in 1..Len(c) : c[i].addr = a
  BY DEF Addresses
<1>7. \A a \in Addresses(c) : Index(c, a) \in 1..Len(c) /\ c[Index(c, a)].addr = a
  BY <1>6 DEF Index
<1>8. \A i \in 1..Len(c) : c[i].addr \in Addresses(c)
  BY DEF Addresses
<1>9. \A i \in 1..Len(c) : Index(c, c[i].addr) = i
  BY <1>5, <1>7, <1>8
<1>10. Addresses(c) \in SUBSET (0..(End - 1))
  BY DEF Addresses
<1> QED BY <1>4, <1>7, <1>8, <1>9, <1>10

\* A jump within the function makes leaders of its target and of what follows it.
LEMMA StartsAre ==
    ASSUME NEW c, Listing(c)
    PROVE  /\ c[1].addr \in Starts(c)
           /\ Starts(c) \in SUBSET (0..(End - 1))
           /\ \A i \in 1..Len(c) : InFunction(c[i].target) => c[i].target \in Starts(c)
           /\ \A i \in 1..Len(c) : InFunction(c[i].target) /\ i < Len(c) => c[i + 1].addr \in Starts(c)
           /\ ~Misaligned(c) => Starts(c) \in SUBSET Addresses(c)
<1> USE DEF Listing
<1>1. c[1].addr \in Starts(c)
  BY DEF Starts
<1>2. \A i \in 1..Len(c) : InFunction(c[i].target) => c[i].target \in Starts(c)
  BY DEF Starts
<1>3. ASSUME NEW i \in 1..Len(c), InFunction(c[i].target), i < Len(c)
      PROVE  c[i + 1].addr \in Starts(c)
  <2> DEFINE jumps == {j \in DOMAIN c : InFunction(c[j].target)}
  <2>1. i \in jumps \ {Len(c)}
    BY <1>3
  <2>2. c[i + 1].addr \in {c[j + 1].addr : j \in jumps \ {Len(c)}}
    BY <2>1
  <2> QED BY <2>2 DEF Starts
<1>4. ASSUME NEW a \in Starts(c)
      PROVE  \/ a \in Addresses(c)
             \/ \E i \in 1..Len(c) : InFunction(c[i].target) /\ a = c[i].target
  <2>1. CASE a = c[1].addr
    <3>1. 1 \in 1..Len(c)
      OBVIOUS
    <3> QED BY <2>1, <3>1, IndexIs
  <2>2. ASSUME NEW i \in DOMAIN c, InFunction(c[i].target), a = c[i].target
        PROVE  \E j \in 1..Len(c) : InFunction(c[j].target) /\ a = c[j].target
    BY <2>2
  <2>3. ASSUME NEW i \in DOMAIN c, i # Len(c), a = c[i + 1].addr PROVE a \in Addresses(c)
    <3>1. i + 1 \in 1..Len(c)
      BY <2>3
    <3> QED BY <2>3, <3>1, IndexIs
  <2> QED BY <2>1, <2>2, <2>3 DEF Starts
<1>5. Starts(c) \in SUBSET (0..(End - 1))
  <2>1. Addresses(c) \in SUBSET (0..(End - 1))
    BY IndexIs
  <2> QED BY <1>4, <2>1 DEF InFunction
<1>6. ~Misaligned(c) => Starts(c) \in SUBSET Addresses(c)
  BY <1>4 DEF Misaligned
<1> QED BY <1>1, <1>2, <1>3, <1>5, <1>6

\* A non-empty set of naturals has a least member.
LEMMA LeastExists ==
    ASSUME NEW T \in SUBSET Nat, T # {}
    PROVE  \E i \in T : \A j \in T : i <= j
<1> DEFINE R == OpToRel(<, Nat)
<1>1. IsWellFoundedOn(R, Nat)
  BY NatLessThanWellFounded
<1>2. \A x, y \in Nat : <<y, x>> \in R <=> y < x
  BY DEF OpToRel
<1> HIDE DEF R
<1>3. PICK x \in T : \A y \in T : ~ (<<y, x>> \in R)
  BY <1>1, WFMin
<1>4. \A y \in T : x \in Nat /\ y \in Nat /\ ~ (y < x)
  BY <1>2, <1>3
<1>5. \A y \in T : x <= y
  BY <1>4
<1> QED BY <1>5

\* The next leader is the least one above a, or the end of the function.
LEMMA NextStartIs ==
    ASSUME NEW c, Listing(c), NEW a \in Starts(c)
    PROVE  /\ NextStart(c, a) \in Starts(c) \cup {End} /\ NextStart(c, a) > a
           /\ \A d \in Starts(c) : d > a => NextStart(c, a) <= d
<1> DEFINE above == {d \in Starts(c) : d > a}
<1>1. /\ End \in Nat /\ a \in 0..(End - 1)
      /\ \A d \in Starts(c) : d \in 0..(End - 1)
  BY StartsAre, CfgAssumption
<1>2. \E b \in Starts(c) \cup {End} : b > a /\ \A d \in Starts(c) : d > a => b <= d
  <2>1. CASE above = {}
    BY <1>1, <2>1
  <2>2. CASE above # {}
    <3>1. \A d \in above : d \in Nat
      BY <1>1
    <3>2. PICK b \in above : \A d \in above : b <= d
      <4> HIDE DEF above
      <4> QED BY <2>2, <3>1, LeastExists
    <3> QED BY <3>2
  <2> QED BY <2>1, <2>2
<1> QED BY <1>2 DEF NextStart

\* A block begins at its leader and ends before the next one, or with the last
\* instruction; it is empty where its leader is no instruction's address.
LEMMA BlockIs ==
    ASSUME NEW c, Listing(c), NEW a \in Starts(c)
    PROVE  /\ Block(c, a).start = a
           /\ Block(c, a).first <= Block(c, a).last <=> a \in Addresses(c)
           /\ a \in Addresses(c) => /\ Block(c, a).first = Index(c, a)
                                    /\ Block(c, a).last \in Index(c, a)..Len(c)
           /\ NextStart(c, a) \in Addresses(c) => Block(c, a).last = Index(c, NextStart(c, a)) - 1
           /\ NextStart(c, a) \notin Addresses(c) => Block(c, a).last = Len(c)
<1> DEFINE b == NextStart(c, a)
           l == LastBefore(c, b)
<1>1. Len(c) \in Nat \ {0}
  BY DEF Listing
<1>2. /\ Block(c, a).start = a /\ Block(c, a).last = l
      /\ Block(c, a).first = IF a \in Addresses(c) THEN Index(c, a) ELSE Len(c) + 1
  BY DEF Block
<1>3. /\ b \in Addresses(c) => l = Index(c, b) - 1 /\ Index(c, b) \in 1..Len(c)
      /\ b \notin Addresses(c) => l = Len(c)
  BY IndexIs DEF LastBefore
<1>4. b > a
  BY NextStartIs
<1> HIDE DEF b, l
<1>5. a \in Addresses(c) /\ b \in Addresses(c) => Index(c, a) < Index(c, b)
  BY <1>4, IndexIs
<1>6. a \in Addresses(c) => Index(c, a) \in 1..Len(c)
  BY IndexIs
<1>7. a \in Addresses(c) => l \in Index(c, a)..Len(c)
  BY <1>1, <1>3, <1>5, <1>6
<1>8. a \notin Addresses(c) => l < Len(c) + 1 /\ ~ (Len(c) + 1 <= l)
  BY <1>1, <1>3
<1>9. a \in Addresses(c) => Index(c, a) <= l
  BY <1>1, <1>6, <1>7
<1> QED BY <1>2, <1>3, <1>7, <1>8, <1>9 DEF b

\* A function on the first n numbers is a sequence.
LEMMA FunctionIsSeq ==
    ASSUME NEW T, NEW n \in Nat, NEW f \in [1..n -> T]
    PROVE  f \in Seq(T) /\ Len(f) = n
<1>1. f \in Seq(T)
  OBVIOUS
<1>2. Len(f) \in Nat /\ DOMAIN f = 1..Len(f)
  BY <1>1, LenProperties
<1>3. n = Len(f)
  BY <1>2
<1> QED BY <1>1, <1>3

\* The leaders that are addresses of instructions.
Leaders(c) == Starts(c) \cap Addresses(c)

\* The blocks are those of the leaders, in the order of the addresses.
LEMMA BlocksAre ==
    ASSUME NEW c, Listing(c)
    PROVE  /\ Len(Blocks(c)) \in Nat \ {0} /\ DOMAIN Blocks(c) = 1..Len(Blocks(c))
           /\ \A k \in 1..Len(Blocks(c)) : /\ Blocks(c)[k].start \in Leaders(c)
                                           /\ Blocks(c)[k] = Block(c, Blocks(c)[k].start)
           /\ \A j, k \in 1..Len(Blocks(c)) : j < k => Blocks(c)[j].start < Blocks(c)[k].start
           /\ \A a \in Leaders(c) : \E k \in 1..Len(Blocks(c)) : Blocks(c)[k].start = a
<1> DEFINE S == {a \in Starts(c) : Block(c, a).first <= Block(c, a).last}
           n == Cardinality(Leaders(c))
           st == Ascending(Leaders(c))
<1>1. S = Leaders(c)
  BY BlockIs DEF Leaders
<1>2. Leaders(c) \subseteq Int /\ IsFiniteSet(Leaders(c)) /\ Leaders(c) # {}
  <2>1. Leaders(c) \in SUBSET (0..(End - 1)) /\ End \in Nat
    BY StartsAre, CfgAssumption DEF Leaders
  <2>2. IsFiniteSet(0..(End - 1))
    BY <2>1, FS_Interval
  <2>3. c[1].addr \in Leaders(c)
    <3>1. 1 \in 1..Len(c)
      BY DEF Listing
    <3> QED BY <3>1, StartsAre, IndexIs DEF Leaders
  <2> QED BY <2>1, <2>2, <2>3, FS_Subset
<1>3. /\ n \in Nat /\ st \in [1..n -> Leaders(c)]
      /\ \A i, j \in 1..n : i < j => st[i] < st[j]
      /\ \A x \in Leaders(c) : \E k \in 1..n : st[k] = x
  BY <1>2, AscendingSorts
<1>4. n # 0
  BY <1>2, FS_EmptySet
<1>5. Blocks(c) = [k \in DOMAIN st |-> Block(c, st[k])]
  BY <1>1 DEF Blocks
<1> HIDE DEF n, st
<1>6. DOMAIN st = 1..n
  BY <1>3
<1>7. Len(Blocks(c)) = n /\ DOMAIN Blocks(c) = 1..n
  <2> DEFINE T == {Block(c, st[k]) : k \in 1..n}
  <2>1. Blocks(c) \in [1..n -> T]
    BY <1>5, <1>6
  <2> HIDE DEF T
  <2> QED BY <1>3, <2>1, FunctionIsSeq
<1>8. \A k \in 1..n : Blocks(c)[k] = Block(c, st[k]) /\ Block(c, st[k]).start = st[k]
                        /\ st[k] \in Leaders(c)
  BY <1>3, <1>5, <1>6, BlockIs DEF Leaders
<1> QED BY <1>3, <1>4, <1>7, <1>8

\* Where a block lies, whatever the jumps hit.
LEMMA BlockLies ==
    ASSUME NEW c, Listing(c), NEW k \in 1..Len(Blocks(c))
    PROVE  /\ Blocks(c)[k].start \in Leaders(c)
           /\ Blocks(c)[k].first \in 1..Len(c)
           /\ Blocks(c)[k].first = Index(c, Blocks(c)[k].start)
           /\ c[Blocks(c)[k].first].addr = Blocks(c)[k].start
           /\ Blocks(c)[k].last \in Blocks(c)[k].first..Len(c)
<1> DEFINE a == Blocks(c)[k].start
<1>1. a \in Starts(c) /\ a \in Addresses(c) /\ Blocks(c)[k] = Block(c, a)
  BY BlocksAre DEF Leaders
<1> HIDE DEF a
<1>2. Block(c, a).first = Index(c, a) /\ Block(c, a).last \in Index(c, a)..Len(c)
  BY <1>1, BlockIs
<1>3. Index(c, a) \in 1..Len(c) /\ c[Index(c, a)].addr = a
  BY <1>1, IndexIs
<1> QED BY <1>1, <1>2, <1>3 DEF a, Leaders

\* Where no jump lands inside an instruction, a leader is a block's first
\* instruction, each block ends where the next begins, the last with the code.
LEMMA AlignedBlocks ==
    ASSUME NEW c, Listing(c), ~Misaligned(c)
    PROVE  /\ Blocks(c)[1].first = 1 /\ Blocks(c)[Len(Blocks(c))].last = Len(c)
           /\ \A k \in 1..(Len(Blocks(c)) - 1) : Blocks(c)[k + 1].first = Blocks(c)[k].last + 1
           /\ \A k \in 1..Len(Blocks(c)), i \in 1..Len(c) :
                Blocks(c)[k].first < i /\ i <= Blocks(c)[k].last => c[i].addr \notin Starts(c)
<1> DEFINE B == Blocks(c)
           n == Len(B)
<1>1. /\ n \in Nat \ {0} /\ Len(c) \in Nat \ {0} /\ End \in Nat
      /\ \A k \in 1..n : B[k].start \in Starts(c) /\ B[k] = Block(c, B[k].start)
      /\ \A j, k \in 1..n : j < k => B[j].start < B[k].start
      /\ \A a \in Starts(c) : \E k \in 1..n : B[k].start = a
  <2>1. Leaders(c) = Starts(c)
    BY StartsAre DEF Leaders
  <2>2. \A k \in 1..n : B[k].start \in Leaders(c) /\ B[k] = Block(c, B[k].start)
    BY BlocksAre
  <2>3. /\ \A j, k \in 1..n : j < k => B[j].start < B[k].start
        /\ \A a \in Leaders(c) : \E k \in 1..n : B[k].start = a
    BY BlocksAre
  <2>4. n \in Nat \ {0} /\ Len(c) \in Nat \ {0} /\ End \in Nat
    BY BlocksAre, CfgAssumption DEF Listing
  <2> QED BY <2>1, <2>2, <2>3, <2>4
<1>2. /\ Starts(c) \in SUBSET Addresses(c)
      /\ \A a \in Addresses(c) : a \in Nat /\ a < End
  BY <1>1, StartsAre, IndexIs
<1>3. \A k \in 1..n : /\ B[k].first \in 1..Len(c) /\ B[k].first = Index(c, B[k].start)
                      /\ c[B[k].first].addr = B[k].start
                      /\ B[k].last \in B[k].first..Len(c)
  BY BlockLies
<1> HIDE DEF B, n
<1>4. ASSUME NEW k \in 1..n, NEW i \in 1..Len(c), B[k].first < i, i <= B[k].last
      PROVE  c[i].addr \notin Starts(c)
  <2> DEFINE b == NextStart(c, B[k].start)
  <2>1. B[k].start < c[i].addr
    BY <1>3, <1>4, IndexIs
  <2>2. c[i].addr < b
    <3>1. b \in Starts(c) \cup {End}
      BY <1>1, NextStartIs
    <3>2. CASE b = End
      BY <1>2, <3>2, IndexIs
    <3>3. CASE b \in Starts(c)
      <4>1. b \in Addresses(c)
        BY <1>2, <3>3
      <4>2. B[k].last = Index(c, b) - 1 /\ Index(c, b) \in 1..Len(c) /\ c[Index(c, b)].addr = b
        BY <1>1, <4>1, BlockIs, IndexIs
      <4> HIDE DEF b
      <4>3. i < Index(c, b)
        BY <1>3, <1>4, <4>2
      <4>4. c[i].addr < c[Index(c, b)].addr
        BY <4>2, <4>3, IndexIs
      <4> QED BY <4>2, <4>4
    <3> QED BY <3>1, <3>2, <3>3
  <2>3. c[i].addr \in Starts(c) /\ c[i].addr > B[k].start => b <= c[i].addr
    BY <1>1, NextStartIs
  <2>4. c[i].addr \in Nat /\ b \in Nat /\ B[k].start \in Nat
    <3>1. b \in Starts(c) \cup {End} /\ c[i].addr \in Addresses(c)
      BY <1>1, NextStartIs, IndexIs
    <3> QED BY <1>1, <1>2, <3>1
  <2> HIDE DEF b
  <2> QED BY <2>1, <2>2, <2>3, <2>4
<1>5. ASSUME NEW k \in 1..(n - 1) PROVE B[k + 1].first = B[k].last + 1
  <2> DEFINE b == NextStart(c, B[k].start)
  <2>1. k \in 1..n /\ k + 1 \in 1..n /\ k < k + 1
    BY <1>1
  <2>2. B[k].start < B[k + 1].start /\ B[k].start \in Nat /\ B[k + 1].start \in Nat
    BY <1>1, <1>2, <2>1
  <2>3. b \in Starts(c) \cup {End} /\ b <= B[k + 1].start /\ b > B[k].start
    BY <1>1, <2>1, <2>2, NextStartIs
  <2>4. b \in Starts(c)
    <3> HIDE DEF b
    <3> QED BY <1>1, <1>2, <2>1, <2>3
  <2> HIDE DEF b
  <2>5. b = B[k + 1].start
    <3>1. PICK j \in 1..n : B[j].start = b
      BY <1>1, <2>4
    <3>2. b \in Nat
      BY <1>2, <2>4
    <3>3. ~ (j > k + 1)
      <4>1. j > k + 1 => B[k + 1].start < b
        BY <1>1, <2>1, <3>1
      <4> QED BY <2>2, <2>3, <3>2, <4>1
    <3>4. ~ (j <= k)
      <4>1. j < k => b < B[k].start
        BY <1>1, <2>1, <3>1
      <4>2. j # k
        BY <2>2, <2>3, <3>1, <3>2
      <4> QED BY <1>1, <2>1, <2>2, <2>3, <3>2, <4>1, <4>2
    <3>5. j = k + 1
      BY <1>1, <3>3, <3>4
    <3> QED BY <3>1, <3>5
  <2>6. b \in Addresses(c) /\ B[k].last = Index(c, b) - 1
    BY <1>1, <1>2, <2>1, <2>4, BlockIs DEF b
  <2>7. B[k + 1].first = Index(c, b) /\ Index(c, b) \in 1..Len(c)
    BY <1>3, <2>1, <2>5
  <2> QED BY <2>6, <2>7
<1>6. B[1].first = 1
  <2>1. 1 \in 1..n /\ 1 \in 1..Len(c) /\ B[1].first \in 1..Len(c)
    BY <1>1, <1>3
  <2>2. PICK j \in 1..n : B[j].start = c[1].addr
    BY <1>1, StartsAre
  <2>3. B[1].start \in Nat /\ c[1].addr \in Nat /\ ~ (B[1].start > c[1].addr)
    <3>1. 1 < j => B[1].start < B[j].start
      BY <1>1, <2>1
    <3>2. j = 1 \/ 1 < j
      BY <1>1
    <3>3. B[1].start \in Nat /\ c[1].addr \in Nat
      BY <1>1, <1>2, <2>1, IndexIs
    <3> QED BY <2>2, <3>1, <3>2, <3>3
  <2>4. ~ (1 < B[1].first)
    <3>1. 1 < B[1].first => c[1].addr < c[B[1].first].addr
      BY <2>1, IndexIs
    <3> QED BY <1>3, <2>1, <2>3, <3>1
  <2> QED BY <1>1, <2>1, <2>4
<1>7. B[n].last = Len(c)
  <2> DEFINE b == NextStart(c, B[n].start)
  <2>1. n \in 1..n
    BY <1>1
  <2>2. b \in Starts(c) \cup {End} /\ b > B[n].start /\ B[n].start \in Nat
    BY <1>1, <1>2, <2>1, NextStartIs
  <2>3. b \notin Addresses(c)
    <3> HIDE DEF b
    <3>1. CASE b = End
      BY <1>1, <1>2, <3>1
    <3>2. CASE b \in Starts(c)
      <4>1. PICK j \in 1..n : B[j].start = b
        BY <1>1, <3>2
      <4>2. j < n => b < B[n].start
        BY <1>1, <2>1, <4>1
      <4>3. j = n \/ j < n
        BY <1>1
      <4>4. b \in Nat
        BY <1>2, <3>2
      <4> QED BY <2>2, <4>1, <4>2, <4>3, <4>4
    <3> QED BY <2>2, <3>1, <3>2
  <2> QED BY <1>1, <2>1, <2>3, BlockIs
<1> QED BY <1>4, <1>5, <1>6, <1>7 DEF B, n

\* The last leader at or before an instruction that is an instruction's address.
LeaderOf(c, i) ==
    CHOOSE a \in Leaders(c) : /\ a <= c[i].addr
                              /\ \A b \in Leaders(c) : b <= c[i].addr => b <= a

LEMMA LeaderIs ==
    ASSUME NEW c, Listing(c), NEW i \in 1..Len(c)
    PROVE  /\ LeaderOf(c, i) \in Leaders(c) /\ LeaderOf(c, i) <= c[i].addr
           /\ \A b \in Leaders(c) : b <= c[i].addr => b <= LeaderOf(c, i)
<1> DEFINE upto == {a \in Leaders(c) : a <= c[i].addr}
           gaps == {c[i].addr - a : a \in upto}
<1>1. /\ \A a \in Leaders(c) : a \in Nat
      /\ c[i].addr \in Nat
  <2>1. Starts(c) \in SUBSET (0..(End - 1)) /\ c[i].addr \in 0..(End - 1)
    BY StartsAre DEF Listing
  <2> QED BY <2>1 DEF Leaders
<1>2. c[1].addr \in upto
  <2>1. 1 \in 1..Len(c) /\ (1 < i \/ 1 = i)
    BY DEF Listing
  <2>2. c[1].addr \in Leaders(c)
    BY <2>1, StartsAre, IndexIs DEF Leaders
  <2>3. 1 < i => c[1].addr < c[i].addr
    BY <2>1, IndexIs
  <2> QED BY <1>1, <2>1, <2>2, <2>3
<1>3. gaps \in SUBSET Nat /\ gaps # {}
  <2>1. ASSUME NEW a \in upto PROVE c[i].addr - a \in Nat
    <3>1. a \in Leaders(c) /\ a <= c[i].addr
      OBVIOUS
    <3> QED BY <1>1, <3>1
  <2>2. c[i].addr - c[1].addr \in gaps
    BY <1>2
  <2> QED BY <2>1, <2>2
<1>4. PICK g \in gaps : \A h \in gaps : g <= h
  <2> HIDE DEF gaps
  <2> QED BY <1>3, LeastExists
<1>5. PICK a \in upto : g = c[i].addr - a
  BY <1>4
<1>6. ASSUME NEW b \in Leaders(c), b <= c[i].addr PROVE b <= a
  <2>1. c[i].addr - b \in gaps
    BY <1>6
  <2>2. c[i].addr - a <= c[i].addr - b
    BY <1>4, <1>5, <2>1
  <2> QED BY <1>1, <1>5, <2>2
<1>7. a \in Leaders(c) /\ a <= c[i].addr
  BY <1>5
<1> HIDE DEF upto, gaps
<1> QED BY <1>6, <1>7 DEF LeaderOf

\* A jump within the function is the last of its block when it is the last
\* instruction, or no leader, of an instruction or not, lies between the
\* block's and the next instruction.
LEMMA JumpsAreLast ==
    ASSUME NEW c, Listing(c), NEW i \in 1..Len(c), InFunction(c[i].target)
    PROVE  (\E k \in 1..Len(Blocks(c)) : Blocks(c)[k].last = i)
             <=> \/ i = Len(c)
                 \/ \A a \in Starts(c) : ~ (LeaderOf(c, i) < a /\ a < c[i].addr + c[i].size)
<1> DEFINE l == LeaderOf(c, i)
           b == NextStart(c, l)
           next == c[i].addr + c[i].size
<1>1. /\ l \in Starts(c) /\ l \in Addresses(c) /\ l <= c[i].addr
      /\ \A d \in Leaders(c) : d <= c[i].addr => d <= l
  BY LeaderIs DEF Leaders
<1>2. /\ \A a \in Starts(c) : a \in Nat /\ a < End
      /\ End \in Nat /\ End \notin Addresses(c) /\ End \notin Starts(c)
      /\ Len(c) \in Nat \ {0}
      /\ c[i].addr \in Nat /\ c[i].addr \in Addresses(c)
      /\ next \in Nat /\ c[i].addr < next
  <2>1. End \in Nat /\ Len(c) \in Nat \ {0}
    BY CfgAssumption DEF Listing
  <2>2. Starts(c) \in SUBSET (0..(End - 1)) /\ Addresses(c) \in SUBSET (0..(End - 1))
    BY StartsAre, IndexIs
  <2>3. c[i].addr \in 0..(End - 1) /\ c[i].size \in Nat \ {0} /\ c[i].addr \in Addresses(c)
    BY IndexIs DEF Listing
  <2>4. next \in Nat /\ c[i].addr < next /\ c[i].addr \in Nat
    BY <2>3
  <2>5. /\ \A a \in Starts(c) : a \in Nat /\ a < End
        /\ End \notin Addresses(c) /\ End \notin Starts(c)
    BY <2>1, <2>2
  <2> HIDE DEF next
  <2> QED BY <2>1, <2>3, <2>4, <2>5
<1>3. /\ b \in Starts(c) \cup {End} /\ b > l
      /\ \A d \in Starts(c) : d > l => b <= d
  BY <1>1, NextStartIs
<1>4. b \in Addresses(c) => b \in Leaders(c)
  BY <1>2, <1>3 DEF Leaders
<1>5. PICK k \in 1..Len(Blocks(c)) : Blocks(c)[k].start = l
  BY LeaderIs, BlocksAre
<1>6. /\ b \in Addresses(c) => Blocks(c)[k].last = Index(c, b) - 1 /\ Index(c, b) \in 1..Len(c)
      /\ b \notin Addresses(c) => Blocks(c)[k].last = Len(c)
  BY <1>1, <1>5, BlocksAre, BlockIs, IndexIs
<1> HIDE DEF l, b
<1>7. ASSUME i = Len(c) PROVE Blocks(c)[k].last = i
  <2>1. b \notin Addresses(c)
    <3> SUFFICES ASSUME b \in Addresses(c) PROVE FALSE
      OBVIOUS
    <3>1. c[Index(c, b)].addr = b /\ Index(c, b) \in 1..Len(c)
      BY IndexIs
    <3>2. ~ (i < Index(c, b))
      BY <1>2, <1>7, <3>1
    <3>3. ~ (c[i].addr < b)
      BY <3>1, <3>2, IndexIs
    <3>4. b \in Nat /\ l \in Nat
      BY <1>1, <1>2, <1>4 DEF Leaders
    <3> QED BY <1>1, <1>2, <1>3, <1>4, <3>3, <3>4
  <2> QED BY <1>6, <1>7, <2>1
<1>8. ASSUME i < Len(c), \A a \in Starts(c) : ~ (l < a /\ a < next)
      PROVE  Blocks(c)[k].last = i
  <2>1. i + 1 \in 1..Len(c) /\ c[i + 1].addr = next
    BY <1>2, <1>8 DEF Listing
  <2>2. next \in Starts(c) /\ next \in Addresses(c) /\ Index(c, next) = i + 1
    BY <1>8, <2>1, StartsAre, IndexIs
  <2> HIDE DEF next
  <2>3. b = next
    <3>1. b <= next /\ l \in Nat
      <4>1. l \in Nat
        BY <1>1, <1>2
      <4>2. next > l
        BY <1>1, <1>2, <4>1
      <4> QED BY <1>3, <2>2, <4>1, <4>2
    <3>2. b \in Starts(c)
      BY <1>2, <1>3, <2>2, <3>1
    <3> QED BY <1>2, <1>3, <1>8, <3>1, <3>2
  <2> QED BY <1>2, <1>6, <2>2, <2>3
<1>9. ASSUME NEW m \in 1..Len(Blocks(c)), Blocks(c)[m].last = i, i # Len(c), NEW a \in Starts(c),
             l < a, a < next
      PROVE  FALSE
  <2> DEFINE s == Blocks(c)[m].start
             t == NextStart(c, s)
  <2>1. s \in Leaders(c) /\ s \in Starts(c) /\ Blocks(c)[m] = Block(c, s)
    BY BlocksAre DEF Leaders
  <2>2. Blocks(c)[m].first \in 1..Len(c) /\ c[Blocks(c)[m].first].addr = s /\ Blocks(c)[m].first <= i
    BY <1>9, BlockLies
  <2>3. t > s /\ \A d \in Starts(c) : d > s => t <= d
    BY <2>1, NextStartIs
  <2>4. t \in Addresses(c) /\ Index(c, t) - 1 = i
    BY <1>9, <2>1, BlockIs
  <2>5. s <= c[i].addr /\ s \in Nat
    <3>1. Blocks(c)[m].first < i => c[Blocks(c)[m].first].addr < c[i].addr
      BY <2>2, IndexIs
    <3>2. s \in Nat
      BY <1>2, <2>1
    <3> QED BY <1>2, <2>2, <3>1, <3>2
  <2> HIDE DEF s, t
  <2>6. Index(c, t) = i + 1 /\ c[Index(c, t)].addr = t /\ i < Len(c)
    BY <1>2, <2>4, IndexIs
  <2>7. t = next
    BY <2>6 DEF Listing
  <2>8. s <= l
    BY <1>1, <2>1, <2>5
  <2> HIDE DEF next
  <2> QED BY <1>1, <1>2, <1>9, <2>3, <2>5, <2>7, <2>8
<1> HIDE DEF next
<1>10. i = Len(c) \/ i < Len(c)
  BY <1>2
<1> QED BY <1>7, <1>8, <1>9, <1>10 DEF l, next

\* Later blocks end later.
LEMMA LastsGrow ==
    ASSUME NEW c, Listing(c), ~Misaligned(c),
           NEW j \in 1..Len(Blocks(c)), NEW k \in 1..Len(Blocks(c)), j < k
    PROVE  Blocks(c)[j].last < Blocks(c)[k].last
<1> DEFINE B == Blocks(c)
           n == Len(B)
<1>1. n \in Nat \ {0} /\ j \in 1..(n - 1) /\ j + 1 \in 1..n /\ j \in 1..n /\ k \in 1..n
  BY BlocksAre
<1>2. B[j + 1].first = B[j].last + 1
  BY <1>1, AlignedBlocks
<1>3. B[j + 1].first <= B[k].first
  <2>1. j + 1 = k \/ j + 1 < k
    OBVIOUS
  <2>2. j + 1 < k => B[j + 1].start < B[k].start
    BY <1>1, BlocksAre
  <2>3. /\ B[j + 1].first \in 1..Len(c) /\ B[k].first \in 1..Len(c)
        /\ c[B[j + 1].first].addr = B[j + 1].start /\ c[B[k].first].addr = B[k].start
    BY <1>1, BlockLies
  <2>4. B[j + 1].start < B[k].start => B[j + 1].first < B[k].first
    BY <2>3, IndexIs
  <2> QED BY <2>1, <2>2, <2>3, <2>4
<1>4. /\ B[j].first \in 1..Len(c) /\ B[j].last \in B[j].first..Len(c)
      /\ B[k].first \in 1..Len(c) /\ B[k].last \in B[k].first..Len(c)
  BY BlockLies
<1> HIDE DEF B, n
<1>5. B[j].last \in Nat /\ B[k].last \in Nat /\ B[k].first \in Nat /\ B[k].first <= B[k].last
  BY <1>4
<1>6. B[j].last + 1 <= B[k].first
  BY <1>2, <1>3
<1>7. B[j].last < B[k].last
  BY <1>5, <1>6
<1> QED BY <1>7 DEF B

\* The backward jumps within the function, and the edges of loops.
Back(c) == {i \in DOMAIN c : InFunction(c[i].target) /\ c[i].target <= c[i].addr}
LoopEdges(c) == {e \in Jumps(c, Blocks(c)) : Blocks(c)[e.to].start <= Blocks(c)[e.from].start}

\* An edge of a loop is a backward jump at the end of its block.
LEMMA LoopEdgeIs ==
    ASSUME NEW c, Listing(c), NEW e \in LoopEdges(c)
    PROVE  /\ e.from \in 1..Len(Blocks(c)) /\ e.to \in 1..Len(Blocks(c))
           /\ Blocks(c)[e.from].last \in Back(c)
           /\ c[Blocks(c)[e.from].last].target = Blocks(c)[e.to].start
           /\ e.at = c[Blocks(c)[e.from].last].addr
<1> DEFINE B == Blocks(c)
           l == B[e.from].last
<1>1. PICK p \in (DOMAIN B) \X (DOMAIN B) :
         /\ e = [from |-> p[1], to |-> p[2], type |-> "jump", at |-> c[B[p[1]].last].addr]
         /\ c[B[p[1]].last].target = B[p[2]].start
  <2> HIDE DEF B
  <2> QED BY DEF LoopEdges, Jumps, B
<1>2. e.from \in 1..Len(B) /\ e.to \in 1..Len(B)
  BY <1>1, BlocksAre
<1>3. /\ c[l].target = B[e.to].start /\ e.at = c[l].addr
      /\ B[e.to].start <= B[e.from].start
  BY <1>1 DEF LoopEdges
<1>4. /\ B[e.from].first \in 1..Len(c) /\ l \in B[e.from].first..Len(c)
      /\ c[B[e.from].first].addr = B[e.from].start /\ B[e.to].start \in Leaders(c)
  BY <1>2, BlockLies
<1> HIDE DEF l, B
<1>5. l \in 1..Len(c) /\ (B[e.from].first = l \/ B[e.from].first < l)
  BY <1>4
<1>6. B[e.from].start <= c[l].addr /\ B[e.from].start \in Nat /\ c[l].addr \in Nat
  <2>1. B[e.from].first < l => c[B[e.from].first].addr < c[l].addr
    BY <1>4, <1>5, IndexIs
  <2>2. c[B[e.from].first].addr \in Nat /\ c[l].addr \in Nat
    BY <1>4, <1>5 DEF Listing
  <2> QED BY <1>4, <1>5, <2>1, <2>2
<1>7. B[e.to].start \in 0..(End - 1)
  BY <1>4, StartsAre DEF Leaders
<1>8. B[e.to].start <= c[l].addr
  BY <1>3, <1>6, <1>7
<1>9. InFunction(c[l].target)
  BY <1>3, <1>7, CfgAssumption DEF InFunction
<1>10. l \in Back(c)
  BY <1>3, <1>5, <1>8, <1>9 DEF Back, Listing
<1> QED BY <1>2, <1>3, <1>10 DEF l, B

\* Where no jump lands inside an instruction, each backward jump has its edge.
LEMMA BackIsLoop ==
    ASSUME NEW c, Listing(c), ~Misaligned(c), NEW i \in Back(c)
    PROVE  \E e \in LoopEdges(c) : Blocks(c)[e.from].last = i
<1> DEFINE B == Blocks(c)
<1>1. i \in 1..Len(c) /\ InFunction(c[i].target) /\ c[i].target <= c[i].addr
  BY DEF Back, Listing
<1>2. PICK k \in 1..Len(B) : B[k].last = i
  <2>1. ASSUME NEW a \in Starts(c), LeaderOf(c, i) < a, a < c[i].addr + c[i].size PROVE FALSE
    <3>1. a \in Leaders(c) /\ a \in Addresses(c)
      BY StartsAre DEF Leaders
    <3>2. PICK j \in 1..Len(c) : c[j].addr = a
      BY <3>1 DEF Addresses, Listing
    <3>3. /\ c[i].addr \in Nat /\ c[i].size \in Nat /\ a \in Nat
          /\ i < j => c[i].addr + c[i].size <= a
      BY <1>1, <3>2 DEF Listing
    <3>4. ~ (i < j)
      BY <2>1, <3>3
    <3>5. a <= c[i].addr
      <4>1. j < i => a < c[i].addr
        BY <1>1, <3>2, IndexIs
      <4>2. j < i \/ j = i
        BY <1>1, <3>4
      <4> QED BY <3>2, <3>3, <4>1, <4>2
    <3>6. a <= LeaderOf(c, i) /\ LeaderOf(c, i) \in Nat
      <4>1. LeaderOf(c, i) \in Starts(c)
        BY <1>1, LeaderIs DEF Leaders
      <4>2. LeaderOf(c, i) \in 0..(End - 1)
        BY <4>1, StartsAre
      <4> QED BY <1>1, <3>1, <3>5, <4>2, LeaderIs
    <3> QED BY <2>1, <3>3, <3>6
  <2> QED BY <1>1, <2>1, JumpsAreLast
<1>3. PICK m \in 1..Len(B) : B[m].start = c[i].target
  <2>1. c[i].target \in Leaders(c)
    BY <1>1, StartsAre DEF Leaders
  <2> QED BY <2>1, BlocksAre
<1>4. /\ B[k].first \in 1..Len(c) /\ B[m].first \in 1..Len(c)
      /\ c[B[k].first].addr = B[k].start /\ c[B[m].first].addr = B[m].start
      /\ B[m].start \in Starts(c)
  BY BlockLies DEF Leaders
<1>5. \A x \in 1..Len(c) : B[k].first < x /\ x <= i => c[x].addr \notin Starts(c)
  BY <1>2, AlignedBlocks
<1>6. /\ c[B[m].first].addr \in Nat /\ c[B[k].first].addr \in Nat /\ c[i].addr \in Nat
      /\ DOMAIN B = 1..Len(B)
  <2>1. \A x \in 1..Len(c) : c[x].addr \in Nat
    BY DEF Listing
  <2> QED BY <1>1, <1>4, <2>1, BlocksAre
<1> HIDE DEF B
<1>7. ~ (i < B[m].first)
  <2>1. i < B[m].first => c[i].addr < c[B[m].first].addr
    BY <1>1, <1>4, IndexIs
  <2> QED BY <1>1, <1>3, <1>4, <1>6, <2>1
<1>8. ~ (B[k].first < B[m].first)
  BY <1>1, <1>4, <1>5, <1>7
<1>9. B[m].start <= B[k].start
  <2>1. B[m].first < B[k].first => c[B[m].first].addr < c[B[k].first].addr
    BY <1>4, IndexIs
  <2>2. B[m].first < B[k].first \/ B[m].first = B[k].first
    BY <1>4, <1>8
  <2> QED BY <1>4, <1>6, <2>1, <2>2
<1> DEFINE e == [from |-> k, to |-> m, type |-> "jump", at |-> c[B[k].last].addr]
<1>10. <<k, m>> \in {q \in (DOMAIN B) \X (DOMAIN B) : c[B[q[1]].last].target = B[q[2]].start}
  BY <1>2, <1>3, <1>6
<1>11. e \in Jumps(c, B)
  BY <1>10 DEF Jumps
<1>12. e \in LoopEdges(c) /\ B[e.from].last = i
  BY <1>2, <1>9, <1>11 DEF LoopEdges, B
<1> QED BY <1>12 DEF B

\* The edges of loops come in the order of their blocks, each block once.
LEMMA LoopsAre ==
    ASSUME NEW c, Listing(c)
    PROVE  LET L == Loops(c, Blocks(c))
           IN /\ Len(L) = Cardinality({e.from : e \in LoopEdges(c)})
              /\ Len(L) \in Nat /\ DOMAIN L = 1..Len(L) /\ L \in Seq(LoopEdges(c))
              /\ \A k \in 1..Len(L) : L[k] \in LoopEdges(c)
              /\ \A j, k \in 1..Len(L) : j < k => L[j].from < L[k].from
              /\ \A e \in LoopEdges(c) : \E k \in 1..Len(L) : L[k].from = e.from
<1> DEFINE F == {e.from : e \in LoopEdges(c)}
           L == Loops(c, Blocks(c))
           n == Cardinality(F)
           asc == Ascending(F)
<1>1. F \subseteq Int /\ IsFiniteSet(F)
  <2>1. F \in SUBSET (1..Len(Blocks(c)))
    BY LoopEdgeIs
  <2>2. IsFiniteSet(1..Len(Blocks(c)))
    BY BlocksAre, FS_Interval
  <2> HIDE DEF F
  <2>3. IsFiniteSet(F)
    BY <2>1, <2>2, FS_Subset
  <2> QED BY <2>1, <2>3
<1>2. L = [k \in DOMAIN asc |-> CHOOSE e \in LoopEdges(c) : e.from = asc[k]]
  BY DEF Loops, InOrder, LoopEdges
<1>3. \A x \in F : \E e \in LoopEdges(c) : e.from = x
  OBVIOUS
<1>4. \A e \in LoopEdges(c) : e.from \in F
  OBVIOUS
<1> HIDE DEF F, L
<1>5. /\ n \in Nat /\ asc \in [1..n -> F]
      /\ \A i, j \in 1..n : i < j => asc[i] < asc[j]
      /\ \A x \in F : \E k \in 1..n : asc[k] = x
  BY <1>1, AscendingSorts
<1> HIDE DEF n, asc
<1>6. \A k \in 1..n : L[k] \in LoopEdges(c) /\ L[k].from = asc[k]
  <2> SUFFICES ASSUME NEW k \in 1..n PROVE L[k] \in LoopEdges(c) /\ L[k].from = asc[k]
    OBVIOUS
  <2>1. L[k] = CHOOSE e \in LoopEdges(c) : e.from = asc[k]
    BY <1>2, <1>5
  <2>2. \E e \in LoopEdges(c) : e.from = asc[k]
    BY <1>3, <1>5
  <2> QED BY <2>1, <2>2
<1>7. L \in [1..n -> LoopEdges(c)]
  <2>1. DOMAIN L = 1..n
    BY <1>2, <1>5
  <2>2. L = [k \in 1..n |-> L[k]]
    BY <1>2, <2>1
  <2> QED BY <1>6, <2>2
<1>8. L \in Seq(LoopEdges(c)) /\ Len(L) = n /\ DOMAIN L = 1..n
  BY <1>5, <1>7, FunctionIsSeq
<1>9. \A e \in LoopEdges(c) : \E k \in 1..n : L[k].from = e.from
  BY <1>4, <1>5, <1>6
<1>10. \A j, k \in 1..n : j < k => L[j].from < L[k].from
  BY <1>5, <1>6
<1> QED BY <1>5, <1>6, <1>8, <1>9, <1>10 DEF L, n, F

\* Loops are counted as often as the function jumps back.
LEMMA LoopsCounted ==
    ASSUME NEW c, Listing(c), ~Misaligned(c)
    PROVE  Len(Loops(c, Blocks(c))) = Cardinality(Back(c))
<1> DEFINE B == Blocks(c)
           F == {e.from : e \in LoopEdges(c)}
           f == [k \in F |-> B[k].last]
<1>1. F \in SUBSET (1..Len(B)) /\ Len(B) \in Nat
  BY LoopEdgeIs, BlocksAre
<1>2. IsFiniteSet(F)
  <2>1. IsFiniteSet(1..Len(B))
    BY <1>1, FS_Interval
  <2> HIDE DEF F, B
  <2> QED BY <1>1, <2>1, FS_Subset
<1>3. \A k \in F : B[k].last \in Back(c)
  BY LoopEdgeIs
<1>4. \A i \in Back(c) : \E k \in F : B[k].last = i
  BY BackIsLoop
<1>5. \A j, k \in F : B[j].last = B[k].last => j = k
  <2> SUFFICES ASSUME NEW j \in F, NEW k \in F, B[j].last = B[k].last PROVE j = k
    OBVIOUS
  <2>1. j \in 1..Len(B) /\ k \in 1..Len(B)
    BY <1>1
  <2>2. B[j].last \in Back(c) /\ B[k].last \in Back(c)
    BY <1>3
  <2>3. B[j].last \in Nat /\ B[k].last \in Nat
    BY <2>2 DEF Back, Listing
  <2>4. ~ (j < k) /\ ~ (k < j)
    BY <2>1, <2>3, LastsGrow
  <2> QED BY <1>1, <2>1, <2>4
<1> HIDE DEF B, F
<1>6. f \in Bijection(F, Back(c))
  BY <1>3, <1>4, <1>5 DEF Bijection, Injection, Surjection, IsInjective
<1>7. Cardinality(Back(c)) = Cardinality(F)
  BY <1>2, <1>6, FS_Bijection DEF ExistsBijection
<1>8. Len(Loops(c, B)) = Cardinality(F)
  BY LoopsAre DEF F, B
<1> QED BY <1>7, <1>8 DEF B

\* The first members of a list.
LEMMA ListedIs ==
    ASSUME NEW T, NEW s \in Seq(T)
    PROVE  /\ Len(Listed(s)) = (IF Len(s) < MaxListed THEN Len(s) ELSE MaxListed)
           /\ Len(Listed(s)) \in Nat /\ Len(Listed(s)) <= Len(s)
           /\ DOMAIN Listed(s) = 1..Len(Listed(s))
           /\ \A k \in 1..Len(Listed(s)) : Listed(s)[k] = s[k]
<1> DEFINE n == IF Len(s) < MaxListed THEN Len(s) ELSE MaxListed
<1>1. Len(s) \in Nat /\ MaxListed \in Nat
  BY CfgAssumption
<1>2. n \in Nat /\ n <= Len(s)
  BY <1>1
<1>3. Listed(s) = SubSeq(s, 1, n)
  BY DEF Listed
<1> HIDE DEF n
<1>4. \A i \in 1..n : s[i] \in T
  BY <1>1, <1>2
<1>5. /\ SubSeq(s, 1, n) \in Seq(T) /\ Len(SubSeq(s, 1, n)) = n
      /\ \A i \in 1..n : SubSeq(s, 1, n)[i] = s[i]
  BY <1>2, <1>4, SubSeqProperties
<1>6. DOMAIN SubSeq(s, 1, n) = 1..n
  BY <1>5, LenProperties
<1> QED BY <1>2, <1>3, <1>5, <1>6 DEF n
-----------------------------------------------------------------------------
(***************************************************************************)
(* Evidence.                                                               *)
(***************************************************************************)

\* Counting up from 0 reaches every number to n.
LEMMA CountingUp ==
    ASSUME NEW n \in Nat, NEW T \in SUBSET (0..n), 0 \in T, \A i \in T : i < n => i + 1 \in T
    PROVE  T = 0..n
<1> DEFINE missed == (0..n) \ T
<1> SUFFICES ASSUME missed # {} PROVE FALSE
  OBVIOUS
<1>1. missed \in SUBSET Nat
  OBVIOUS
<1>2. PICK x \in missed : \A y \in missed : x <= y
  <2> HIDE DEF missed
  <2> QED BY <1>1, LeastExists
<1>3. x \in 0..n /\ x \notin T /\ x # 0
  BY <1>2
<1>4. x - 1 \in 0..n /\ ~ (x <= x - 1) /\ x - 1 < n
  BY <1>3
<1>5. x - 1 \in T
  BY <1>2, <1>4
<1> QED BY <1>3, <1>4, <1>5

\* There is a function that sums up the first i amounts.
LEMMA SumsExist ==
    ASSUME NEW a \in Seq({0, 1})
    PROVE  \E f : f = [i \in 0..Len(a) |-> IF i = 0 THEN 0 ELSE f[i - 1] + a[i]]
<1> DEFINE n == Len(a)
           Sums(m, f) == /\ f \in [0..m -> Nat] /\ f[0] = 0
                         /\ \A i \in 1..m : f[i] = f[i - 1] + a[i]
           T == {m \in 0..n : \E f : Sums(m, f)}
<1>1. n \in Nat /\ \A i \in 1..n : a[i] \in Nat
  OBVIOUS
<1>2. 0 \in T
  <2>1. Sums(0, [i \in 0..0 |-> 0])
    OBVIOUS
  <2>2. \E f : Sums(0, f)
    <3> HIDE DEF Sums
    <3> QED BY <2>1
  <2>3. 0 \in 0..n
    BY <1>1
  <2> HIDE DEF Sums, n
  <2> QED BY <2>2, <2>3
<1> HIDE DEF n
<1>3. ASSUME NEW m \in T, m < n PROVE m + 1 \in T
  <2>1. PICK f : Sums(m, f)
    OBVIOUS
  <2> DEFINE g == [i \in 0..(m + 1) |-> IF i = m + 1 THEN f[m] + a[m + 1] ELSE f[i]]
  <2>2. m \in Nat /\ m + 1 \in 1..n /\ m + 1 \in 0..n
    BY <1>1, <1>3
  <2>3. \A i \in 0..(m + 1) : i = m + 1 \/ i \in 0..m
    BY <2>2
  <2>4. f[m] + a[m + 1] \in Nat
    BY <1>1, <2>1, <2>2
  <2>5. g \in [0..(m + 1) -> Nat] /\ g[0] = 0
    BY <2>1, <2>2, <2>3, <2>4
  <2>6. ASSUME NEW i \in 1..(m + 1) PROVE g[i] = g[i - 1] + a[i]
    <3>1. i - 1 \in 0..m /\ i - 1 # m + 1 /\ i - 1 \in 0..(m + 1) /\ i \in 0..(m + 1)
      BY <2>2
    <3>2. g[i - 1] = f[i - 1]
      BY <3>1
    <3>3. CASE i = m + 1
      <4>1. g[i] = f[m] + a[m + 1] /\ i - 1 = m
        BY <2>2, <3>1, <3>3
      <4> QED BY <3>2, <3>3, <4>1
    <3>4. CASE i # m + 1
      <4>1. i \in 1..m /\ g[i] = f[i]
        BY <2>2, <3>1, <3>4
      <4> QED BY <2>1, <3>2, <4>1
    <3> QED BY <3>3, <3>4
  <2> HIDE DEF g
  <2>7. Sums(m + 1, g)
    BY <2>5, <2>6
  <2> QED BY <2>2, <2>7
<1>4. n \in T
  <2>1. T \in SUBSET (0..n)
    OBVIOUS
  <2> HIDE DEF T
  <2>2. T = 0..n
    BY <1>1, <1>2, <1>3, <2>1, CountingUp
  <2> QED BY <1>1, <2>2
<1>5. PICK f : Sums(n, f)
  BY <1>4
<1>6. \A i \in 0..n : f[i] = IF i = 0 THEN 0 ELSE f[i - 1] + a[i]
  <2>1. \A i \in 0..n : i = 0 \/ i \in 1..n
    BY <1>1
  <2> QED BY <1>5, <2>1
<1>7. f = [i \in 0..n |-> f[i]]
  BY <1>5
<1>8. f = [i \in 0..n |-> IF i = 0 THEN 0 ELSE f[i - 1] + a[i]]
  BY <1>6, <1>7
<1> QED BY <1>8 DEF n

\* The prefixes of a list of flags.
LEMMA PrefixIs ==
    ASSUME NEW a \in Seq({0, 1})
    PROVE  /\ Prefix(a)[0] = 0
           /\ \A i \in 1..Len(a) : Prefix(a)[i] = Prefix(a)[i - 1] + a[i]
           /\ \A i \in 0..Len(a) : Prefix(a)[i] \in Nat
<1> DEFINE p == CHOOSE f : f = [i \in 0..Len(a) |-> IF i = 0 THEN 0 ELSE f[i - 1] + a[i]]
           T == {i \in 0..Len(a) : p[i] \in Nat}
<1>1. Prefix(a) = p
  BY Zenon DEF Prefix
<1>2. p = [i \in 0..Len(a) |-> IF i = 0 THEN 0 ELSE p[i - 1] + a[i]]
  <2>1. \E f : f = [i \in 0..Len(a) |-> IF i = 0 THEN 0 ELSE f[i - 1] + a[i]]
    BY SumsExist
  <2> QED BY Zenon, <2>1
<1> HIDE DEF p
<1>3. Len(a) \in Nat /\ \A i \in 1..Len(a) : a[i] \in Nat
  OBVIOUS
<1>4. p[0] = 0
  BY <1>2, <1>3
<1>5. \A i \in 1..Len(a) : p[i] = p[i - 1] + a[i]
  <2>1. \A i \in 1..Len(a) : i \in 0..Len(a) /\ i # 0
    BY <1>3
  <2> QED BY <1>2, <2>1
<1>6. \A i \in 0..Len(a) : p[i] \in Nat
  <2>1. 0 \in T /\ T \in SUBSET (0..Len(a))
    BY <1>3, <1>4
  <2>2. ASSUME NEW i \in T, i < Len(a) PROVE i + 1 \in T
    <3>1. i \in 0..Len(a) /\ p[i] \in Nat /\ i + 1 \in 1..Len(a) /\ i + 1 \in 0..Len(a) /\ (i + 1) - 1 = i
      BY <1>3, <2>2
    <3>2. p[i + 1] = p[i] + a[i + 1] /\ a[i + 1] \in Nat
      BY <1>3, <1>5, <3>1
    <3> QED BY <3>1, <3>2
  <2>3. T = 0..Len(a)
    <3> HIDE DEF T
    <3> QED BY <1>3, <2>1, <2>2, CountingUp
  <2> QED BY <2>3
<1> QED BY <1>1, <1>4, <1>5, <1>6

\* The difference of two prefixes counts the flags between them.
LEMMA PrefixCounts ==
    ASSUME NEW a \in Seq({0, 1}), NEW first \in 1..Len(a), NEW last \in first..Len(a)
    PROVE  /\ Prefix(a)[last] - Prefix(a)[first - 1] = Cardinality({i \in first..last : a[i] = 1})
           /\ Cardinality({i \in first..last : a[i] = 1}) \in Nat
           /\ Prefix(a)[last] - Prefix(a)[first - 1] # 0 <=> \E i \in first..last : a[i] = 1
<1> DEFINE p == Prefix(a)
           n == Len(a)
           S(m) == {i \in first..(first - 1 + m) : a[i] = 1}
           T == {m \in 0..(n - first + 1) : /\ IsFiniteSet(S(m))
                                            /\ p[first - 1 + m] - p[first - 1] = Cardinality(S(m))}
<1>1. /\ n \in Nat /\ first \in Nat \ {0} /\ n - first + 1 \in Nat
      /\ \A i \in 1..n : a[i] \in {0, 1} /\ p[i] = p[i - 1] + a[i]
      /\ \A i \in 0..n : p[i] \in Nat
  BY PrefixIs
<1>2. 0 \in T
  <2>1. S(0) = {}
    BY <1>1
  <2>2. IsFiniteSet({}) /\ Cardinality({}) = 0
    BY FS_EmptySet
  <2>3. p[first - 1 + 0] - p[first - 1] = 0
    <3>1. p[first - 1] \in Nat /\ first - 1 + 0 = first - 1
      BY <1>1
    <3> QED BY <3>1
  <2>4. 0 \in 0..(n - first + 1)
    BY <1>1
  <2>5. IsFiniteSet(S(0)) /\ Cardinality(S(0)) = 0
    BY <2>1, <2>2
  <2> HIDE DEF S, p, n
  <2> QED BY <2>3, <2>4, <2>5
<1> HIDE DEF p, n
<1>3. ASSUME NEW m \in T, m < n - first + 1 PROVE m + 1 \in T
  <2> DEFINE l == first + m
  <2>1. /\ l \in 1..n /\ first - 1 + m = l - 1 /\ first - 1 + (m + 1) = l /\ m \in Nat
        /\ l \in Nat /\ m + 1 \in 0..(n - first + 1) /\ l - 1 \in 0..n /\ first - 1 \in 0..n
    BY <1>1, <1>3
  <2>2. IsFiniteSet(S(m)) /\ p[l - 1] - p[first - 1] = Cardinality(S(m))
    BY <2>1
  <2>3. p[l] = p[l - 1] + a[l] /\ a[l] \in {0, 1} /\ p[l - 1] \in Nat /\ p[first - 1] \in Nat
    BY <1>1, <2>1
  <2>4. S(m + 1) = IF a[l] = 1 THEN S(m) \cup {l} ELSE S(m)
    <3>1. S(m) = {i \in first..(l - 1) : a[i] = 1} /\ S(m + 1) = {i \in first..l : a[i] = 1}
      BY <2>1
    <3>2. \A i : i \in first..l <=> i \in first..(l - 1) \/ i = l
      <4>1. l \in Nat /\ first <= l /\ first \in Nat
        BY <1>1, <2>1
      <4> HIDE DEF l
      <4> QED BY <4>1
    <3> QED BY <3>1, <3>2
  <2>5. l \notin S(m)
    BY <1>1, <2>1
  <2> HIDE DEF S, l
  <2>6. IsFiniteSet(S(m + 1)) /\ Cardinality(S(m + 1)) = Cardinality(S(m)) + a[l]
    <3>1. IsFiniteSet(S(m) \cup {l}) /\ Cardinality(S(m) \cup {l}) = Cardinality(S(m)) + 1
      BY <2>2, <2>5, FS_AddElement
    <3>2. Cardinality(S(m)) \in Nat
      BY <2>2, FS_CardinalityType
    <3> QED BY <2>2, <2>3, <2>4, <3>1, <3>2
  <2>7. p[l] - p[first - 1] = Cardinality(S(m + 1))
    BY <2>2, <2>3, <2>6
  <2> QED BY <2>1, <2>6, <2>7
<1>4. T = 0..(n - first + 1)
  <2>1. T \in SUBSET (0..(n - first + 1))
    OBVIOUS
  <2> HIDE DEF T
  <2> QED BY <1>1, <1>2, <1>3, <2>1, CountingUp
<1>5. last - first + 1 \in T /\ first - 1 + (last - first + 1) = last
  <2>1. last \in first..n
    BY DEF n
  <2>2. last - first + 1 \in 0..(n - first + 1) /\ first - 1 + (last - first + 1) = last
    BY <1>1, <2>1
  <2> QED BY <1>4, <2>2
<1>6. S(last - first + 1) = {i \in first..last : a[i] = 1}
  BY <1>5
<1> HIDE DEF S
<1>7. /\ IsFiniteSet(S(last - first + 1))
      /\ p[last] - p[first - 1] = Cardinality(S(last - first + 1))
  BY <1>5
<1>8. Cardinality(S(last - first + 1)) \in Nat
  BY <1>7, FS_CardinalityType
<1>9. Cardinality(S(last - first + 1)) = 0 <=> S(last - first + 1) = {}
  BY <1>7, FS_EmptySet
<1> QED BY <1>6, <1>7, <1>8, <1>9 DEF p

\* The evidence taken from the prefixes is that counted instruction by instruction.
LEMMA EvidenceIs ==
    ASSUME Consecutive(code), Listing(code),
           NEW first \in 1..Len(code), NEW last \in first..Len(code)
    PROVE  Evidence(FactPrefixes(code), first, last) = LoopTransformEvidence(first, last)
<1> DEFINE P == FactPrefixes(code)
           reads == [i \in DOMAIN code |-> code[i].reads]
           writes == [i \in DOMAIN code |-> code[i].writes]
           bytes == [i \in DOMAIN code |-> code[i].bytes]
           is(op) == [i \in DOMAIN code |-> Flag(code[i].op = op)]
<1>1. DOMAIN code = 1..Len(code) /\ Len(code) \in Nat /\ \A i \in first..last : i \in 1..Len(code)
  BY DEF Listing
<1>2. \A i \in 1..Len(code) : /\ code[i].reads \in {0, 1} /\ code[i].writes \in {0, 1}
                              /\ code[i].bytes \in {0, 1}
  <2>1. \A i \in 1..Len(code) : code[i] \in Facts
    BY DEF Consecutive
  <2> QED BY <2>1 DEF Facts
<1>3. /\ P.reads = Prefix(reads) /\ P.writes = Prefix(writes) /\ P.bytes = Prefix(bytes)
      /\ P.ops = [op \in Ops |-> Prefix(is(op))]
  BY DEF FactPrefixes
<1>4. ASSUME NEW a \in [1..Len(code) -> {0, 1}]
      PROVE  /\ Prefix(a)[last] - Prefix(a)[first - 1] = Cardinality({i \in first..last : a[i] = 1})
             /\ Prefix(a)[last] - Prefix(a)[first - 1] # 0 <=> \E i \in first..last : a[i] = 1
  <2>1. a \in Seq({0, 1}) /\ Len(a) = Len(code)
    BY <1>1, FunctionIsSeq
  <2> QED BY <2>1, PrefixCounts
<1>5. reads \in [1..Len(code) -> {0, 1}] /\ \A i \in first..last : reads[i] = code[i].reads
  BY <1>1, <1>2
<1>6. writes \in [1..Len(code) -> {0, 1}] /\ \A i \in first..last : writes[i] = code[i].writes
  BY <1>1, <1>2
<1>7. bytes \in [1..Len(code) -> {0, 1}] /\ \A i \in first..last : bytes[i] = code[i].bytes
  BY <1>1, <1>2
<1>8. ASSUME NEW op
      PROVE  /\ is(op) \in [1..Len(code) -> {0, 1}]
             /\ \A i \in first..last : is(op)[i] = 1 <=> code[i].op = op
  BY <1>1 DEF Flag
<1> HIDE DEF reads, writes, bytes, is, P
<1>9. /\ P.reads[last] - P.reads[first - 1] = Cardinality({i \in first..last : code[i].reads = 1})
      /\ P.writes[last] - P.writes[first - 1] = Cardinality({i \in first..last : code[i].writes = 1})
      /\ P.bytes[last] - P.bytes[first - 1] = Cardinality({i \in first..last : code[i].bytes = 1})
  <2>1. /\ {i \in first..last : reads[i] = 1} = {i \in first..last : code[i].reads = 1}
        /\ {i \in first..last : writes[i] = 1} = {i \in first..last : code[i].writes = 1}
        /\ {i \in first..last : bytes[i] = 1} = {i \in first..last : code[i].bytes = 1}
    BY <1>5, <1>6, <1>7
  <2>2. Prefix(reads)[last] - Prefix(reads)[first - 1] = Cardinality({i \in first..last : reads[i] = 1})
    BY <1>4, <1>5
  <2>3. Prefix(writes)[last] - Prefix(writes)[first - 1] = Cardinality({i \in first..last : writes[i] = 1})
    BY <1>4, <1>6
  <2>4. Prefix(bytes)[last] - Prefix(bytes)[first - 1] = Cardinality({i \in first..last : bytes[i] = 1})
    BY <1>4, <1>7
  <2> QED BY <1>3, <2>1, <2>2, <2>3, <2>4
<1>10. {op \in Ops : P.ops[op][last] - P.ops[op][first - 1] # 0}
         = {code[i].op : i \in first..last} \cap Ops
  <2>1. ASSUME NEW op \in Ops
        PROVE  P.ops[op][last] - P.ops[op][first - 1] # 0 <=> \E i \in first..last : code[i].op = op
    <3>1. P.ops[op] = Prefix(is(op))
      BY <1>3
    <3>2. Prefix(is(op))[last] - Prefix(is(op))[first - 1] # 0 <=> \E i \in first..last : is(op)[i] = 1
      BY <1>4, <1>8
    <3> QED BY <1>8, <3>1, <3>2
  <2> QED BY <2>1
<1> QED BY <1>9, <1>10 DEF Evidence, LoopTransformEvidence, P

-----------------------------------------------------------------------------
(***************************************************************************)
(* Loops that transform bytes.                                             *)
(***************************************************************************)

\* The ranges TransformLoopsTrue speaks of.
TransformRanges ==
    {r \in (DOMAIN code) \X (DOMAIN code) :
        /\ r[1] <= r[2] /\ code[r[2]].target = code[r[1]].addr
        /\ r[2] - r[1] + 1 <= MaxLoop
        /\ Transforms(LoopTransformEvidence(r[1], r[2]))}

\* The record made of an edge, and whether it is listed.
LoopOf(e) ==
    [edge |-> e, first |-> Blocks(code)[e.to].first, last |-> Blocks(code)[e.from].last,
     evidence |-> Evidence(FactPrefixes(code), Blocks(code)[e.to].first, Blocks(code)[e.from].last)]
IsTransform(t) ==
    t.edge.to <= t.edge.from /\ t.last - t.first < MaxLoop /\ Transforms(t.evidence)

\* An edge's loop is listed when its range transforms bytes.
LEMMA LoopOfIs ==
    ASSUME Consecutive(code), Listing(code), NEW e \in LoopEdges(code)
    PROVE  LET t == LoopOf(e)
           IN /\ t.last \in Back(code) /\ t.first \in 1..Len(code) /\ t.first <= t.last
              /\ t.first = Index(code, code[t.last].target)
              /\ t.evidence = LoopTransformEvidence(t.first, t.last)
              /\ IsTransform(t) <=> <<t.first, t.last>> \in TransformRanges
<1> DEFINE B == Blocks(code)
           first == B[e.to].first
           last == B[e.from].last
<1>1. /\ e.from \in 1..Len(B) /\ e.to \in 1..Len(B)
      /\ last \in Back(code) /\ code[last].target = B[e.to].start
  BY LoopEdgeIs
<1>2. /\ first \in 1..Len(code) /\ first = Index(code, B[e.to].start)
      /\ code[first].addr = B[e.to].start
  BY <1>1, BlockLies
<1>3. B[e.to].start <= B[e.from].start
  BY DEF LoopEdges
<1>4. e.to <= e.from
  <2>1. B[e.to].start \in 0..(End - 1) /\ B[e.from].start \in 0..(End - 1)
    <3>1. B[e.to].start \in Starts(code) /\ B[e.from].start \in Starts(code)
      BY <1>1, BlocksAre DEF Leaders
    <3> QED BY <3>1, StartsAre
  <2>2. e.from < e.to => B[e.from].start < B[e.to].start
    BY <1>1, BlocksAre
  <2>3. ~ (e.from < e.to)
    <3> HIDE DEF B
    <3> QED BY <1>3, <2>1, <2>2
  <2>4. Len(B) \in Nat
    BY BlocksAre
  <2> QED BY <1>1, <2>3, <2>4
<1>5. /\ LoopOf(e).edge = e /\ LoopOf(e).first = first /\ LoopOf(e).last = last
      /\ LoopOf(e).evidence = Evidence(FactPrefixes(code), first, last)
  BY DEF LoopOf
<1> HIDE DEF B, first, last
<1>6. /\ last \in 1..Len(code) /\ code[last].target <= code[last].addr
      /\ Len(code) \in Nat /\ DOMAIN code = 1..Len(code)
  BY <1>1 DEF Back, Listing
<1>7. first <= last
  <2>1. last < first => code[last].addr < code[first].addr
    BY <1>2, <1>6, IndexIs
  <2>2. code[last].addr \in Nat /\ code[first].addr \in Nat
    BY <1>2, <1>6 DEF Listing
  <2> QED BY <1>1, <1>2, <1>6, <2>1, <2>2
<1>8. Evidence(FactPrefixes(code), first, last) = LoopTransformEvidence(first, last)
  <2>1. last \in first..Len(code)
    BY <1>2, <1>6, <1>7
  <2> QED BY <1>2, <2>1, EvidenceIs
<1>9. last - first < MaxLoop <=> last - first + 1 <= MaxLoop
  BY <1>2, <1>6, CfgAssumption
<1>10. IsTransform(LoopOf(e)) <=> <<first, last>> \in TransformRanges
  BY <1>1, <1>2, <1>4, <1>5, <1>6, <1>7, <1>8, <1>9 DEF IsTransform, TransformRanges
<1> QED BY <1>1, <1>2, <1>5, <1>7, <1>8, <1>10

\* The loops found are the transforming ranges, in the order of their ends.
LEMMA TransformsAre ==
    ASSUME Consecutive(code), Listing(code), ~Misaligned(code)
    PROVE  LET T == TransformLoops(code, Blocks(code))
           IN /\ Len(T) \in Nat /\ T \in Seq({T[k] : k \in 1..Len(T)})
              /\ \A k \in 1..Len(T) :
                    /\ <<T[k].first, T[k].last>> \in TransformRanges /\ T[k].last \in Nat
                    /\ T[k].evidence = LoopTransformEvidence(T[k].first, T[k].last)
              /\ \A j, k \in 1..Len(T) : j < k => T[j].last < T[k].last
              /\ \A r \in TransformRanges : \E k \in 1..Len(T) : r = <<T[k].first, T[k].last>>
<1> DEFINE T == TransformLoops(code, Blocks(code))
           L == Loops(code, Blocks(code))
           G == {k \in DOMAIN L : IsTransform(LoopOf(L[k]))}
           n == Cardinality(G)
           found == Ascending(G)
<1>1. T = [k \in DOMAIN found |-> LoopOf(L[found[k]])]
  BY DEF TransformLoops, LoopOf, IsTransform
<1>2. /\ Len(L) \in Nat /\ DOMAIN L = 1..Len(L)
      /\ \A k \in 1..Len(L) : L[k] \in LoopEdges(code)
      /\ \A j, k \in 1..Len(L) : j < k => L[j].from < L[k].from
      /\ \A e \in LoopEdges(code) : \E k \in 1..Len(L) : L[k].from = e.from
  BY LoopsAre
<1> HIDE DEF L, T
<1>3. G \subseteq Int /\ IsFiniteSet(G) /\ G \in SUBSET (1..Len(L))
  <2>1. G \in SUBSET (1..Len(L))
    BY <1>2
  <2>2. IsFiniteSet(1..Len(L))
    BY <1>2, FS_Interval
  <2> HIDE DEF G
  <2>3. IsFiniteSet(G)
    BY <2>1, <2>2, FS_Subset
  <2> QED BY <2>1, <2>3
<1>4. \A k \in G : IsTransform(LoopOf(L[k]))
  OBVIOUS
<1>5. \A k \in 1..Len(L) : IsTransform(LoopOf(L[k])) => k \in G
  BY <1>2
<1> HIDE DEF G
<1>6. /\ n \in Nat /\ found \in [1..n -> G]
      /\ \A i, j \in 1..n : i < j => found[i] < found[j]
      /\ \A x \in G : \E k \in 1..n : found[k] = x
  BY <1>3, AscendingSorts
<1> HIDE DEF n, found
<1>7. ASSUME NEW k \in 1..n
      PROVE  /\ T[k] = LoopOf(L[found[k]]) /\ L[found[k]] \in LoopEdges(code)
             /\ IsTransform(T[k]) /\ found[k] \in 1..Len(L)
  <2>1. found[k] \in G /\ T[k] = LoopOf(L[found[k]])
    BY <1>1, <1>6
  <2> QED BY <1>2, <1>3, <1>4, <2>1
<1>8. DOMAIN T = 1..n /\ Len(T) = n /\ T \in Seq({T[k] : k \in 1..n})
  <2> DEFINE V == {T[k] : k \in 1..n}
  <2>1. DOMAIN T = 1..n /\ T = [k \in 1..n |-> T[k]]
    BY <1>1, <1>6
  <2>2. T \in [1..n -> V]
    BY <2>1
  <2>3. T \in Seq(V) /\ Len(T) = n
    <3> HIDE DEF V
    <3> QED BY <1>6, <2>2, FunctionIsSeq
  <2> QED BY <2>1, <2>3
<1>9. ASSUME NEW k \in 1..n
      PROVE  /\ <<T[k].first, T[k].last>> \in TransformRanges /\ T[k].last \in Nat
             /\ T[k].evidence = LoopTransformEvidence(T[k].first, T[k].last)
  <2>1. /\ T[k].last \in Back(code) /\ T[k].evidence = LoopTransformEvidence(T[k].first, T[k].last)
        /\ <<T[k].first, T[k].last>> \in TransformRanges
    BY <1>7, LoopOfIs
  <2> QED BY <2>1 DEF Back, Listing
<1>10. ASSUME NEW j \in 1..n, NEW k \in 1..n, j < k PROVE T[j].last < T[k].last
  <2>1. L[found[j]].from < L[found[k]].from
    BY <1>2, <1>6, <1>7, <1>10
  <2>2. /\ L[found[j]].from \in 1..Len(Blocks(code)) /\ L[found[k]].from \in 1..Len(Blocks(code))
    BY <1>7, LoopEdgeIs
  <2>3. /\ T[j].last = Blocks(code)[L[found[j]].from].last
        /\ T[k].last = Blocks(code)[L[found[k]].from].last
    <3>1. \A e : LoopOf(e).last = Blocks(code)[e.from].last
      BY DEF LoopOf
    <3> QED BY <1>7, <3>1
  <2> QED BY <2>1, <2>2, <2>3, LastsGrow
<1>11. ASSUME NEW r \in TransformRanges PROVE \E k \in 1..n : r = <<T[k].first, T[k].last>>
  <2>1. /\ r = <<r[1], r[2]>> /\ r[1] \in 1..Len(code) /\ r[2] \in 1..Len(code)
        /\ r[1] <= r[2] /\ code[r[2]].target = code[r[1]].addr
    BY DEF TransformRanges, Listing
  <2>2. r[2] \in Back(code) /\ Index(code, code[r[2]].target) = r[1]
    <3>1. code[r[1]].addr \in 0..(End - 1) /\ code[r[2]].addr \in Nat
      BY <2>1 DEF Listing
    <3>2. r[1] < r[2] => code[r[1]].addr < code[r[2]].addr
      BY <2>1, IndexIs
    <3>3. r[1] = r[2] \/ r[1] < r[2]
      BY <2>1
    <3>4. code[r[2]].target <= code[r[2]].addr
      BY <2>1, <3>1, <3>2, <3>3
    <3>5. InFunction(code[r[2]].target)
      BY <2>1, <3>1, CfgAssumption DEF InFunction
    <3>6. Index(code, code[r[1]].addr) = r[1]
      BY <2>1, IndexIs
    <3>7. r[2] \in DOMAIN code
      BY <2>1 DEF Listing
    <3> QED BY <2>1, <3>4, <3>5, <3>6, <3>7 DEF Back
  <2>3. PICK e \in LoopEdges(code) : Blocks(code)[e.from].last = r[2]
    BY <2>2, BackIsLoop
  <2>4. PICK m \in 1..Len(L) : L[m].from = e.from
    BY <1>2
  <2>5. LoopOf(L[m]).last = r[2]
    BY <2>3, <2>4 DEF LoopOf
  <2>6. LoopOf(L[m]).first = r[1]
    BY <1>2, <2>2, <2>4, <2>5, LoopOfIs
  <2>7. IsTransform(LoopOf(L[m]))
    <3>1. IsTransform(LoopOf(L[m])) <=> <<LoopOf(L[m]).first, LoopOf(L[m]).last>> \in TransformRanges
      BY <1>2, <2>4, LoopOfIs
    <3> QED BY <2>1, <2>5, <2>6, <3>1
  <2>8. PICK k \in 1..n : found[k] = m
    BY <1>5, <1>6, <2>4, <2>7
  <2> QED BY <1>7, <2>1, <2>5, <2>6, <2>8
<1> QED BY <1>6, <1>8, <1>9, <1>10, <1>11 DEF T

\* What a finished analysis holds.
LEMMA Results ==
    ASSUME CfgInv, Analyzed
    PROVE  /\ Consecutive(code) /\ Listing(code) /\ HasBackwardJump(code)
           /\ cfg.blocks = Blocks(code)
           /\ cfg.edges = Jumps(code, Blocks(code)) \cup Fallthroughs(code, Blocks(code))
           /\ cfg.loopCount = Len(Loops(code, Blocks(code)))
           /\ cfg.loops = Listed(Loops(code, Blocks(code)))
           /\ cfg.transforms = Listed(TransformLoops(code, Blocks(code)))
<1>1. cfg = AnalyzeFunctionCfg(code) /\ cfg.status = "done"
  <2>1. Undecided.status # "done"
    BY DEF Undecided, Empty
  <2> QED BY <2>1 DEF CfgInv, Analyzed
<1>2. code # <<>> /\ ~ (Len(code) > MaxInsns) /\ HasBackwardJump(code)
  BY <1>1 DEF AnalyzeFunctionCfg, Empty
<1>3. Consecutive(code) /\ Listing(code)
  BY <1>2, ListingIs DEF CfgInv
<1>4. cfg = [status |-> "done", blocks |-> Blocks(code),
             edges |-> Jumps(code, Blocks(code)) \cup Fallthroughs(code, Blocks(code)),
             loopCount |-> Len(Loops(code, Blocks(code))), loops |-> Listed(Loops(code, Blocks(code))),
             transforms |-> Listed(TransformLoops(code, Blocks(code)))]
  BY <1>1, <1>2 DEF AnalyzeFunctionCfg
<1> QED BY <1>2, <1>3, <1>4

-----------------------------------------------------------------------------
(***************************************************************************)
(* Theorems.                                                               *)
(***************************************************************************)

\* Where no jump lands inside an instruction, the basic blocks partition the
\* instructions, control enters one at its first instruction only and leaves it
\* at its last only.
THEOREM BlocksArePartition == Spec => []BlocksPartition
<1>1. ASSUME CfgInv, Analyzed, ~Misaligned(code) PROVE BlocksPartition
  <2> DEFINE B == Blocks(code)
             n == Len(B)
  <2>1. /\ Listing(code) /\ cfg.blocks = B
        /\ n \in Nat \ {0} /\ DOMAIN B = 1..n /\ DOMAIN code = 1..Len(code) /\ Len(code) \in Nat
    BY <1>1, Results, BlocksAre DEF Listing
  <2>2. /\ B[1].first = 1 /\ B[n].last = Len(code)
        /\ \A k \in 1..(n - 1) : B[k + 1].first = B[k].last + 1
        /\ \A k \in 1..n, i \in 1..Len(code) :
                B[k].first < i /\ i <= B[k].last => code[i].addr \notin Starts(code)
    BY <1>1, <2>1, AlignedBlocks
  <2>3. \A k \in 1..n : B[k].first \in 1..Len(code) /\ B[k].last \in B[k].first..Len(code)
    BY <2>1, BlockLies
  <2> HIDE DEF B, n
  <2>4. ASSUME NEW k \in 1..n, NEW i \in (B[k].first + 1)..B[k].last
        PROVE  i \in 1..Len(code) /\ B[k].first < i /\ i <= B[k].last
    BY <2>1, <2>3
  <2>5. ASSUME NEW k \in 1..n, NEW i \in (B[k].first + 1)..B[k].last, NEW j \in 1..Len(code)
        PROVE  code[j].target # code[i].addr
    <3>1. code[i].addr \in 0..(End - 1) /\ code[i].addr \notin Starts(code)
      BY <2>1, <2>2, <2>4 DEF Listing
    <3>2. code[i].addr # NoTarget
      BY <3>1, CfgAssumption
    <3>3. InFunction(code[j].target) => code[j].target \in Starts(code)
      BY <2>1, StartsAre
    <3> QED BY <3>1, <3>2, <3>3 DEF InFunction
  <2>6. ASSUME NEW k \in 1..n, NEW i \in B[k].first..(B[k].last - 1)
        PROVE  ~InFunction(code[i].target)
    <3>1. i \in 1..Len(code) /\ i < Len(code) /\ i + 1 \in (B[k].first + 1)..B[k].last
      BY <2>1, <2>3
    <3>2. code[i + 1].addr \notin Starts(code)
      BY <2>2, <2>4, <3>1
    <3> QED BY <2>1, <3>1, <3>2, StartsAre
  <2> QED BY <2>1, <2>2, <2>5, <2>6 DEF BlocksPartition, n
<1>2. CfgInv => BlocksPartition
  BY <1>1 DEF BlocksPartition
<1> QED BY <1>2, CfgInvariance, PTL

\* A jump to an instruction has an edge if it is the last of its block, and if a
\* jump lands inside an instruction the block around it runs to the end of the
\* function: the jumps it swallows, and no others, have no edge.
THEOREM JumpsKeepTheirEdges == Spec => []JumpsKept
<1>1. ASSUME CfgInv, Analyzed PROVE JumpsKept
  <2> DEFINE B == Blocks(code)
             next(i) == code[i].addr + code[i].size
  <2>1. /\ Listing(code) /\ cfg.edges = Jumps(code, B) \cup Fallthroughs(code, B)
        /\ DOMAIN B = 1..Len(B) /\ DOMAIN code = 1..Len(code)
    BY <1>1, Results, BlocksAre DEF Listing
  <2>2. \A i, j \in 1..Len(code) : code[i].addr = code[j].addr => i = j
    BY <2>1, IndexIs
  <2>3. \A k \in 1..Len(B) : B[k].last \in 1..Len(code)
    <3>1. ASSUME NEW k \in 1..Len(B) PROVE B[k].last \in 1..Len(code)
      <4>1. B[k].first \in 1..Len(code) /\ B[k].last \in B[k].first..Len(code)
        BY <2>1, BlockLies
      <4> QED BY <4>1
    <3> QED BY <3>1
  <2>4. ASSUME NEW i \in 1..Len(code), code[i].target \in Addresses(code)
        PROVE  /\ InFunction(code[i].target)
               /\ \E m \in 1..Len(B) : B[m].start = code[i].target
    <3>1. InFunction(code[i].target)
      <4>1. code[i].target \in 0..(End - 1)
        BY <2>1, <2>4, IndexIs
      <4> QED BY <4>1, CfgAssumption DEF InFunction
    <3>2. code[i].target \in Leaders(code)
      BY <2>1, <2>4, <3>1, StartsAre DEF Leaders
    <3> QED BY <2>1, <3>1, <3>2, BlocksAre
  <2>5. ASSUME NEW i \in 1..Len(code), code[i].target \in Addresses(code)
        PROVE  (\E e \in cfg.edges : e.type = "jump" /\ e.at = code[i].addr)
                 <=> \E k \in 1..Len(B) : B[k].last = i
    <3> HIDE DEF B
    <3>1. ASSUME NEW e \in cfg.edges, e.type = "jump", e.at = code[i].addr
          PROVE  \E k \in 1..Len(B) : B[k].last = i
      <4>1. e \in Jumps(code, B)
        BY <2>1, <3>1 DEF Fallthroughs
      <4>2. PICK p \in (DOMAIN B) \X (DOMAIN B) : e.at = code[B[p[1]].last].addr
        BY <4>1 DEF Jumps
      <4>3. p[1] \in 1..Len(B)
        BY <2>1
      <4> QED BY <2>2, <2>3, <3>1, <4>2, <4>3
    <3>2. ASSUME NEW k \in 1..Len(B), B[k].last = i
          PROVE  \E e \in cfg.edges : e.type = "jump" /\ e.at = code[i].addr
      <4>1. PICK m \in 1..Len(B) : B[m].start = code[i].target
        BY <2>4, <2>5
      <4> DEFINE e == [from |-> k, to |-> m, type |-> "jump", at |-> code[B[k].last].addr]
      <4>2. <<k, m>> \in {q \in (DOMAIN B) \X (DOMAIN B) : code[B[q[1]].last].target = B[q[2]].start}
        BY <2>1, <3>2, <4>1
      <4>3. e \in Jumps(code, B)
        BY <4>2 DEF Jumps
      <4> QED BY <2>1, <3>2, <4>3
    <3> QED BY <3>1, <3>2
  <2>6. ASSUME NEW i \in 1..Len(code), code[i].target \in Addresses(code)
        PROVE  (\E e \in cfg.edges : e.type = "jump" /\ e.at = code[i].addr)
                 <=> \/ i = Len(code)
                     \/ \A a \in Starts(code) : ~ (LeaderOf(code, i) < a /\ a < next(i))
    <3>1. InFunction(code[i].target)
      BY <2>4, <2>6
    <3>2. (\E k \in 1..Len(B) : B[k].last = i)
             <=> \/ i = Len(code)
                 \/ \A a \in Starts(code) : ~ (LeaderOf(code, i) < a /\ a < next(i))
      BY <2>1, <3>1, JumpsAreLast
    <3> HIDE DEF B
    <3> QED BY <2>5, <2>6, <3>2
  <2> QED BY <1>1, <2>1, <2>6 DEF JumpsKept, LeaderOf, Leaders
<1>2. CfgInv => JumpsKept
  BY <1>1 DEF JumpsKept
<1> QED BY <1>2, CfgInvariance, PTL

\* Where no jump lands inside an instruction, an edge is a transfer the program
\* can make, and the loops are the backward jumps, none missed, invented or
\* counted twice.
THEOREM EdgesAndLoopsAreTrue == Spec => []EdgesAndLoopsTrue
<1>1. ASSUME CfgInv, Analyzed, ~Misaligned(code) PROVE EdgesAndLoopsTrue
  <2> DEFINE B == Blocks(code)
             L == Loops(code, B)
  <2>1. /\ Listing(code) /\ cfg.blocks = B
        /\ cfg.edges = Jumps(code, B) \cup Fallthroughs(code, B)
        /\ cfg.loopCount = Len(L) /\ cfg.loops = Listed(L)
        /\ DOMAIN B = 1..Len(B) /\ Len(B) \in Nat /\ DOMAIN code = 1..Len(code) /\ Len(code) \in Nat
    BY <1>1, Results, BlocksAre DEF Listing
  <2>2. ASSUME NEW e \in cfg.edges
        PROVE  IF e.type = "jump" THEN B[e.to].start = code[B[e.from].last].target
               ELSE /\ code[B[e.from].last].cond
                    /\ B[e.to].start = code[B[e.from].last].addr + code[B[e.from].last].size
    <3> HIDE DEF B
    <3>1. CASE e \in Jumps(code, B)
      BY <3>1 DEF Jumps
    <3>2. CASE e \in Fallthroughs(code, B)
      <4>1. PICK b \in {d \in DOMAIN B : code[B[d].last].cond /\ d < Len(B)} :
                e = [from |-> b, to |-> b + 1, type |-> "fallthrough", at |-> code[B[b].last].addr]
        BY <3>2 DEF Fallthroughs
      <4>2. /\ b \in 1..(Len(B) - 1) /\ b \in 1..Len(B) /\ b + 1 \in 1..Len(B)
            /\ code[B[b].last].cond /\ e.from = b /\ e.to = b + 1 /\ e.type # "jump"
        BY <2>1, <4>1
      <4>3. B[b + 1].first = B[b].last + 1
        BY <1>1, <2>1, <4>2, AlignedBlocks DEF B
      <4>4. /\ B[b + 1].first \in 1..Len(code) /\ code[B[b + 1].first].addr = B[b + 1].start
            /\ B[b].first \in 1..Len(code) /\ B[b].last \in B[b].first..Len(code)
        BY <2>1, <4>2, BlockLies DEF B
      <4>5. B[b].last \in 1..Len(code) /\ B[b].last < Len(code)
        BY <2>1, <4>3, <4>4
      <4>6. code[B[b].last + 1].addr = code[B[b].last].addr + code[B[b].last].size
        BY <2>1, <4>5 DEF Listing
      <4> QED BY <4>2, <4>3, <4>4, <4>6
    <3> QED BY <2>1, <3>1, <3>2
  <2>3. cfg.loopCount = Cardinality(Back(code))
    BY <1>1, <2>1, LoopsCounted
  <2>4. ASSUME NEW l \in DOMAIN cfg.loops
        PROVE  \E i \in Back(code) : /\ cfg.loops[l].at = code[i].addr
                                     /\ B[cfg.loops[l].to].start = code[i].target
    <3>1. /\ L \in Seq(LoopEdges(code)) /\ Len(L) \in Nat
          /\ \A k \in 1..Len(L) : L[k] \in LoopEdges(code)
      BY <2>1, LoopsAre
    <3> HIDE DEF L
    <3>2. cfg.loops[l] = L[l] /\ l \in 1..Len(L)
      BY <2>1, <3>1, ListedIs
    <3>3. L[l] \in LoopEdges(code)
      BY <3>1, <3>2
    <3>4. /\ B[L[l].from].last \in Back(code)
          /\ L[l].at = code[B[L[l].from].last].addr
          /\ B[L[l].to].start = code[B[L[l].from].last].target
      <4>1. L[l] \in LoopEdges(code) /\ Listing(code)
        BY <2>1, <3>3
      <4> QED BY <4>1, LoopEdgeIs
    <3> QED BY <3>2, <3>4
  <2> HIDE DEF B
  <2> QED BY <2>1, <2>2, <2>3, <2>4 DEF EdgesAndLoopsTrue, Back
<1>2. CfgInv => EdgesAndLoopsTrue
  BY <1>1 DEF EdgesAndLoopsTrue
<1> QED BY <1>2, CfgInvariance, PTL

\* Where no jump lands inside an instruction, the transforming loops listed are
\* the first backward jumps whose range, counted instruction by instruction,
\* transforms bytes, each with that count.
THEOREM TransformLoopsAreTrue == Spec => []TransformLoopsTrue
<1>1. ASSUME CfgInv, Analyzed, ~Misaligned(code) PROVE TransformLoopsTrue
  <2> DEFINE T == TransformLoops(code, Blocks(code))
             S == cfg.transforms
             listed == {<<S[k].first, S[k].last>> : k \in DOMAIN S}
  <2>1. Consecutive(code) /\ Listing(code) /\ S = Listed(T)
    BY <1>1, Results
  <2>2. /\ Len(T) \in Nat /\ T \in Seq({T[k] : k \in 1..Len(T)})
        /\ \A k \in 1..Len(T) :
              /\ <<T[k].first, T[k].last>> \in TransformRanges /\ T[k].last \in Nat
              /\ T[k].evidence = LoopTransformEvidence(T[k].first, T[k].last)
        /\ \A j, k \in 1..Len(T) : j < k => T[j].last < T[k].last
        /\ \A r \in TransformRanges : \E k \in 1..Len(T) : r = <<T[k].first, T[k].last>>
    BY <1>1, <2>1, TransformsAre
  <2> HIDE DEF T
  <2>3. /\ Len(S) = (IF Len(T) < MaxListed THEN Len(T) ELSE MaxListed)
        /\ Len(S) \in Nat /\ Len(S) <= Len(T) /\ DOMAIN S = 1..Len(S)
        /\ \A k \in 1..Len(S) : S[k] = T[k]
    <3> DEFINE V == {T[k] : k \in 1..Len(T)}
    <3>1. T \in Seq(V)
      BY <2>2
    <3> HIDE DEF V
    <3> QED BY <2>1, <3>1, ListedIs
  <2> HIDE DEF S
  <2>4. \A k \in 1..Len(S) : k \in 1..Len(T)
    BY <2>2, <2>3
  <2>5. \A k \in DOMAIN S : /\ <<S[k].first, S[k].last>> \in TransformRanges
                            /\ S[k].evidence = LoopTransformEvidence(S[k].first, S[k].last)
    BY <2>2, <2>3, <2>4
  <2>6. ASSUME NEW r \in TransformRanges \ listed
        PROVE  /\ Len(S) = MaxListed
               /\ \A s \in listed : s[2] < r[2]
    <3>1. PICK k \in 1..Len(T) : r = <<T[k].first, T[k].last>>
      BY <2>2
    <3>2. k \notin 1..Len(S)
      BY <2>3, <2>6, <3>1
    <3>3. Len(S) < k
      BY <2>2, <2>3, <3>2
    <3>4. ASSUME NEW s \in listed PROVE s[2] < r[2]
      <4>1. PICK j \in 1..Len(S) : s = <<S[j].first, S[j].last>>
        BY <2>3
      <4>2. j \in 1..Len(T) /\ j < k /\ S[j] = T[j]
        BY <2>2, <2>3, <2>4, <3>3, <4>1
      <4>3. T[j].last < T[k].last
        BY <2>2, <3>1, <4>2
      <4> QED BY <3>1, <4>1, <4>2, <4>3
    <3>5. Len(S) = MaxListed
      BY <2>2, <2>3, <3>3
    <3> HIDE DEF listed
    <3> QED BY <3>4, <3>5
  <2>7. listed \subseteq TransformRanges
    BY <2>5
  <2>8. TransformRanges # listed => Len(S) = MaxListed
    <3> HIDE DEF listed
    <3> QED BY <2>6, <2>7
  <2> QED BY <2>5, <2>6, <2>7, <2>8 DEF TransformLoopsTrue, TransformRanges, S
<1>2. CfgInv => TransformLoopsTrue
  BY <1>1 DEF TransformLoopsTrue
<1> QED BY <1>2, CfgInvariance, PTL
=============================================================================

--------------------------- MODULE Trackers_proofs ---------------------------
(***************************************************************************)
(* Proofs about the two trackers, for any registers, constants, stack      *)
(* depth and number of remembered pushes, and any function they read.      *)
(***************************************************************************)
EXTENDS Trackers, TLAPS, SequenceTheorems

Tracked == DEntries \cup {Opaque}

TypeOK ==
    /\ arch \in {"x86", "x86_64"} /\ hidden \in BOOLEAN
    /\ regs \in [Regs -> Values] /\ stk \in [Slots -> Values]
    /\ aReg \in [Regs -> AEntries \cup {None}] /\ dReg \in [Regs -> Tracked \cup {None}]
    /\ aSlot \in [Slots -> AEntries \cup {None}] /\ dSlot \in [Slots -> Tracked \cup {None}]
    /\ aPush \in Seq(AEntries) /\ dPush \in Seq(Tracked)

\* On x86_64 dataflow remembers no push.
NoPushes64 == arch = "x86_64" => dPush = <<>>

\* The inductive invariant: a register may be loaded from a slot and a slot
\* stored from a register, so that none of the parts is inductive alone.
Inv == TypeOK /\ NoPushes64 /\ RegistersTrue /\ StackArgsTrue /\ DataflowSubsumes
-----------------------------------------------------------------------------
\* The passes start a function with nothing.
LEMMA InvInit == Init => Inv
<1> SUFFICES ASSUME Init PROVE Inv
  OBVIOUS
<1> USE TrackersAssumption DEF Init, Nowhere
<1>1. aPush \in Seq(AEntries) /\ dPush \in Seq(Tracked)
  BY EmptySeq
<1>2. TypeOK
  <2>1. hidden \in BOOLEAN /\ arch \in {"x86", "x86_64"}
    OBVIOUS
  <2>2. /\ aReg \in [Regs -> AEntries \cup {None}] /\ dReg \in [Regs -> Tracked \cup {None}]
        /\ aSlot \in [Slots -> AEntries \cup {None}] /\ dSlot \in [Slots -> Tracked \cup {None}]
    OBVIOUS
  <2> QED BY <1>1, <2>1, <2>2 DEF TypeOK
<1>3. RegistersTrue
  BY DEF RegistersTrue, RegistersMatch, IsTrue
<1>4. StackArgsTrue
  BY DEF StackArgsTrue, StackArgsMatch, StackArg, IsTrue
<1>5. DataflowSubsumes /\ NoPushes64
  BY DEF DataflowSubsumes, Agree, NoPushes64
<1> QED BY <1>2, <1>3, <1>4, <1>5 DEF Inv

\* Each lookup knows an address by its number; dataflow's finds all that the
\* analyzer's finds, and takes it for the same if it is not ambiguous.
LEMMA LookupAgrees ==
    ASSUME NEW n \in Known
    PROVE  /\ ALookup(n) \in AEntries \cup {None} /\ DLookup(n) \in DEntries \cup {None}
           /\ ALookup(n) # None => ALookup(n).num = n
           /\ DLookup(n) # None => DLookup(n).num = n
           /\ Agree(ALookup(n), DLookup(n))
           /\ ALookup(n) = None /\ DLookup(n) # None => Ambiguous(n)
<1> USE TrackersAssumption DEF Values, AEntries, DEntries, AKinds, DKinds, Entry
<1>1. CASE n \in Arrays \cup Blobs
  <2>1. /\ DLookup(n) \in DEntries /\ DLookup(n).num = n
    BY <1>1 DEF DLookup
  <2>2. ALookup(n) \in AEntries \cup {None} /\ (ALookup(n) # None => ALookup(n).num = n)
    BY DEF ALookup
  <2>3. Ambiguous(n)
    BY <1>1 DEF Ambiguous
  <2>4. DLookup(n) \notin {None, Opaque}
    BY <2>1
  <2> HIDE DEF DEntries, AEntries, Entry
  <2> QED BY <2>1, <2>2, <2>3, <2>4 DEF Agree
<1>2. CASE n \notin Arrays \cup Blobs /\ n \in StringData \cup StringHeaders
  <2>1. /\ DLookup(n) \in DEntries /\ DLookup(n).num = n
        /\ DLookup(n).kind \in {"global_string", "global_string_header"}
    BY <1>2 DEF DLookup
  <2>2. /\ ALookup(n) \in AEntries /\ ALookup(n).num = n
        /\ ALookup(n).kind = IF n \in Functions THEN "function" ELSE "string"
    BY <1>2 DEF ALookup
  <2>3. n \in Functions => Ambiguous(n)
    BY <1>2 DEF Ambiguous
  <2>4. DLookup(n) \notin {None, Opaque} /\ ALookup(n) # None
    BY <2>1, <2>2
  <2> HIDE DEF DEntries, AEntries, Entry
  <2> QED BY <2>1, <2>2, <2>3, <2>4 DEF Agree, DKindsOf
<1>3. CASE /\ n \notin Arrays \cup Blobs \cup StringData \cup StringHeaders
           /\ n \in Functions
  <2>1. DLookup(n) \in DEntries /\ DLookup(n).num = n /\ DLookup(n).kind = "function"
    BY <1>3 DEF DLookup
  <2>2. ALookup(n) \in AEntries /\ ALookup(n).num = n /\ ALookup(n).kind = "function"
    BY <1>3 DEF ALookup
  <2>3. DLookup(n) \notin {None, Opaque} /\ ALookup(n) # None
    BY <2>1, <2>2
  <2> HIDE DEF DEntries, AEntries, Entry
  <2> QED BY <2>1, <2>2, <2>3 DEF Agree, DKindsOf
<1>4. CASE n \notin Arrays \cup Blobs \cup StringData \cup StringHeaders \cup Functions
  <2>1. DLookup(n) = None /\ ALookup(n) = None
    BY <1>4 DEF DLookup, ALookup
  <2> QED BY <2>1 DEF Agree
<1> QED BY <1>1, <1>2, <1>3, <1>4

\* What is made of a number that may be the address of something.
LEMMA NumberAgrees ==
    ASSUME NEW n \in Known, NEW kind \in {"int", "ptr"}
    PROVE  LET a == OrElse(ALookup(n), Entry(kind, n))
               d == OrElse(DLookup(n), Entry(kind, n))
           IN  /\ a \in AEntries /\ d \in DEntries
               /\ a.num = n /\ d.num = n
               /\ Agree(a, d)
<1>1. /\ Entry(kind, n) \in AEntries /\ Entry(kind, n) \in DEntries
      /\ Entry(kind, n).num = n /\ Entry(kind, n).kind = kind
  BY DEF Entry, AEntries, DEntries, AKinds, DKinds, Values
<1>2. /\ DEntries \cap {None, Opaque} = {} /\ None \notin AEntries
  BY TrackersAssumption
<1>3. CASE ALookup(n) # None
  BY <1>1, <1>2, <1>3, LookupAgrees DEF OrElse, Agree
<1>4. CASE ALookup(n) = None
  BY <1>1, <1>2, <1>4, LookupAgrees DEF OrElse, Agree, DKindsOf
<1> QED BY <1>3, <1>4

\* What either pass takes from an operand is of the right kind, dataflow takes
\* what the analyzer takes, and what is neither guessed nor out of sight is true.
LEMMA OperandTrue ==
    ASSUME Inv, NEW o \in Operands
    PROVE  /\ Holds(o) \subseteq Values
           /\ AValue(o) \in AEntries \cup {None}
           /\ DValue(o) \in Tracked \cup {None}
           /\ Agree(AValue(o), DValue(o))
           /\ ~hidden /\ ~Guessed(o) => \A v \in Holds(o) : IsTrue(AValue(o), v) /\ IsTrue(DValue(o), v)
<1> USE TrackersAssumption DEF Inv, TypeOK, Tracked
<1>1. CASE o \in [kind : {"reg"}, of : Regs]
  <2>1. o.kind = "reg" /\ o.of \in Regs
    BY <1>1
  <2>2. Holds(o) = {regs[o.of]} /\ AValue(o) = aReg[o.of] /\ DValue(o) = dReg[o.of]
    BY <2>1 DEF Holds, AValue, DValue
  <2> QED BY <2>1, <2>2 DEF DataflowSubsumes, RegistersTrue, RegistersMatch
<1>2. CASE o \in [kind : {"imm"}, of : Known]
  <2>1. o.kind = "imm" /\ o.of \in Known
    BY <1>2
  <2>2. /\ Holds(o) = {o.of}
        /\ AValue(o) = OrElse(ALookup(o.of), Entry("int", o.of))
        /\ DValue(o) = OrElse(DLookup(o.of), Entry("int", o.of))
    BY <2>1 DEF Holds, AValue, DValue
  <2> QED BY <2>1, <2>2, NumberAgrees DEF IsTrue, Values
<1>3. CASE o \in [kind : {"address"}, of : Addresses]
  <2>1. o.kind = "address" /\ o.of \in Known
    BY <1>3 DEF Addresses
  <2>2. /\ Holds(o) = {o.of}
        /\ AValue(o) = OrElse(ALookup(o.of), Entry("ptr", o.of))
        /\ DValue(o) = OrElse(DLookup(o.of), Entry("ptr", o.of))
    BY <2>1 DEF Holds, AValue, DValue
  <2> QED BY <2>1, <2>2, NumberAgrees DEF IsTrue, Values
<1>4. CASE o \in [kind : {"at"}, of : Addresses]
  <2>1. o.kind = "at" /\ o.of \in Known
    BY <1>4 DEF Addresses
  <2>2. /\ Holds(o) = Values
        /\ AValue(o) = ALookup(o.of) /\ DValue(o) = DLookup(o.of)
    BY <2>1 DEF Holds, AValue, DValue
  <2>3. ~Guessed(o) => AValue(o) = None /\ DValue(o) = None
    BY <2>1 DEF Guessed
  <2> QED BY <2>1, <2>2, <2>3, LookupAgrees DEF IsTrue
<1>5. CASE o \in [kind : {"mem"}, of : Regs]
  <2>1. o.kind = "mem"
    BY <1>5
  <2>2. Holds(o) = Values /\ AValue(o) = None /\ DValue(o) = Opaque
    BY <2>1 DEF Holds, AValue, DValue
  <2> QED BY <2>2 DEF IsTrue, Agree
<1>6. CASE o \in [kind : {"slot", "indexed"}, of : Slots]
  <2>1. o.kind \in {"slot", "indexed"} /\ o.of \in Slots
    BY <1>6
  <2>2. /\ AValue(o) = None /\ DValue(o) = dSlot[o.of]
        /\ Holds(o) = IF o.kind = "slot" THEN {stk[o.of]} ELSE Values
    BY <2>1 DEF Holds, AValue, DValue
  <2>3. o.kind = "indexed" /\ ~Guessed(o) => DValue(o) = None
    BY <2>1 DEF Guessed
  <2>4. ~hidden => IsTrue(dSlot[o.of], stk[o.of])
    BY <2>1 DEF StackArgsTrue, StackArgsMatch, StackArg, IsTrue
  <2> QED BY <2>1, <2>2, <2>3, <2>4 DEF IsTrue, Agree
<1> QED BY <1>1, <1>2, <1>3, <1>4, <1>5, <1>6 DEF Operands, Pushable, Loads, Direct

\* A push puts its value before the values remembered, and forgets the oldest ones.
LEMMA PushedIs ==
    ASSUME NEW T, NEW p \in Seq(T), NEW t \in T, t # None
    PROVE  /\ Pushed(p, t) \in Seq(T)
           /\ Len(Pushed(p, t)) <= Len(p) + 1
           /\ \A i \in 1..Len(Pushed(p, t)) : Pushed(p, t)[i] = IF i = 1 THEN t ELSE p[i - 1]
<1> DEFINE q == <<t>> \o p
           n == IF Len(q) < MaxPushed THEN Len(q) ELSE MaxPushed
<1>1. <<t>> \in Seq(T) /\ Len(<<t>>) = 1 /\ <<t>>[1] = t
  OBVIOUS
<1>2. /\ q \in Seq(T) /\ Len(q) = 1 + Len(p)
      /\ \A i \in 1..Len(q) : q[i] = IF i = 1 THEN t ELSE p[i - 1]
  BY <1>1, ConcatProperties
<1>3. n \in 0..Len(q)
  BY <1>2, TrackersAssumption
<1>4. Pushed(p, t) = SubSeq(q, 1, n)
  BY DEF Pushed, Upto
<1> HIDE DEF q, n
<1>5. /\ SubSeq(q, 1, n) \in Seq(T) /\ Len(SubSeq(q, 1, n)) = n
      /\ \A i \in 1..n : SubSeq(q, 1, n)[i] = q[i]
  BY <1>2, <1>3, SubSeqProperties
<1> QED BY <1>2, <1>3, <1>4, <1>5

\* If the pushes remembered are those on the stack, they are so after one more.
LEMMA PushHolds ==
    ASSUME NEW T, NEW p \in Seq(T), NEW t \in T \cup {None}, NEW v, IsTrue(t, v),
           t = None => p = <<>>,
           \A k \in Slots : k < Len(p) => IsTrue(p[k + 1], stk[k]),
           NEW i \in Slots
    PROVE  i < Len(Pushed(p, t)) => IsTrue(Pushed(p, t)[i + 1], Shifted(v)[i])
<1> USE TrackersAssumption DEF Slots
<1>1. CASE t = None
  BY <1>1, Len(<<>>) = 0 DEF Pushed
<1>2. CASE t # None
  <2> SUFFICES ASSUME i < Len(Pushed(p, t))
               PROVE  IsTrue(Pushed(p, t)[i + 1], Shifted(v)[i])
    OBVIOUS
  <2>1. /\ Len(Pushed(p, t)) \in Nat /\ Len(Pushed(p, t)) <= Len(p) + 1
        /\ Pushed(p, t)[i + 1] = IF i + 1 = 1 THEN t ELSE p[i + 1 - 1]
    BY <1>2, PushedIs
  <2>2. CASE i = 0
    BY <2>1, <2>2 DEF Shifted
  <2>3. CASE i # 0
    <3>1. i - 1 \in Slots /\ i - 1 < Len(p) /\ (i - 1) + 1 = i /\ i + 1 - 1 = i
      BY <2>1, <2>3
    <3> QED BY <2>1, <2>3, <3>1 DEF Shifted
  <2> QED BY <2>2, <2>3
<1> QED BY <1>1, <1>2

\* Every instruction keeps the invariant.
LEMMA InvStep == Inv /\ [Next]_vars => Inv'
<1> SUFFICES ASSUME Inv, [Next]_vars PROVE Inv'
  OBVIOUS
<1> USE TrackersAssumption DEF Inv, TypeOK, stacks, Tracked
<1>0. /\ Zero \in Values /\ Other \subseteq Values
      /\ Entry("int", Zero) \in DEntries /\ Entry("int", Zero).num = Zero
  BY DEF Values, Entry, DEntries, DKinds
<1>1. ASSUME NEW r \in Regs, NEW o \in Operands, Mov(r, o) PROVE Inv'
  <2>1. TypeOK'
    BY <1>1, OperandTrue DEF Mov, WriteReg, TypeOK
  <2>2. RegistersTrue'
    BY <1>1, OperandTrue DEF Mov, WriteReg, RegistersTrue, RegistersMatch
  <2>3. StackArgsTrue'
    BY <1>1, OperandTrue DEF Mov, WriteReg, StackArgsTrue, StackArgsMatch, StackArg, IsTrue
  <2>4. DataflowSubsumes' /\ NoPushes64'
    BY <1>1, OperandTrue DEF Mov, WriteReg, DataflowSubsumes, NoPushes64
  <2> QED BY <2>1, <2>2, <2>3, <2>4
<1>2. ASSUME NEW r \in Regs, Write(r) PROVE Inv'
  <2>1. TypeOK'
    BY <1>2 DEF Write, WriteReg, TypeOK
  <2>2. RegistersTrue'
    BY <1>2 DEF Write, WriteReg, RegistersTrue, RegistersMatch, IsTrue
  <2>3. StackArgsTrue'
    BY <1>2 DEF Write, WriteReg, StackArgsTrue, StackArgsMatch, StackArg, IsTrue
  <2>4. DataflowSubsumes' /\ NoPushes64'
    BY <1>2 DEF Write, WriteReg, DataflowSubsumes, Agree, NoPushes64
  <2> QED BY <2>1, <2>2, <2>3, <2>4
<1>3. ASSUME NEW r \in Regs, Clear(r) PROVE Inv'
  <2>1. TypeOK'
    BY <1>0, <1>3 DEF Clear, WriteReg, TypeOK
  <2>2. RegistersTrue'
    BY <1>0, <1>3 DEF Clear, WriteReg, RegistersTrue, RegistersMatch, IsTrue
  <2>3. StackArgsTrue'
    BY <1>0, <1>3 DEF Clear, WriteReg, StackArgsTrue, StackArgsMatch, StackArg, IsTrue
  <2>4. DataflowSubsumes' /\ NoPushes64'
    BY <1>0, <1>3 DEF Clear, WriteReg, DataflowSubsumes, Agree, NoPushes64
  <2> QED BY <2>1, <2>2, <2>3, <2>4
<1>4. ASSUME NEW r \in Regs, Compare(r) PROVE Inv'
  <2>1. TypeOK'
    BY <1>4 DEF Compare, WriteReg, TypeOK
  <2>2. RegistersTrue'
    BY <1>4 DEF Compare, WriteReg, RegistersTrue, RegistersMatch, IsTrue
  <2>3. StackArgsTrue'
    BY <1>4 DEF Compare, WriteReg, StackArgsTrue, StackArgsMatch, StackArg, IsTrue
  <2>4. DataflowSubsumes' /\ NoPushes64'
    BY <1>4 DEF Compare, WriteReg, DataflowSubsumes, Agree, NoPushes64
  <2> QED BY <2>1, <2>2, <2>3, <2>4
<1>5. ASSUME NEW r \in Regs, Pop(r) PROVE Inv'
  <2>1. TypeOK'
    <3>1. PICK v \in Values : stk' = [i \in Slots |-> IF i = MaxSlot THEN v ELSE stk[i + 1]]
      BY <1>5 DEF Pop
    <3>2. stk' \in [Slots -> Values]
      BY <3>1 DEF Slots
    <3>3. regs' \in [Regs -> Values] /\ aReg' \in [Regs -> AEntries \cup {None}]
                                    /\ dReg' \in [Regs -> Tracked \cup {None}]
      BY <1>5 DEF Pop, WriteReg, Slots
    <3>4. hidden' \in BOOLEAN /\ UNCHANGED <<arch, stacks>>
      BY <1>5 DEF Pop
    <3> QED BY <3>2, <3>3, <3>4
  <2>2. RegistersTrue'
    BY <1>5 DEF Pop, WriteReg, FollowedStack, FollowedSlot, RegistersTrue, RegistersMatch, IsTrue
  <2>3. StackArgsTrue'
    BY <1>5 DEF Pop, WriteReg, FollowedStack, FollowedSlot, StackArgsTrue, StackArgsMatch, StackArg, IsTrue
  <2>4. DataflowSubsumes' /\ NoPushes64'
    BY <1>5 DEF Pop, WriteReg, FollowedStack, FollowedSlot, DataflowSubsumes, Agree, NoPushes64
  <2> QED BY <2>1, <2>2, <2>3, <2>4
<1>6. ASSUME NEW i \in Slots, NEW o \in Direct, Store(i, o) PROVE Inv'
  <2>0. o \in Operands /\ ~Guessed(o)
    BY DEF Operands, Pushable, Direct, Guessed
  <2>1. TypeOK'
    BY <1>6, <2>0, OperandTrue DEF Store, StoreSlot, TypeOK
  <2>2. RegistersTrue'
    BY <1>6, <2>0, OperandTrue DEF Store, StoreSlot, RegistersTrue, RegistersMatch, IsTrue
  <2>3. StackArgsTrue'
    <3> SUFFICES ASSUME ~hidden', NEW k \in Slots
                 PROVE  /\ IsTrue(StackArg(aPush, aSlot', k), stk'[k])
                        /\ IsTrue(StackArg(dPush, dSlot', k), stk'[k])
      BY <1>6 DEF Store, StoreSlot, StackArgsTrue, StackArgsMatch
    <3>1. ~hidden /\ StackArgsMatch
      BY <1>6 DEF Store, StoreSlot, StackArgsTrue
    <3>2. CASE k # i
      <4>1. aSlot'[k] = aSlot[k] /\ dSlot'[k] = dSlot[k] /\ stk'[k] = stk[k]
        BY <1>6, <3>2 DEF Store, StoreSlot
      <4> QED BY <3>1, <4>1 DEF StackArgsMatch, StackArg
    <3>3. CASE k = i
      <4>1. PICK v \in Holds(o) : stk'[i] = v
        BY <1>6 DEF Store, StoreSlot
      <4>2. IsTrue(AValue(o), v) /\ IsTrue(DValue(o), v)
        BY <2>0, <3>1, <4>1, OperandTrue
      <4>3. /\ aSlot'[i] = None => ~ (i < Len(aPush))
            /\ dSlot'[i] = None => ~ (i < Len(dPush))
            /\ aSlot'[i] \in {AValue(o), None} /\ dSlot'[i] = DValue(o)
        BY <1>6 DEF Store, StoreSlot
      <4> QED BY <3>3, <4>1, <4>2, <4>3 DEF StackArg, IsTrue
    <3> QED BY <3>2, <3>3
  <2>4. DataflowSubsumes' /\ NoPushes64'
    BY <1>6, <2>0, OperandTrue DEF Store, StoreSlot, DataflowSubsumes, Agree, NoPushes64
  <2> QED BY <2>1, <2>2, <2>3, <2>4
<1>7. ASSUME NEW o \in Pushable, Push(o) PROVE Inv'
  <2>0. o \in Operands
    BY DEF Operands
  <2> DEFINE a == AValue(o)
             d == DValue(o)
  <2>1. PICK v \in Values :
          /\ v \in Holds(o) /\ stk' = Shifted(v)
          /\ ~hidden /\ ~Guessed(o) => IsTrue(a, v) /\ IsTrue(d, v)
    BY <1>7, <2>0, OperandTrue DEF Push
  <2>2. /\ aPush' = Pushed(aPush, a)
        /\ dPush' = IF arch = "x86" THEN Pushed(dPush, d) ELSE dPush
        /\ a \in AEntries \cup {None} /\ d \in Tracked \cup {None}
        /\ UNCHANGED <<arch, regs, aReg, dReg, aSlot, dSlot>>
    BY <1>7, <2>0, OperandTrue DEF Push
  <2>3. hidden' = (hidden \/ Guessed(o) \/ (\E i \in Slots : aSlot[i] # None \/ dSlot[i] # None)
                          \/ (a = None /\ aPush # <<>>) \/ (d = None /\ dPush # <<>>))
    BY <1>7 DEF Push
  <2> HIDE DEF a, d
  <2>4. TypeOK'
    <3>1. aPush' \in Seq(AEntries)
      BY <2>2, PushedIs DEF Pushed
    <3>2. dPush' \in Seq(Tracked)
      BY <2>2, PushedIs DEF Pushed
    <3>3. stk' \in [Slots -> Values]
      BY <2>1 DEF Shifted, Slots
    <3>4. hidden' \in BOOLEAN
      BY <2>3
    <3> QED BY <2>2, <3>1, <3>2, <3>3, <3>4
  <2>5. RegistersTrue'
    BY <2>2, <2>3 DEF RegistersTrue, RegistersMatch
  <2>6. StackArgsTrue'
    <3> SUFFICES ASSUME ~hidden', NEW i \in Slots
                 PROVE  /\ IsTrue(StackArg(aPush', aSlot, i), stk'[i])
                        /\ IsTrue(StackArg(dPush', dSlot, i), stk'[i])
      BY <2>2 DEF StackArgsTrue, StackArgsMatch
    <3>1. /\ ~hidden /\ ~Guessed(o) /\ StackArgsMatch
          /\ \A k \in Slots : aSlot[k] = None /\ dSlot[k] = None
      BY <2>3 DEF StackArgsTrue
    <3>2. \A k \in Slots : /\ k < Len(aPush) => IsTrue(aPush[k + 1], stk[k])
                           /\ k < Len(dPush) => IsTrue(dPush[k + 1], stk[k])
      BY <3>1 DEF StackArgsMatch, StackArg
    <3>4. IsTrue(StackArg(aPush', aSlot, i), stk'[i])
      <4>1. i < Len(aPush') => IsTrue(aPush'[i + 1], stk'[i])
        <5>1. a = None => aPush = <<>>
          BY <2>2, <2>3
        <5> QED BY <2>1, <2>2, <3>1, <3>2, <5>1, PushHolds
      <4> QED BY <3>1, <4>1 DEF StackArg, IsTrue
    <3>5. IsTrue(StackArg(dPush', dSlot, i), stk'[i])
      <4>1. i < Len(dPush') => IsTrue(dPush'[i + 1], stk'[i])
        <5>1. CASE arch = "x86"
          <6>1. d = None => dPush = <<>>
            BY <2>2, <2>3
          <6> QED BY <2>1, <2>2, <3>1, <3>2, <5>1, <6>1, PushHolds
        <5>2. CASE arch # "x86"
          BY <2>2, <5>2, Len(<<>>) = 0 DEF NoPushes64, Slots
        <5> QED BY <5>1, <5>2
      <4> QED BY <3>1, <4>1 DEF StackArg, IsTrue
    <3> QED BY <3>4, <3>5
  <2>7. DataflowSubsumes' /\ NoPushes64'
    BY <2>2 DEF DataflowSubsumes, Agree, NoPushes64
  <2> QED BY <2>4, <2>5, <2>6, <2>7
<1>8. ASSUME NEW noise \in BOOLEAN, Call(noise) PROVE Inv'
  <2>1. TypeOK'
    BY <1>8 DEF Call, Nowhere, TypeOK
  <2>2. RegistersTrue'
    BY <1>8 DEF Call, Nowhere, RegistersTrue, RegistersMatch, IsTrue
  <2>3. StackArgsTrue'
    BY <1>8 DEF Call, Nowhere, Slots, StackArgsTrue, StackArgsMatch, StackArg, IsTrue
  <2>4. DataflowSubsumes' /\ NoPushes64'
    BY <1>8 DEF Call, Nowhere, DataflowSubsumes, Agree, NoPushes64
  <2> QED BY <2>1, <2>2, <2>3, <2>4
<1>9. ASSUME NEW r \in Regs, NEW i \in Slots, LeaSlot(r, i) PROVE Inv'
  <2>1. TypeOK'
    BY <1>0, <1>9 DEF LeaSlot, WriteReg, TypeOK
  <2>2. RegistersTrue'
    BY <1>0, <1>9 DEF LeaSlot, WriteReg, RegistersTrue, RegistersMatch, IsTrue
  <2>3. StackArgsTrue'
    BY <1>0, <1>9 DEF LeaSlot, WriteReg, StackArgsTrue, StackArgsMatch, StackArg, IsTrue
  <2>4. DataflowSubsumes' /\ NoPushes64'
    BY <1>0, <1>9 DEF LeaSlot, WriteReg, DataflowSubsumes, Agree, NoPushes64
  <2> QED BY <2>1, <2>2, <2>3, <2>4
<1>10. ASSUME NEW r \in Regs, NEW o \in Pushable, MovPart(r, o) PROVE Inv'
  <2>0. o \in Operands
    BY DEF Operands
  <2>1. TypeOK'
    BY <1>10, <2>0, OperandTrue DEF MovPart, WriteReg, TypeOK
  <2>2. RegistersTrue' /\ StackArgsTrue'
    BY <1>10 DEF MovPart, RegistersTrue, StackArgsTrue
  <2>3. DataflowSubsumes' /\ NoPushes64'
    BY <1>10, <2>0, OperandTrue DEF MovPart, WriteReg, DataflowSubsumes, NoPushes64
  <2> QED BY <2>1, <2>2, <2>3
<1>11. ASSUME NEW r \in Regs, NEW s \in Regs, WriteSecond(r, s) PROVE Inv'
  <2>1. TypeOK'
    BY <1>11 DEF WriteSecond, FollowedReg, TypeOK
  <2>2. RegistersTrue'
    <3> SUFFICES ASSUME ~hidden', NEW q \in Regs
                 PROVE  IsTrue(aReg'[q], regs'[q]) /\ IsTrue(dReg'[q], regs'[q])
      BY DEF RegistersTrue, RegistersMatch
    <3>1. ~hidden /\ aReg[s] = None /\ dReg[s] = None
      BY <1>11 DEF WriteSecond, FollowedReg
    <3>2. CASE q = r \/ q = s
      BY <1>11, <3>1, <3>2 DEF WriteSecond, IsTrue
    <3>3. CASE q # r /\ q # s
      BY <1>11, <3>1, <3>3 DEF WriteSecond, RegistersTrue, RegistersMatch
    <3> QED BY <3>2, <3>3
  <2>3. StackArgsTrue'
    BY <1>11 DEF WriteSecond, FollowedReg, StackArgsTrue, StackArgsMatch, StackArg, IsTrue
  <2>4. DataflowSubsumes' /\ NoPushes64'
    BY <1>11 DEF WriteSecond, FollowedReg, DataflowSubsumes, Agree, NoPushes64
  <2> QED BY <2>1, <2>2, <2>3, <2>4
<1>12. ASSUME NEW i \in Slots, ModifySlot(i) PROVE Inv'
  <2>1. TypeOK'
    BY <1>12 DEF ModifySlot, FollowedSlot, aVars, dVars, TypeOK
  <2>2. RegistersTrue'
    BY <1>12 DEF ModifySlot, FollowedSlot, aVars, dVars, RegistersTrue, RegistersMatch, IsTrue
  <2>3. StackArgsTrue'
    <3> SUFFICES ASSUME ~hidden', NEW k \in Slots
                 PROVE  /\ IsTrue(StackArg(aPush, aSlot, k), stk'[k])
                        /\ IsTrue(StackArg(dPush, dSlot, k), stk'[k])
      BY <1>12 DEF ModifySlot, aVars, dVars, StackArgsTrue, StackArgsMatch
    <3>1. ~hidden /\ ~FollowedSlot(i) /\ StackArgsMatch
      BY <1>12 DEF ModifySlot, StackArgsTrue
    <3>2. CASE k # i
      BY <1>12, <3>1, <3>2 DEF ModifySlot, StackArgsMatch
    <3>3. CASE k = i
      BY <3>1, <3>3 DEF FollowedSlot, StackArg, IsTrue
    <3> QED BY <3>2, <3>3
  <2>4. DataflowSubsumes' /\ NoPushes64'
    BY <1>12 DEF ModifySlot, FollowedSlot, aVars, dVars, DataflowSubsumes, Agree, NoPushes64
  <2> QED BY <2>1, <2>2, <2>3, <2>4
<1>13. ASSUME Join PROVE Inv'
  <2>1. TypeOK'
    BY <1>13 DEF Join, FollowedStack, FollowedSlot, FollowedReg, aVars, dVars, TypeOK
  <2>2. RegistersTrue'
    BY <1>13 DEF Join, FollowedStack, FollowedSlot, FollowedReg, aVars, dVars, RegistersTrue, RegistersMatch, IsTrue
  <2>3. StackArgsTrue'
    BY <1>13 DEF Join, FollowedStack, FollowedSlot, FollowedReg, aVars, dVars, StackArgsTrue, StackArgsMatch, StackArg, IsTrue
  <2>4. DataflowSubsumes' /\ NoPushes64'
    BY <1>13 DEF Join, FollowedStack, FollowedSlot, FollowedReg, aVars, dVars, DataflowSubsumes, Agree, NoPushes64
  <2> QED BY <2>1, <2>2, <2>3, <2>4
<1>14. ASSUME NEW r \in Regs, ClearPart(r) PROVE Inv'
  <2>1. TypeOK'
    BY <1>0, <1>14 DEF ClearPart, WriteReg, TypeOK
  <2>2. RegistersTrue' /\ StackArgsTrue'
    BY <1>14 DEF ClearPart, RegistersTrue, StackArgsTrue
  <2>3. DataflowSubsumes' /\ NoPushes64'
    BY <1>14 DEF ClearPart, WriteReg, DataflowSubsumes, Agree, NoPushes64
  <2> QED BY <2>1, <2>2, <2>3
<1>15. ASSUME NEW i \in Slots, NEW o \in Direct, StorePart(i, o) \/ StoreIndexed(i, o) PROVE Inv'
  <2>0. o \in Operands
    BY DEF Operands, Pushable
  <2>1. /\ stk' \in [Slots -> Values] /\ hidden' = TRUE
        /\ StoreSlot(i, o)
    BY <1>15 DEF StorePart, StoreIndexed
  <2>2. TypeOK'
    BY <2>0, <2>1, OperandTrue DEF StoreSlot, TypeOK
  <2>3. RegistersTrue' /\ StackArgsTrue'
    BY <2>1 DEF RegistersTrue, StackArgsTrue
  <2>4. DataflowSubsumes' /\ NoPushes64'
    <3>1. Agree(None, DValue(o))
      BY DEF Agree
    <3> QED BY <2>0, <2>1, <3>1, OperandTrue DEF StoreSlot, DataflowSubsumes, NoPushes64
  <2> QED BY <2>2, <2>3, <2>4
<1>16. CASE UNCHANGED vars
  BY <1>16 DEF vars, machine, aVars, dVars, RegistersTrue, RegistersMatch, StackArgsTrue, StackArgsMatch, StackArg, DataflowSubsumes, Agree, NoPushes64
<1> QED
  BY <1>1, <1>2, <1>3, <1>4, <1>5, <1>6, <1>7, <1>8, <1>9, <1>10, <1>11, <1>12, <1>13, <1>14, <1>15, <1>16 DEF Next

\* The types of the variables.
THEOREM TypeCorrect == Spec => []TypeOK
<1>1. Inv => TypeOK
  BY DEF Inv
<1> QED BY <1>1, InvInit, InvStep, PTL DEF Spec

\* A number either pass holds of a register is in the register, until one of the named
\* events: for any function and any number of registers, numbers and known addresses.
THEOREM RegistersAreTrue == Spec => []RegistersTrue
<1>1. Inv => RegistersTrue
  BY DEF Inv
<1> QED BY <1>1, InvInit, InvStep, PTL DEF Spec

\* The same for the arguments on the stack, at any depth and with any number of pushes.
THEOREM StackArgsAreTrue == Spec => []StackArgsTrue
<1>1. Inv => StackArgsTrue
  BY DEF Inv
<1> QED BY <1>1, InvInit, InvStep, PTL DEF Spec

\* Whatever happened out of sight, dataflow holds every number the analyzer holds,
\* and takes it for the same thing unless its address is ambiguous.
THEOREM DataflowKnowsMore == Spec => []DataflowSubsumes
<1>1. Inv => DataflowSubsumes
  BY DEF Inv
<1> QED BY <1>1, InvInit, InvStep, PTL DEF Spec
=============================================================================

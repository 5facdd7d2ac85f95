------------------------------- MODULE Trackers -------------------------------
(***************************************************************************)
(* Two passes follow the constants of a function through its registers and *)
(* its stack: Analyzer.analyze_function (variables a...) and               *)
(* FunctionDataflow.analyze of passes/dataflow.py (variables d...).  Both  *)
(* walk the instructions in layout order and drop a value at the writes    *)
(* they see.  Here they walk in step with the machine itself, over every   *)
(* sequence of instructions: what they hold of a register, a stack slot or *)
(* a pushed argument is to be what the machine holds there.                *)
(*                                                                         *)
(* Some instructions change a place without the passes noticing, or are    *)
(* taken for others.  hidden becomes TRUE when one of them touches a place *)
(* that is being followed, or makes a pass follow one.                     *)
(* A tracked value is a number with the kind of thing it was looked up to  *)
(* be, or Opaque: an entry that claims no number (field_load, call_return, *)
(* stack_address).  Slots off the frame pointer are left out.              *)
(***************************************************************************)
EXTENDS Sequences, Naturals

CONSTANTS
    Regs,       \* canonical registers, but for the stack pointer
    AbiRegs,    \* ABI_INT_REGS
    RAX,        \* the register of the return value
    Known,      \* numbers that operands spell out
    Other,      \* values of the machine no operand spells out
    Functions, StringData, StringHeaders,  \* user_by_start, string_data, string_headers
    Arrays, Blobs,  \* addresses in the ranges of dataflow's constant arrays and blobs
    Zero,       \* 0
    MaxSlot,    \* the last stack slot considered, at 0x100 in the code
    MaxPushed,  \* pushes remembered, 16 in the code
    None, Opaque

Values == Known \cup Other
AKinds == {"int", "ptr", "function", "string"}
DKinds == {"int", "ptr", "function", "global_string", "global_string_header",
           "constant_array", "data_blob"}
Entry(kind, n) == [kind |-> kind, num |-> n]
AEntries == [kind : AKinds, num : Values]
DEntries == [kind : DKinds, num : Values]

ASSUME TrackersAssumption ==
    /\ AbiRegs \subseteq Regs /\ RAX \in AbiRegs
    /\ Zero \in Known
    /\ Known \cap Other = {}
    /\ None \notin AEntries \cup DEntries /\ Opaque \notin AEntries \cup DEntries
    /\ None # Opaque
    /\ MaxSlot \in Nat /\ MaxPushed \in Nat

VARIABLES
    arch,               \* "x86" or "x86_64"
    regs, stk,          \* the machine: registers, and the stack above its top
    aReg, aSlot, aPush, \* registers, stack_arg_slots and pushed_args
    dReg, dSlot, dPush, \* registers, stack_slots and pushed_args
    hidden              \* a followed place was changed out of sight (history)

machine == <<regs, stk>>
aVars == <<aReg, aSlot, aPush>>
dVars == <<dReg, dSlot, dPush>>
stacks == <<aSlot, aPush, dSlot, dPush>>
vars == <<arch, machine, aVars, dVars, hidden>>

Slots == 0..MaxSlot
Nowhere == [i \in Slots |-> None]

Init ==
    /\ arch \in {"x86", "x86_64"}
    /\ regs \in [Regs -> Values] /\ stk \in [Slots -> Values]
    /\ aReg = [r \in Regs |-> None] /\ dReg = [r \in Regs |-> None]
    /\ aSlot = Nowhere /\ dSlot = Nowhere
    /\ aPush = <<>> /\ dPush = <<>>
    /\ hidden = FALSE

\* What is known of an address: Analyzer.value_from_address and dataflow's
\* value_for_address, which look in different places and in another order.
ALookup(n) ==
    CASE n \in Functions -> Entry("function", n)
      [] n \notin Functions /\ n \in StringData \cup StringHeaders -> Entry("string", n)
      [] OTHER -> None

\* Mutant: dataflow does not know the functions.
DLookupOfData(n) ==
    CASE n \in Arrays -> Entry("constant_array", n)
      [] n \notin Arrays /\ n \in Blobs -> Entry("data_blob", n)
      [] n \notin Arrays \cup Blobs /\ n \in StringData -> Entry("global_string", n)
      [] n \notin Arrays \cup Blobs \cup StringData /\ n \in StringHeaders ->
            Entry("global_string_header", n)
      [] OTHER -> None

DLookup(n) ==
    CASE n \in Arrays -> Entry("constant_array", n)
      [] n \notin Arrays /\ n \in Blobs -> Entry("data_blob", n)
      [] n \notin Arrays \cup Blobs /\ n \in StringData -> Entry("global_string", n)
      [] n \notin Arrays \cup Blobs \cup StringData /\ n \in StringHeaders ->
            Entry("global_string_header", n)
      [] n \notin Arrays \cup Blobs \cup StringData \cup StringHeaders /\ n \in Functions ->
            Entry("function", n)
      [] OTHER -> None

OrElse(t, u) == IF t # None THEN t ELSE u

\* Source operands: a register, an immediate, memory at an address spelt out in
\* the instruction (off RIP, or absolute on x86), memory through a register,
\* [rsp+i], [rsp+i] with an index register; and, for lea, a spelt-out address.
Addresses == Known \ {Zero}
Direct == [kind : {"reg"}, of : Regs] \cup [kind : {"imm"}, of : Known]
Loads == [kind : {"at"}, of : Addresses] \cup [kind : {"mem"}, of : Regs]
            \cup [kind : {"slot", "indexed"}, of : Slots]
Pushable == Direct \cup Loads
Operands == Pushable \cup [kind : {"address"}, of : Addresses]

\* What the machine may find there, and value_from_operand of either pass.
Holds(o) ==
    CASE o.kind = "reg" -> {regs[o.of]}
      [] o.kind \in {"imm", "address"} -> {o.of}
      [] o.kind \in {"at", "mem", "indexed"} -> Values
      [] o.kind = "slot" -> {stk[o.of]}

AValue(o) ==
    CASE o.kind = "reg" -> aReg[o.of]
      [] o.kind = "imm" -> OrElse(ALookup(o.of), Entry("int", o.of))
      [] o.kind = "address" -> OrElse(ALookup(o.of), Entry("ptr", o.of))
      [] o.kind = "at" -> ALookup(o.of)
      [] o.kind \in {"mem", "slot", "indexed"} -> None

DValue(o) ==
    CASE o.kind = "reg" -> dReg[o.of]
      [] o.kind = "imm" -> OrElse(DLookup(o.of), Entry("int", o.of))
      [] o.kind = "address" -> OrElse(DLookup(o.of), Entry("ptr", o.of))
      [] o.kind = "at" -> DLookup(o.of)
      [] o.kind = "mem" -> Opaque
      [] o.kind \in {"slot", "indexed"} -> dSlot[o.of]

\* The content of memory at a known address is taken for that address, and the
\* content of an indexed slot for that of the slot.
Guessed(o) == o.kind \in {"at", "indexed"} /\ (AValue(o) # None \/ DValue(o) # None)

FollowedReg(r) == aReg[r] # None \/ dReg[r] # None
FollowedSlot(i) == aSlot[i] # None \/ dSlot[i] # None \/ i < Len(aPush) \/ i < Len(dPush)
FollowedStack == \E i \in Slots : FollowedSlot(i)

WriteReg(r, v, a, d) ==
    /\ regs' = [regs EXCEPT ![r] = v]
    /\ aReg' = [aReg EXCEPT ![r] = a]
    /\ dReg' = [dReg EXCEPT ![r] = d]
-----------------------------------------------------------------------------
(* Instructions the passes understand. *)

\* Mutant: a mov whose source is unknown leaves the old value in place.
MovKeeping(r, o) ==
    /\ \E v \in Holds(o) : WriteReg(r, v, OrElse(AValue(o), aReg[r]), DValue(o))
    /\ hidden' = (hidden \/ Guessed(o))
    /\ UNCHANGED <<arch, stk, stacks>>

\* mov, movabs, and lea of an address spelt out in the instruction.
Mov(r, o) ==
    /\ \E v \in Holds(o) : WriteReg(r, v, AValue(o), DValue(o))
    /\ hidden' = (hidden \/ Guessed(o))
    /\ UNCHANGED <<arch, stk, stacks>>

\* Any other write of the first operand: the old value is dropped.
Write(r) ==
    /\ \E v \in Values : WriteReg(r, v, None, None)
    /\ UNCHANGED <<arch, stk, stacks, hidden>>

\* xor r, r and sub r, r: dataflow knows the result.
Clear(r) ==
    /\ WriteReg(r, Zero, None, Entry("int", Zero))
    /\ UNCHANGED <<arch, stk, stacks, hidden>>

\* cmp, test: nothing is written, the value is dropped all the same.
Compare(r) ==
    /\ WriteReg(r, regs[r], None, None)
    /\ UNCHANGED <<arch, stk, stacks, hidden>>

\* The analyzer follows slots on x86 only.
StoreSlot(i, o) ==
    /\ aSlot' = [aSlot EXCEPT ![i] = IF arch = "x86" THEN AValue(o) ELSE None]
    /\ dSlot' = [dSlot EXCEPT ![i] = DValue(o)]
    /\ UNCHANGED <<arch, regs, aReg, dReg, aPush, dPush>>

\* mov [rsp+i], o.  A store of an unknown value drops the slot, but not an
\* argument pushed there.
Store(i, o) ==
    /\ \E v \in Holds(o) : stk' = [stk EXCEPT ![i] = v]
    /\ StoreSlot(i, o)
    /\ hidden' = (hidden \/ (aSlot'[i] = None /\ i < Len(aPush))
                         \/ (dSlot'[i] = None /\ i < Len(dPush)))

Upto(s) == SubSeq(s, 1, IF Len(s) < MaxPushed THEN Len(s) ELSE MaxPushed)
Pushed(p, t) == IF t = None THEN p ELSE Upto(<<t>> \o p)
Shifted(v) == [i \in Slots |-> IF i = 0 THEN v ELSE stk[i - 1]]

\* push: the top of the stack moves, the slots are not moved with it, and an
\* unknown value is not remembered.  On x86_64 dataflow remembers no push.
Push(o) ==
    /\ \E v \in Holds(o) : stk' = Shifted(v)
    /\ aPush' = Pushed(aPush, AValue(o))
    /\ dPush' = IF arch = "x86" THEN Pushed(dPush, DValue(o)) ELSE dPush
    /\ hidden' = (hidden \/ Guessed(o)
                         \/ (\E i \in Slots : aSlot[i] # None \/ dSlot[i] # None)
                         \/ (AValue(o) = None /\ aPush # <<>>)
                         \/ (DValue(o) = None /\ dPush # <<>>))
    /\ UNCHANGED <<arch, regs, aReg, dReg, aSlot, dSlot>>

\* Mutant: the analyzer's slots survive the call.
CallKeepingSlots(noise) ==
    /\ regs' \in [Regs -> Values] /\ stk' \in [Slots -> Values]
    /\ aReg' = [r \in Regs |-> IF r \in AbiRegs THEN None ELSE aReg[r]]
    /\ dReg' = [r \in Regs |->
          CASE r = RAX /\ ~noise -> Opaque
            [] r \in AbiRegs /\ arch = "x86_64" /\ (r # RAX \/ noise) -> None
            [] OTHER -> dReg[r]]
    /\ dSlot' = Nowhere /\ aPush' = <<>> /\ dPush' = <<>>
    /\ hidden' = (hidden \/ \E r \in Regs : aReg'[r] # None \/ dReg'[r] \notin {None, Opaque})
    /\ UNCHANGED <<arch, aSlot>>

\* A call: the callee may leave anything in registers and arguments.  On x86
\* dataflow drops no register, and neither pass drops one outside the ABI.
Call(noise) ==
    /\ regs' \in [Regs -> Values] /\ stk' \in [Slots -> Values]
    /\ aReg' = [r \in Regs |-> IF r \in AbiRegs THEN None ELSE aReg[r]]
    /\ dReg' = [r \in Regs |->
          CASE r = RAX /\ ~noise -> Opaque
            [] r \in AbiRegs /\ arch = "x86_64" /\ (r # RAX \/ noise) -> None
            [] OTHER -> dReg[r]]
    /\ aSlot' = Nowhere /\ dSlot' = Nowhere /\ aPush' = <<>> /\ dPush' = <<>>
    /\ hidden' = (hidden \/ \E r \in Regs : aReg'[r] # None \/ dReg'[r] \notin {None, Opaque})
    /\ UNCHANGED arch
-----------------------------------------------------------------------------
(* Instructions they misread. *)

\* lea r, [rsp+i] is an address; dataflow takes a followed slot for its content.
LeaSlot(r, i) ==
    /\ \E v \in Values : WriteReg(r, v, None, IF dSlot[i] # None THEN dSlot[i] ELSE Opaque)
    /\ hidden' = (hidden \/ dSlot[i] # None)
    /\ UNCHANGED <<arch, stk, stacks>>

\* mov al, o: al counts as RAX, and the source for the whole of its register;
\* on x86_64 the lower half of an address likewise.
MovPart(r, o) ==
    /\ \E w \in Values : WriteReg(r, w, AValue(o), DValue(o))
    /\ hidden' = TRUE
    /\ UNCHANGED <<arch, stk, stacks>>

\* xor al, al: dataflow takes RAX for 0.
ClearPart(r) ==
    /\ \E w \in Values : WriteReg(r, w, None, Entry("int", Zero))
    /\ hidden' = TRUE
    /\ UNCHANGED <<arch, stk, stacks>>

\* mov byte [rsp+i], o: the rest of the slot stays.
StorePart(i, o) ==
    /\ \E w \in Values : stk' = [stk EXCEPT ![i] = w]
    /\ StoreSlot(i, o)
    /\ hidden' = TRUE

\* mov [rsp+r*8+i], o: the index register is overlooked, slot i is taken to be
\* written, when another is, or none of the frame.
StoreIndexed(i, o) ==
    /\ \/ \E j \in Slots, v \in Values : stk' = [stk EXCEPT ![j] = v]
       \/ UNCHANGED stk
    /\ StoreSlot(i, o)
    /\ hidden' = TRUE

\* xchg r, s, or mul, div and cdq, which write s unnamed: r is dropped, s not.
WriteSecond(r, s) ==
    /\ r # s
    /\ \E v, w \in Values : regs' = [regs EXCEPT ![r] = v, ![s] = w]
    /\ aReg' = [aReg EXCEPT ![r] = None]
    /\ dReg' = [dReg EXCEPT ![r] = None]
    /\ hidden' = (hidden \/ FollowedReg(s))
    /\ UNCHANGED <<arch, stk, stacks>>

\* add [rsp+i], movups [rsp+i], a mov that overlaps the slot from below, or one
\* through a register: the slot is not looked at.
ModifySlot(i) ==
    /\ \E v \in Values : stk' = [stk EXCEPT ![i] = v]
    /\ hidden' = (hidden \/ FollowedSlot(i))
    /\ UNCHANGED <<arch, regs, aVars, dVars>>

\* pop r, add rsp: the top of the stack moves, slots and pushes do not.
Pop(r) ==
    /\ WriteReg(r, stk[0], None, None)
    /\ \E v \in Values : stk' = [i \in Slots |-> IF i = MaxSlot THEN v ELSE stk[i + 1]]
    /\ hidden' = (hidden \/ FollowedStack)
    /\ UNCHANGED <<arch, stacks>>

\* The next instruction is the target of a jump from somewhere else.
Join ==
    /\ regs' \in [Regs -> Values] /\ stk' \in [Slots -> Values]
    /\ hidden' = (hidden \/ FollowedStack \/ \E r \in Regs : FollowedReg(r))
    /\ UNCHANGED <<arch, aVars, dVars>>

Next ==
    \/ \E r \in Regs, o \in Operands : Mov(r, o)
    \/ \E r \in Regs : Write(r) \/ Clear(r) \/ Compare(r) \/ Pop(r)
    \/ \E i \in Slots, o \in Direct : Store(i, o)
    \/ \E o \in Pushable : Push(o)
    \/ \E noise \in BOOLEAN : Call(noise)
    \/ \E r \in Regs, i \in Slots : LeaSlot(r, i)
    \/ \E r \in Regs, o \in Pushable : MovPart(r, o)
    \/ \E r \in Regs : ClearPart(r)
    \/ \E i \in Slots, o \in Direct : StorePart(i, o) \/ StoreIndexed(i, o)
    \/ \E r, s \in Regs : WriteSecond(r, s)
    \/ \E i \in Slots : ModifySlot(i)
    \/ Join

Spec == Init /\ [][Next]_vars
-----------------------------------------------------------------------------

IsTrue(t, v) == t \notin {None, Opaque} => t.num = v
RegistersMatch == \A r \in Regs : IsTrue(aReg[r], regs[r]) /\ IsTrue(dReg[r], regs[r])

\* stack_args_from_state: pushed arguments, overwritten by the slots.
StackArg(push, slot, i) ==
    IF slot[i] # None THEN slot[i] ELSE IF i < Len(push) THEN push[i + 1] ELSE None
StackArgsMatch ==
    \A i \in Slots : /\ IsTrue(StackArg(aPush, aSlot, i), stk[i])
                     /\ IsTrue(StackArg(dPush, dSlot, i), stk[i])

\* A number a pass holds of a register, which it may report as an argument of
\* the next call, is the machine's, as long as nothing happened out of sight.
RegistersTrue == ~hidden => RegistersMatch

\* The same for the arguments on the stack, by push and by store.
StackArgsTrue == ~hidden => StackArgsMatch

\* An address is ambiguous if dataflow puts a range it is in before what it is
\* the address of, or if it is of a function and of a string.
Ambiguous(n) ==
    \/ n \in Arrays \cup Blobs
    \/ n \in Functions /\ n \in StringData \cup StringHeaders

DKindsOf(kind) ==
    IF kind = "string" THEN {"global_string", "global_string_header"} ELSE {kind}

Agree(a, d) ==
    a # None => /\ d \notin {None, Opaque}
                /\ d.num = a.num
                /\ Ambiguous(a.num) \/ d.kind \in DKindsOf(a.kind)

\* Dataflow knows at least what the analyzer knows, seen or unseen, right or
\* wrong: of a register or slot the analyzer follows it holds the same number,
\* and takes it for the same kind of thing where the address has just one, so
\* that their reports of one call never contradict each other there.
DataflowSubsumes ==
    /\ \A r \in Regs : Agree(aReg[r], dReg[r])
    /\ \A i \in Slots : Agree(aSlot[i], dSlot[i])
=============================================================================

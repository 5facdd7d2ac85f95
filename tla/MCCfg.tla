-------------------------------- MODULE MCCfg --------------------------------
(* A function of six bytes: one byte instructions that do nothing, load,     *)
(* store or transform a byte, and jumps of two bytes to every address of the *)
(* function and to the one after it.                                         *)
EXTENDS Cfg

Insn(op, size, mem) ==
    [op |-> op, size |-> size, target |-> NoTarget, cond |-> FALSE, mem |-> mem, byte |-> TRUE]
Jump(op, t) ==
    [op |-> op, size |-> 2, target |-> t, cond |-> op # "jmp", mem |-> "none", byte |-> FALSE]

MCShapes ==
    {Insn("nop", 1, "none"), Insn("mov", 1, "source"), Insn("mov", 1, "dest"),
     Insn("add", 1, "dest"), Insn("xor", 1, "dest")}
        \cup {Jump(op, t) : op \in {"jmp", "jz"}, t \in 0..End}
        \cup {Jump("jmp", NoTarget)}
=============================================================================

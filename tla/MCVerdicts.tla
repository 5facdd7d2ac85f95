------------------------------ MODULE MCVerdicts ------------------------------
(* Two reports and an index that holds a JSON array; texts with an object    *)
(* as a whole, between braces, in a fence only, and in none of them.         *)
EXTENDS Verdicts

Text(whole, braces, fence) == [whole |-> whole, braces |-> braces, fence |-> fence]
MCTexts ==
    {Text("object", "object", None), Text("bad", "object", None), Text("bad", "none", None),
     Text("other", "object", None), Text("bad", "bad", Text("object", "object", None)),
     Text("bad", "bad", Text("bad", "bad", None))}

MCLower == [CLEAN |-> "clean", suspicious |-> "suspicious", maybe |-> "maybe"]
MCWords == DOMAIN MCLower
=============================================================================

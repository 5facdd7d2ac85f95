---------------------------- MODULE MCReachGraph ----------------------------
(* Four functions: the entry m, two user functions a and b, and a synthetic  *)
(* one u behind an unknown call target.  a and b have their own names or     *)
(* share one.                                                                *)
EXTENDS ReachGraph
CONSTANTS m, a, b, u, nm, na, nb, nu

MCFunctions == {m, a, b, u}
MCUserOrder == <<m, a, b>>
MCNames == {nm, na, nb, nu}
UniqueNameOf == [f \in MCFunctions |->
    CASE f = m -> nm [] f = a -> na [] f = b -> nb [] f = u -> nu]
SharedNameOf == [f \in MCFunctions |->
    CASE f = m -> nm [] f = a -> na [] f = b -> na [] f = u -> nu]
MCCandidates == <<b, a>>

\* Three user functions of one name, as the instantiations of a generic are.
GenericUserOrder == <<m, a, u, b>>
GenericNameOf == [f \in MCFunctions |-> IF f = m THEN nm ELSE na]

\* All programs in which the entry makes at most two calls and each other
\* function at most one; nothing, u, m, or both b and u cannot be read, and m
\* makes a call the graph shows, or nobody does.
UpTo(k) == UNION {[1..i -> MCFunctions \cup {Elsewhere}] : i \in 0..k}
MCPrograms ==
    {[calls |-> [f \in MCFunctions |-> IF f = m THEN pm ELSE po[f]],
      unreadable |-> bad, visible |-> shown] :
        pm \in UpTo(2), po \in [MCFunctions \ {m} -> UpTo(1)],
        bad \in {{}, {u}, {m}, {b, u}}, shown \in {{}, {m}}}
=============================================================================
